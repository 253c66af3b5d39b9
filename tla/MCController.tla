---------------------------- MODULE MCController ----------------------------
(***************************************************************************)
(* Two hosts for TLC, one per initial value of driver.  The configuration  *)
(* file describes "queues", which creates and deletes I/O queues around    *)
(* one reset; "resets" resets the controller twice and sends commands that *)
(* only want an answer, several at a time, and has its state in variables  *)
(* of its own.                                                             *)
(***************************************************************************)
EXTENDS Controller

VARIABLES driver, bar2, old_bar2, dbs2, old_dbs2, admin_q2, scan2, mem2, sqes2, cqes2,
          nr_queues2, fault2, host2, out2, hSq2, hCq2, granted2, fresh2, sent2,
          resets2
vars2 == <<bar2, old_bar2, dbs2, old_dbs2, admin_q2, scan2, mem2, sqes2, cqes2,
           nr_queues2, fault2, host2, out2, hSq2, hCq2, granted2, fresh2, sent2,
           resets2>>
mcvars == <<vars, vars2, driver>>

Resets == INSTANCE Controller WITH
    Depth <- 3, Requests <- {1, 3}, MaxResets <- 2, MaxCmds <- 5, AdminOps <- {"answer"},
    bar <- bar2, old_bar <- old_bar2, dbs <- dbs2, old_dbs <- old_dbs2, admin_q <-
    admin_q2, scan <- scan2, mem <- mem2, sqes <- sqes2, cqes <- cqes2, nr_queues <-
    nr_queues2, fault <- fault2, host <- host2, out <- out2, hSq <- hSq2, hCq <-
    hCq2, granted <- granted2, fresh <- fresh2, sent <- sent2, resets <- resets2

ASSUME Hosts == Resets!ControllerAssumption

MCInit == driver \in {"queues", "resets"} /\ Init /\ Resets!Init

MCNext == /\ UNCHANGED driver
          /\ \/ driver = "queues" /\ Next /\ UNCHANGED vars2
             \/ driver = "resets" /\ Resets!Next /\ UNCHANGED vars

OnResets(A) == driver = "resets" /\ A /\ UNCHANGED <<vars, driver>>

\* The fairness of Controller, for the host whose liveness is checked.
MCSpec == /\ MCInit /\ [][MCNext]_mcvars
          /\ WF_mcvars(OnResets(Resets!Dispatcher))
          /\ WF_mcvars(OnResets(Resets!HostConfigures))
          /\ WF_mcvars(OnResets(Resets!HostReap))

-----------------------------------------------------------------------------
\* EnableCompletes and AdminAnswered: the write of CC is seen after the admin
\* queue is known, and each admin command is answered, over wraps and resets;
\* and this answer is expected.
AllAnswered ==
    driver = "resets" =>
        []Resets!AnswersExpected /\ Resets!EnableCompletes /\ Resets!AdminAnswered
=============================================================================
