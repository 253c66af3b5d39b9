---------------------------- MODULE MCHostQueues ----------------------------
(***************************************************************************)
(* Three sets of queues for TLC, one per initial value of queues.  The     *)
(* configuration file describes "roomy", two submission queues with a      *)
(* completion queue that is Roomy; the others differ from it as their      *)
(* INSTANCE says, and keep their state in variables of their own.          *)
(***************************************************************************)
EXTENDS HostQueues

VARIABLES queues, sent2, sqRing2, out2, got2, cHead2, cPhase2, handling2, irq2,
          dbs2, old_dbs2, cq_db2, old_cq_db2, work2, cq2, cq_head2, phase2,
          interrupt_ready2, lock2, signalling2, turn2, nr_in_flight2, alive2, fault2
vars2 == <<sent2, sqRing2, out2, got2, cHead2, cPhase2, handling2, irq2, dbs2,
           old_dbs2, cq_db2, old_cq_db2, work2, cq2, cq_head2, phase2,
           interrupt_ready2, lock2, signalling2, turn2, nr_in_flight2, alive2, fault2>>
mcvars == <<vars, vars2, queues>>

\* One submission queue and a completion queue of its own, both wrapping.
Ring == INSTANCE HostQueues WITH
    NrSq <- 1, QSize <- 4, CQSize <- 4, MaxReap <- 3, MaxCmds <- 5,
    sent <- sent2, sqRing <- sqRing2, out <- out2, got <- got2, cHead <- cHead2,
    cPhase <- cPhase2, handling <- handling2, irq <- irq2, dbs <- dbs2,
    old_dbs <- old_dbs2, cq_db <- cq_db2, old_cq_db <- old_cq_db2, work <- work2,
    cq <- cq2, cq_head <- cq_head2, phase <- phase2, lock <- lock2,
    interrupt_ready <- interrupt_ready2, signalling <- signalling2, turn <- turn2,
    nr_in_flight <- nr_in_flight2, alive <- alive2, fault <- fault2

\* Two submission queues that share the smallest completion queue, which wraps.
Shared == INSTANCE HostQueues WITH
    NrSq <- 2, QSize <- 2, CQSize <- 3, MaxReap <- 2, MaxCmds <- 2,
    sent <- sent2, sqRing <- sqRing2, out <- out2, got <- got2, cHead <- cHead2,
    cPhase <- cPhase2, handling <- handling2, irq <- irq2, dbs <- dbs2,
    old_dbs <- old_dbs2, cq_db <- cq_db2, old_cq_db <- old_cq_db2, work <- work2,
    cq <- cq2, cq_head <- cq_head2, phase <- phase2, lock <- lock2,
    interrupt_ready <- interrupt_ready2, signalling <- signalling2, turn <- turn2,
    nr_in_flight <- nr_in_flight2, alive <- alive2, fault <- fault2

\* "roomy" is Roomy; the other two are not, and satisfy the rest.
ASSUME QueueSizes == /\ Roomy /\ ~Ring!Roomy /\ ~Shared!Roomy
                     /\ Ring!QueueAssumption /\ Shared!QueueAssumption

MCInit == /\ Init
          /\ \/ queues = "ring" /\ Ring!Init
             \/ queues \in {"shared", "roomy"} /\ Shared!Init

MCNext == /\ UNCHANGED queues
          /\ \/ queues = "roomy" /\ Next /\ UNCHANGED vars2
             \/ queues = "ring" /\ Ring!Next /\ UNCHANGED vars
             \/ queues = "shared" /\ Shared!Next /\ UNCHANGED vars

OnShared(A) == queues = "shared" /\ A /\ UNCHANGED <<vars, queues>>

\* The fairness of HostQueues, for the queues whose liveness is checked.
MCSpec ==
    /\ MCInit /\ [][MCNext]_mcvars
    /\ WF_mcvars(OnShared(Shared!nvmev_proc_dbs))
    /\ WF_mcvars(OnShared(Shared!IrqClear)) /\ WF_mcvars(OnShared(Shared!IrqSignal))
    /\ WF_mcvars(OnShared(Shared!HostIrq)) /\ WF_mcvars(OnShared(Shared!HostReap))
    /\ WF_mcvars(OnShared(Shared!HostDone))
    /\ \A s \in {1, 2} :
          /\ SF_mcvars(OnShared(Shared!Dispatch(s, 1)))
          /\ WF_mcvars(OnShared(Shared!Copy(s))) /\ SF_mcvars(OnShared(Shared!FillEntry(s)))
          /\ WF_mcvars(OnShared(Shared!FillDone(s)))

-----------------------------------------------------------------------------
\* What the queues other than "roomy" are for.  TypeOK, EachAnsweredOnce and
\* NoLostInterrupt over the wraps of both rings, with commands that pass others;
\* NoFault: nvmev_proc_io_cq() uses no queue deleted before it walks its entries.
RingsSound ==
    /\ queues = "ring" => Ring!TypeOK /\ Ring!EachAnsweredOnce /\ Ring!NoLostInterrupt
    /\ queues = "shared" => /\ Shared!TypeOK /\ Shared!EachAnsweredOnce
                            /\ Shared!NoLostInterrupt /\ Shared!NoFault

Waiting(s) == queues = "shared" /\ out2[s] # {}

\* Every command sent is answered: doorbell, worker, interrupt and handler in
\* turn.  The shared queues have room for one command each, so that a queue
\* without an outstanding command has had its command answered.
SharedAnswered == queues = "shared" => \A s \in {1, 2} : Waiting(s) ~> ~Waiting(s)
=============================================================================
