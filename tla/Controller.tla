----------------------------- MODULE Controller -----------------------------
(***************************************************************************)
(* Bringing the controller up and down, and its admin queue.  The host     *)
(* writes registers of the BAR; the dispatcher finds the changes by        *)
(* comparing one register after the other with the copy it keeps, and acts *)
(* on the first that differs; then it looks at the admin doorbell.  Admin  *)
(* commands create and delete the I/O queues.                              *)
(***************************************************************************)
EXTENDS Integers, FiniteSets

CONSTANTS Depth,        \* entries of the admin queues
          Addrs,        \* pages the host may use for them
          NrMaxQueue,   \* NR_MAX_IO_QUEUE
          Requests,     \* numbers of I/O queues the host may ask for
          AdminOps,     \* admin commands the host sends
          HostSlow,     \* a pass over the registers begins between ACQ and CC
          SameAddr,     \* the host keeps its admin queues over a reset
          MaxCmds,      \* bound: admin commands after each enable
          MaxResets     \* bound: resets and shutdowns

ASSUME ControllerAssumption ==
    /\ Depth \in Nat \ {0, 1} /\ NrMaxQueue \in Nat \ {0}
    /\ 0 \notin Addrs /\ Requests \subseteq Nat \ {0}
    /\ HostSlow \in BOOLEAN /\ SameAddr \in BOOLEAN
    /\ MaxCmds \in Nat /\ MaxResets \in Nat

VARIABLES
    bar,        \* registers the host and the device share
    old_bar,    \* the dispatcher's copy
    dbs, old_dbs,
    admin_q,    \* the device's admin queue, or NoQueue
    scan,       \* where the dispatcher is in its loop
    mem,        \* host memory of the admin queues: sq and cq entries by page
    sqes,       \* the completion queue of each I/O submission queue, or 0
    cqes,       \* which completion queues exist
    nr_queues,  \* nr_sq, nr_cq
    fault,      \* the dispatcher used a queue that is not there
    host,       \* the driver: state, ring positions, pages
    out,        \* its commands not answered
    hSq, hCq, granted,  \* the I/O queues it believes to have
    fresh,      \* history: the present pass began after the last address write
    sent, resets

devVars  == <<old_bar, old_dbs, admin_q, scan, sqes, cqes, nr_queues, fault>>
hostVars == <<host, out, hSq, hCq, granted, sent, resets>>
vars == <<bar, dbs, mem, devVars, hostVars, fresh>>

Queues  == 1 .. NrMaxQueue
NoQueue == [sq |-> 0, cq |-> 0, depth |-> 0, head |-> 0, phase |-> 0]
Off     == [en |-> 0, shn |-> 0]
Empty   == [i \in 0 .. Depth - 1 |-> [cmd |-> 0, op |-> "none", qid |-> 0, phase |-> 0]]

Init ==
    /\ bar = [aqa |-> 0, asq |-> 0, acq |-> 0, cc |-> Off, rdy |-> 0, shst |-> 0]
    /\ old_bar = [aqa |-> 0, asq |-> 0, acq |-> 0, cc |-> Off]
    /\ dbs = [sq |-> 0, cq |-> 0] /\ old_dbs = [sq |-> 0, cq |-> 0]
    /\ admin_q = NoQueue
    /\ scan = [at |-> "aqa", curr |-> 0, new |-> 0]
    /\ mem = [sq |-> [a \in Addrs |-> Empty], cq |-> [a \in Addrs |-> Empty]]
    /\ sqes = [i \in Queues |-> 0] /\ cqes = [i \in Queues |-> FALSE]
    /\ nr_queues = 0 /\ fault = FALSE
    /\ host = [st |-> "off", tail |-> 0, head |-> 0, phase |-> 1, sq |-> 0, cq |-> 0]
    /\ out = {} /\ hSq = {} /\ hCq = {} /\ granted = 0
    /\ fresh = FALSE /\ sent = 0 /\ resets = 0

-----------------------------------------------------------------------------
(* The dispatcher: nvmev_proc_bars(), then the admin doorbell. *)

\* The order in which the registers are looked at.
NextRegister(reg) == [aqa |-> "asq", asq |-> "acq", acq |-> "cc", cc |-> "dbs"][reg]

At(where) == ~fault /\ scan.at = where
Goto(where) == scan' = [scan EXCEPT !.at = where]

\* The size of the admin queues: (re)initialises the queue.
ScanAqa ==
    /\ At("aqa")
    /\ IF old_bar.aqa # bar.aqa
       THEN /\ old_bar' = [old_bar EXCEPT !.aqa = bar.aqa]
            /\ admin_q' = [admin_q EXCEPT !.depth = bar.aqa, !.head = 0, !.phase = 1]
            /\ dbs' = [sq |-> 0, cq |-> 0] /\ old_dbs' = [sq |-> 0, cq |-> 0]
            /\ Goto("dbs")
       ELSE Goto(NextRegister("aqa")) /\ UNCHANGED <<old_bar, admin_q, dbs, old_dbs>>
    /\ fresh' = TRUE
    /\ UNCHANGED <<bar, mem, sqes, cqes, nr_queues, fault, hostVars>>

\* The pages of the queues: seen before the size, they wait for the next pass.
MappedKeepsDoorbell(reg, d) == d
Mapped(reg, d) == [d EXCEPT ![reg] = 0]

ScanAddress(reg, at) ==
    /\ At(at)
    /\ IF old_bar[at] = bar[at]
       THEN Goto(NextRegister(at)) /\ UNCHANGED <<old_bar, admin_q, dbs, old_dbs>>
       ELSE /\ IF admin_q.depth = 0 THEN UNCHANGED <<old_bar, admin_q, dbs, old_dbs>>
               ELSE /\ old_bar' = [old_bar EXCEPT ![at] = bar[at]]
                    /\ admin_q' = [admin_q EXCEPT ![reg] = bar[at], !.depth = bar.aqa,
                                     !.head  = IF reg = "cq" THEN 0 ELSE @,
                                     !.phase = IF reg = "cq" THEN 1 ELSE @]
                    /\ dbs' = Mapped(reg, dbs) /\ old_dbs' = Mapped(reg, old_dbs)
            /\ Goto("dbs")
    /\ UNCHANGED <<bar, mem, sqes, cqes, nr_queues, fault, hostVars, fresh>>

ScanAsq == ScanAddress("sq", "asq")
ScanAcq == ScanAddress("cq", "acq")

\* CC: enable, disable, shutdown.
Ready(en) == IF en = 0 THEN 0 ELSE IF admin_q.depth # 0 THEN 1 ELSE bar.rdy

ScanCc ==
    /\ At("cc")
    /\ IF old_bar.cc = bar.cc
       THEN Goto(NextRegister("cc")) /\ UNCHANGED <<bar, old_bar, admin_q, dbs, old_dbs>>
       ELSE /\ old_bar' = [old_bar EXCEPT !.cc = bar.cc]
            /\ bar' = [bar EXCEPT !.rdy = Ready(bar.cc.en),
                                  !.shst = IF bar.cc.shn = 1 THEN 2 ELSE @]
            /\ IF bar.cc.shn = 1
               THEN /\ dbs' = [sq |-> 0, cq |-> 0] /\ old_dbs' = [sq |-> 0, cq |-> 0]
                    /\ admin_q' = [admin_q EXCEPT !.head = 0]
               ELSE UNCHANGED <<dbs, old_dbs, admin_q>>
            /\ Goto("dbs")
    /\ UNCHANGED <<mem, sqes, cqes, nr_queues, fault, hostVars, fresh>>

\* The admin doorbells: the number of commands to take is fixed here.
ScanDbs ==
    /\ At("dbs")
    /\ scan' = [at |-> IF dbs.sq # old_dbs.sq THEN "admin" ELSE "aqa",
                curr |-> old_dbs.sq, new |-> dbs.sq]
    /\ old_dbs' = [old_dbs EXCEPT !.cq = dbs.cq]
    /\ UNCHANGED <<bar, dbs, mem, old_bar, admin_q, sqes, cqes, nr_queues, fault,
                   hostVars, fresh>>

\* What a command does to the I/O queues.
SqesAfter(c) ==
    CASE c.op = "create_sq" -> [sqes EXCEPT ![c.qid] = c.qid]
      [] c.op = "delete_sq" -> [sqes EXCEPT ![c.qid] = 0]
      [] OTHER -> sqes
CqesAfterEither(c) ==
    CASE c.op = "create_cq" -> [cqes EXCEPT ![c.qid] = TRUE]
      [] c.op \in {"delete_sq", "delete_cq"} -> [cqes EXCEPT ![c.qid] = FALSE]
      [] OTHER -> cqes
CqesAfter(c) ==
    CASE c.op = "create_cq" -> [cqes EXCEPT ![c.qid] = TRUE]
      [] c.op = "delete_cq" -> [cqes EXCEPT ![c.qid] = FALSE]
      [] OTHER -> cqes

Granted(n) == IF n < NrMaxQueue THEN n ELSE NrMaxQueue

\* What the completion says of the features; the other commands are only acknowledged.
Result(c) == CASE c.op = "set_queues" -> Granted(c.qid)
               [] c.op = "get_queues" -> nr_queues
               [] OTHER -> c.qid

\* __make_cq_entry_results(); abort makes none.
QueueAfter(q) ==
    [q EXCEPT !.head = (@ + 1) % q.depth, !.phase = IF q.head + 1 = q.depth THEN 1 - @ ELSE @]

\* The doorbell is recorded as seen once all its commands are taken.
TakenForgotten(d) == d
Taken(d) == [d EXCEPT !.sq = scan.new]

ProcAdmin ==
    LET c == mem.sq[admin_q.sq][scan.curr] IN
    /\ At("admin")
    /\ IF admin_q.sq = 0 \/ admin_q.cq = 0
       THEN fault' = TRUE /\ UNCHANGED <<mem, admin_q, sqes, cqes, nr_queues, scan, old_dbs>>
       ELSE /\ IF c.op = "abort" THEN UNCHANGED <<mem, admin_q>>
               ELSE /\ mem' = [mem EXCEPT !.cq[admin_q.cq][admin_q.head] =
                                  [cmd |-> c.cmd, op |-> c.op, phase |-> admin_q.phase,
                                   qid |-> Result(c)]]
                    /\ admin_q' = QueueAfter(admin_q)
            /\ sqes' = SqesAfter(c) /\ cqes' = CqesAfter(c)
            /\ nr_queues' = IF c.op = "set_queues" THEN Granted(c.qid) ELSE nr_queues
            /\ LET next == (scan.curr + 1) % admin_q.depth IN
               /\ scan' = [scan EXCEPT !.curr = next,
                                       !.at = IF next = scan.new THEN "aqa" ELSE "admin"]
               /\ old_dbs' = IF next = scan.new THEN Taken(old_dbs) ELSE old_dbs
            /\ UNCHANGED fault
    /\ UNCHANGED <<bar, dbs, old_bar, hostVars, fresh>>

Dispatcher == \/ ScanAqa \/ ScanAsq \/ ScanAcq \/ ScanCc \/ ScanDbs \/ ProcAdmin

-----------------------------------------------------------------------------
(* The host driver. *)

HostIs(st) == host.st = st
\* New pages for the admin queues, cleared, and the driver's own positions.
HostSetup ==
    /\ HostIs("off")
    /\ \E s, c \in Addrs :
          /\ IF SameAddr /\ host.sq # 0 THEN s = host.sq /\ c = host.cq
             ELSE s # host.sq /\ c # host.cq
          /\ host' = [st |-> "aqa", tail |-> 0, head |-> 0, phase |-> 1, sq |-> s, cq |-> c]
          /\ mem' = [sq |-> [mem.sq EXCEPT ![s] = Empty], cq |-> [mem.cq EXCEPT ![c] = Empty]]
    /\ bar' = [bar EXCEPT !.aqa = Depth]
    /\ out' = {} /\ hSq' = {} /\ hCq' = {} /\ granted' = 0 /\ sent' = 0
    /\ fresh' = FALSE
    /\ UNCHANGED <<dbs, devVars, resets>>

HostAddress(st, reg, next, value) ==
    /\ HostIs(st)
    /\ bar' = [bar EXCEPT ![reg] = value]
    /\ host' = [host EXCEPT !.st = next]
    /\ fresh' = FALSE
    /\ UNCHANGED <<dbs, mem, devVars, out, hSq, hCq, granted, sent, resets>>

HostCc(st, cc, next) ==
    /\ HostIs(st)
    /\ bar' = [bar EXCEPT !.cc = cc]
    /\ host' = [host EXCEPT !.st = next]
    /\ UNCHANGED <<dbs, mem, devVars, out, hSq, hCq, granted, sent, resets, fresh>>

HostSees(st, condition, next) ==
    /\ HostIs(st) /\ condition
    /\ host' = [host EXCEPT !.st = next]
    /\ UNCHANGED <<bar, dbs, mem, devVars, out, hSq, hCq, granted, sent, resets, fresh>>

HostConfigures ==
    \/ HostAddress("aqa", "asq", "asq", host.sq)
    \/ HostAddress("asq", "acq", "acq", host.cq)
    \/ (HostSlow => fresh) /\ HostCc("acq", [en |-> 1, shn |-> 0], "enabling")
    \/ HostSees("enabling", bar.rdy = 1, "up")
    \/ HostSees("shutdown", bar.shst = 2, "disable")
    \/ HostCc("disable", Off, "disabling")
    \/ HostSees("disabling", bar.rdy = 0, "off")

\* A reset, or a shutdown first, once nothing is outstanding.
HostStops ==
    /\ resets < MaxResets /\ HostIs("up") /\ out = {}
    /\ \E how \in {"disable", "shutdown"} :
          /\ host' = [host EXCEPT !.st = how]
          /\ bar' = IF how = "shutdown" THEN [bar EXCEPT !.cc = [en |-> 1, shn |-> 1]] ELSE bar
    /\ resets' = resets + 1
    /\ UNCHANGED <<dbs, mem, devVars, out, hSq, hCq, granted, sent, fresh>>

\* The driver creates a completion queue before its submission queue and
\* deletes in the other order, within the number granted.
Sensible(op, n) ==
    CASE op = "set_queues" -> n \in Requests /\ hSq = {} /\ hCq = {}
      [] op = "get_queues" -> n = 1 /\ granted # 0 /\ hCq = {}
      [] op = "create_cq"  -> n \in 1 .. granted \ hCq
      [] op = "create_sq"  -> n \in hCq \ hSq
      [] op = "delete_sq"  -> n \in hSq
      [] op = "delete_cq"  -> n \in hCq \ hSq
      [] OTHER             -> n = 1

HostAdmin ==
    /\ HostIs("up") /\ sent < MaxCmds
    /\ \E op \in AdminOps, n \in Queues \union Requests :
          /\ Sensible(op, n)
          \* Commands on queues are sent one at a time.
          /\ out = {} \/ op \in {"answer", "abort"}
          /\ Cardinality(out) < Depth - 1
          /\ mem' = [mem EXCEPT !.sq[host.sq][host.tail] =
                        [cmd |-> sent + 1, op |-> op, qid |-> n, phase |-> 0]]
    /\ out' = out \union {sent + 1} /\ sent' = sent + 1
    /\ host' = [host EXCEPT !.tail = (@ + 1) % Depth]
    /\ dbs' = [dbs EXCEPT !.sq = (host.tail + 1) % Depth]
    /\ UNCHANGED <<bar, devVars, hSq, hCq, granted, resets, fresh>>

HostReap ==
    LET e == mem.cq[host.cq][host.head] IN
    /\ HostIs("up") /\ e.phase = host.phase
    /\ out' = out \ {e.cmd}
    /\ hSq' = CASE e.op = "create_sq" -> hSq \union {e.qid} [] e.op = "delete_sq" -> hSq \ {e.qid}
                [] OTHER -> hSq
    /\ hCq' = CASE e.op = "create_cq" -> hCq \union {e.qid} [] e.op = "delete_cq" -> hCq \ {e.qid}
                [] OTHER -> hCq
    /\ granted' = IF e.op \in {"set_queues", "get_queues"} THEN e.qid ELSE granted
    /\ host' = [host EXCEPT !.head = (@ + 1) % Depth,
                            !.phase = IF host.head + 1 = Depth THEN 1 - @ ELSE @]
    /\ dbs' = [dbs EXCEPT !.cq = (host.head + 1) % Depth]
    /\ UNCHANGED <<bar, mem, devVars, sent, resets, fresh>>

Host == HostSetup \/ HostConfigures \/ HostStops \/ HostAdmin \/ HostReap

-----------------------------------------------------------------------------
Next == Dispatcher \/ Host

Spec == Init /\ [][Next]_vars

\* The dispatcher thread polls for ever; the driver goes on with what it began.
FairSpec == /\ Spec /\ WF_vars(Dispatcher)
            /\ WF_vars(HostConfigures) /\ WF_vars(HostReap)

-----------------------------------------------------------------------------
(* Properties. *)

\* The device's registers, its queue and the driver's state have their types.
TypeOK ==
    /\ bar.rdy \in {0, 1} /\ bar.shst \in {0, 2}
    /\ admin_q.sq \in Addrs \union {0} /\ admin_q.cq \in Addrs \union {0}
    /\ admin_q.depth \in {0, Depth} /\ admin_q.phase \in {0, 1}
    /\ admin_q.head \in 0 .. Depth - 1
    /\ dbs \in [{"sq", "cq"} -> 0 .. Depth - 1]
    /\ old_dbs \in [{"sq", "cq"} -> 0 .. Depth - 1]
    /\ sqes \in [Queues -> 0 .. NrMaxQueue] /\ cqes \in [Queues -> BOOLEAN]
    /\ nr_queues \in 0 .. NrMaxQueue
    /\ out \subseteq 1 .. MaxCmds

\* nvmev_proc_bars() processes changes "in an order that are supposed to be":
\* no admin command is taken before both pages of the queue are known.
NoFault == ~fault

\* A completion the host takes answers a command it has outstanding, over
\* resets and the wraps of the ring.
AnswersOutstanding ==
    HostIs("up") /\ mem.cq[host.cq][host.head].phase = host.phase
        => mem.cq[host.cq][host.head].cmd \in out

\* All of this: what the driver relies on.
AnswersExpected == TypeOK /\ NoFault /\ AnswersOutstanding

\* The queues the driver was told of exist, are polled by nvmev_proc_dbs(), and
\* post to a completion queue that exists.
HostQueuesServed ==
    HostIs("up") =>
        /\ \A s \in hSq : (out = {} => sqes[s] \in hCq) /\ s <= nr_queues
        /\ \A c \in hCq : out = {} => cqes[c]

\* A controller that is being enabled becomes ready.
EnableCompletes == HostIs("enabling") ~> HostIs("up")

\* Every admin command is answered.
AdminAnswered == \A c \in 1 .. MaxCmds : (c \in out) ~> (c \notin out)
=============================================================================
