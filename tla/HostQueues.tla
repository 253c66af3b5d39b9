----------------------------- MODULE HostQueues -----------------------------
(***************************************************************************)
(* The submission and completion rings between the host and the device:    *)
(* the dispatcher polls the doorbells, one worker per submission queue     *)
(* copies and posts, all into one completion queue, and the worker that    *)
(* owns that queue raises its interrupt.  The host is an interrupt-driven  *)
(* driver; the FTL is a choice between taking a command and refusing it    *)
(* for now.                                                                *)
(***************************************************************************)
EXTENDS Integers, FiniteSets

CONSTANTS NrSq,         \* submission queues 1 .. NrSq; worker s serves queue s
          Owner,        \* the worker that raises the interrupt
          QSize,        \* entries of a submission queue
          CQSize,       \* entries of the completion queue
          MaxOvertake,  \* bound: completions that pass a command not yet copied
          MaxReap,      \* bound: entries the host takes before it rings the doorbell
          MaxCmds       \* bound: commands the host sends to a queue

SQs == 1 .. NrSq

ASSUME QueueAssumption ==
    /\ NrSq \in Nat /\ Owner \in SQs /\ QSize \in Nat \ {0, 1}
    \* The host sizes the completion queue for all it may have outstanding.
    /\ CQSize \in Nat /\ CQSize > NrSq * (QSize - 1)
    /\ MaxReap \in 1 .. CQSize - 1
    /\ MaxOvertake \in Nat /\ MaxCmds \in Nat

VARIABLES
    \* the host
    sent,       \* commands sent to each queue; a command is its number there
    sqRing,     \* slot -> command, for each submission queue
    out,        \* commands of each queue not yet answered
    got,        \* how often each command was answered
    cHead, cPhase, handling,
    irq,        \* an interrupt is pending
    \* doorbells, and the values the dispatcher last acted on
    dbs, old_dbs, cq_db, old_cq_db,
    \* the device
    work,       \* commands with the workers: [sq, slot, cmd, copied, read]
    cq,         \* slot -> [cmd, sq, phase]
    cq_head, phase, interrupt_ready,
    lock,       \* entry_lock: the worker inside __fill_cq_result(), or 0
    signalling, \* the owner is between clearing interrupt_ready and the signal
    turn,       \* the queue whose doorbell the dispatcher looks at next
    nr_in_flight, alive, fault

hostVars == <<sent, sqRing, out, got, cHead, cPhase, handling, irq>>
dbVars   == <<dbs, old_dbs, cq_db, old_cq_db>>
cqVars   == <<cq, cq_head, phase, interrupt_ready, lock, signalling>>
statVars == <<turn, nr_in_flight, alive, fault>>
vars     == <<hostVars, dbVars, work, cqVars, statVars>>

\* Entries from the old doorbell to the new one.
Span(new, old, size) == IF new < old THEN new - old + size ELSE new - old

Cmds == 1 .. MaxCmds
NoCmd == 0

Init ==
    /\ sent = [s \in SQs |-> 0] /\ irq = FALSE /\ handling = FALSE
    /\ sqRing = [s \in SQs |-> [i \in 0 .. QSize - 1 |-> NoCmd]]
    /\ out = [s \in SQs |-> {}]
    /\ got = [s \in SQs |-> [c \in Cmds |-> 0]]
    /\ cHead = 0 /\ cPhase = 1
    /\ dbs = [s \in SQs |-> 0] /\ old_dbs = [s \in SQs |-> 0]
    /\ cq_db = 0 /\ old_cq_db = 0
    /\ work = {}
    /\ cq = [i \in 0 .. CQSize - 1 |-> [cmd |-> NoCmd, sq |-> Owner, phase |-> 0]]
    /\ cq_head = 0 /\ phase = 1 /\ interrupt_ready = FALSE
    /\ lock = 0 /\ signalling = FALSE
    /\ turn = 1 /\ nr_in_flight = [s \in SQs |-> 0]
    /\ alive = [s \in SQs |-> TRUE]
    /\ fault = FALSE

-----------------------------------------------------------------------------
(* The host. *)

\* The driver has a tag for all entries of a queue but one.
HostSubmit(s) ==
    /\ alive[s] /\ sent[s] < MaxCmds /\ Cardinality(out[s]) < QSize - 1
    /\ sent' = [sent EXCEPT ![s] = @ + 1]
    /\ sqRing' = [sqRing EXCEPT ![s][dbs[s]] = sent[s] + 1]
    /\ out' = [out EXCEPT ![s] = @ \union {sent[s] + 1}]
    /\ dbs' = [dbs EXCEPT ![s] = (@ + 1) % QSize]
    /\ UNCHANGED <<got, cHead, cPhase, handling, irq, old_dbs, cq_db, old_cq_db, work,
                   cqVars, statVars>>

HostIrq ==
    /\ irq /\ ~handling
    /\ irq' = FALSE /\ handling' = TRUE
    /\ UNCHANGED <<sent, sqRing, out, got, cHead, cPhase, dbVars, work, cqVars, statVars>>

New == cq[cHead].phase = cPhase
BatchTaken == Span(cHead, cq_db, CQSize) = MaxReap

\* The handler takes entries as long as their phase says they are new ...
HostReap ==
    LET e == cq[cHead] IN
    /\ handling /\ New /\ ~BatchTaken
    /\ got' = [got EXCEPT ![e.sq][e.cmd] = @ + 1]
    /\ out' = [out EXCEPT ![e.sq] = @ \ {e.cmd}]
    /\ cHead' = (cHead + 1) % CQSize
    /\ cPhase' = IF cHead + 1 = CQSize THEN 1 - cPhase ELSE cPhase
    /\ UNCHANGED <<sent, sqRing, handling, irq, dbVars, work, cqVars, statVars>>

\* ... and rings the completion doorbell when there is none left, or
\* after MaxReap of them.
HostDone ==
    /\ handling /\ (~New \/ BatchTaken)
    /\ handling' = New /\ cq_db' = cHead
    /\ UNCHANGED <<sent, sqRing, out, got, cHead, cPhase, irq, dbs, old_dbs, old_cq_db,
                   work, cqVars, statVars>>

\* A queue is deleted (admin command) once all its commands are answered, which
\* may be before the dispatcher has seen the completion doorbell.
HostDeleteSq(s) ==
    /\ s # Owner /\ alive[s] /\ out[s] = {} /\ sent[s] = MaxCmds
    /\ alive' = [alive EXCEPT ![s] = FALSE]
    /\ UNCHANGED <<hostVars, dbVars, work, cqVars, turn, nr_in_flight, fault>>

-----------------------------------------------------------------------------
(* The dispatcher goes round: every submission doorbell, then the completion
   doorbell. *)

ToDispatch(s) == Span(dbs[s], old_dbs[s], QSize)

Advanced(db, n) == (db + n) % QSize

NewWork(s, i) == [sq |-> s, slot |-> i, cmd |-> sqRing[s][i],
                  copied |-> FALSE, read |-> NoCmd]

\* nvmev_proc_io_sq(): the commands from the old doorbell on, until the FTL
\* refuses one; the rest are tried again on the next round.
Dispatch(s, n) ==
    /\ alive[s] /\ turn = s /\ dbs[s] # old_dbs[s] /\ n <= ToDispatch(s)
    /\ work' = work \union {NewWork(s, (old_dbs[s] + i) % QSize) : i \in 0 .. n - 1}
    /\ nr_in_flight' = [nr_in_flight EXCEPT ![s] = @ + n]
    /\ old_dbs' = [old_dbs EXCEPT ![s] = Advanced(@, n)]
    /\ turn' = s + 1
    /\ UNCHANGED <<hostVars, dbs, cq_db, old_cq_db, cqVars, alive, fault>>

nvmev_proc_io_sq(s) == \E n \in 0 .. QSize - 1 : Dispatch(s, n)

\* nvmev_proc_io_cq(): each entry from the old doorbell to the new one, wrapping,
\* is taken off the count of the queue named in it, if that still exists.
Walked(new, old) == {(old + i) % CQSize : i \in 0 .. Span(new, old, CQSize) - 1}
Released == Walked(cq_db, old_cq_db)
UncountedForAll(s) == Cardinality(Released)
Uncounted(s) == Cardinality({i \in Released : cq[i].sq = s})

NoSuchQueueUnchecked(s) == FALSE
NoSuchQueue(s) == ~alive[s]

nvmev_proc_io_cq ==
    /\ turn = NrSq + 1 /\ cq_db # old_cq_db
    /\ nr_in_flight' = [s \in SQs |-> IF NoSuchQueue(s) THEN nr_in_flight[s]
                                      ELSE nr_in_flight[s] - Uncounted(s)]
    /\ fault' = (\E s \in SQs : ~alive[s] /\ ~NoSuchQueue(s) /\ Uncounted(s) > 0)
    /\ old_cq_db' = cq_db
    /\ turn' = 1
    /\ UNCHANGED <<hostVars, dbs, old_dbs, cq_db, work, cqVars, alive>>

\* Nothing to do for this doorbell.
Skip ==
    /\ IF turn \in SQs THEN ~alive[turn] \/ dbs[turn] = old_dbs[turn]
       ELSE cq_db = old_cq_db
    /\ turn' = (turn % (NrSq + 1)) + 1
    /\ UNCHANGED <<hostVars, dbVars, work, cqVars, nr_in_flight, alive, fault>>

nvmev_proc_dbs == \/ \E s \in SQs : nvmev_proc_io_sq(s)
                  \/ nvmev_proc_io_cq \/ Skip

-----------------------------------------------------------------------------
(* The workers. *)

\* The copy reads the command from its slot of the ring.
Copy(s) ==
    \E w \in work :
        /\ w.sq = s /\ ~w.copied
        /\ work' = (work \ {w}) \union
                      {[w EXCEPT !.copied = TRUE, !.read = sqRing[s][w.slot]]}
        /\ UNCHANGED <<hostVars, dbVars, cqVars, statVars>>

\* Commands of u's queue sent after u and already posted.
Overtakers(u) ==
    (u.cmd + 1 .. sent[u.sq] - ToDispatch(u.sq)) \ {w.cmd : w \in {v \in work : v.sq = u.sq}}

LeftQueued(w) == work
Left(w) == work \ {w}

\* __fill_cq_result(), inside entry_lock: the entry, whose phase makes it
\* visible to the host ...
FillEntry(s) ==
    /\ lock = 0
    /\ \E w \in work :
          /\ w.sq = s /\ w.copied
          /\ \A u \in work : (u.sq = s /\ ~u.copied /\ u.cmd < w.cmd)
                               => Cardinality(Overtakers(u)) < MaxOvertake
          /\ cq' = [cq EXCEPT ![cq_head] = [cmd |-> w.cmd, sq |-> s, phase |-> phase]]
          /\ work' = Left(w)
    /\ lock' = s
    /\ UNCHANGED <<hostVars, dbVars, cq_head, phase, interrupt_ready, signalling, statVars>>

\* ... then the head, the phase at the wrap, and the flag for the interrupt.
TurnedPhaseNever(head) == phase
TurnedPhase(head) == IF head = 0 THEN 1 - phase ELSE phase

FillDone(s) ==
    /\ lock = s
    /\ cq_head' = (cq_head + 1) % CQSize
    /\ phase' = TurnedPhase((cq_head + 1) % CQSize)
    /\ interrupt_ready' = TRUE
    /\ lock' = 0
    /\ UNCHANGED <<hostVars, dbVars, work, cq, signalling, statVars>>

\* Under irq_lock the owner of the queue first clears the flag, then signals.
IrqEffectSwapped(step) ==
    IF step = 1 THEN [ready |-> interrupt_ready, irq |-> TRUE]
    ELSE [ready |-> FALSE, irq |-> irq]
IrqEffect(step) ==
    IF step = 1 THEN [ready |-> FALSE, irq |-> irq]
    ELSE [ready |-> interrupt_ready, irq |-> TRUE]

RaiseIrq(step) ==
    /\ interrupt_ready' = IrqEffect(step).ready /\ irq' = IrqEffect(step).irq
    /\ signalling' = (step = 1)
    /\ UNCHANGED <<sent, sqRing, out, got, cHead, cPhase, handling, dbVars, work, cq,
                   cq_head, phase, lock, statVars>>

IrqClear  == interrupt_ready /\ ~signalling /\ RaiseIrq(1)
IrqSignal == signalling /\ RaiseIrq(2)

-----------------------------------------------------------------------------
Host == \/ \E s \in SQs : HostSubmit(s) \/ HostDeleteSq(s)
        \/ HostIrq \/ HostReap \/ HostDone
Worker(s) == Copy(s) \/ FillEntry(s) \/ FillDone(s)
Irq == IrqClear \/ IrqSignal

Next == Host \/ nvmev_proc_dbs \/ Irq \/ \E s \in SQs : Worker(s)

Spec == Init /\ [][Next]_vars

\* The dispatcher and the workers are kernel threads that never stop polling,
\* the host answers its interrupts, and the FTL does not refuse a command for
\* ever (it waits for buffer space, which the workers release).
FairSpec ==
    /\ Spec
    /\ WF_vars(nvmev_proc_dbs) /\ WF_vars(IrqClear) /\ WF_vars(IrqSignal)
    /\ WF_vars(HostIrq) /\ WF_vars(HostReap) /\ WF_vars(HostDone)
    /\ \A s \in SQs : /\ SF_vars(\E n \in 1 .. QSize - 1 : Dispatch(s, n))
                       /\ WF_vars(Copy(s)) /\ SF_vars(FillEntry(s)) /\ WF_vars(FillDone(s))

-----------------------------------------------------------------------------
(* Properties. *)

Works == [sq : SQs, slot : 0 .. QSize - 1, cmd : 0 .. MaxCmds,
          copied : BOOLEAN, read : 0 .. MaxCmds]
Entries == [cmd : 0 .. MaxCmds, sq : SQs, phase : {0, 1}]

\* Ring positions stay within their rings, and every entry that the host takes
\* and the dispatcher walks over names a queue and a command of it.
TypeOK ==
    /\ sent \in [SQs -> 0 .. MaxCmds]
    /\ sqRing \in [SQs -> [0 .. QSize - 1 -> 0 .. MaxCmds]]
    /\ out \in [SQs -> SUBSET Cmds] /\ got \in [SQs -> [Cmds -> Nat]]
    /\ cHead \in 0 .. CQSize - 1 /\ cPhase \in {0, 1}
    /\ {irq, handling, interrupt_ready, signalling} \subseteq BOOLEAN
    /\ dbs \in [SQs -> 0 .. QSize - 1] /\ old_dbs \in [SQs -> 0 .. QSize - 1]
    /\ cq_db \in 0 .. CQSize - 1 /\ old_cq_db \in 0 .. CQSize - 1
    /\ work \subseteq Works /\ cq \in [0 .. CQSize - 1 -> Entries]
    /\ cq_head \in 0 .. CQSize - 1 /\ phase \in {0, 1}
    /\ lock \in 0 .. NrSq /\ turn \in 1 .. NrSq + 1
    /\ nr_in_flight \in [SQs -> Int] /\ alive \in [SQs -> BOOLEAN]

\* Two workers post to one queue and the host takes entries by their phase only:
\* over the wraps of the ring every command is answered at most once, and the
\* answers taken are those no longer outstanding.
AnsweredOnce ==
    \A s \in SQs : \A c \in Cmds :
        got[s][c] = IF c <= sent[s] /\ c \notin out[s] THEN 1 ELSE 0

\* __do_perform_io() reads the command from its slot after the dispatcher has
\* gone on: with at most QSize - 1 outstanding and no more than MaxOvertake
\* later completions, it is still the command that was dispatched.
CopiesItsCommand == \A w \in work : w.copied => w.read = w.cmd

\* Each command sent is carried out as it was given, and answered once.
EachAnsweredOnce == AnsweredOnce /\ CopiesItsCommand

\* A completion the host has not taken is announced: interrupt_ready is set, a
\* signal is on its way, or the host is in its handler.
NoLostInterrupt ==
    New => irq \/ handling \/ interrupt_ready \/ signalling \/ lock # 0

\* A completion queue that the workers cannot lap between two rounds of the
\* dispatcher, in which each submission queue is emptied once more.
Roomy == CQSize > MaxReap + 2 * NrSq * (QSize - 1)

\* nr_in_flight, kept by the dispatcher from the queue ids it reads in entries
\* the host has already released, is what was dispatched and not yet released
\* at the completion doorbell, if the completion queue is Roomy.
InFlightExact ==
    \A s \in SQs : alive[s] =>
        /\ nr_in_flight[s] >= 0
        /\ nr_in_flight[s] =
            sent[s] - ToDispatch(s) - Cardinality({c \in Cmds : got[s][c] > 0})
            + Cardinality({i \in Walked(cHead, old_cq_db) : cq[i].sq = s})

\* "Should check the validity here since SPDK deletes SQ immediately before
\* processing associated CQes": the dispatcher uses no deleted queue.
NoFault == ~fault

=============================================================================
