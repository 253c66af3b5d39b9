-------------------------- MODULE HostQueuesProofs --------------------------
(***************************************************************************)
(* Every command is answered once, each worker carries out the command it  *)
(* was given, no interrupt is lost and the count of commands in flight is  *)
(* exact, for rings of any size and any number of submission queues that   *)
(* share a completion queue.                                               *)
(*                                                                         *)
(* Each outstanding command is in exactly one place: in its submission     *)
(* ring beyond the dispatcher's doorbell, with a worker, or in a pending   *)
(* slot of the completion queue.  The host knows a pending slot only by    *)
(* its phase; Phases says that these are the slots the workers filled, as  *)
(* long as they do not lap the host, and they cannot because there are     *)
(* more slots than outstanding commands.  The count needs more: that the   *)
(* workers do not lap the dispatcher's walk over released entries either   *)
(* (NotLapped), which the size of the queue must rule out (Roomy).         *)
(***************************************************************************)
EXTENDS HostQueues, SumLemmas, FiniteSetTheorems

Slots == 0 .. CQSize - 1
QSlots == 0 .. QSize - 1

\* Head and phase once the worker in __fill_cq_result() is done.
PostHead == IF lock = 0 THEN cq_head ELSE (cq_head + 1) % CQSize
PostPhase == IF lock = 0 THEN phase ELSE TurnedPhase((cq_head + 1) % CQSize)

\* The slots whose entries the host will take, by their phase.
Pending == {i \in Slots : cq[i].phase = IF i < cHead THEN 1 - cPhase ELSE cPhase}

\* The last command of a queue that the dispatcher has given to the worker.
Dispatched(s) == sent[s] - ToDispatch(s)

\* Doorbells are the numbers of commands sent and dispatched, modulo the ring
\* size; the commands sent last are still in the ring.
Rings ==
    \A s \in SQs :
        /\ Dispatched(s) \in 0 .. sent[s]
        /\ dbs[s] = (sent[s] % QSize) /\ old_dbs[s] = (Dispatched(s) % QSize)
        /\ \A c \in 1 .. sent[s] :
               sent[s] - c < QSize => sqRing[s][((c - 1) % QSize)] = c

Outstanding ==
    \A s \in SQs :
        /\ Cardinality(out[s]) <= QSize - 1
        /\ out[s] \subseteq 1 .. sent[s]
        /\ (Dispatched(s) + 1 .. sent[s]) \subseteq out[s]

AtWorker ==
    /\ \A w \in work : /\ w.cmd \in out[w.sq] /\ w.cmd <= Dispatched(w.sq)
                       /\ w.slot = ((w.cmd - 1) % QSize)
    /\ \A v, w \in work : v.sq = w.sq /\ v.cmd = w.cmd => v = w

Posted ==
    /\ \A i \in Pending : /\ cq[i].cmd \in out[cq[i].sq]
                          /\ cq[i].cmd <= Dispatched(cq[i].sq)
    /\ \A i, j \in Pending : cq[i].sq = cq[j].sq /\ cq[i].cmd = cq[j].cmd => i = j
    /\ \A i \in Pending : \A w \in work : ~(cq[i].sq = w.sq /\ cq[i].cmd = w.cmd)

\* The workers have been through the slots below the head with the current
\* phase, and the host is behind them by less than a lap.
Phases ==
    /\ \A i \in Slots : cq[i].phase = IF i < PostHead THEN PostPhase ELSE 1 - PostPhase
    /\ IF cPhase = PostPhase THEN cHead <= PostHead ELSE PostHead < cHead

-----------------------------------------------------------------------------
(* Ring arithmetic. *)

(* The entries between two doorbells, and how that number changes when     *)
(* either moves.                                                           *)
LEMMA SpanType ==
    ASSUME NEW q \in Nat \ {0}, NEW new \in 0 .. q - 1, NEW old \in 0 .. q - 1
    PROVE  Span(new, old, q) \in 0 .. q - 1
  BY DEF Span

(* A doorbell moved on by one.                                             *)
LEMMA SpanNew ==
    ASSUME NEW q \in Nat \ {0}, NEW new \in 0 .. q - 1, NEW old \in 0 .. q - 1,
           Span(new, old, q) < q - 1
    PROVE  /\ ((new + 1) % q) \in 0 .. q - 1
           /\ Span((new + 1) % q, old, q) = Span(new, old, q) + 1
<1>1. PICK x \in Nat : x = new + 1
  OBVIOUS
<1>2. x < q + q
  BY <1>1
<1>3. (x % q) = IF x < q THEN x ELSE x - q
  BY <1>2, ModSmall
<1> QED
  BY <1>1, <1>3 DEF Span

(* A value the dispatcher last acted on, moved on by n.                    *)
LEMMA SpanOld ==
    ASSUME NEW q \in Nat \ {0}, NEW new \in 0 .. q - 1, NEW old \in 0 .. q - 1,
           NEW n \in Nat, n <= Span(new, old, q)
    PROVE  /\ ((old + n) % q) \in 0 .. q - 1
           /\ Span(new, (old + n) % q, q) = Span(new, old, q) - n
<1>0. Span(new, old, q) \in 0 .. q - 1
  BY SpanType
<1>1. PICK x \in Nat : x = old + n
  OBVIOUS
<1>2. x < q + q
  BY <1>0, <1>1
<1>3. (x % q) = IF x < q THEN x ELSE x - q
  BY <1>2, ModSmall
<1> QED
  BY <1>0, <1>1, <1>3 DEF Span

-----------------------------------------------------------------------------
(* Outstanding commands are too few to fill the completion queue. *)

(* A set of at most n elements can be numbered below n + 1.                *)
LEMMA Numbering ==
    ASSUME NEW S, IsFiniteSet(S), NEW n \in Nat, Cardinality(S) <= n
    PROVE  \E f \in [S -> 1 .. n] : \A x, y \in S : f[x] = f[y] => x = y
<1>1. PICK m \in Nat : m = Cardinality(S) /\ ExistsBijection(1 .. m, S)
  BY FS_CardinalityType
<1>2. PICK g \in Bijection(1 .. m, S) : TRUE
  BY <1>1 DEF ExistsBijection
<1>3. g \in [1 .. m -> S] /\ \A x \in S : \E k \in 1 .. m : g[k] = x
  BY <1>2 DEF Bijection, Surjection, Injection
<1>4. PICK f : f = [x \in S |-> CHOOSE k \in 1 .. m : g[k] = x]
  OBVIOUS
<1>5. \A x \in S : f[x] \in 1 .. m /\ g[f[x]] = x
  BY <1>3, <1>4
<1>6. f \in [S -> 1 .. n]
  BY <1>1, <1>4, <1>5
<1> QED
  BY <1>5, <1>6

(* By counting: the completion queue has more slots than all queues        *)
(* together have commands outstanding.                                     *)
LEMMA NeverFull ==
    ASSUME NEW o \in [SQs -> SUBSET Cmds], NEW sq \in [Slots -> SQs], NEW cm,
           \A s \in SQs : Cardinality(o[s]) <= QSize - 1,
           \A i \in Slots : cm[i] \in o[sq[i]],
           \A i, j \in Slots : sq[i] = sq[j] /\ cm[i] = cm[j] => i = j
    PROVE  FALSE
<1> PICK n \in Nat : n = QSize - 1
  BY QueueAssumption
<1>1. \A s \in SQs : IsFiniteSet(o[s])
  <2>1. IsFiniteSet(Cmds)
    BY QueueAssumption, FS_Interval DEF Cmds
  <2> QED
    BY <2>1, FS_Subset
<1>2. \A s \in SQs : \E f \in [o[s] -> 1 .. n] : \A x, y \in o[s] : f[x] = f[y] => x = y
  BY <1>1, Numbering
<1>3. PICK g : g = [s \in SQs |-> CHOOSE f \in [o[s] -> 1 .. n] :
                                      \A x, y \in o[s] : f[x] = f[y] => x = y]
  OBVIOUS
<1>4. \A s \in SQs : /\ g[s] \in [o[s] -> 1 .. n]
                     /\ \A x, y \in o[s] : g[s][x] = g[s][y] => x = y
  BY <1>2, <1>3
<1>5. PICK h : h = [i \in Slots |-> <<sq[i], g[sq[i]][cm[i]]>>]
  OBVIOUS
<1>6. h \in [Slots -> SQs \X (1 .. n)]
  <2>1. \A i \in Slots : g[sq[i]][cm[i]] \in 1 .. n
    BY <1>4
  <2> QED
    BY <1>5, <2>1
<1>7. IsFiniteSet(Slots) /\ Cardinality(Slots) = CQSize
  BY QueueAssumption, FS_Interval DEF Slots
<1>8. IsFiniteSet(SQs \X (1 .. n)) /\ Cardinality(SQs \X (1 .. n)) = NrSq * n
  <2>1. IsFiniteSet(SQs) /\ Cardinality(SQs) = NrSq
    BY QueueAssumption, FS_Interval DEF SQs
  <2>2. IsFiniteSet(1 .. n) /\ Cardinality(1 .. n) = n
    BY FS_Interval
  <2> QED
    BY <2>1, <2>2, FS_Product
<1>9. Cardinality(SQs \X (1 .. n)) < Cardinality(Slots)
  <2>1. NrSq * n < CQSize
    BY QueueAssumption
  <2> QED
    BY <1>7, <1>8, <2>1
<1>10. PICK i, j \in Slots : i # j /\ h[i] = h[j]
  BY <1>6, <1>7, <1>8, <1>9, FS_PigeonHole
<1>11. sq[i] = sq[j] /\ g[sq[i]][cm[i]] = g[sq[i]][cm[j]]
  BY <1>5, <1>10
<1>12. cm[i] = cm[j]
  BY <1>4, <1>11
<1> QED
  BY <1>10, <1>11, <1>12
-----------------------------------------------------------------------------
(* Types. *)

(* The constants are numbers.                                              *)
LEMMA Sizes ==
    /\ NrSq \in Nat /\ Owner \in SQs /\ QSize \in Nat \ {0, 1} /\ CQSize \in Nat \ {0}
    /\ MaxCmds \in Nat /\ MaxOvertake \in Nat
  BY QueueAssumption

(* A position modulo a ring size is in the ring.                           *)
LEMMA RingTypes ==
    ASSUME NEW x \in Nat
    PROVE  (x % CQSize) \in Slots /\ (x % QSize) \in QSlots
<1>1. CQSize \in Nat \ {0} /\ QSize \in Nat \ {0}
  BY Sizes
<1> QED
  BY <1>1, DivMod DEF Slots, QSlots

(* A slot of a submission ring holds the number of a command.              *)
LEMMA InRing ==
    ASSUME sqRing \in [SQs -> [0 .. QSize - 1 -> 0 .. MaxCmds]], NEW s \in SQs,
           NEW i \in 0 .. QSize - 1
    PROVE  sqRing[s][i] \in 0 .. MaxCmds
<1>1. sqRing[s] \in [0 .. QSize - 1 -> 0 .. MaxCmds]
  OBVIOUS
<1> QED
  BY <1>1

(* There is a next command.                                                *)
LEMMA NextCmd ==
    ASSUME NEW n \in 0 .. MaxCmds, n < MaxCmds
    PROVE  n + 1 \in 1 .. MaxCmds /\ n + 1 \in 0 .. MaxCmds
  BY Sizes

(* Positions and entries have their types at the start ...                 *)
LEMMA InitType == Init => TypeOK
<1> SUFFICES ASSUME Init PROVE TypeOK
  OBVIOUS
<1>1. /\ 0 \in 0 .. MaxCmds /\ 0 \in 0 .. QSize - 1 /\ 0 \in 0 .. CQSize - 1
      /\ 0 \in 0 .. NrSq /\ 1 \in 1 .. NrSq + 1 /\ Owner \in SQs
  BY Sizes
<1>2. [cmd |-> NoCmd, sq |-> Owner, phase |-> 0] \in Entries
  BY <1>1 DEF Entries, NoCmd
<1>3. /\ sent \in [SQs -> 0 .. MaxCmds] /\ nr_in_flight \in [SQs -> Int]
      /\ sqRing \in [SQs -> [0 .. QSize - 1 -> 0 .. MaxCmds]]
      /\ out \in [SQs -> SUBSET Cmds] /\ got \in [SQs -> [Cmds -> Nat]]
      /\ dbs \in [SQs -> 0 .. QSize - 1] /\ old_dbs \in [SQs -> 0 .. QSize - 1]
      /\ alive \in [SQs -> BOOLEAN] /\ cq \in [0 .. CQSize - 1 -> Entries]
  BY <1>1, <1>2 DEF Init, NoCmd
<1> QED
  BY <1>1, <1>3 DEF Init, TypeOK

(* The entries of a queue that nvmev_proc_io_cq() walks over are finitely  *)
(* many.                                                                   *)
LEMMA UncountedType ==
    ASSUME TypeOK, NEW s \in SQs
    PROVE  Uncounted(s) \in Nat
<1>1. IsFiniteSet(Slots)
  BY Sizes, FS_Interval DEF Slots
<1>2. Released \subseteq Slots
  <2> SUFFICES ASSUME NEW i \in 0 .. Span(cq_db, old_cq_db, CQSize) - 1
               PROVE  ((old_cq_db + i) % CQSize) \in Slots
    BY DEF Released, Walked
  <2>1. CQSize \in Nat \ {0} /\ old_cq_db \in Nat
    BY Sizes DEF TypeOK
  <2>2. i \in Nat
    OBVIOUS
  <2>3. PICK x \in Nat : x = old_cq_db + i
    BY <2>1, <2>2
  <2>4. (x % CQSize) \in 0 .. CQSize - 1
    BY <2>1, DivMod
  <2> QED
    BY <2>3, <2>4 DEF Slots
<1>3. {i \in Released : cq[i].sq = s} \in SUBSET Slots
  BY <1>2
<1>4. IsFiniteSet({i \in Released : cq[i].sq = s})
  BY <1>1, <1>3, FS_Subset
<1> QED
  BY <1>4, FS_CardinalityType DEF Uncounted

(* What is known of work and of pending entries, field by field.           *)
LEMMA EntryTypes ==
    ASSUME TypeOK
    PROVE  /\ \A w \in work : /\ w \in Works /\ w.sq \in SQs /\ w.cmd \in Int
                             /\ w.slot \in QSlots
           /\ \A i \in Pending : i \in Slots /\ cq[i].sq \in SQs /\ cq[i].cmd \in Int
<1>1. \A w \in Works : w.sq \in SQs /\ w.cmd \in 0 .. MaxCmds /\ w.slot \in QSlots
  BY DEF Works, QSlots
<1>2. \A e \in Entries : e.sq \in SQs /\ e.cmd \in 0 .. MaxCmds
  BY DEF Entries
<1>3. work \subseteq Works /\ \A i \in Slots : cq[i] \in Entries
  BY DEF TypeOK, Slots
<1>4. Pending \subseteq Slots
  BY DEF Pending
<1>5. \A c \in 0 .. MaxCmds : c \in Int
  OBVIOUS
<1> QED
  BY <1>1, <1>2, <1>3, <1>4, <1>5

(* A function to numbers, raised at one point.                             *)
LEMMA OneMore ==
    ASSUME NEW S, NEW f \in [S -> Nat], NEW c
    PROVE  [f EXCEPT ![c] = f[c] + 1] \in [S -> Nat]
<1>1. c \in S => f[c] + 1 \in Nat
  OBVIOUS
<1> QED
  BY <1>1

(* ... after a step of the host ...                                        *)
LEMMA TypeHost ==
    ASSUME TypeOK, Host
    PROVE  TypeOK'
<1> USE DEF TypeOK, hostVars, dbVars, cqVars, statVars
<1>1. ASSUME NEW s \in SQs, HostSubmit(s) PROVE TypeOK'
  <2>1. sent[s] \in 0 .. MaxCmds /\ dbs[s] \in 0 .. QSize - 1 /\ sent[s] < MaxCmds
    BY <1>1 DEF HostSubmit
  <2>2. sent[s] + 1 \in Cmds /\ sent[s] + 1 \in 0 .. MaxCmds
    <3> PICK n \in 0 .. MaxCmds : n = sent[s]
      BY <2>1
    <3> n < MaxCmds
      BY <2>1
    <3> n + 1 \in 1 .. MaxCmds /\ n + 1 \in 0 .. MaxCmds
      BY NextCmd
    <3> QED
      BY DEF Cmds
  <2>3. sent' \in [SQs -> 0 .. MaxCmds] /\ out' \in [SQs -> SUBSET Cmds]
    BY <2>2, <1>1 DEF HostSubmit
  <2>4. sqRing' \in [SQs -> [0 .. QSize - 1 -> 0 .. MaxCmds]]
    BY <2>1, <2>2, <1>1 DEF HostSubmit
  <2>5. ((dbs[s] + 1) % QSize) \in 0 .. QSize - 1
    <3> \A i \in 0 .. QSize - 1 : i + 1 \in Nat
      BY Sizes
    <3> dbs[s] + 1 \in Nat
      BY <2>1
    <3> QED
      BY RingTypes DEF QSlots
  <2>6. dbs' \in [SQs -> 0 .. QSize - 1]
    BY <2>5, <1>1 DEF HostSubmit
  <2> QED
    BY <2>3, <2>4, <2>6, <1>1 DEF HostSubmit
<1>2. ASSUME NEW s \in SQs, HostDeleteSq(s) PROVE TypeOK'
  BY <1>2 DEF HostDeleteSq
<1>3. CASE HostIrq
  BY <1>3 DEF HostIrq
<1>4. CASE HostReap
  <2>1. PICK e \in Entries : e = cq[cHead]
    OBVIOUS
  <2>2. e.sq \in SQs
    BY <2>1 DEF Entries
  <2>3. got' = [got EXCEPT ![e.sq][e.cmd] = @ + 1] /\ out' = [out EXCEPT ![e.sq] = @ \ {e.cmd}]
    BY <2>1, <1>4 DEF HostReap
  <2>4. out' \in [SQs -> SUBSET Cmds]
    BY <2>2, <2>3
  <2>5. [got[e.sq] EXCEPT ![e.cmd] = @ + 1] \in [Cmds -> Nat]
    <3>1. PICK f \in [Cmds -> Nat] : f = got[e.sq]
      BY <2>2
    <3>2. [f EXCEPT ![e.cmd] = f[e.cmd] + 1] \in [Cmds -> Nat]
      BY OneMore
    <3> QED
      BY <3>1, <3>2
  <2>6. got' = [got EXCEPT ![e.sq] = [got[e.sq] EXCEPT ![e.cmd] = @ + 1]]
    BY <2>3
  <2>7. got' \in [SQs -> [Cmds -> Nat]]
    BY <2>2, <2>5, <2>6
  <2>8. ((cHead + 1) % CQSize) \in 0 .. CQSize - 1
    <3> cHead + 1 \in Nat
      BY Sizes
    <3> QED
      BY RingTypes DEF Slots
  <2>9. cHead' \in 0 .. CQSize - 1 /\ cPhase' \in {0, 1}
    BY <2>8, <1>4 DEF HostReap
  <2> QED
    BY <2>4, <2>7, <2>9, <1>4 DEF HostReap
<1>5. CASE HostDone
  BY <1>5 DEF HostDone, New
<1> QED
  BY <1>1, <1>2, <1>3, <1>4, <1>5 DEF Host

(* ... of the dispatcher ...                                               *)
LEMMA TypeDispatcher ==
    ASSUME TypeOK, nvmev_proc_dbs
    PROVE  TypeOK'
<1> USE DEF TypeOK, hostVars, dbVars, cqVars, statVars
<1>1. ASSUME NEW s \in SQs, NEW n \in 0 .. QSize - 1, Dispatch(s, n) PROVE TypeOK'
  <2>1. turn' \in 1 .. NrSq + 1
    <3> \A r \in SQs : r + 1 \in 1 .. NrSq + 1
      BY Sizes DEF SQs
    <3> QED
      BY <1>1 DEF Dispatch
  <2>2. nr_in_flight' \in [SQs -> Int]
    <3> \A k \in Int : k + n \in Int
      OBVIOUS
    <3> QED
      BY <1>1 DEF Dispatch
  <2>3. \A i \in Nat : ((old_dbs[s] + i) % QSize) \in 0 .. QSize - 1
    <3> \A i \in Nat, o \in 0 .. QSize - 1 : o + i \in Nat
      BY Sizes
    <3> \A i \in Nat : old_dbs[s] + i \in Nat
      OBVIOUS
    <3> QED
      BY RingTypes DEF QSlots
  <2>4. old_dbs' \in [SQs -> 0 .. QSize - 1]
    <3> n \in Nat
      OBVIOUS
    <3> Advanced(old_dbs[s], n) \in 0 .. QSize - 1
      BY <2>3 DEF Advanced
    <3> old_dbs' = [old_dbs EXCEPT ![s] = Advanced(old_dbs[s], n)]
      BY <1>1 DEF Dispatch
    <3> QED
      OBVIOUS
  <2>5. \A i \in 0 .. n - 1 : NewWork(s, (old_dbs[s] + i) % QSize) \in Works
    <3> TAKE i \in 0 .. n - 1
    <3> i \in Nat
      BY Sizes
    <3> PICK j \in 0 .. QSize - 1 : j = ((old_dbs[s] + i) % QSize)
      BY <2>3
    <3> sqRing[s][j] \in 0 .. MaxCmds
      BY InRing
    <3> 0 \in 0 .. MaxCmds
      BY Sizes
    <3> QED
      BY DEF NewWork, NoCmd, Works
  <2>6. work' \subseteq Works
    BY <2>5, <1>1 DEF Dispatch
  <2> QED
    BY <2>1, <2>2, <2>4, <2>6, <1>1 DEF Dispatch
<1>2. CASE nvmev_proc_io_cq
  <2>1. \A s \in SQs : nr_in_flight[s] - Uncounted(s) \in Int /\ nr_in_flight[s] \in Int
    <3>1. \A s \in SQs : nr_in_flight[s] \in Int
      OBVIOUS
    <3>2. \A s \in SQs : Uncounted(s) \in Nat
      BY UncountedType
    <3> QED
      BY <3>1, <3>2
  <2>2. nr_in_flight' \in [SQs -> Int]
    BY <2>1, <1>2 DEF nvmev_proc_io_cq
  <2>3. 1 \in 1 .. NrSq + 1
    BY Sizes
  <2> QED
    BY <2>2, <2>3, <1>2 DEF nvmev_proc_io_cq
<1>3. CASE Skip
  <2>1. (turn % (NrSq + 1)) \in 0 .. NrSq
    <3> PICK b \in Nat \ {0} : b = NrSq + 1
      BY Sizes
    <3> turn \in Nat
      BY Sizes
    <3> (turn % b) \in 0 .. b - 1
      BY DivMod
    <3> QED
      BY Sizes
  <2>2. (turn % (NrSq + 1)) + 1 \in 1 .. NrSq + 1
    BY <2>1, Sizes
  <2> QED
    BY <2>2, <1>3 DEF Skip
<1> QED
  BY <1>1, <1>2, <1>3 DEF nvmev_proc_dbs, nvmev_proc_io_sq

(* ... of a worker ...                                                     *)
LEMMA TypeWorker ==
    ASSUME TypeOK, NEW s \in SQs, Worker(s)
    PROVE  TypeOK'
<1> USE DEF TypeOK, hostVars, dbVars, cqVars, statVars
<1>1. CASE Copy(s)
  <2>1. PICK w \in work :
            /\ work' = (work \ {w}) \union
                          {[w EXCEPT !.copied = TRUE, !.read = sqRing[s][w.slot]]}
            /\ UNCHANGED <<hostVars, dbVars, cqVars, statVars>>
    BY <1>1 DEF Copy
  <2>2. sqRing[s][w.slot] \in 0 .. MaxCmds /\ w \in Works
    <3> w \in Works
      OBVIOUS
    <3> w.slot \in 0 .. QSize - 1
      BY DEF Works
    <3> QED
      BY InRing
  <2>3. [w EXCEPT !.copied = TRUE, !.read = sqRing[s][w.slot]] \in Works
    BY <2>2 DEF Works
  <2>4. work' \subseteq Works
    BY <2>1, <2>3
  <2> QED
    BY <2>1, <2>4
<1>2. CASE FillEntry(s)
  <2>1. PICK w \in work :
            /\ cq' = [cq EXCEPT ![cq_head] = [cmd |-> w.cmd, sq |-> s, phase |-> phase]]
            /\ work' = Left(w)
    BY <1>2 DEF FillEntry
  <2>2. [cmd |-> w.cmd, sq |-> s, phase |-> phase] \in Entries
    BY DEF Entries, Works
  <2>3. cq' \in [0 .. CQSize - 1 -> Entries]
    BY <2>1, <2>2
  <2>4. work' \subseteq work
    BY <2>1 DEF Left
  <2>5. lock' \in 0 .. NrSq
    BY <1>2, Sizes DEF FillEntry, SQs
  <2> QED
    BY <2>3, <2>4, <2>5, <1>2 DEF FillEntry
<1>3. CASE FillDone(s)
  <2>1. ((cq_head + 1) % CQSize) \in 0 .. CQSize - 1
    <3> \A i \in 0 .. CQSize - 1 : i + 1 \in Nat
      BY Sizes
    <3> cq_head + 1 \in Nat
      OBVIOUS
    <3> QED
      BY RingTypes DEF Slots
  <2>2. phase' \in {0, 1}
    BY <1>3 DEF FillDone, TurnedPhase
  <2>3. 0 \in 0 .. NrSq
    BY Sizes
  <2> QED
    BY <2>1, <2>2, <2>3, <1>3 DEF FillDone
<1> QED
  BY <1>1, <1>2, <1>3 DEF Worker

(* ... and of the worker that signals.                                     *)
LEMMA TypeIrq ==
    ASSUME TypeOK, Irq
    PROVE  TypeOK'
  BY DEF TypeOK, Irq, IrqClear, IrqSignal, RaiseIrq, IrqEffect, hostVars, dbVars,
         cqVars, statVars

(* TypeOK is inductive by itself.                                          *)
LEMMA TypeStep == TypeOK /\ [Next]_vars => TypeOK'
<1> SUFFICES ASSUME TypeOK, [Next]_vars PROVE TypeOK'
  OBVIOUS
<1>1. CASE UNCHANGED vars
  BY <1>1 DEF TypeOK, vars, hostVars, dbVars, cqVars, statVars
<1> QED
  BY <1>1, TypeHost, TypeDispatcher, TypeWorker, TypeIrq DEF Next

THEOREM Typed == Spec => []TypeOK
<1>1. TypeOK /\ [Next]_vars => TypeOK'
  BY TypeStep
<1> QED
  BY InitType, <1>1, PTL DEF Spec
-----------------------------------------------------------------------------
(* The submission rings. *)

\* What the other conjuncts of the invariant depend on.
ringVars == <<sent, sqRing, out, got, cHead, cPhase, dbs, old_dbs, work, cq, cq_head,
              phase, lock>>

Body == Rings /\ Outstanding /\ AtWorker /\ Posted /\ Phases /\ AnsweredOnce

(* The commands the dispatcher has yet to take.                            *)
LEMMA ToDispatchType ==
    ASSUME TypeOK, NEW s \in SQs
    PROVE  /\ ToDispatch(s) \in 0 .. QSize - 1 /\ sent[s] \in 0 .. MaxCmds
           /\ Dispatched(s) \in Int /\ sent[s] = Dispatched(s) + ToDispatch(s)
<1>1. dbs[s] \in 0 .. QSize - 1 /\ old_dbs[s] \in 0 .. QSize - 1 /\ sent[s] \in 0 .. MaxCmds
  BY DEF TypeOK
<1>2. ToDispatch(s) \in 0 .. QSize - 1
  BY <1>1, Sizes, SpanType DEF ToDispatch
<1>3. sent[s] \in Int /\ ToDispatch(s) \in Int
  BY <1>1, <1>2
<1> QED
  BY <1>1, <1>2, <1>3 DEF Dispatched

(* Finitely many commands are outstanding.                                 *)
LEMMA FiniteOut ==
    ASSUME TypeOK, NEW s \in SQs
    PROVE  IsFiniteSet(out[s]) /\ Cardinality(out[s]) \in Nat
<1>1. IsFiniteSet(Cmds)
  BY Sizes, FS_Interval DEF Cmds
<1>2. out[s] \in SUBSET Cmds
  BY DEF TypeOK
<1> QED
  BY <1>1, <1>2, FS_Subset, FS_CardinalityType

(* The commands that the dispatcher has yet to take are outstanding.       *)
LEMMA ToDispatchBound ==
    ASSUME TypeOK, Rings, Outstanding, NEW s \in SQs
    PROVE  ToDispatch(s) <= Cardinality(out[s])
<1>1. PICK a \in Int, b \in Int : a = Dispatched(s) + 1 /\ b = sent[s]
  BY ToDispatchType
<1>2. IsFiniteSet(a .. b) /\ Cardinality(a .. b) = ToDispatch(s)
  <2>1. PICK d \in Nat : d = ToDispatch(s)
    BY ToDispatchType, Sizes
  <2>2. sent[s] = Dispatched(s) + d /\ Dispatched(s) \in Int
    BY <2>1, ToDispatchType
  <2>3. (IF a > b THEN 0 ELSE b - a + 1) = d
    BY <1>1, <2>1, <2>2
  <2> QED
    BY <2>1, <2>3, FS_Interval
<1>3. (a .. b) \in SUBSET out[s]
  BY <1>1 DEF Outstanding
<1>4. Cardinality(a .. b) <= Cardinality(out[s])
  BY <1>3, FiniteOut, FS_Subset
<1> QED
  BY <1>2, <1>4

(* A command sent is one more to dispatch.                                 *)
LEMMA SubmitFacts ==
    ASSUME TypeOK, Rings, Outstanding, NEW s \in SQs, HostSubmit(s)
    PROVE  /\ sent' = [sent EXCEPT ![s] = sent[s] + 1] /\ sent[s] + 1 \in 1 .. MaxCmds
           /\ sent[s] \in Nat
           /\ \A t \in SQs : Dispatched(t)' = Dispatched(t)
<1>1. sent[s] \in 0 .. MaxCmds /\ sent[s] < MaxCmds
  BY DEF TypeOK, HostSubmit
<1>2. sent[s] + 1 \in 1 .. MaxCmds /\ sent[s] \in Nat
  BY <1>1, NextCmd
<1>3. sent' = [sent EXCEPT ![s] = sent[s] + 1]
  BY DEF HostSubmit
<1>4. ToDispatch(s) < QSize - 1
  <2>1. ToDispatch(s) <= Cardinality(out[s]) /\ Cardinality(out[s]) < QSize - 1
    BY ToDispatchBound DEF HostSubmit
  <2>2. ToDispatch(s) \in Int /\ Cardinality(out[s]) \in Int /\ QSize - 1 \in Int
    BY ToDispatchType, FiniteOut, Sizes
  <2> QED
    BY <2>1, <2>2
<1>5. dbs[s] \in 0 .. QSize - 1 /\ old_dbs[s] \in 0 .. QSize - 1 /\ QSize \in Nat \ {0}
  BY Sizes DEF TypeOK
<1>6. Span((dbs[s] + 1) % QSize, old_dbs[s], QSize) = Span(dbs[s], old_dbs[s], QSize) + 1
  BY <1>4, <1>5, SpanNew DEF ToDispatch
<1>7. ToDispatch(s)' = ToDispatch(s) + 1
  <2>1. dbs'[s] = (dbs[s] + 1) % QSize /\ old_dbs'[s] = old_dbs[s]
    BY DEF HostSubmit, TypeOK
  <2> QED
    BY <1>6, <2>1 DEF ToDispatch
<1>8. Dispatched(s)' = Dispatched(s)
  <2>1. sent'[s] = sent[s] + 1
    BY <1>3 DEF TypeOK
  <2>2. sent[s] \in Int /\ ToDispatch(s) \in Int
    BY ToDispatchType
  <2>3. Dispatched(s)' = sent'[s] - ToDispatch(s)'
    BY DEF Dispatched
  <2> QED
    BY <1>7, <2>1, <2>2, <2>3 DEF Dispatched
<1>9. \A t \in SQs : t # s => Dispatched(t)' = Dispatched(t)
  <2> SUFFICES ASSUME NEW t \in SQs, t # s PROVE Dispatched(t)' = Dispatched(t)
    OBVIOUS
  <2>1. sent'[t] = sent[t] /\ dbs'[t] = dbs[t] /\ old_dbs'[t] = old_dbs[t]
    BY DEF HostSubmit, TypeOK
  <2> QED
    BY <2>1 DEF Dispatched, ToDispatch
<1> QED
  BY <1>2, <1>3, <1>8, <1>9

(* A new command takes the slot of one that was answered: the driver has a *)
(* tag for all entries of a ring but one.                                  *)
LEMMA SubmitRings ==
    ASSUME TypeOK, Rings, Outstanding, NEW s \in SQs, HostSubmit(s)
    PROVE  Rings'
<1> SUFFICES ASSUME NEW t \in SQs
             PROVE  /\ Dispatched(t)' \in 0 .. sent'[t]
                    /\ dbs'[t] = (sent'[t] % QSize) /\ old_dbs'[t] = (Dispatched(t)' % QSize)
                    /\ \A c \in 1 .. sent'[t] :
                         sent'[t] - c < QSize => sqRing'[t][((c - 1) % QSize)] = c
  BY DEF Rings
<1>1. /\ Dispatched(t) \in 0 .. sent[t] /\ Dispatched(t)' = Dispatched(t)
      /\ dbs[t] = (sent[t] % QSize) /\ old_dbs[t] = (Dispatched(t) % QSize)
      /\ \A c \in 1 .. sent[t] : sent[t] - c < QSize => sqRing[t][((c - 1) % QSize)] = c
      /\ sent[t] \in Nat
  <2>1. Dispatched(t)' = Dispatched(t)
    BY SubmitFacts
  <2>2. sent[t] \in 0 .. MaxCmds
    BY DEF TypeOK
  <2> QED
    BY <2>1, <2>2 DEF Rings
<1>2. CASE t # s
  <2>1. /\ sent'[t] = sent[t] /\ dbs'[t] = dbs[t] /\ old_dbs'[t] = old_dbs[t]
        /\ sqRing'[t] = sqRing[t]
    BY <1>2 DEF HostSubmit, TypeOK
  <2> QED
    BY <1>1, <2>1
<1>3. CASE t = s
  <2>1. PICK n \in Nat : n = sent[s]
    BY <1>1, <1>3
  <2>2. sent'[s] = n + 1 /\ old_dbs'[s] = old_dbs[s] /\ dbs'[s] = ((n + 1) % QSize)
    <3>1. ((((n % QSize) + 1) % QSize)) = ((n + 1) % QSize)
      BY Sizes, ModAdd
    <3> QED
      BY <1>1, <1>3, <2>1, <3>1, SubmitFacts DEF HostSubmit, TypeOK
  <2>3. sqRing'[s] = [sqRing[s] EXCEPT ![(n % QSize)] = n + 1]
    BY <1>1, <1>3, <2>1 DEF HostSubmit, TypeOK
  <2>4. sqRing[s] \in [QSlots -> 0 .. MaxCmds]
    BY DEF TypeOK, QSlots
  <2>5. ASSUME NEW c \in 1 .. n + 1, (n + 1) - c < QSize
        PROVE  sqRing'[s][((c - 1) % QSize)] = c
    <3>1. PICK a \in Nat : a = c - 1 /\ a <= n /\ n - a < QSize
      BY <2>5
    <3>2. (a % QSize) \in QSlots /\ (n % QSize) \in QSlots
      BY RingTypes
    <3>3. CASE a = n
      BY <2>3, <2>4, <3>1, <3>2, <3>3
    <3>4. CASE a < n
      <4>1. (a % QSize) # (n % QSize)
        BY <3>1, <3>4, Sizes, ModDistinct
      <4>2. c \in 1 .. n /\ n - c < QSize
        BY <3>1, <3>4, Sizes
      <4>3. sqRing[s][((c - 1) % QSize)] = c
        BY <1>1, <1>3, <2>1, <4>2
      <4> QED
        BY <2>3, <2>4, <3>1, <3>2, <4>1, <4>3
    <3> QED
      BY <3>1, <3>3, <3>4
  <2>6. Dispatched(t) \in 0 .. n + 1
    BY <1>1, <1>3, <2>1
  <2> QED
    BY <1>1, <1>3, <2>2, <2>5, <2>6
<1> QED
  BY <1>2, <1>3

(* A new command is outstanding and not yet dispatched.                    *)
LEMMA SubmitOutstanding ==
    ASSUME TypeOK, Rings, Outstanding, NEW s \in SQs, HostSubmit(s)
    PROVE  Outstanding'
<1> SUFFICES ASSUME NEW t \in SQs
             PROVE  /\ Cardinality(out'[t]) <= QSize - 1
                    /\ out'[t] \subseteq 1 .. sent'[t]
                    /\ (Dispatched(t)' + 1 .. sent'[t]) \subseteq out'[t]
  BY DEF Outstanding
<1>1. /\ Cardinality(out[t]) <= QSize - 1 /\ out[t] \subseteq 1 .. sent[t]
      /\ (Dispatched(t) + 1 .. sent[t]) \subseteq out[t]
  BY DEF Outstanding
<1>2. Dispatched(t)' = Dispatched(t) /\ Dispatched(t) \in Int
  BY SubmitFacts, ToDispatchType
<1>3. CASE t # s
  <2>1. sent'[t] = sent[t] /\ out'[t] = out[t]
    BY <1>3 DEF HostSubmit, TypeOK
  <2> QED
    BY <1>1, <1>2, <2>1
<1>4. CASE t = s
  <2>1. PICK n \in Nat : n = sent[s]
    BY SubmitFacts
  <2>2. sent'[s] = n + 1 /\ out'[s] = out[s] \union {n + 1}
    BY <2>1 DEF HostSubmit, TypeOK
  <2>3. Cardinality(out[s]) < QSize - 1
    BY DEF HostSubmit
  <2>4. Cardinality(out[s] \union {n + 1}) <= QSize - 1
    <3>1. PICK S : S = out[s] /\ IsFiniteSet(S) /\ Cardinality(S) \in Nat
      BY FiniteOut
    <3>2. Cardinality(S \union {n + 1}) = IF n + 1 \in S THEN Cardinality(S)
                                          ELSE Cardinality(S) + 1
      BY <3>1, FS_AddElement
    <3>3. Cardinality(S) < QSize - 1
      BY <2>3, <3>1
    <3> QED
      BY <3>1, <3>2, <3>3, Sizes
  <2>5. 1 .. n + 1 = (1 .. n) \union {n + 1}
    OBVIOUS
  <2>6. \A k \in Int : (k .. n + 1) \subseteq (k .. n) \union {n + 1}
    OBVIOUS
  <2>7. out'[t] \subseteq 1 .. n + 1
    BY <1>1, <1>4, <2>1, <2>2, <2>5
  <2>8. PICK k \in Int : k = Dispatched(t) + 1
    BY <1>2
  <2>9. (k .. n) \subseteq out[s]
    BY <1>1, <1>4, <2>1, <2>8
  <2>10. (k .. n + 1) \subseteq out'[t]
    BY <1>4, <2>2, <2>6, <2>9
  <2> QED
    BY <1>2, <1>4, <2>2, <2>4, <2>7, <2>8, <2>10
<1> QED
  BY <1>3, <1>4

(* A new command is neither with a worker nor posted.                      *)
LEMMA SubmitRest ==
    ASSUME TypeOK, Rings, Outstanding, AtWorker, Posted, Phases, AnsweredOnce,
           NEW s \in SQs, HostSubmit(s)
    PROVE  AtWorker' /\ Posted' /\ Phases' /\ AnsweredOnce'
<1>1. UNCHANGED <<work, cq, cHead, cPhase, cq_head, phase, lock, got>>
  BY DEF HostSubmit, cqVars
<1>2. \A t \in SQs : out[t] \subseteq out'[t] /\ Dispatched(t)' = Dispatched(t)
  BY SubmitFacts DEF HostSubmit, TypeOK
<1>3. Pending' = Pending
  BY <1>1 DEF Pending
<1>4. \A w \in work : w.sq \in SQs
  BY DEF TypeOK, Works
<1>5. \A i \in Pending : cq[i].sq \in SQs
  BY DEF Pending, TypeOK, Entries, Slots
<1>6. AtWorker'
  BY <1>1, <1>2, <1>4 DEF AtWorker
<1>7. Posted'
  BY <1>1, <1>2, <1>3, <1>5 DEF Posted
<1>8. Phases'
  BY <1>1 DEF Phases, PostHead, PostPhase, TurnedPhase
<1>9. AnsweredOnce'
  <2> SUFFICES ASSUME NEW t \in SQs, NEW c \in Cmds
               PROVE  got'[t][c] = IF c <= sent'[t] /\ c \notin out'[t] THEN 1 ELSE 0
    BY DEF AnsweredOnce
  <2>1. got'[t][c] = IF c <= sent[t] /\ c \notin out[t] THEN 1 ELSE 0
    BY <1>1 DEF AnsweredOnce
  <2>2. CASE t # s
    <3>1. sent'[t] = sent[t] /\ out'[t] = out[t]
      BY <2>2 DEF HostSubmit, TypeOK
    <3> QED
      BY <2>1, <3>1
  <2>3. CASE t = s
    <3>1. PICK n \in Nat : n = sent[s]
      BY SubmitFacts
    <3>2. sent'[s] = n + 1 /\ out'[s] = out[s] \union {n + 1}
      BY <3>1 DEF HostSubmit, TypeOK
    <3>3. c \in Int
      BY Sizes DEF Cmds
    <3>4. c <= n + 1 <=> c <= n \/ c = n + 1
      BY <3>3
    <3>5. n + 1 \notin out[s]
      BY <3>1 DEF Outstanding
    <3>6. ~(n + 1 <= n)
      OBVIOUS
    <3> QED
      BY <2>1, <2>3, <3>1, <3>2, <3>4, <3>5, <3>6
  <2> QED
    BY <2>2, <2>3
<1> QED
  BY <1>6, <1>7, <1>8, <1>9

(* Steps that move no command leave the rest of the invariant alone.       *)
LEMMA BodyUnchanged ==
    ASSUME Body, UNCHANGED ringVars
    PROVE  Body'
<1> USE DEF ringVars
<1>1. \A s : Dispatched(s)' = Dispatched(s)
  BY DEF Dispatched, ToDispatch
<1>2. Pending' = Pending
  BY DEF Pending
<1>3. PostHead' = PostHead /\ PostPhase' = PostPhase
  BY DEF PostHead, PostPhase, TurnedPhase
<1>4. Rings' /\ Outstanding' /\ AtWorker'
  BY <1>1 DEF Body, Rings, Outstanding, AtWorker
<1>5. Posted'
  BY <1>1, <1>2 DEF Body, Posted
<1>6. Phases' /\ AnsweredOnce'
  BY <1>3 DEF Body, Phases, AnsweredOnce
<1> QED
  BY <1>4, <1>5, <1>6 DEF Body

(* These steps move nothing that Body speaks of.                           *)
LEMMA OtherSteps ==
    ASSUME \/ \E s \in SQs : HostDeleteSq(s)
           \/ HostIrq \/ HostDone \/ nvmev_proc_io_cq \/ Skip \/ Irq \/ UNCHANGED vars
    PROVE  UNCHANGED ringVars
<1> USE DEF ringVars, hostVars, dbVars, cqVars, statVars
<1>1. CASE \E s \in SQs : HostDeleteSq(s)
  BY <1>1 DEF HostDeleteSq
<1>2. CASE HostIrq \/ HostDone
  BY <1>2 DEF HostIrq, HostDone
<1>3. CASE nvmev_proc_io_cq \/ Skip
  BY <1>3 DEF nvmev_proc_io_cq, Skip
<1>4. CASE Irq
  BY <1>4 DEF Irq, IrqClear, IrqSignal, RaiseIrq
<1>5. CASE UNCHANGED vars
  BY <1>5 DEF vars
<1> QED
  BY <1>1, <1>2, <1>3, <1>4, <1>5

-----------------------------------------------------------------------------
(* The copy, and the head that follows an entry. *)

(* Copying leaves every command where it is.                               *)
LEMMA CopyStep ==
    ASSUME TypeOK, Body, NEW s \in SQs, Copy(s)
    PROVE  Body'
<1>1. PICK w \in work :
          /\ work' = (work \ {w}) \union
                        {[w EXCEPT !.copied = TRUE, !.read = sqRing[s][w.slot]]}
          /\ UNCHANGED <<hostVars, dbVars, cqVars, statVars>>
  BY DEF Copy
<1>2. PICK u : u = [w EXCEPT !.copied = TRUE, !.read = sqRing[s][w.slot]]
  OBVIOUS
<1>3. w \in Works /\ u.sq = w.sq /\ u.cmd = w.cmd /\ u.slot = w.slot
  BY <1>2 DEF TypeOK, Works
<1>4. work' = (work \ {w}) \union {u}
  BY <1>1, <1>2
<1>5. UNCHANGED <<sent, sqRing, out, got, cHead, cPhase, dbs, old_dbs, cq, cq_head, phase,
                  lock>>
  BY <1>1 DEF hostVars, dbVars, cqVars
<1>6. \A t : Dispatched(t)' = Dispatched(t)
  BY <1>5 DEF Dispatched, ToDispatch
<1>7. Pending' = Pending /\ PostHead' = PostHead /\ PostPhase' = PostPhase
  BY <1>5 DEF Pending, PostHead, PostPhase, TurnedPhase
<1>8. Rings' /\ Outstanding' /\ Phases' /\ AnsweredOnce'
  BY <1>5, <1>6, <1>7 DEF Body, Rings, Outstanding, Phases, AnsweredOnce
<1>9. AtWorker'
  BY <1>3, <1>4, <1>5, <1>6 DEF Body, AtWorker
<1>10. Posted'
  BY <1>3, <1>4, <1>5, <1>6, <1>7 DEF Body, Posted
<1> QED
  BY <1>8, <1>9, <1>10 DEF Body

(* __fill_cq_result() moves head and phase on: the slot it filled was      *)
(* counted as filled before.                                               *)
LEMMA FillDoneStep ==
    ASSUME Body, NEW s \in SQs, FillDone(s)
    PROVE  Body'
<1>1. UNCHANGED <<sent, sqRing, out, got, cHead, cPhase, dbs, old_dbs, cq, work>>
  BY DEF FillDone, hostVars, dbVars
<1>2. \A t : Dispatched(t)' = Dispatched(t)
  BY <1>1 DEF Dispatched, ToDispatch
<1>3. Pending' = Pending
  BY <1>1 DEF Pending
<1>4. s # 0
  BY DEF SQs
<1>5. PostHead' = PostHead /\ PostPhase' = PostPhase
  BY <1>4 DEF FillDone, PostHead, PostPhase, TurnedPhase
<1>6. Rings' /\ Outstanding' /\ AtWorker'
  BY <1>1, <1>2 DEF Body, Rings, Outstanding, AtWorker
<1>7. Posted'
  BY <1>1, <1>2, <1>3 DEF Body, Posted
<1>8. Phases' /\ AnsweredOnce'
  BY <1>1, <1>5 DEF Body, Phases, AnsweredOnce
<1> QED
  BY <1>6, <1>7, <1>8 DEF Body
-----------------------------------------------------------------------------
(* The host takes an entry. *)

(* Heads and phases of workers and host.                                   *)
LEMMA PostTypes ==
    ASSUME TypeOK
    PROVE  PostHead \in Slots /\ PostPhase \in {0, 1} /\ cHead \in Slots /\ cPhase \in {0, 1}
<1>1. cq_head \in Slots /\ phase \in {0, 1} /\ cHead \in Slots /\ cPhase \in {0, 1}
  BY DEF TypeOK, Slots
<1>2. \A i \in Slots : i + 1 \in Nat
  BY Sizes DEF Slots
<1>3. cq_head + 1 \in Nat
  BY <1>1, <1>2
<1>4. ((cq_head + 1) % CQSize) \in Slots
  BY <1>3, RingTypes
<1> QED
  BY <1>1, <1>4 DEF PostHead, PostPhase, TurnedPhase

\* Position and phase after one more entry.
NextHead(h) == (h + 1) % CQSize
NextPhase(h, p) == IF h + 1 = CQSize THEN 1 - p ELSE p

(* A head moves on by one, or wraps.                                       *)
LEMMA HeadStep ==
    ASSUME NEW h \in Slots
    PROVE  NextHead(h) = IF h + 1 = CQSize THEN 0 ELSE h + 1
<1>1. PICK x \in Nat : x = h + 1
  BY Sizes DEF Slots
<1>2. x <= CQSize /\ x < CQSize + CQSize
  BY <1>1, Sizes DEF Slots
<1>3. (x % CQSize) = IF x < CQSize THEN x ELSE x - CQSize
  BY <1>2, Sizes, ModSmall
<1> QED
  BY <1>1, <1>2, <1>3, Sizes DEF NextHead

(* What is pending depends on the entries' phases and on where the host is. *)
LEMMA ReapPending ==
    ASSUME TypeOK, HostReap
    PROVE  cHead \in Pending /\ Pending' = Pending \ {cHead}
<1>1. cHead \in Slots /\ cPhase \in {0, 1} /\ cq[cHead].phase = cPhase
  BY PostTypes DEF HostReap, New
<1>2. cHead \in Pending
  <2>1. ~(cHead < cHead)
    BY <1>1 DEF Slots
  <2> QED
    BY <1>1, <2>1 DEF Pending
<1>3. cHead' = NextHead(cHead) /\ cPhase' = NextPhase(cHead, cPhase) /\ cq' = cq
  BY DEF HostReap, NextHead, NextPhase, cqVars
<1>4. \A i \in Slots : (IF i < cHead' THEN 1 - cPhase' ELSE cPhase')
                         = (IF i <= cHead THEN 1 - cPhase ELSE cPhase)
  <2>1. cHead' = IF cHead + 1 = CQSize THEN 0 ELSE cHead + 1
    BY <1>1, <1>3, HeadStep
  <2>2. PICK h \in Slots, p \in {0, 1} : h = cHead /\ p = cPhase
    BY <1>1
  <2>3. CASE h + 1 = CQSize
    <3>1. cHead' = 0 /\ cPhase' = 1 - p
      BY <1>3, <2>1, <2>2, <2>3 DEF NextPhase
    <3>2. \A i \in Slots : i <= h /\ ~(i < 0)
      BY <2>3, Sizes DEF Slots
    <3> QED
      BY <2>2, <3>1, <3>2
  <2>4. CASE h + 1 # CQSize
    <3>1. cHead' = h + 1 /\ cPhase' = p
      BY <1>3, <2>1, <2>2, <2>4 DEF NextPhase
    <3>2. \A i \in Slots : i < h + 1 <=> i <= h
      BY <2>4, Sizes DEF Slots
    <3> QED
      BY <2>2, <3>1, <3>2
  <2> QED
    BY <2>3, <2>4
<1>5. \A i \in Slots : i <= cHead <=> i < cHead \/ i = cHead
  BY <1>1 DEF Slots
<1>6. cPhase # 1 - cPhase
  BY <1>1
<1>7. \A i \in Slots : i \in Pending' <=> i \in Pending /\ i # cHead
  <2>1. TAKE i \in Slots
  <2>2. i \in Pending' <=> cq[i].phase = IF i <= cHead THEN 1 - cPhase ELSE cPhase
    BY <1>3, <1>4 DEF Pending
  <2>3. i \in Pending <=> cq[i].phase = IF i < cHead THEN 1 - cPhase ELSE cPhase
    BY DEF Pending
  <2>4. CASE i = cHead
    BY <1>1, <1>5, <1>6, <2>2, <2>4
  <2>5. CASE i # cHead
    BY <1>5, <2>2, <2>3, <2>5
  <2> QED
    BY <2>4, <2>5
<1>8. Pending \subseteq Slots /\ Pending' \subseteq Slots
  BY DEF Pending, Slots
<1> QED
  BY <1>2, <1>7, <1>8

(* The host moves on by one slot; its phase turns at the wrap.             *)
LEMMA ReapPhases ==
    ASSUME TypeOK, Phases, HostReap
    PROVE  Phases'
<1>1. PICK h \in Slots, p \in {0, 1}, ph \in Slots, pp \in {0, 1} :
          h = cHead /\ p = cPhase /\ ph = PostHead /\ pp = PostPhase
  BY PostTypes
<1>2. UNCHANGED <<cq, cq_head, phase, lock>>
  BY DEF HostReap, cqVars
<1>3. PostHead' = PostHead /\ PostPhase' = PostPhase
  BY <1>2 DEF PostHead, PostPhase, TurnedPhase
<1>4. cHead' = (IF h + 1 = CQSize THEN 0 ELSE h + 1) /\ cPhase' = NextPhase(h, p)
  BY <1>1, HeadStep DEF HostReap, NextHead, NextPhase
<1>5. p = IF h < ph THEN pp ELSE 1 - pp
  BY <1>1 DEF Phases, HostReap, New
<1>6. IF p = pp THEN h <= ph ELSE ph < h
  BY <1>1 DEF Phases
<1>7. IF cPhase' = pp THEN cHead' <= ph ELSE ph < cHead'
  <2>1. h \in Int /\ ph \in Int /\ 0 <= ph /\ ph < CQSize /\ 0 <= h /\ CQSize \in Int
    BY Sizes DEF Slots
  <2>2. CASE h + 1 = CQSize
    <3>1. cHead' = 0 /\ cPhase' = 1 - p
      BY <1>4, <2>2 DEF NextPhase
    <3>2. p # pp
      BY <1>5, <1>6, <2>1, <2>2
    <3> QED
      BY <2>1, <3>1, <3>2
  <2>3. CASE h + 1 # CQSize
    <3>1. cHead' = h + 1 /\ cPhase' = p
      BY <1>4, <2>3 DEF NextPhase
    <3> QED
      BY <1>5, <1>6, <2>1, <3>1
  <2> QED
    BY <2>2, <2>3
<1>8. \A i \in Slots : cq'[i].phase = IF i < PostHead' THEN PostPhase' ELSE 1 - PostPhase'
  BY <1>2, <1>3 DEF Phases
<1> QED
  BY <1>1, <1>3, <1>7, <1>8 DEF Phases

(* The host takes the entry of one outstanding command, which is then      *)
(* nowhere else.                                                           *)
LEMMA ReapBody ==
    ASSUME TypeOK, Body, HostReap
    PROVE  Body'
<1>1. PICK q, c : q = cq[cHead].sq /\ c = cq[cHead].cmd
  OBVIOUS
<1>2. cHead \in Pending /\ Pending' = Pending \ {cHead}
  BY ReapPending
<1>3. /\ got' = [got EXCEPT ![q][c] = @ + 1] /\ out' = [out EXCEPT ![q] = @ \ {c}]
      /\ UNCHANGED <<sent, sqRing, dbs, old_dbs, work, cq>>
  BY <1>1 DEF HostReap, dbVars, cqVars
<1>4. q \in SQs /\ c \in out[q] /\ c <= Dispatched(q) /\ c \in Cmds
  <2>1. cq[cHead] \in Entries
    BY DEF TypeOK
  <2>2. q \in SQs
    BY <1>1, <2>1 DEF Entries
  <2>3. c \in out[q] /\ c <= Dispatched(q)
    BY <1>1, <1>2 DEF Body, Posted
  <2>4. out[q] \subseteq Cmds
    BY <2>2 DEF TypeOK
  <2> QED
    BY <2>2, <2>3, <2>4
<1>5. \A t : Dispatched(t)' = Dispatched(t)
  BY <1>3 DEF Dispatched, ToDispatch
<1>6. /\ \A t \in SQs : out'[t] = IF t = q THEN out[t] \ {c} ELSE out[t]
      /\ \A t \in SQs : t # q => got'[t] = got[t]
      /\ got'[q] = [got[q] EXCEPT ![c] = @ + 1]
  BY <1>3, <1>4 DEF TypeOK
<1>7. Rings'
  BY <1>3, <1>5 DEF Body, Rings
<1>8. Outstanding'
  <2> SUFFICES ASSUME NEW t \in SQs
               PROVE  /\ Cardinality(out'[t]) <= QSize - 1
                      /\ out'[t] \subseteq 1 .. sent'[t]
                      /\ (Dispatched(t)' + 1 .. sent'[t]) \subseteq out'[t]
    BY DEF Outstanding
  <2>1. /\ Cardinality(out[t]) <= QSize - 1 /\ out[t] \subseteq 1 .. sent[t]
        /\ (Dispatched(t) + 1 .. sent[t]) \subseteq out[t]
    BY DEF Body, Outstanding
  <2>2. CASE t # q
    BY <1>3, <1>5, <1>6, <2>1, <2>2
  <2>3. CASE t = q
    <3>1. out'[t] = out[t] \ {c}
      BY <1>6, <2>3
    <3>2. (out[t] \ {c}) \in SUBSET out[t]
      OBVIOUS
    <3>3. Cardinality(out[t] \ {c}) <= Cardinality(out[t])
      BY <3>2, FiniteOut, FS_Subset
    <3>4. Cardinality(out[t] \ {c}) \in Int /\ Cardinality(out[t]) \in Int /\ QSize - 1 \in Int
      BY <3>2, FiniteOut, FS_Subset, FS_CardinalityType, Sizes
    <3>5. Cardinality(out'[t]) <= QSize - 1
      BY <2>1, <3>1, <3>3, <3>4
    <3>6. PICK d \in Int : d = Dispatched(t)
      BY ToDispatchType
    <3>7. c \in Int /\ c <= d
      BY <1>4, <2>3, <3>6 DEF Cmds
    <3>8. c \notin d + 1 .. sent[t]
      BY <3>7
    <3> QED
      BY <1>3, <1>5, <2>1, <3>1, <3>5, <3>6, <3>8
  <2> QED
    BY <2>2, <2>3
<1>9. AtWorker'
  <2>1. \A w \in work : w.sq \in SQs /\ ~(w.sq = q /\ w.cmd = c)
    BY <1>1, <1>2 DEF Body, Posted, TypeOK, Works
  <2>2. \A w \in work : w.cmd \in out'[w.sq]
    BY <1>6, <2>1 DEF Body, AtWorker
  <2> QED
    BY <1>3, <1>5, <2>2 DEF Body, AtWorker
<1>10. Posted'
  <2>1. \A i \in Pending' : i \in Pending /\ cq[i].sq \in SQs
    BY <1>2 DEF Pending, TypeOK, Entries, Slots
  <2>2. \A i \in Pending' : ~(cq[i].sq = q /\ cq[i].cmd = c)
    BY <1>1, <1>2 DEF Body, Posted
  <2>3. \A i \in Pending' : cq[i].cmd \in out'[cq[i].sq]
    BY <1>6, <2>1, <2>2 DEF Body, Posted
  <2> QED
    BY <1>3, <1>5, <2>1, <2>3 DEF Body, Posted
<1>11. Phases'
  BY ReapPhases DEF Body
<1>12. AnsweredOnce'
  <2> SUFFICES ASSUME NEW t \in SQs, NEW d \in Cmds
               PROVE  got'[t][d] = IF d <= sent'[t] /\ d \notin out'[t] THEN 1 ELSE 0
    BY DEF AnsweredOnce
  <2>1. got[t][d] = IF d <= sent[t] /\ d \notin out[t] THEN 1 ELSE 0
    BY DEF Body, AnsweredOnce
  <2>2. CASE t # q
    BY <1>3, <1>6, <2>1, <2>2
  <2>3. CASE t = q
    <3>1. got[q] \in [Cmds -> Nat]
      BY <1>4 DEF TypeOK
    <3>2. got'[q][d] = IF d = c THEN got[q][d] + 1 ELSE got[q][d]
      BY <1>6, <3>1
    <3>3. CASE d # c
      BY <1>3, <1>6, <2>1, <2>3, <3>2, <3>3
    <3>4. CASE d = c
      <4>1. d <= sent[q]
        <5>1. out[q] \subseteq 1 .. sent[q]
          BY <1>4 DEF Body, Outstanding
        <5> QED
          BY <1>4, <3>4, <5>1
      <4>2. d \notin out'[q]
        BY <1>4, <1>6, <3>4
      <4>3. got[q][d] = 0
        BY <1>4, <2>1, <2>3, <3>4
      <4> QED
        BY <1>3, <2>3, <3>2, <3>4, <4>1, <4>2, <4>3
    <3> QED
      BY <3>3, <3>4
  <2> QED
    BY <2>2, <2>3
<1> QED
  BY <1>7, <1>8, <1>9, <1>10, <1>11, <1>12 DEF Body
-----------------------------------------------------------------------------
(* The dispatcher takes commands. *)

(* They are those that follow the last one dispatched, in their slots.     *)
LEMMA DispatchFacts ==
    ASSUME TypeOK, Rings, NEW s \in SQs, NEW n \in 0 .. QSize - 1, Dispatch(s, n)
    PROVE  /\ n \in Nat /\ Dispatched(s) \in Nat /\ Dispatched(s) + n <= sent[s]
           /\ sent[s] \in Nat /\ Dispatched(s)' = Dispatched(s) + n
           /\ \A t \in SQs : t # s => Dispatched(t)' = Dispatched(t)
           /\ old_dbs' = [old_dbs EXCEPT ![s] = (Dispatched(s) + n) % QSize]
           /\ \A i \in 0 .. n - 1 :
                 NewWork(s, (old_dbs[s] + i) % QSize) =
                     [sq |-> s, slot |-> ((Dispatched(s) + i) % QSize),
                      cmd |-> Dispatched(s) + i + 1, copied |-> FALSE, read |-> NoCmd]
<1>1. PICK d \in Nat, m \in Nat, p \in 0 .. QSize - 1 :
          d = Dispatched(s) /\ m = sent[s] /\ p = ToDispatch(s) /\ m = d + p
  <2>1. /\ ToDispatch(s) \in 0 .. QSize - 1 /\ sent[s] \in 0 .. MaxCmds
        /\ sent[s] = Dispatched(s) + ToDispatch(s)
    BY ToDispatchType
  <2>2. sent[s] \in Nat
    BY <2>1
  <2>3. Dispatched(s) \in Nat
    BY <2>2 DEF Rings
  <2> QED
    BY <2>1, <2>2, <2>3
<1>2. n \in Nat /\ n <= p
  BY <1>1 DEF Dispatch
<1>3. dbs[s] \in 0 .. QSize - 1 /\ old_dbs[s] \in 0 .. QSize - 1 /\ QSize \in Nat \ {0}
  BY Sizes DEF TypeOK
<1>4. UNCHANGED <<sent, sqRing, dbs>>
  BY DEF Dispatch, hostVars
<1>5. old_dbs' = [old_dbs EXCEPT ![s] = (old_dbs[s] + n) % QSize]
  BY DEF Dispatch, Advanced
<1>6. old_dbs[s] = (d % QSize)
  BY <1>1 DEF Rings
<1>7. \A i \in Nat : ((old_dbs[s] + i) % QSize) = ((d + i) % QSize)
  BY <1>3, <1>6, ModAdd
<1>8. ToDispatch(s)' = p - n
  <2>1. old_dbs'[s] = (old_dbs[s] + n) % QSize /\ dbs'[s] = dbs[s]
    BY <1>4, <1>5 DEF TypeOK
  <2>2. Span(dbs[s], (old_dbs[s] + n) % QSize, QSize) = Span(dbs[s], old_dbs[s], QSize) - n
    BY <1>1, <1>2, <1>3, SpanOld DEF ToDispatch
  <2> QED
    BY <1>1, <2>1, <2>2 DEF ToDispatch
<1>9. Dispatched(s)' = d + n
  <2>1. Dispatched(s)' = sent'[s] - ToDispatch(s)'
    BY DEF Dispatched
  <2>2. sent'[s] = m
    BY <1>1, <1>4
  <2>3. m - (p - n) = d + n
    BY <1>1, <1>2
  <2> QED
    BY <1>8, <2>1, <2>2, <2>3
<1>10. \A t \in SQs : t # s => Dispatched(t)' = Dispatched(t)
  <2> SUFFICES ASSUME NEW t \in SQs, t # s PROVE Dispatched(t)' = Dispatched(t)
    OBVIOUS
  <2>1. old_dbs'[t] = old_dbs[t]
    BY <1>5 DEF TypeOK
  <2> QED
    BY <1>4, <2>1 DEF Dispatched, ToDispatch
<1>11. \A i \in 0 .. n - 1 : sqRing[s][((d + i) % QSize)] = d + i + 1
  <2> TAKE i \in 0 .. n - 1
  <2>1. PICK c \in 1 .. m : c = d + i + 1 /\ c - 1 = d + i /\ m - c < QSize
    <3>1. p \in Nat /\ p < QSize /\ QSize \in Nat /\ i \in Nat /\ i < n
      BY <1>2, Sizes
    <3>2. /\ d + i + 1 \in 1 .. m /\ (d + i + 1) - 1 = d + i
          /\ m - (d + i + 1) < QSize
      BY <1>1, <1>2, <3>1
    <3> QED
      BY <3>2
  <2>2. sqRing[s][((c - 1) % QSize)] = c
    BY <1>1, <2>1 DEF Rings
  <2> QED
    BY <2>1, <2>2
<1>12. \A i \in 0 .. n - 1 :
           NewWork(s, (old_dbs[s] + i) % QSize) =
               [sq |-> s, slot |-> ((d + i) % QSize),
                cmd |-> d + i + 1, copied |-> FALSE, read |-> NoCmd]
  <2>1. \A i \in 0 .. n - 1 : i \in Nat
    OBVIOUS
  <2> QED
    BY <1>7, <1>11, <2>1 DEF NewWork
<1>13. d + n <= m
  BY <1>1, <1>2
<1> QED
  BY <1>1, <1>2, <1>5, <1>7, <1>9, <1>10, <1>12, <1>13

(* nvmev_proc_io_sq() moves the next commands of a ring to their worker.   *)
LEMMA DispatchBody ==
    ASSUME TypeOK, Body, NEW s \in SQs, NEW n \in 0 .. QSize - 1, Dispatch(s, n)
    PROVE  Body'
<1>0. Rings
  BY DEF Body
<1>1. PICK d \in Nat, m \in Nat : d = Dispatched(s) /\ m = sent[s] /\ d + n <= m
  BY <1>0, DispatchFacts
<1>2. PICK N : N = {NewWork(s, (old_dbs[s] + i) % QSize) : i \in 0 .. n - 1}
  OBVIOUS
<1>3. work' = work \union N
  BY <1>2 DEF Dispatch
<1>4. /\ n \in Nat /\ Dispatched(s)' = d + n
      /\ \A t \in SQs : t # s => Dispatched(t)' = Dispatched(t)
      /\ old_dbs' = [old_dbs EXCEPT ![s] = (d + n) % QSize]
  BY <1>0, <1>1, DispatchFacts
<1>5. \A w \in N : \E i \in 0 .. n - 1 :
          w.sq = s /\ w.cmd = d + i + 1 /\ w.slot = ((d + i) % QSize) /\ w.read = NoCmd
                   /\ w.copied = FALSE
                   /\ w = [sq |-> s, slot |-> ((d + i) % QSize), cmd |-> d + i + 1,
                           copied |-> FALSE, read |-> NoCmd]
  <2>1. \A i \in 0 .. n - 1 :
            NewWork(s, (old_dbs[s] + i) % QSize) =
               [sq |-> s, slot |-> ((d + i) % QSize),
                cmd |-> d + i + 1, copied |-> FALSE, read |-> NoCmd]
    BY <1>0, <1>1, DispatchFacts
  <2> SUFFICES ASSUME NEW w \in N
               PROVE  \E i \in 0 .. n - 1 :
                          w = [sq |-> s, slot |-> ((d + i) % QSize), cmd |-> d + i + 1,
                               copied |-> FALSE, read |-> NoCmd]
    OBVIOUS
  <2>2. PICK i \in 0 .. n - 1 : w = NewWork(s, (old_dbs[s] + i) % QSize)
    BY <1>2
  <2> QED
    BY <2>1, <2>2
<1>6. UNCHANGED <<sent, sqRing, out, got, cHead, cPhase, dbs, cq, cq_head, phase, lock>>
  BY DEF Dispatch, hostVars, cqVars
<1>7. Pending' = Pending /\ PostHead' = PostHead /\ PostPhase' = PostPhase
  BY <1>6 DEF Pending, PostHead, PostPhase, TurnedPhase
<1>8. Phases' /\ AnsweredOnce'
  BY <1>6, <1>7 DEF Body, Phases, AnsweredOnce
<1>9. Rings'
  <2> SUFFICES ASSUME NEW t \in SQs
               PROVE  /\ Dispatched(t)' \in 0 .. sent'[t]
                      /\ dbs'[t] = (sent'[t] % QSize)
                      /\ old_dbs'[t] = (Dispatched(t)' % QSize)
                      /\ \A c \in 1 .. sent'[t] :
                           sent'[t] - c < QSize => sqRing'[t][((c - 1) % QSize)] = c
    BY DEF Rings
  <2>1. CASE t = s
    <3>1. Dispatched(t)' = d + n /\ d + n \in 0 .. sent[t]
      BY <1>1, <1>4, <2>1
    <3>2. old_dbs'[t] = ((d + n) % QSize)
      BY <1>4, <2>1 DEF TypeOK
    <3> QED
      BY <1>6, <3>1, <3>2 DEF Body, Rings
  <2>2. CASE t # s
    <3>1. Dispatched(t)' = Dispatched(t) /\ old_dbs'[t] = old_dbs[t]
      BY <1>4, <2>2 DEF TypeOK
    <3> QED
      BY <1>6, <3>1 DEF Body, Rings
  <2> QED
    BY <2>1, <2>2
<1>10. d + 1 .. m \subseteq out[s]
  BY <1>1 DEF Body, Outstanding
<1>11. Outstanding'
  <2> SUFFICES ASSUME NEW t \in SQs
               PROVE  (Dispatched(t)' + 1 .. sent[t]) \subseteq out[t]
    BY <1>6 DEF Body, Outstanding
  <2>1. CASE t = s
    <3>1. (d + n + 1 .. m) \subseteq (d + 1 .. m)
      BY <1>4
    <3> QED
      BY <1>1, <1>4, <1>10, <2>1, <3>1
  <2>2. CASE t # s
    BY <1>4, <2>2 DEF Body, Outstanding
  <2> QED
    BY <2>1, <2>2
<1>12. \A w \in N : w.sq = s /\ w.cmd \in d + 1 .. d + n /\ w.slot = ((w.cmd - 1) % QSize)
  <2> TAKE w \in N
  <2>1. PICK i \in 0 .. n - 1 : w.sq = s /\ w.cmd = d + i + 1 /\ w.slot = ((d + i) % QSize)
    BY <1>5
  <2>2. d + i + 1 \in d + 1 .. d + n /\ (d + i + 1) - 1 = d + i
    BY <1>4
  <2> QED
    BY <2>1, <2>2
<1>13. \A v, w \in N : v.cmd = w.cmd => v = w
  <2> SUFFICES ASSUME NEW v \in N, NEW w \in N, v.cmd = w.cmd PROVE v = w
    OBVIOUS
  <2>1. PICK i \in 0 .. n - 1 :
            v = [sq |-> s, slot |-> ((d + i) % QSize), cmd |-> d + i + 1,
                 copied |-> FALSE, read |-> NoCmd]
    BY <1>5
  <2>2. PICK j \in 0 .. n - 1 :
            w = [sq |-> s, slot |-> ((d + j) % QSize), cmd |-> d + j + 1,
                 copied |-> FALSE, read |-> NoCmd]
    BY <1>5
  <2>3. d + i + 1 = d + j + 1
    BY <2>1, <2>2
  <2>4. i = j
    BY <2>3
  <2> QED
    BY <2>1, <2>2, <2>4
<1>14. \A t \in SQs : Dispatched(t) \in Int /\ Dispatched(t)' \in Int
                      /\ Dispatched(t) <= Dispatched(t)'
  BY <1>1, <1>4, ToDispatchType
<1>15. \A w \in work : w.sq \in SQs /\ w.cmd \in Int
  BY EntryTypes
<1>16. \A t \in SQs, c \in Int : c <= Dispatched(t) => c <= Dispatched(t)'
  BY <1>14
<1>17. AtWorker'
  <2>1. \A w \in work : w.cmd \in out[w.sq] /\ w.cmd <= Dispatched(w.sq)'
                        /\ w.slot = ((w.cmd - 1) % QSize)
    BY <1>15, <1>16 DEF Body, AtWorker
  <2>2. \A w \in N : w.cmd \in out[w.sq] /\ w.cmd <= Dispatched(w.sq)'
                     /\ w.slot = ((w.cmd - 1) % QSize)
    <3>1. \A c \in d + 1 .. d + n : c \in d + 1 .. m /\ c <= d + n
      BY <1>1, <1>4
    <3> QED
      BY <1>4, <1>10, <1>12, <3>1
  <2>3. \A v \in work, w \in N : ~(v.sq = w.sq /\ v.cmd = w.cmd)
    <3>1. \A v \in work : v.sq = s => v.cmd <= d /\ v.cmd \in Int
      BY <1>1, <1>15 DEF Body, AtWorker
    <3> QED
      BY <1>12, <3>1
  <2>4. \A v, w \in work : v.sq = w.sq /\ v.cmd = w.cmd => v = w
    BY DEF Body, AtWorker
  <2>5. \A w \in work' : w.cmd \in out'[w.sq] /\ w.cmd <= Dispatched(w.sq)'
                         /\ w.slot = ((w.cmd - 1) % QSize)
    BY <1>3, <1>6, <2>1, <2>2
  <2>6. \A v, w \in work' : v.sq = w.sq /\ v.cmd = w.cmd => v = w
    BY <1>3, <1>13, <2>3, <2>4
  <2> QED
    BY <2>5, <2>6 DEF AtWorker
<1>18. Posted'
  <2>1. \A i \in Pending : cq[i].sq \in SQs /\ cq[i].cmd \in Int
    BY EntryTypes
  <2>2. \A i \in Pending : cq[i].cmd <= Dispatched(cq[i].sq)'
    <3>1. \A i \in Pending : cq[i].cmd <= Dispatched(cq[i].sq)
      BY DEF Body, Posted
    <3> QED
      BY <1>6, <1>16, <2>1, <3>1
  <2>3. \A i \in Pending : \A w \in N : ~(cq[i].sq = w.sq /\ cq[i].cmd = w.cmd)
    <3>1. \A i \in Pending : cq[i].sq = s => cq[i].cmd <= d /\ cq[i].cmd \in Int
      BY <1>1, <2>1 DEF Body, Posted
    <3> QED
      BY <1>12, <3>1
  <2> QED
    BY <1>3, <1>6, <1>7, <2>2, <2>3 DEF Body, Posted
<1> QED
  BY <1>8, <1>9, <1>11, <1>17, <1>18 DEF Body
-----------------------------------------------------------------------------
(* A worker posts an entry. *)

\* A worker's command w goes to slot h of the completion queue.
Posts(s, w, h) ==
    /\ lock = 0 /\ w \in work /\ w.sq = s /\ h = cq_head
    /\ cq' = [cq EXCEPT ![h] = [cmd |-> w.cmd, sq |-> s, phase |-> phase]]
    /\ work' = work \ {w} /\ lock' = s
    /\ UNCHANGED <<hostVars, dbVars, cq_head, phase>>

(* What FillEntry changes.                                                 *)
LEMMA FillPosts ==
    ASSUME NEW s \in SQs, FillEntry(s)
    PROVE  \E w \in work : /\ Posts(s, w, cq_head) /\ w.copied
                           /\ \A u \in work : (u.sq = s /\ ~u.copied /\ u.cmd < w.cmd)
                                     => Cardinality(Overtakers(u)) < MaxOvertake
  BY DEF FillEntry, Posts, Left

(* The slot at the head is not pending before, and is afterwards; the      *)
(* workers have gone one slot further.                                     *)
LEMMA PostsHead ==
    ASSUME TypeOK, Phases, NEW s \in SQs, NEW w, NEW h, Posts(s, w, h)
    PROVE  /\ h \in Slots \ Pending /\ Pending' = Pending \union {h}
           /\ h = PostHead /\ phase = PostPhase
           /\ PostHead' = NextHead(h) /\ PostPhase' = NextPhase(h, phase)
           /\ cq'[h] = [cmd |-> w.cmd, sq |-> s, phase |-> phase]
           /\ \A i \in Slots : i # h => cq'[i] = cq[i]
<1>1. h \in Slots /\ phase \in {0, 1} /\ cHead \in Slots /\ cPhase \in {0, 1} /\ cq_head = h
  BY PostTypes DEF Posts, TypeOK, Slots
<1>2. h = PostHead /\ phase = PostPhase
  BY <1>1 DEF Posts, PostHead, PostPhase
<1>3. s # 0
  BY DEF SQs
<1>4. /\ cq'[h] = [cmd |-> w.cmd, sq |-> s, phase |-> phase]
      /\ \A i \in Slots : i # h => cq'[i] = cq[i]
  BY <1>1 DEF Posts, TypeOK, Slots
<1>5. PostHead' = NextHead(h) /\ PostPhase' = NextPhase(h, phase)
  <2>1. lock' # 0 /\ cq_head' = h /\ phase' = phase
    BY <1>1, <1>3 DEF Posts
  <2>2. PostHead' = NextHead(h)
    BY <2>1 DEF PostHead, NextHead
  <2>3. NextHead(h) = 0 <=> h + 1 = CQSize
    BY <1>1, HeadStep, Sizes DEF Slots
  <2>4. PostPhase' = IF NextHead(h) = 0 THEN 1 - phase ELSE phase
    BY <2>1 DEF PostPhase, TurnedPhase, NextHead
  <2> QED
    BY <2>2, <2>3, <2>4 DEF NextPhase
<1>6. cHead' = cHead /\ cPhase' = cPhase
  BY DEF Posts, hostVars
<1>7. PICK p : p = IF h < cHead THEN 1 - cPhase ELSE cPhase
  OBVIOUS
<1>8. phase = p
  <2>1. IF cPhase = phase THEN cHead <= h ELSE h < cHead
    BY <1>2 DEF Phases
  <2>2. cHead <= h => ~(h < cHead)
    BY <1>1 DEF Slots
  <2> QED
    BY <1>1, <1>7, <2>1, <2>2
<1>9. h \in Pending'
  BY <1>1, <1>4, <1>6, <1>7, <1>8 DEF Pending
<1>10. h \notin Pending
  <2>1. cq[h].phase = 1 - phase
    <3>1. ~(h < h)
      BY <1>1 DEF Slots
    <3> QED
      BY <1>1, <1>2, <3>1 DEF Phases
  <2>2. 1 - phase # phase
    BY <1>1
  <2> QED
    BY <1>7, <1>8, <2>1, <2>2 DEF Pending
<1>11. \A i \in Slots : i # h => (i \in Pending' <=> i \in Pending)
  BY <1>4, <1>6 DEF Pending
<1>12. Pending \subseteq Slots /\ Pending' \subseteq Slots
  BY DEF Pending, Slots
<1> QED
  BY <1>1, <1>2, <1>4, <1>5, <1>9, <1>10, <1>11, <1>12

(* Every command stays in one place.                                       *)
LEMMA PostsPlaces ==
    ASSUME TypeOK, Body, NEW s \in SQs, NEW w, NEW h, Posts(s, w, h)
    PROVE  AtWorker' /\ Posted'
<1>1. /\ h \in Slots \ Pending /\ Pending' = Pending \union {h}
      /\ cq'[h] = [cmd |-> w.cmd, sq |-> s, phase |-> phase]
      /\ \A i \in Slots : i # h => cq'[i] = cq[i]
  BY PostsHead DEF Body
<1>2. w \in work /\ w.sq = s /\ work' = work \ {w}
      /\ UNCHANGED <<sent, sqRing, out, got, cHead, cPhase, dbs, old_dbs>>
  BY DEF Posts, hostVars, dbVars
<1>3. \A t : Dispatched(t)' = Dispatched(t)
  BY <1>2 DEF Dispatched, ToDispatch
<1>4. AtWorker'
  BY <1>2, <1>3 DEF Body, AtWorker
<1>5. \A i \in Pending : cq'[i] = cq[i] /\ i # h
  BY <1>1, EntryTypes
<1>6. cq'[h].cmd = w.cmd /\ cq'[h].sq = w.sq
  BY <1>1, <1>2
<1>7. \A i \in Pending : ~(cq[i].sq = w.sq /\ cq[i].cmd = w.cmd)
  BY <1>2 DEF Body, Posted
<1>8. \A i \in Pending' : /\ cq'[i].cmd \in out[cq'[i].sq]
                          /\ cq'[i].cmd <= Dispatched(cq'[i].sq)
  <2>1. w.cmd \in out[w.sq] /\ w.cmd <= Dispatched(w.sq)
    BY <1>2 DEF Body, AtWorker
  <2>2. \A i \in Pending : cq[i].cmd \in out[cq[i].sq] /\ cq[i].cmd <= Dispatched(cq[i].sq)
    BY DEF Body, Posted
  <2> QED
    BY <1>1, <1>5, <1>6, <2>1, <2>2
<1>9. \A i, j \in Pending' : cq'[i].sq = cq'[j].sq /\ cq'[i].cmd = cq'[j].cmd => i = j
  <2>1. \A i, j \in Pending : cq[i].sq = cq[j].sq /\ cq[i].cmd = cq[j].cmd => i = j
    BY DEF Body, Posted
  <2> QED
    BY <1>1, <1>5, <1>6, <1>7, <2>1
<1>10. \A i \in Pending' : \A u \in work' : ~(cq'[i].sq = u.sq /\ cq'[i].cmd = u.cmd)
  <2>1. \A i \in Pending : \A u \in work : ~(cq[i].sq = u.sq /\ cq[i].cmd = u.cmd)
    BY DEF Body, Posted
  <2>2. \A u \in work' : ~(w.sq = u.sq /\ w.cmd = u.cmd)
    BY <1>2 DEF Body, AtWorker
  <2> QED
    BY <1>1, <1>2, <1>5, <1>6, <2>1, <2>2
<1>11. Posted'
  BY <1>2, <1>3, <1>8, <1>9, <1>10 DEF Posted
<1> QED
  BY <1>4, <1>11

(* There are fewer commands outstanding than slots.                        *)
LEMMA NotAllPending ==
    ASSUME TypeOK, Outstanding, Posted
    PROVE  Pending # Slots
<1> SUFFICES ASSUME Pending = Slots PROVE FALSE
  OBVIOUS
<1>1. PICK sq : sq = [i \in Slots |-> cq[i].sq]
  OBVIOUS
<1>2. PICK cm : cm = [i \in Slots |-> cq[i].cmd]
  OBVIOUS
<1>3. sq \in [Slots -> SQs]
  BY <1>1, EntryTypes
<1>4. \A i \in Slots : cm[i] \in out[sq[i]]
  BY <1>1, <1>2 DEF Posted
<1>5. \A i, j \in Slots : sq[i] = sq[j] /\ cm[i] = cm[j] => i = j
  BY <1>1, <1>2 DEF Posted
<1>6. \A s \in SQs : Cardinality(out[s]) <= QSize - 1
  BY DEF Outstanding
<1>7. out \in [SQs -> SUBSET Cmds]
  BY DEF TypeOK
<1> QED
  BY <1>3, <1>4, <1>5, <1>6, <1>7, NeverFull

(* So the workers do not lap the host.                                     *)
LEMMA PostsPhases ==
    ASSUME TypeOK, Body, NEW s \in SQs, NEW w, NEW h, Posts(s, w, h), TypeOK'
    PROVE  Phases'
<1>1. /\ h \in Slots \ Pending /\ Pending' = Pending \union {h}
      /\ h = PostHead /\ phase = PostPhase
      /\ PostHead' = NextHead(h) /\ PostPhase' = NextPhase(h, phase)
      /\ cq'[h] = [cmd |-> w.cmd, sq |-> s, phase |-> phase]
      /\ \A i \in Slots : i # h => cq'[i] = cq[i]
  BY PostsHead DEF Body
<1>2. PICK p \in {0, 1}, cp \in {0, 1}, ch \in Slots :
          p = phase /\ cp = cPhase /\ ch = cHead /\ cp = cPhase' /\ ch = cHead'
  BY PostTypes DEF Posts, TypeOK, hostVars
<1>3. h \in Int /\ 0 <= h /\ h < CQSize /\ ch \in Int /\ 0 <= ch /\ ch < CQSize
      /\ CQSize \in Int
  BY <1>1, <1>2, Sizes DEF Slots
<1>4. PICK nh, np : nh = PostHead' /\ np = PostPhase'
  OBVIOUS
<1>5. IF h + 1 = CQSize THEN nh = 0 /\ np = 1 - p ELSE nh = h + 1 /\ np = p
  BY <1>1, <1>2, <1>4, HeadStep DEF NextPhase
<1>6. \A i \in Slots : cq'[i].phase = IF i < nh THEN np ELSE 1 - np
  <2> TAKE i \in Slots
  <2>1. i \in Int /\ 0 <= i /\ i < CQSize
    BY Sizes DEF Slots
  <2>2. cq'[i].phase = IF i <= h THEN p ELSE 1 - p
    <3>1. CASE i = h
      BY <1>1, <1>2, <1>3, <3>1
    <3>2. CASE i # h
      <4>1. cq'[i].phase = IF i < h THEN p ELSE 1 - p
        BY <1>1, <1>2, <3>2 DEF Body, Phases
      <4>2. i <= h <=> i < h
        BY <1>3, <2>1, <3>2
      <4> QED
        BY <4>1, <4>2
    <3> QED
      BY <3>1, <3>2
  <2>3. CASE h + 1 = CQSize
    <3>1. i <= h /\ ~(i < 0)
      BY <1>3, <2>1, <2>3
    <3>2. 1 - (1 - p) = p
      OBVIOUS
    <3> QED
      BY <1>5, <2>2, <2>3, <3>1, <3>2
  <2>4. CASE h + 1 # CQSize
    <3>1. i < h + 1 <=> i <= h
      BY <1>3, <2>1
    <3> QED
      BY <1>5, <2>2, <2>4, <3>1
  <2> QED
    BY <2>3, <2>4
<1>7. Pending' # Slots
  <2>1. Posted'
    BY PostsPlaces
  <2>2. Outstanding'
    <3>1. UNCHANGED <<sent, out, dbs, old_dbs>>
      BY DEF Posts, hostVars, dbVars
    <3>2. \A t : Dispatched(t)' = Dispatched(t)
      BY <3>1 DEF Dispatched, ToDispatch
    <3> QED
      BY <3>1, <3>2 DEF Body, Outstanding
  <2>3. (TypeOK /\ Outstanding /\ Posted => Pending # Slots)'
    BY NotAllPending, PTL
  <2> QED
    BY <2>1, <2>2, <2>3 DEF Slots
<1>8. PICK i \in Slots : i \notin Pending'
  BY <1>7 DEF Pending
<1>9. i \in Int /\ 0 <= i /\ i < CQSize
  BY Sizes DEF Slots
<1>10. (IF i < nh THEN np ELSE 1 - np) # (IF i < ch THEN 1 - cp ELSE cp)
  BY <1>2, <1>6, <1>8 DEF Pending
<1>11. IF cp = p THEN ch <= h ELSE h < ch
  BY <1>1, <1>2 DEF Body, Phases
<1>12. IF cp = np THEN ch <= nh ELSE nh < ch
  <2>1. CASE h + 1 = CQSize
    BY <1>3, <1>5, <1>9, <1>10, <1>11, <2>1
  <2>2. CASE h + 1 # CQSize
    BY <1>3, <1>5, <1>9, <1>10, <1>11, <2>2
  <2> QED
    BY <2>1, <2>2
<1> QED
  BY <1>2, <1>4, <1>6, <1>12 DEF Phases, Slots

(* __fill_cq_result() moves a command from its worker to the queue.        *)
LEMMA FillEntryBody ==
    ASSUME TypeOK, Body, NEW s \in SQs, FillEntry(s), TypeOK'
    PROVE  Body'
<1>1. PICK w \in work : Posts(s, w, cq_head)
  BY FillPosts
<1>2. AtWorker' /\ Posted' /\ Phases'
  BY <1>1, PostsPlaces, PostsPhases
<1>3. UNCHANGED <<sent, sqRing, out, got, dbs, old_dbs>>
  BY <1>1 DEF Posts, hostVars, dbVars
<1>4. \A t : Dispatched(t)' = Dispatched(t)
  BY <1>3 DEF Dispatched, ToDispatch
<1>5. Rings' /\ Outstanding' /\ AnsweredOnce'
  BY <1>3, <1>4 DEF Body, Rings, Outstanding, AnsweredOnce
<1> QED
  BY <1>2, <1>5 DEF Body
-----------------------------------------------------------------------------
(* Every command is answered once. *)

(* The invariant holds at the start ...                                    *)
LEMMA InitBody == Init => Body
<1> SUFFICES ASSUME Init PROVE Body
  OBVIOUS
<1>1. \A s \in SQs : sent[s] = 0 /\ dbs[s] = 0 /\ old_dbs[s] = 0 /\ out[s] = {}
  BY DEF Init
<1>2. \A s \in SQs : ToDispatch(s) = 0 /\ Dispatched(s) = 0
  BY <1>1 DEF ToDispatch, Span, Dispatched
<1>3. (0 % QSize) = 0
  BY Sizes, ModSmall
<1>4. Rings
  BY <1>1, <1>2, <1>3 DEF Rings
<1>5. Outstanding
  <2>1. Cardinality({}) = 0 /\ 0 <= QSize - 1 /\ 0 + 1 .. 0 = {}
    BY FS_EmptySet, Sizes
  <2> QED
    BY <1>1, <1>2, <2>1 DEF Outstanding
<1>6. AtWorker
  BY DEF Init, AtWorker
<1>7. Pending = {}
  <2>1. \A i \in Slots : cq[i].phase = 0 /\ ~(i < 0)
    BY DEF Init, Slots
  <2>2. cHead = 0 /\ cPhase = 1
    BY DEF Init
  <2> QED
    BY <2>1, <2>2 DEF Pending
<1>8. Posted
  BY <1>7 DEF Posted
<1>9. Phases
  <2>1. \A i \in Slots : cq[i].phase = 0 /\ ~(i < 0)
    BY DEF Init, Slots
  <2>2. PostHead = 0 /\ PostPhase = 1 /\ cHead = 0 /\ cPhase = 1
    BY DEF Init, PostHead, PostPhase
  <2> QED
    BY <2>1, <2>2 DEF Phases
<1>10. AnsweredOnce
  <2>1. \A s \in SQs, c \in Cmds : got[s][c] = 0 /\ ~(c <= 0)
    BY DEF Init, Cmds
  <2> QED
    BY <1>1, <2>1 DEF AnsweredOnce
<1> QED
  BY <1>4, <1>5, <1>6, <1>8, <1>9, <1>10 DEF Body

(* ... and after every step.                                               *)
LEMMA BodyStep == TypeOK /\ Body /\ [Next]_vars => TypeOK' /\ Body'
<1> SUFFICES ASSUME TypeOK, Body, [Next]_vars PROVE TypeOK' /\ Body'
  OBVIOUS
<1>1. TypeOK'
  BY TypeStep
<1>2. ASSUME UNCHANGED ringVars PROVE Body'
  BY <1>2, BodyUnchanged
<1>3. ASSUME NEW s \in SQs, HostSubmit(s) PROVE Body'
  BY <1>3, SubmitRings, SubmitOutstanding, SubmitRest DEF Body
<1>4. CASE HostReap
  BY <1>1, <1>4, ReapBody
<1>5. ASSUME NEW s \in SQs, nvmev_proc_io_sq(s) PROVE Body'
  BY <1>5, DispatchBody DEF nvmev_proc_io_sq
<1>6. ASSUME NEW s \in SQs, Worker(s) PROVE Body'
  BY <1>1, <1>6, CopyStep, FillEntryBody, FillDoneStep DEF Worker
<1> QED
  BY <1>1, <1>2, <1>3, <1>4, <1>5, <1>6, OtherSteps DEF Next, Host, nvmev_proc_dbs

(* Over the wraps of both rings and with any number of workers posting to  *)
(* one completion queue, each command is answered at most once, and is     *)
(* outstanding until then.                                                 *)
THEOREM AnswersOnce == Spec => []AnsweredOnce
<1>1. Init => TypeOK /\ Body
  BY InitType, InitBody
<1>2. TypeOK /\ Body /\ [Next]_vars => (TypeOK /\ Body)'
  BY BodyStep
<1>3. Body => AnsweredOnce
  BY DEF Body
<1> QED
  BY <1>1, <1>2, <1>3, PTL DEF Spec
-----------------------------------------------------------------------------
(* Every worker carries out its own command. *)

\* Few commands of a queue have been posted before an earlier one was copied.
Overtaken == \A u \in work : ~u.copied => Cardinality(Overtakers(u)) <= MaxOvertake

\* A command not yet copied is still in the ring.
InRingYet == \A u \in work : ~u.copied => sent[u.sq] - u.cmd < QSize

Copies == Overtaken /\ InRingYet /\ CopiesItsCommand

CmdsAt(q) == {w.cmd : w \in {v \in work : v.sq = q}}

(* Which commands have passed u.                                           *)
LEMMA OvertakersMember ==
    ASSUME TypeOK, NEW u \in work, NEW c \in Int
    PROVE  c \in Overtakers(u) <=> u.cmd < c /\ c <= Dispatched(u.sq) /\ c \notin CmdsAt(u.sq)
<1>1. PICK a \in Int, d \in Int : a = u.cmd /\ d = Dispatched(u.sq)
  BY EntryTypes, ToDispatchType
<1>2. Overtakers(u) = (a + 1 .. d) \ CmdsAt(u.sq)
  BY <1>1 DEF Overtakers, CmdsAt, Dispatched
<1>3. c \in a + 1 .. d <=> a < c /\ c <= d
  OBVIOUS
<1> QED
  BY <1>1, <1>2, <1>3

(* Finitely many commands pass u.                                          *)
LEMMA OvertakersFinite ==
    ASSUME TypeOK, NEW u \in work
    PROVE  /\ IsFiniteSet(Overtakers(u)) /\ Cardinality(Overtakers(u)) \in Nat
           /\ Overtakers(u) \subseteq Int
<1>1. PICK a \in Int, d \in Int : a = u.cmd /\ d = Dispatched(u.sq)
  BY EntryTypes, ToDispatchType
<1>2. Overtakers(u) \in SUBSET (a + 1 .. d)
  BY <1>1 DEF Overtakers, Dispatched
<1>3. IsFiniteSet(a + 1 .. d)
  <2>1. a + 1 \in Int
    OBVIOUS
  <2> QED
    BY <2>1, FS_Interval
<1> QED
  BY <1>2, <1>3, FS_Subset, FS_CardinalityType

(* The host has no room to send the command that would take u's slot:      *)
(* of the commands from u on, all but u's overtakers are outstanding.      *)
LEMMA SlotKept ==
    ASSUME MaxOvertake <= 1, TypeOK, Rings, Outstanding, AtWorker, Overtaken,
           NEW u \in work, ~u.copied, sent[u.sq] - u.cmd < QSize,
           Cardinality(out[u.sq]) < QSize - 1
    PROVE  (sent[u.sq] + 1) - u.cmd < QSize
<1> SUFFICES ASSUME ~((sent[u.sq] + 1) - u.cmd < QSize) PROVE FALSE
  OBVIOUS
<1>1. PICK q \in SQs, a \in Int, n \in Nat, d \in Int :
          q = u.sq /\ a = u.cmd /\ n = sent[u.sq] /\ d = Dispatched(u.sq)
  <2>1. u.sq \in SQs /\ u.cmd \in Int
    BY EntryTypes
  <2>2. sent[u.sq] \in 0 .. MaxCmds /\ Dispatched(u.sq) \in Int
    BY <2>1, ToDispatchType
  <2> QED
    BY <2>1, <2>2
<1>2. n - a + 1 = QSize
  <2>1. n - a < QSize /\ ~((n + 1) - a < QSize) /\ QSize \in Int
    BY <1>1, Sizes
  <2> QED
    BY <2>1
<1>3. IsFiniteSet(a .. n) /\ Cardinality(a .. n) = QSize
  <2>1. Cardinality(a .. n) = IF a > n THEN 0 ELSE n - a + 1
    BY FS_Interval
  <2>2. ~(a > n)
    BY <1>2, Sizes
  <2> QED
    BY <1>2, <2>1, <2>2, FS_Interval
<1>4. PICK S, T : S = out[q] /\ T = Overtakers(u)
  OBVIOUS
<1>5. IsFiniteSet(S) /\ IsFiniteSet(T) /\ Cardinality(S) \in Nat /\ Cardinality(T) \in Nat
  BY <1>4, FiniteOut, OvertakersFinite
<1>6. (a .. n) \in SUBSET (S \union T)
  <2> SUFFICES ASSUME NEW c \in a .. n, c \notin S PROVE c \in T
    OBVIOUS
  <2>1. c \in Int /\ a <= c /\ c <= n
    OBVIOUS
  <2>2. c # a
    BY <1>1, <1>4 DEF AtWorker
  <2>3. c <= d
    <3>1. (d + 1 .. n) \subseteq S
      BY <1>1, <1>4 DEF Outstanding
    <3> QED
      BY <2>1, <3>1
  <2>4. c \notin CmdsAt(q)
    BY <1>4 DEF CmdsAt, AtWorker
  <2>5. a < c
    BY <2>1, <2>2
  <2> QED
    BY <1>1, <1>4, <2>1, <2>3, <2>4, <2>5, OvertakersMember
<1>7. /\ IsFiniteSet(S \union T) /\ Cardinality(S \union T) \in Nat
      /\ Cardinality(S \union T) <= Cardinality(S) + Cardinality(T)
  <2>1. PICK U : U = S \cap T
    OBVIOUS
  <2>2. IsFiniteSet(U) /\ Cardinality(U) \in Nat
    BY <1>5, <2>1, FS_Intersection, FS_CardinalityType
  <2>3. /\ IsFiniteSet(S \union T)
        /\ Cardinality(S \union T) = Cardinality(S) + Cardinality(T) - Cardinality(U)
    BY <1>5, <2>1, FS_Union
  <2>4. Cardinality(S \union T) \in Nat
    BY <2>3, FS_CardinalityType
  <2> QED
    BY <1>5, <2>2, <2>3, <2>4
<1>8. QSize <= Cardinality(S \union T)
  BY <1>3, <1>6, <1>7, FS_Subset
<1>9. Cardinality(S) < QSize - 1 /\ Cardinality(T) <= MaxOvertake
  BY <1>1, <1>4 DEF Overtaken
<1>10. Cardinality(T) <= 1
  BY <1>5, <1>9, Sizes
<1> QED
  BY <1>5, <1>7, <1>8, <1>9, <1>10, Sizes

(* Steps that neither dispatch nor post leave the overtakers alone.        *)
LEMMA OvertakenUnchanged ==
    ASSUME TypeOK, Overtaken, UNCHANGED work,
           \A s \in SQs : Dispatched(s)' = Dispatched(s)
    PROVE  Overtaken'
<1>1. \A u \in work : Overtakers(u)' = Overtakers(u)
  <2> TAKE u \in work
  <2>1. u.sq \in SQs
    BY EntryTypes
  <2>2. Overtakers(u) = (u.cmd + 1 .. Dispatched(u.sq)) \ CmdsAt(u.sq)
    BY DEF Overtakers, CmdsAt, Dispatched
  <2>3. Overtakers(u)' = (u.cmd + 1 .. Dispatched(u.sq)') \ CmdsAt(u.sq)
    BY DEF Overtakers, CmdsAt, Dispatched
  <2> QED
    BY <2>1, <2>2, <2>3
<1> QED
  BY <1>1 DEF Overtaken

(* With at most one overtaker, no command not yet copied loses its slot to *)
(* a new one.                                                              *)
LEMMA SubmitCopies ==
    ASSUME MaxOvertake <= 1, TypeOK, Body, Copies, NEW s \in SQs, HostSubmit(s)
    PROVE  Copies'
<1>1. work' = work /\ Cardinality(out[s]) < QSize - 1
  BY DEF HostSubmit
<1>2. /\ sent' = [sent EXCEPT ![s] = sent[s] + 1]
      /\ \A t \in SQs : Dispatched(t)' = Dispatched(t)
  BY SubmitFacts DEF Body
<1>3. \A u \in work : u.sq \in SQs
  BY EntryTypes
<1>4. Overtaken'
  BY <1>1, <1>2, OvertakenUnchanged DEF Copies
<1>5. \A t \in SQs : sent'[t] = IF t = s THEN sent[s] + 1 ELSE sent[t]
  BY <1>2 DEF TypeOK
<1>6. \A u \in work : ~u.copied => sent'[u.sq] - u.cmd < QSize
  <2> SUFFICES ASSUME NEW u \in work, ~u.copied PROVE sent'[u.sq] - u.cmd < QSize
    OBVIOUS
  <2>1. sent[u.sq] - u.cmd < QSize
    BY DEF Copies, InRingYet
  <2>2. CASE u.sq = s
    <3>1. (sent[u.sq] + 1) - u.cmd < QSize
      BY <1>1, <2>1, <2>2, SlotKept DEF Body, Copies
    <3> QED
      BY <1>5, <2>2, <3>1
  <2>3. CASE u.sq # s
    BY <1>3, <1>5, <2>1, <2>3
  <2> QED
    BY <2>2, <2>3
<1>7. InRingYet'
  BY <1>1, <1>6 DEF InRingYet
<1>8. CopiesItsCommand'
  BY <1>1 DEF Copies, CopiesItsCommand
<1> QED
  BY <1>4, <1>7, <1>8 DEF Copies

(* Steps that send nothing and touch no work.                              *)
LEMMA SentOrWorkUnchanged ==
    ASSUME TypeOK, Copies, UNCHANGED <<sent, work, dbs, old_dbs>>
    PROVE  Copies'
<1>1. \A s \in SQs : Dispatched(s)' = Dispatched(s)
  BY DEF Dispatched, ToDispatch
<1>2. Overtaken'
  BY <1>1, OvertakenUnchanged DEF Copies
<1> QED
  BY <1>2 DEF Copies, InRingYet, CopiesItsCommand

(* __do_perform_io() reads the command from a slot that still holds it.    *)
LEMMA CopyCopies ==
    ASSUME TypeOK, TypeOK', Body, Copies, NEW s \in SQs, Copy(s)
    PROVE  Copies'
<1>1. PICK w \in work :
          /\ w.sq = s /\ ~w.copied
          /\ work' = (work \ {w}) \union
                        {[w EXCEPT !.copied = TRUE, !.read = sqRing[s][w.slot]]}
          /\ UNCHANGED <<hostVars, dbVars, cqVars, statVars>>
  BY DEF Copy
<1>2. PICK x : x = [w EXCEPT !.copied = TRUE, !.read = sqRing[s][w.slot]]
  OBVIOUS
<1>3. x.sq = w.sq /\ x.cmd = w.cmd /\ x.copied = TRUE /\ x.read = sqRing[s][w.slot]
  <2>1. w \in Works
    BY EntryTypes
  <2> QED
    BY <1>2, <2>1 DEF Works
<1>4. work' = (work \ {w}) \union {x}
  BY <1>1, <1>2
<1>5. UNCHANGED <<sent, dbs, old_dbs>>
  BY <1>1 DEF hostVars, dbVars
<1>6. \A q : Dispatched(q)' = Dispatched(q)
  BY <1>5 DEF Dispatched, ToDispatch
<1>7. \A q : CmdsAt(q)' = CmdsAt(q)
  BY <1>3, <1>4 DEF CmdsAt
<1>8. \A u \in work' : ~u.copied => u \in work
  BY <1>3, <1>4
<1>9. \A u : Overtakers(u)' = Overtakers(u)
  <2> TAKE u
  <2>1. Overtakers(u) = (u.cmd + 1 .. Dispatched(u.sq)) \ CmdsAt(u.sq)
    BY DEF Overtakers, CmdsAt, Dispatched
  <2>2. Overtakers(u)' = (u.cmd + 1 .. Dispatched(u.sq)') \ CmdsAt(u.sq)'
    BY DEF Overtakers, CmdsAt, Dispatched
  <2> QED
    BY <1>6, <1>7, <2>1, <2>2
<1>10. Overtaken' /\ InRingYet'
  BY <1>5, <1>8, <1>9 DEF Copies, Overtaken, InRingYet
<1>11. sqRing[s][w.slot] = w.cmd
  <2>1. w.slot = ((w.cmd - 1) % QSize) /\ w.cmd \in 1 .. sent[s] /\ sent[s] - w.cmd < QSize
    BY <1>1 DEF Body, AtWorker, Outstanding, Copies, InRingYet
  <2> QED
    BY <2>1 DEF Body, Rings
<1>12. CopiesItsCommand'
  BY <1>3, <1>4, <1>11 DEF Copies, CopiesItsCommand
<1> QED
  BY <1>10, <1>12 DEF Copies

(* A posted command may pass those of its queue not yet copied.            *)
LEMMA FillCopies ==
    ASSUME TypeOK, Body, Copies, NEW s \in SQs, FillEntry(s)
    PROVE  Copies'
<1>1. PICK w \in work : /\ Posts(s, w, cq_head)
                        /\ w.copied
                        /\ \A u \in work : (u.sq = s /\ ~u.copied /\ u.cmd < w.cmd)
                                 => Cardinality(Overtakers(u)) < MaxOvertake
  BY FillPosts
<1>2. w.sq = s /\ work' = work \ {w} /\ UNCHANGED <<sent, dbs, old_dbs>>
  BY <1>1 DEF Posts, hostVars, dbVars
<1>3. \A q : Dispatched(q)' = Dispatched(q)
  BY <1>2 DEF Dispatched, ToDispatch
<1>4. ASSUME NEW u \in work, ~u.copied
      PROVE  Cardinality(Overtakers(u)') <= MaxOvertake
  <2>1. u.cmd \in Int /\ u.sq \in SQs /\ w.cmd \in Int
    BY EntryTypes
  <2>2. PICK R : R = u.cmd + 1 .. Dispatched(u.sq)
    OBVIOUS
  <2>3. PICK C, D : C = CmdsAt(u.sq) /\ D = CmdsAt(u.sq)'
    OBVIOUS
  <2>4. Overtakers(u) = R \ C /\ Overtakers(u)' = R \ D
    BY <1>3, <2>2, <2>3 DEF Overtakers, CmdsAt, Dispatched
  <2>5. PICK S : S = R \ C
    OBVIOUS
  <2>6. IsFiniteSet(S) /\ Cardinality(S) \in Nat /\ Cardinality(S) <= MaxOvertake
    BY <1>4, <2>4, <2>5, OvertakersFinite DEF Copies, Overtaken
  <2>7. CASE (R \ D) \subseteq S
    <3>1. IsFiniteSet(R \ D) /\ Cardinality(R \ D) <= Cardinality(S)
      BY <2>6, <2>7, FS_Subset
    <3>2. Cardinality(R \ D) \in Nat
      BY <3>1, FS_CardinalityType
    <3> QED
      BY <2>4, <2>6, <3>1, <3>2, Sizes
  <2>8. CASE ~((R \ D) \subseteq S)
    <3>1. PICK c : c \in R /\ c \in C /\ c \notin D
      BY <2>5, <2>8
    <3>2. c = w.cmd /\ u.sq = s
      BY <1>2, <2>3, <3>1 DEF CmdsAt
    <3>3. u.cmd < w.cmd
      BY <2>1, <2>2, <3>1, <3>2
    <3>4. Cardinality(S) < MaxOvertake
      BY <1>1, <1>4, <2>4, <2>5, <3>2, <3>3
    <3>5. \A e : e \in C /\ e \notin D => e = w.cmd
      BY <1>2, <2>3 DEF CmdsAt
    <3>6. (R \ D) \subseteq S \union {w.cmd}
      BY <2>5, <3>5
    <3>7. PICK T : T = S \union {w.cmd}
      OBVIOUS
    <3>8. IsFiniteSet(T) /\ Cardinality(T) <= Cardinality(S) + 1 /\ Cardinality(T) \in Nat
      <4>1. IsFiniteSet(T) /\ Cardinality(T) = IF w.cmd \in S THEN Cardinality(S)
                                               ELSE Cardinality(S) + 1
        BY <2>6, <3>7, FS_AddElement
      <4> QED
        BY <2>6, <4>1
    <3>9. IsFiniteSet(R \ D) /\ Cardinality(R \ D) <= Cardinality(T)
      BY <3>6, <3>7, <3>8, FS_Subset
    <3>10. Cardinality(R \ D) \in Nat
      BY <3>9, FS_CardinalityType
    <3> QED
      BY <2>4, <2>6, <3>4, <3>8, <3>9, <3>10, Sizes
  <2> QED
    BY <2>7, <2>8
<1>5. Overtaken'
  <2> SUFFICES ASSUME NEW u \in work', ~u.copied PROVE Cardinality(Overtakers(u)') <= MaxOvertake
    BY DEF Overtaken
  <2> QED
    BY <1>2, <1>4
<1>6. InRingYet' /\ CopiesItsCommand'
  BY <1>2 DEF Copies, InRingYet, CopiesItsCommand
<1> QED
  BY <1>5, <1>6 DEF Copies

(* Nothing has passed a command just dispatched.                           *)
LEMMA DispatchCopies ==
    ASSUME TypeOK, Body, Copies, NEW s \in SQs, NEW n \in 0 .. QSize - 1, Dispatch(s, n)
    PROVE  Copies'
<1>0. Rings
  BY DEF Body
<1>1. PICK d \in Nat, m \in Nat :
          d = Dispatched(s) /\ m = sent[s] /\ d + n <= m /\ n \in Nat /\ m - d < QSize
  <2>1. Dispatched(s) \in Nat /\ sent[s] \in Nat /\ Dispatched(s) + n <= sent[s] /\ n \in Nat
    BY <1>0, DispatchFacts
  <2>2. sent[s] - Dispatched(s) < QSize
    BY <2>1, ToDispatchType, Sizes
  <2> QED
    BY <2>1, <2>2
<1>2. PICK N : N = {NewWork(s, (old_dbs[s] + i) % QSize) : i \in 0 .. n - 1}
  OBVIOUS
<1>3. work' = work \union N /\ sent' = sent
  BY <1>2 DEF Dispatch, hostVars
<1>4. /\ Dispatched(s)' = d + n
      /\ \A t \in SQs : t # s => Dispatched(t)' = Dispatched(t)
  BY <1>0, <1>1, DispatchFacts
<1>5. \A i \in 0 .. n - 1 :
          NewWork(s, (old_dbs[s] + i) % QSize) =
             [sq |-> s, slot |-> ((d + i) % QSize),
              cmd |-> d + i + 1, copied |-> FALSE, read |-> NoCmd]
  BY <1>0, <1>1, DispatchFacts
<1>6. \A w \in N : w.sq = s /\ w.cmd \in d + 1 .. d + n /\ w.copied = FALSE
  <2> SUFFICES ASSUME NEW i \in 0 .. n - 1, NEW w,
                      w = NewWork(s, (old_dbs[s] + i) % QSize)
               PROVE  w.sq = s /\ w.cmd \in d + 1 .. d + n /\ w.copied = FALSE
    BY <1>2
  <2>1. d + i + 1 \in d + 1 .. d + n
    BY <1>1
  <2>2. w = [sq |-> s, slot |-> ((d + i) % QSize), cmd |-> d + i + 1,
             copied |-> FALSE, read |-> NoCmd]
    BY <1>5
  <2>3. w.sq = s /\ w.cmd = d + i + 1 /\ w.copied = FALSE
    BY <2>2
  <2> QED
    BY <2>1, <2>3
<1>7. d + 1 .. d + n \subseteq CmdsAt(s)'
  <2> SUFFICES ASSUME NEW c \in d + 1 .. d + n PROVE c \in CmdsAt(s)'
    OBVIOUS
  <2>1. PICK i \in 0 .. n - 1 : c = d + i + 1
    <3>1. c - (d + 1) \in 0 .. n - 1 /\ c = d + (c - (d + 1)) + 1
      BY <1>1
    <3> QED
      BY <3>1
  <2>2. PICK w \in N : w.sq = s /\ w.cmd = c
    <3>1. NewWork(s, (old_dbs[s] + i) % QSize) \in N
      BY <1>2
    <3>2. NewWork(s, (old_dbs[s] + i) % QSize).cmd = c
      <4>1. PICK w : w = NewWork(s, (old_dbs[s] + i) % QSize)
        OBVIOUS
      <4>2. w = [sq |-> s, slot |-> ((d + i) % QSize), cmd |-> d + i + 1,
                 copied |-> FALSE, read |-> NoCmd]
        BY <1>5, <4>1
      <4>3. w.cmd = d + i + 1
        BY <4>2
      <4> QED
        BY <2>1, <4>1, <4>3
    <3> QED
      BY <1>6, <3>1, <3>2
  <2> QED
    BY <1>3, <2>2 DEF CmdsAt
<1>8. \A q : CmdsAt(q) \subseteq CmdsAt(q)'
  BY <1>3 DEF CmdsAt
<1>9. \A u : Overtakers(u)' = (u.cmd + 1 .. Dispatched(u.sq)') \ CmdsAt(u.sq)'
             /\ Overtakers(u) = (u.cmd + 1 .. Dispatched(u.sq)) \ CmdsAt(u.sq)
  BY DEF Overtakers, CmdsAt, Dispatched
<1>10. ASSUME NEW u \in work PROVE Overtakers(u)' \subseteq Overtakers(u)
  <2>1. u.sq \in SQs /\ u.cmd \in Int
    BY EntryTypes
  <2>2. CASE u.sq # s
    BY <1>4, <1>8, <1>9, <2>1, <2>2
  <2>3. CASE u.sq = s
    <3>1. PICK a \in Int : a = u.cmd
      BY <2>1
    <3>2. Overtakers(u)' = (a + 1 .. d + n) \ CmdsAt(s)'
          /\ Overtakers(u) = (a + 1 .. d) \ CmdsAt(s)
      BY <1>1, <1>4, <1>9, <2>3, <3>1
    <3>3. \A c \in a + 1 .. d + n : c \in a + 1 .. d \/ c \in d + 1 .. d + n
      BY <1>1
    <3> QED
      BY <1>7, <1>8, <3>2, <3>3
  <2> QED
    BY <2>2, <2>3
<1>11. ASSUME NEW u \in N PROVE Overtakers(u)' = {}
  <2>1. PICK a \in d + 1 .. d + n : a = u.cmd
    BY <1>6
  <2>2. Overtakers(u)' = (a + 1 .. d + n) \ CmdsAt(s)'
    BY <1>4, <1>6, <1>9, <2>1
  <2>3. (a + 1 .. d + n) \subseteq d + 1 .. d + n
    BY <1>1
  <2> QED
    BY <1>7, <2>2, <2>3
<1>12. Overtaken'
  <2> SUFFICES ASSUME NEW u \in work', ~u.copied PROVE Cardinality(Overtakers(u)') <= MaxOvertake
    BY DEF Overtaken
  <2>1. CASE u \in work
    <3>1. /\ IsFiniteSet(Overtakers(u)) /\ Cardinality(Overtakers(u)) \in Nat
          /\ Cardinality(Overtakers(u)) <= MaxOvertake
      BY <2>1, OvertakersFinite DEF Copies, Overtaken
    <3>2. PICK T : T = Overtakers(u)' /\ T \in SUBSET Overtakers(u)
      BY <1>10, <2>1
    <3>3. IsFiniteSet(T) /\ Cardinality(T) <= Cardinality(Overtakers(u))
      BY <3>1, <3>2, FS_Subset
    <3>4. Cardinality(T) \in Nat
      BY <3>3, FS_CardinalityType
    <3> QED
      BY <3>1, <3>2, <3>3, <3>4, Sizes
  <2>2. CASE u \in N
    <3>1. Overtakers(u)' = {}
      BY <1>11, <2>2
    <3> QED
      BY <3>1, FS_EmptySet, Sizes
  <2> QED
    BY <1>3, <2>1, <2>2
<1>13. InRingYet'
  <2>1. \A u \in work : ~u.copied => sent[u.sq] - u.cmd < QSize
    BY DEF Copies, InRingYet
  <2>2. \A c \in d + 1 .. d + n : m - c < QSize
    BY <1>1, Sizes
  <2>3. \A u \in N : sent[u.sq] - u.cmd < QSize
    BY <1>1, <1>6, <2>2
  <2> QED
    BY <1>3, <2>1, <2>3 DEF InRingYet
<1>14. CopiesItsCommand'
  BY <1>3, <1>6 DEF Copies, CopiesItsCommand
<1> QED
  BY <1>12, <1>13, <1>14 DEF Copies

(* Nothing is with a worker at the start.                                  *)
LEMMA InitCopies == Init => Copies
  BY DEF Init, Copies, Overtaken, InRingYet, CopiesItsCommand

(* Together: copies are right after every step.                            *)
LEMMA CopiesStep ==
    ASSUME MaxOvertake <= 1
    PROVE  TypeOK /\ Body /\ Copies /\ [Next]_vars => Copies'
<1> SUFFICES ASSUME TypeOK, Body, Copies, [Next]_vars PROVE Copies'
  OBVIOUS
<1>1. TypeOK'
  BY TypeStep
<1>2. ASSUME UNCHANGED <<sent, work, dbs, old_dbs>> PROVE Copies'
  BY <1>2, SentOrWorkUnchanged
<1>3. ASSUME UNCHANGED ringVars PROVE Copies'
  BY <1>2, <1>3 DEF ringVars
<1>4. ASSUME NEW s \in SQs, HostSubmit(s) PROVE Copies'
  BY <1>4, SubmitCopies
<1>5. CASE HostReap
  BY <1>2, <1>5 DEF HostReap, dbVars
<1>6. ASSUME NEW s \in SQs, nvmev_proc_io_sq(s) PROVE Copies'
  BY <1>6, DispatchCopies DEF nvmev_proc_io_sq
<1>7. ASSUME NEW s \in SQs, Worker(s) PROVE Copies'
  <2>1. CASE Copy(s)
    BY <1>1, <2>1, CopyCopies
  <2>2. CASE FillEntry(s)
    BY <2>2, FillCopies
  <2>3. CASE FillDone(s)
    BY <1>2, <2>3 DEF FillDone, hostVars, dbVars
  <2> QED
    BY <1>7, <2>1, <2>2, <2>3 DEF Worker
<1> QED
  BY <1>3, <1>4, <1>5, <1>6, <1>7, OtherSteps DEF Next, Host, nvmev_proc_dbs

(* The command a worker carries out is the one the dispatcher handed it,   *)
(* and it is answered once, as long as at most one later command of the    *)
(* queue is posted before the copy: with two, the host may have reused the *)
(* slot.                                                                   *)
THEOREM RightCommand ==
    ASSUME MaxOvertake <= 1
    PROVE  Spec => []EachAnsweredOnce
<1>1. Init => TypeOK /\ Body /\ Copies
  BY InitType, InitBody, InitCopies
<1>2. TypeOK /\ Body /\ Copies /\ [Next]_vars => (TypeOK /\ Body /\ Copies)'
  BY BodyStep, CopiesStep
<1>3. Body /\ Copies => EachAnsweredOnce
  BY DEF Body, Copies, EachAnsweredOnce
<1> QED
  BY <1>1, <1>2, <1>3, PTL DEF Spec

-----------------------------------------------------------------------------
(* Interrupts. *)

(* An entry the host has not taken is announced, whatever the number of    *)
(* workers that post while the owner clears interrupt_ready and signals.   *)
THEOREM InterruptKept == Spec => []NoLostInterrupt
<1>1. Init => NoLostInterrupt
  BY Sizes DEF Init, NoLostInterrupt, New
<1>2. NoLostInterrupt /\ [Next]_vars => NoLostInterrupt'
  <2> SUFFICES ASSUME NoLostInterrupt, [Next]_vars PROVE NoLostInterrupt'
    OBVIOUS
  <2> USE DEF NoLostInterrupt, hostVars, dbVars, cqVars, statVars
  <2>1. CASE UNCHANGED vars
    BY <2>1 DEF vars, New
  <2>2. ASSUME NEW s \in SQs, HostSubmit(s) \/ HostDeleteSq(s) PROVE NoLostInterrupt'
    BY <2>2 DEF HostSubmit, HostDeleteSq, New
  <2>3. CASE HostIrq \/ HostReap
    BY <2>3 DEF HostIrq, HostReap
  <2>4. CASE HostDone
    BY <2>4 DEF HostDone, New
  <2>5. ASSUME NEW s \in SQs, nvmev_proc_io_sq(s) PROVE NoLostInterrupt'
    BY <2>5 DEF nvmev_proc_io_sq, Dispatch, New
  <2>6. CASE nvmev_proc_io_cq \/ Skip
    BY <2>6 DEF nvmev_proc_io_cq, Skip, New
  <2>7. CASE Irq
    BY <2>7 DEF Irq, IrqClear, IrqSignal, RaiseIrq, IrqEffect, New
  <2>8. ASSUME NEW s \in SQs, Copy(s) PROVE NoLostInterrupt'
    BY <2>8 DEF Copy, New
  <2>9. ASSUME NEW s \in SQs, FillEntry(s) PROVE NoLostInterrupt'
    <3>1. s # 0 /\ lock' = s
      BY <2>9 DEF FillEntry, SQs
    <3> QED
      BY <3>1
  <2>10. ASSUME NEW s \in SQs, FillDone(s) PROVE NoLostInterrupt'
    BY <2>10 DEF FillDone
  <2> QED
    BY <2>1, <2>2, <2>3, <2>4, <2>5, <2>6, <2>7, <2>8, <2>9, <2>10
    DEF Next, Host, nvmev_proc_dbs, Worker
<1> QED
  BY <1>1, <1>2, PTL DEF Spec
-----------------------------------------------------------------------------
(* The dispatcher's walk over entries the host has released. *)

(* A walk is shorter than the ring.                                        *)
LEMMA SpanSlots ==
    ASSUME NEW new \in Slots, NEW old \in Slots
    PROVE  Span(new, old, CQSize) \in 0 .. CQSize - 1
  BY Sizes, SpanType DEF Slots

(* Which slots a walk passes.                                              *)
LEMMA WalkedMember ==
    ASSUME NEW new \in Slots, NEW old \in Slots, NEW j \in Slots
    PROVE  j \in Walked(new, old) <=> Span(j, old, CQSize) < Span(new, old, CQSize)
<1>1. PICK m \in 0 .. CQSize - 1, k \in 0 .. CQSize - 1 :
          m = Span(new, old, CQSize) /\ k = Span(j, old, CQSize)
  BY SpanSlots
<1>2. \A i \in 0 .. CQSize - 1 :
          ((old + i) % CQSize) = IF old + i < CQSize THEN old + i ELSE old + i - CQSize
  <2> TAKE i \in 0 .. CQSize - 1
  <2>1. PICK x \in Nat : x = old + i
    BY Sizes DEF Slots
  <2>2. x < CQSize + CQSize
    BY <2>1, Sizes DEF Slots
  <2>3. (x % CQSize) = IF x < CQSize THEN x ELSE x - CQSize
    BY <2>2, Sizes, ModSmall
  <2>4. old \in Int /\ i \in Int /\ CQSize \in Int
    BY Sizes DEF Slots
  <2> QED
    BY <2>1, <2>3, <2>4
<1>3. Walked(new, old) = {(old + i) % CQSize : i \in 0 .. m - 1}
  BY <1>1 DEF Walked
<1>4. k = IF j < old THEN j - old + CQSize ELSE j - old
  BY <1>1 DEF Span
<1>5. ASSUME j \in Walked(new, old) PROVE k < m
  <2>1. PICK i \in 0 .. m - 1 : j = ((old + i) % CQSize)
    BY <1>3, <1>5
  <2>2. i \in 0 .. CQSize - 1
    BY Sizes
  <2>3. j = IF old + i < CQSize THEN old + i ELSE old + i - CQSize
    BY <1>2, <2>1, <2>2
  <2>4. k = i
    BY <1>4, <2>2, <2>3, Sizes DEF Slots
  <2> QED
    BY <2>4
<1>6. ASSUME k < m PROVE j \in Walked(new, old)
  <2>1. k \in 0 .. m - 1
    BY <1>6
  <2>2. ((old + k) % CQSize) = IF old + k < CQSize THEN old + k ELSE old + k - CQSize
    BY <1>2
  <2>3. ((old + k) % CQSize) = j
    BY <1>4, <2>2, Sizes DEF Slots
  <2> QED
    BY <1>3, <2>1, <2>3
<1> QED
  BY <1>1, <1>5, <1>6

(* A walk stays in the ring.                                               *)
LEMMA WalkedSlots ==
    ASSUME NEW new \in Slots, NEW old \in Slots
    PROVE  Walked(new, old) \subseteq Slots
<1>1. \A i \in 0 .. Span(new, old, CQSize) - 1 : ((old + i) % CQSize) \in Slots
  <2> TAKE i \in 0 .. Span(new, old, CQSize) - 1
  <2>1. old + i \in Nat
    BY SpanSlots, Sizes DEF Slots
  <2> QED
    BY <2>1, RingTypes
<1> QED
  BY <1>1 DEF Walked

(* One slot further.                                                       *)
LEMMA WalkedNext ==
    ASSUME NEW h \in Slots, NEW o \in Slots, Span(h, o, CQSize) < CQSize - 1
    PROVE  /\ NextHead(h) \in Slots /\ Span(NextHead(h), o, CQSize) = Span(h, o, CQSize) + 1
           /\ h \notin Walked(h, o) /\ Walked(NextHead(h), o) = Walked(h, o) \union {h}
<1>1. NextHead(h) \in Slots /\ Span(NextHead(h), o, CQSize) = Span(h, o, CQSize) + 1
  BY Sizes, SpanNew DEF NextHead, Slots
<1>2. h \notin Walked(h, o)
  <2>1. ~(Span(h, o, CQSize) < Span(h, o, CQSize))
    BY SpanSlots
  <2> QED
    BY <2>1, WalkedMember
<1>3. \A j \in Slots : j \in Walked(NextHead(h), o) <=> j \in Walked(h, o) \/ j = h
  <2> TAKE j \in Slots
  <2>1. PICK k \in Int, m \in Int : k = Span(j, o, CQSize) /\ m = Span(h, o, CQSize)
    BY SpanSlots
  <2>2. k = m <=> j = h
    BY <2>1, Sizes DEF Span, Slots
  <2>3. k < m + 1 <=> k < m \/ k = m
    OBVIOUS
  <2> QED
    BY <1>1, <2>1, <2>2, <2>3, WalkedMember
<1>4. Walked(NextHead(h), o) \subseteq Slots /\ Walked(h, o) \subseteq Slots
  BY <1>1, WalkedSlots
<1> QED
  BY <1>1, <1>2, <1>3, <1>4

(* A walk in two parts.                                                    *)
LEMMA WalkedParts ==
    ASSUME NEW h \in Slots, NEW b \in Slots, NEW o \in Slots,
           Span(b, o, CQSize) + Span(h, b, CQSize) = Span(h, o, CQSize)
    PROVE  /\ Walked(h, o) = Walked(b, o) \union Walked(h, b)
           /\ Walked(b, o) \cap Walked(h, b) = {}
<1>1. \A j \in Slots :
          LET jo == Span(j, o, CQSize)  jb == Span(j, b, CQSize)
              bo == Span(b, o, CQSize)  hb == Span(h, b, CQSize)  ho == Span(h, o, CQSize)
          IN  (jo < ho <=> jo < bo \/ jb < hb) /\ ~(jo < bo /\ jb < hb)
  <2> SUFFICES ASSUME NEW j \in Slots,
                      NEW jo, jo = Span(j, o, CQSize), NEW jb, jb = Span(j, b, CQSize),
                      NEW bo, bo = Span(b, o, CQSize), NEW hb, hb = Span(h, b, CQSize),
                      NEW ho, ho = Span(h, o, CQSize)
               PROVE  (jo < ho <=> jo < bo \/ jb < hb) /\ ~(jo < bo /\ jb < hb)
    OBVIOUS
  <2> QED
    BY Sizes DEF Span, Slots
<1>2. \A j \in Slots : (j \in Walked(h, o) <=> j \in Walked(b, o) \/ j \in Walked(h, b))
                       /\ ~(j \in Walked(b, o) /\ j \in Walked(h, b))
  BY <1>1, WalkedMember
<1>3. Walked(h, o) \subseteq Slots /\ Walked(b, o) \subseteq Slots /\ Walked(h, b) \subseteq Slots
  BY WalkedSlots
<1> QED
  BY <1>2, <1>3

\* Entries of a queue between two positions.
WalkedOf(s, new, old) == {i \in Walked(new, old) : cq[i].sq = s}

(* A walk passes finitely many entries of a queue.                         *)
LEMMA WalkedFinite ==
    ASSUME NEW s, NEW new \in Slots, NEW old \in Slots
    PROVE  IsFiniteSet(WalkedOf(s, new, old)) /\ Cardinality(WalkedOf(s, new, old)) \in Nat
<1>1. IsFiniteSet(Slots)
  BY Sizes, FS_Interval DEF Slots
<1>2. WalkedOf(s, new, old) \in SUBSET Slots
  BY WalkedSlots DEF WalkedOf
<1> QED
  BY <1>1, <1>2, FS_Subset, FS_CardinalityType
-----------------------------------------------------------------------------
(* How many commands are where. *)

(* An injective function onto T gives its domain the size of T.            *)
LEMMA SameSize ==
    ASSUME NEW S, NEW T, IsFiniteSet(T), NEW f \in [S -> T],
           \A x, y \in S : f[x] = f[y] => x = y,
           \A t \in T : \E x \in S : f[x] = t
    PROVE  IsFiniteSet(S) /\ Cardinality(S) = Cardinality(T)
<1>1. f \in Injection(S, T) /\ f \in Surjection(S, T)
  BY DEF Injection, Surjection, IsInjective
<1> QED
  BY <1>1, FS_Injection

\* The outstanding commands of all queues.
OutPairs == {p \in SQs \X Cmds : p[2] \in out[p[1]]}

(* All queues together: their commands outstanding.                        *)
LEMMA OutBound ==
    ASSUME TypeOK, Outstanding
    PROVE  IsFiniteSet(OutPairs) /\ Cardinality(OutPairs) <= NrSq * (QSize - 1)
<1> PICK n \in Nat : n = QSize - 1
  BY Sizes
<1>1. \A s \in SQs : IsFiniteSet(out[s]) /\ Cardinality(out[s]) <= n
  BY FiniteOut DEF Outstanding
<1>2. \A s \in SQs : \E f \in [out[s] -> 1 .. n] :
                         \A x, y \in out[s] : f[x] = f[y] => x = y
  BY <1>1, Numbering
<1>3. PICK g : g = [s \in SQs |-> CHOOSE f \in [out[s] -> 1 .. n] :
                                      \A x, y \in out[s] : f[x] = f[y] => x = y]
  OBVIOUS
<1>4. \A s \in SQs : /\ g[s] \in [out[s] -> 1 .. n]
                     /\ \A x, y \in out[s] : g[s][x] = g[s][y] => x = y
  BY <1>2, <1>3
<1>5. PICK h : h = [p \in OutPairs |-> <<p[1], g[p[1]][p[2]]>>]
  OBVIOUS
<1>6. \A p \in OutPairs : p[1] \in SQs /\ p[2] \in out[p[1]] /\ p = <<p[1], p[2]>>
  BY DEF OutPairs
<1>7. h \in [OutPairs -> SQs \X (1 .. n)]
  <2>1. \A p \in OutPairs : g[p[1]][p[2]] \in 1 .. n
    BY <1>4, <1>6
  <2> QED
    BY <1>5, <1>6, <2>1
<1>8. \A p, r \in OutPairs : h[p] = h[r] => p = r
  <2> SUFFICES ASSUME NEW p \in OutPairs, NEW r \in OutPairs, h[p] = h[r] PROVE p = r
    OBVIOUS
  <2>1. p[1] = r[1] /\ g[p[1]][p[2]] = g[p[1]][r[2]]
    BY <1>5
  <2>2. p[2] = r[2]
    BY <1>4, <1>6, <2>1
  <2> QED
    BY <1>6, <2>1, <2>2
<1>9. IsFiniteSet(SQs \X (1 .. n)) /\ Cardinality(SQs \X (1 .. n)) = NrSq * n
  <2>1. IsFiniteSet(SQs) /\ Cardinality(SQs) = NrSq
    BY Sizes, FS_Interval DEF SQs
  <2>2. IsFiniteSet(1 .. n) /\ Cardinality(1 .. n) = n
    BY FS_Interval
  <2> QED
    BY <2>1, <2>2, FS_Product
<1>10. h \in Injection(OutPairs, SQs \X (1 .. n))
  BY <1>7, <1>8 DEF Injection, IsInjective
<1> QED
  BY <1>9, <1>10, FS_Injection

(* What is posted or with a worker is outstanding.                         *)
LEMMA PlacesBound ==
    ASSUME TypeOK, Body
    PROVE  /\ IsFiniteSet(work) /\ IsFiniteSet(Pending)
           /\ Cardinality(work) \in Nat /\ Cardinality(Pending) \in Nat
           /\ Cardinality(Pending) + Cardinality(work) <= NrSq * (QSize - 1)
<1>1. PICK P : P = {<<cq[i].sq, cq[i].cmd>> : i \in Pending}
  OBVIOUS
<1>2. PICK W : W = {<<w.sq, w.cmd>> : w \in work}
  OBVIOUS
<1>3. IsFiniteSet(OutPairs) /\ Cardinality(OutPairs) <= NrSq * (QSize - 1)
  BY OutBound DEF Body
<1>4. \A s \in SQs : out[s] \subseteq Cmds
  BY DEF TypeOK
<1>5. P \in SUBSET OutPairs
  <2>1. \A i \in Pending : cq[i].sq \in SQs /\ cq[i].cmd \in out[cq[i].sq]
    BY EntryTypes DEF Body, Posted
  <2> QED
    BY <1>1, <1>4, <2>1 DEF OutPairs
<1>6. W \in SUBSET OutPairs
  <2>1. \A w \in work : w.sq \in SQs /\ w.cmd \in out[w.sq]
    BY EntryTypes DEF Body, AtWorker
  <2> QED
    BY <1>2, <1>4, <2>1 DEF OutPairs
<1>7. P \cap W = {}
  BY <1>1, <1>2 DEF Body, Posted
<1>8. IsFiniteSet(P) /\ IsFiniteSet(W)
  BY <1>3, <1>5, <1>6, FS_Subset
<1>9. IsFiniteSet(Pending) /\ Cardinality(Pending) = Cardinality(P)
  <2>1. PICK f : f = [i \in Pending |-> <<cq[i].sq, cq[i].cmd>>]
    OBVIOUS
  <2>2. f \in [Pending -> P] /\ \A t \in P : \E i \in Pending : f[i] = t
    BY <1>1, <2>1
  <2>3. \A i, j \in Pending : f[i] = f[j] => i = j
    BY <2>1 DEF Body, Posted
  <2> QED
    BY <1>8, <2>2, <2>3, SameSize
<1>10. IsFiniteSet(work) /\ Cardinality(work) = Cardinality(W)
  <2>1. PICK f : f = [w \in work |-> <<w.sq, w.cmd>>]
    OBVIOUS
  <2>2. f \in [work -> W] /\ \A t \in W : \E w \in work : f[w] = t
    BY <1>2, <2>1
  <2>3. \A v, w \in work : f[v] = f[w] => v = w
    BY <2>1 DEF Body, AtWorker
  <2> QED
    BY <1>8, <2>2, <2>3, SameSize
<1>11. IsFiniteSet(P \union W) /\ Cardinality(P \union W) = Cardinality(P) + Cardinality(W)
  <2>1. Cardinality(P \cap W) = 0
    BY <1>7, FS_EmptySet
  <2>2. Cardinality(P) \in Nat /\ Cardinality(W) \in Nat
    BY <1>8, FS_CardinalityType
  <2>3. /\ IsFiniteSet(P \union W)
        /\ Cardinality(P \union W) = Cardinality(P) + Cardinality(W) - Cardinality(P \cap W)
    BY <1>8, FS_Union
  <2> QED
    BY <2>1, <2>2, <2>3
<1>12. Cardinality(P \union W) <= Cardinality(OutPairs)
  <2>1. (P \union W) \in SUBSET OutPairs
    BY <1>5, <1>6
  <2> QED
    BY <1>3, <2>1, FS_Subset
<1>13. Cardinality(P) \in Nat /\ Cardinality(W) \in Nat /\ Cardinality(OutPairs) \in Nat
  BY <1>3, <1>8, FS_CardinalityType
<1>14. PICK K \in Int : K = NrSq * (QSize - 1)
  BY Sizes
<1> QED
  BY <1>3, <1>9, <1>10, <1>11, <1>12, <1>13, <1>14

(* The pending slots are those from the host's head to the workers'.       *)
LEMMA PendingCount ==
    ASSUME TypeOK, Phases
    PROVE  Cardinality(Pending) = IF cPhase = PostPhase THEN PostHead - cHead
                                  ELSE PostHead - cHead + CQSize
<1>1. PICK h \in Slots, p \in {0, 1}, ph \in Slots, pp \in {0, 1} :
          h = cHead /\ p = cPhase /\ ph = PostHead /\ pp = PostPhase
  BY PostTypes
<1>2. \A i \in Slots : i \in Pending <=>
          (IF i < ph THEN pp ELSE 1 - pp) = (IF i < h THEN 1 - p ELSE p)
  BY <1>1 DEF Pending, Phases
<1>3. Pending \subseteq Slots
  BY DEF Pending
<1>4. IF p = pp THEN h <= ph ELSE ph < h
  BY <1>1 DEF Phases
<1>0. /\ h \in Int /\ ph \in Int /\ 0 <= h /\ 0 <= ph /\ h < CQSize /\ ph < CQSize
      /\ CQSize \in Int /\ \A i \in Slots : i \in Int
      /\ \A i \in Int : 0 <= i /\ i < CQSize => i \in Slots
  BY Sizes DEF Slots
<1>5. CASE p = pp
  <2>1. \A i \in Slots : i \in Pending <=> h <= i /\ i < ph
    <3> TAKE i \in Slots
    <3>1. pp # 1 - pp
      OBVIOUS
    <3>2. i \in Pending <=> (IF i < ph THEN pp ELSE 1 - pp) = (IF i < h THEN 1 - pp ELSE pp)
      BY <1>2, <1>5
    <3>3. i \in Pending <=> (i < ph <=> ~(i < h))
      BY <3>1, <3>2
    <3> QED
      BY <1>0, <1>4, <1>5, <3>3
  <2>2. Pending = h .. ph - 1
    <3>1. \A i \in h .. ph - 1 : i \in Slots /\ h <= i /\ i < ph
      BY <1>0
    <3>2. \A i \in Slots : h <= i /\ i < ph => i \in h .. ph - 1
      BY <1>0
    <3> QED
      BY <1>3, <2>1, <3>1, <3>2
  <2>3. h \in Int /\ ph - 1 \in Int /\ h <= ph
    BY <1>4, <1>5 DEF Slots
  <2>4. Cardinality(h .. ph - 1) = IF h > ph - 1 THEN 0 ELSE (ph - 1) - h + 1
    BY <2>3, FS_Interval
  <2> QED
    BY <1>1, <1>5, <2>2, <2>3, <2>4
<1>6. CASE p # pp
  <2>1. \A i \in Slots : i \in Pending <=> ~(ph <= i /\ i < h)
    <3> TAKE i \in Slots
    <3>1. pp # 1 - pp /\ p = 1 - pp /\ 1 - p = pp
      BY <1>6
    <3>2. i \in Pending <=> (IF i < ph THEN pp ELSE 1 - pp) = (IF i < h THEN pp ELSE 1 - pp)
      BY <1>2, <3>1
    <3>3. i \in Pending <=> (i < ph <=> i < h)
      BY <3>1, <3>2
    <3> QED
      BY <1>0, <1>4, <1>6, <3>3
  <2>2. Pending = Slots \ (ph .. h - 1)
    <3>1. \A i \in Slots : i \in ph .. h - 1 <=> ph <= i /\ i < h
      BY <1>0
    <3> QED
      BY <1>3, <2>1, <3>1
  <2>3. ph \in Int /\ h - 1 \in Int /\ ph < h /\ CQSize \in Nat
    BY <1>4, <1>6, Sizes DEF Slots
  <2>4. IsFiniteSet(ph .. h - 1) /\ Cardinality(ph .. h - 1) = h - ph
    <3>1. IsFiniteSet(ph .. h - 1)
          /\ Cardinality(ph .. h - 1) = IF ph > h - 1 THEN 0 ELSE (h - 1) - ph + 1
      BY <2>3, FS_Interval
    <3> QED
      BY <2>3, <3>1
  <2>5. IsFiniteSet(Slots) /\ Cardinality(Slots) = CQSize
    BY Sizes, FS_Interval DEF Slots
  <2>6. PICK I : I = ph .. h - 1
    OBVIOUS
  <2>7. I \in SUBSET Slots
    BY <2>3, <2>6, Sizes DEF Slots
  <2>8. /\ IsFiniteSet(Slots \ I)
        /\ Cardinality(Slots \ I) = Cardinality(Slots) - Cardinality(Slots \cap I)
    BY <2>5, FS_Difference
  <2>9. Slots \cap I = I
    BY <2>7
  <2>10. Cardinality(Pending) = CQSize - (h - ph)
    BY <2>2, <2>4, <2>5, <2>6, <2>8, <2>9
  <2>11. CQSize - (h - ph) = ph - h + CQSize
    BY <2>3
  <2> QED
    BY <1>1, <1>6, <2>10, <2>11
<1> QED
  BY <1>5, <1>6
-----------------------------------------------------------------------------
(* The workers do not lap the dispatcher. *)

\* What the slots from the old doorbell on and the workers may hold when the
\* dispatcher is at turn t: all that may have been outstanding at its last walk,
\* and what it has dispatched since.
Bound(t) == MaxReap + (NrSq + t - 1) * (QSize - 1)

(* The bound on slots in use grows with the turns of the dispatcher, and   *)
(* stays below the size of a queue that is Roomy.                          *)
LEMMA BoundFacts ==
    ASSUME Roomy
    PROVE  /\ \A t \in 1 .. NrSq + 1 : Bound(t) \in Nat /\ Bound(t) < CQSize
           /\ \A t \in SQs : Bound(t + 1) = Bound(t) + (QSize - 1)
           /\ Bound(1) = MaxReap + NrSq * (QSize - 1)
           /\ NrSq * (QSize - 1) \in Nat /\ MaxReap \in Nat
<1> PICK n \in Nat, q \in Nat, r \in Nat : n = NrSq /\ q = QSize - 1 /\ r = MaxReap
  BY QueueAssumption
<1>1. n * q \in Nat /\ 2 * n * q = n * q + n * q /\ (n + 1 - 1) * q = n * q
  OBVIOUS
<1>2. r + 2 * n * q < CQSize
  BY DEF Roomy
<1>3. \A t \in 1 .. n + 1 : (n + t - 1) * q \in Nat /\ (n + t - 1) * q <= n * q + n * q
  <2> TAKE t \in 1 .. n + 1
  <2>1. q * (n + t - 1) <= q * (n + n) /\ q * (n + t - 1) \in Int
    BY TimesMonotone
  <2>2. (n + t - 1) * q = q * (n + t - 1) /\ q * (n + n) = n * q + n * q
    OBVIOUS
  <2>3. (n + t - 1) * q \in Nat
    OBVIOUS
  <2> QED
    BY <2>1, <2>2, <2>3
<1>4. \A t \in 1 .. n : (n + (t + 1) - 1) * q = (n + t - 1) * q + q
  OBVIOUS
<1>5. \A t \in 1 .. n + 1 : Bound(t) = r + (n + t - 1) * q
  BY DEF Bound
<1>6. \A t \in 1 .. n + 1 : Bound(t) \in Nat /\ Bound(t) < CQSize
  <2> TAKE t \in 1 .. n + 1
  <2>1. PICK k \in Nat, m \in Nat : k = (n + t - 1) * q /\ m = n * q /\ k <= m + m
    BY <1>1, <1>3
  <2>2. r + (m + m) < CQSize
    BY <1>1, <1>2, <2>1
  <2> QED
    BY <1>5, <2>1, <2>2, Sizes
<1>7. \A t \in 1 .. n : Bound(t + 1) = Bound(t) + q
  <2> TAKE t \in 1 .. n
  <2>1. t \in 1 .. n + 1 /\ t + 1 \in 1 .. n + 1
    OBVIOUS
  <2>2. PICK k \in Nat : k = (n + t - 1) * q
    BY <1>3, <2>1
  <2>3. Bound(t + 1) = r + (k + q)
    BY <1>4, <1>5, <2>1, <2>2
  <2> QED
    BY <1>5, <2>1, <2>2, <2>3
<1>8. Bound(1) = r + n * q
  BY <1>1 DEF Bound
<1> QED
  BY <1>1, <1>6, <1>7, <1>8 DEF SQs

Behind == Span(cHead, old_cq_db, CQSize)
Unrung == Span(cHead, cq_db, CQSize)
Unwalked == Span(cq_db, old_cq_db, CQSize)

NotLapped ==
    /\ Unwalked + Unrung = Behind /\ Unrung <= MaxReap
    /\ Behind + Cardinality(Pending) + Cardinality(work) <= Bound(turn)

(* The distances between the positions in the completion queue.            *)
LEMMA LapTypes ==
    ASSUME TypeOK, Body
    PROVE  /\ Behind \in Nat /\ Behind < CQSize /\ Unrung \in Nat /\ Unrung < CQSize
           /\ Unwalked \in Nat /\ Unwalked < CQSize
           /\ IsFiniteSet(work) /\ IsFiniteSet(Pending)
           /\ Cardinality(work) \in Nat /\ Cardinality(Pending) \in Nat
           /\ cHead \in Slots /\ cq_db \in Slots /\ old_cq_db \in Slots
<1>1. cHead \in Slots /\ cq_db \in Slots /\ old_cq_db \in Slots
  BY DEF TypeOK, Slots
<1>2. \A i \in 0 .. CQSize - 1 : i \in Nat /\ i < CQSize
  BY Sizes
<1>3. /\ Behind \in 0 .. CQSize - 1 /\ Unrung \in 0 .. CQSize - 1
      /\ Unwalked \in 0 .. CQSize - 1
  BY <1>1, SpanSlots DEF Behind, Unrung, Unwalked
<1>4. /\ IsFiniteSet(work) /\ IsFiniteSet(Pending)
      /\ Cardinality(work) \in Nat /\ Cardinality(Pending) \in Nat
  BY PlacesBound
<1> QED
  BY <1>1, <1>2, <1>3, <1>4

(* Steps that move no position and no command.                             *)
LEMMA LapUnchanged ==
    ASSUME NotLapped, UNCHANGED <<cq_db, old_cq_db, cHead, cPhase, cq, work, turn>>
    PROVE  NotLapped'
<1>1. Pending' = Pending
  BY DEF Pending
<1> QED
  BY <1>1 DEF NotLapped, Behind, Unrung, Unwalked, Bound

(* The host takes an entry: one more released, one less pending.           *)
LEMMA LapReap ==
    ASSUME Roomy, TypeOK, Body, NotLapped, HostReap
    PROVE  /\ NotLapped' /\ Behind < CQSize - 1 /\ cHead' = NextHead(cHead)
<1>1. cHead \in Pending /\ Pending' = Pending \ {cHead}
  BY ReapPending
<1>2. /\ cHead' = NextHead(cHead) /\ Unrung # MaxReap
      /\ UNCHANGED <<cq_db, old_cq_db, work, turn>>
  BY DEF HostReap, NextHead, BatchTaken, Unrung, dbVars, statVars
<1>3. PICK b \in Nat, p \in Nat, w \in Nat, u \in Nat, B \in Nat :
          /\ b = Behind /\ p = Cardinality(Pending) /\ w = Cardinality(work) /\ u = Unrung
          /\ B = Bound(turn) /\ B < CQSize /\ b + p + w <= B
  <2>1. turn \in 1 .. NrSq + 1
    BY DEF TypeOK
  <2>2. Bound(turn) \in Nat /\ Bound(turn) < CQSize
    BY <2>1, BoundFacts
  <2>3. Behind + Cardinality(Pending) + Cardinality(work) <= Bound(turn)
    BY DEF NotLapped
  <2> QED
    BY <2>2, <2>3, LapTypes
<1>4. IsFiniteSet(Pending') /\ Cardinality(Pending') = p - 1
  BY <1>1, <1>3, LapTypes, FS_RemoveElement
<1>5. p >= 1
  <2>1. Cardinality(Pending') \in Nat
    BY <1>4, FS_CardinalityType
  <2> QED
    BY <1>3, <1>4, <2>1
<1>6. b < CQSize - 1
  BY <1>3, <1>5, Sizes
<1>7. Behind' = b + 1
  BY <1>2, <1>3, <1>6, LapTypes, WalkedNext DEF Behind
<1>8. u <= b
  BY <1>3, LapTypes DEF NotLapped
<1>9. Unrung' = u + 1
  <2>1. u < CQSize - 1
    BY <1>3, <1>6, <1>8, Sizes
  <2> QED
    BY <1>2, <1>3, <2>1, LapTypes, WalkedNext DEF Unrung
<1>10. Unwalked' = Unwalked /\ Bound(turn)' = Bound(turn)
  BY <1>2 DEF Unwalked, Bound
<1>11. Unwalked \in Nat /\ Unwalked + u = b /\ u <= MaxReap /\ MaxReap \in Nat /\ u # MaxReap
  BY <1>2, <1>3, LapTypes, BoundFacts DEF NotLapped
<1>12. Unwalked + (u + 1) = b + 1 /\ u + 1 <= MaxReap
  BY <1>11
<1>13. (b + 1) + (p - 1) + w <= B
  BY <1>3
<1> QED
  BY <1>2, <1>3, <1>4, <1>6, <1>7, <1>9, <1>10, <1>12, <1>13 DEF NotLapped

(* The completion doorbell.                                                *)
LEMMA LapDone ==
    ASSUME Roomy, TypeOK, Body, NotLapped, HostDone
    PROVE  NotLapped'
<1>1. cq_db' = cHead /\ UNCHANGED <<old_cq_db, cHead, cPhase, cq, work, turn>>
  BY DEF HostDone, cqVars, statVars
<1>2. Pending' = Pending
  BY <1>1 DEF Pending
<1>3. Behind' = Behind /\ Unwalked' = Behind /\ Bound(turn)' = Bound(turn)
  BY <1>1 DEF Behind, Unwalked, Bound
<1>4. Unrung' = 0
  <2>1. Unrung' = Span(cHead, cHead, CQSize)
    BY <1>1 DEF Unrung
  <2>2. ~(cHead < cHead) /\ cHead - cHead = 0
    BY LapTypes DEF Slots
  <2> QED
    BY <2>1, <2>2 DEF Span
<1>5. Behind + 0 = Behind /\ 0 <= MaxReap
  BY LapTypes, BoundFacts
<1> QED
  BY <1>1, <1>2, <1>3, <1>4, <1>5 DEF NotLapped

(* nvmev_proc_io_cq() catches up with the completion doorbell, and a new   *)
(* round begins.                                                           *)
LEMMA LapWalk ==
    ASSUME Roomy, TypeOK, Body, NotLapped, turn = NrSq + 1,
           turn' = 1, old_cq_db' = cq_db, UNCHANGED <<cq_db, cHead, cPhase, cq, work>>
    PROVE  NotLapped'
<1>1. Pending' = Pending
  BY DEF Pending
<1>2. Behind' = Unrung /\ Unrung' = Unrung
  BY DEF Behind, Unrung
<1>3. Unwalked' = 0
  <2>1. Unwalked' = Span(cq_db, cq_db, CQSize)
    BY DEF Unwalked
  <2>2. ~(cq_db < cq_db) /\ cq_db - cq_db = 0
    BY LapTypes DEF Slots
  <2> QED
    BY <2>1, <2>2 DEF Span
<1>4. Bound(turn)' = MaxReap + NrSq * (QSize - 1)
  <2>1. Bound(turn)' = Bound(1)
    BY DEF Bound
  <2> QED
    BY <2>1, BoundFacts
<1>5. PICK K \in Nat, u \in Nat, r \in Nat, p \in Nat, w \in Nat :
          /\ K = NrSq * (QSize - 1) /\ u = Unrung /\ r = MaxReap
          /\ p = Cardinality(Pending) /\ w = Cardinality(work) /\ u <= r /\ p + w <= K
  <2>1. Cardinality(Pending) + Cardinality(work) <= NrSq * (QSize - 1)
    BY PlacesBound
  <2>2. NrSq * (QSize - 1) \in Nat /\ MaxReap \in Nat
    BY BoundFacts
  <2>3. Unrung <= MaxReap
    BY DEF NotLapped
  <2> QED
    BY <2>1, <2>2, <2>3, LapTypes
<1>6. 0 + u = u /\ u + p + w <= r + K
  BY <1>5
<1> QED
  BY <1>1, <1>2, <1>3, <1>4, <1>5, <1>6 DEF NotLapped

(* The dispatcher's next doorbell.                                         *)
LEMMA LapSkip ==
    ASSUME Roomy, TypeOK, Body, NotLapped, Skip
    PROVE  NotLapped'
<1>1. UNCHANGED <<cq_db, old_cq_db, cHead, cPhase, cq, work>>
  BY DEF Skip, hostVars, dbVars, cqVars
<1>2. PICK t \in 1 .. NrSq + 1, N \in Nat : t = turn /\ N = NrSq
  BY Sizes DEF TypeOK
<1>3. turn' = (t % (N + 1)) + 1
  BY <1>2 DEF Skip
<1>4. CASE t = N + 1
  <2>1. (t % (N + 1)) = 0
    <3>1. PICK q \in Nat \ {0} : q = N + 1
      OBVIOUS
    <3>2. (q % q) = IF q < q THEN q ELSE q - q
      BY ModSmall
    <3> QED
      BY <1>4, <3>1, <3>2
  <2>2. turn' = 1
    BY <1>3, <2>1
  <2>3. cq_db = old_cq_db
    <3>1. turn \notin SQs
      BY <1>2, <1>4 DEF SQs
    <3> QED
      BY <3>1 DEF Skip
  <2> QED
    BY <1>1, <1>2, <1>4, <2>2, <2>3, LapWalk
<1>5. CASE t # N + 1
  <2>1. (t % (N + 1)) = t
    <3>1. PICK q \in Nat \ {0} : q = N + 1
      OBVIOUS
    <3>2. t \in Nat /\ t < q /\ t < q + q
      BY <1>2, <1>5, <3>1
    <3>3. (t % q) = IF t < q THEN t ELSE t - q
      BY <3>2, ModSmall
    <3> QED
      BY <3>1, <3>2, <3>3
  <2>2. turn' = t + 1 /\ t \in SQs
    BY <1>2, <1>3, <1>5, <2>1 DEF SQs
  <2>3. Bound(turn)' = Bound(turn) + (QSize - 1)
    <3>1. Bound(turn)' = Bound(t + 1)
      BY <2>2 DEF Bound
    <3> QED
      BY <1>2, <2>2, <3>1, BoundFacts
  <2>4. Pending' = Pending
    BY <1>1 DEF Pending
  <2>5. Behind' = Behind /\ Unrung' = Unrung /\ Unwalked' = Unwalked
    BY <1>1 DEF Behind, Unrung, Unwalked
  <2>6. Bound(turn) \in Nat /\ QSize - 1 \in Nat
    BY <1>2, BoundFacts, Sizes
  <2>7. Behind + Cardinality(Pending) + Cardinality(work) <= Bound(turn) + (QSize - 1)
    BY <2>6, LapTypes DEF NotLapped
  <2> QED
    BY <1>1, <2>3, <2>4, <2>5, <2>7 DEF NotLapped
<1> QED
  BY <1>4, <1>5

(* Copying moves no command.                                               *)
LEMMA LapCopy ==
    ASSUME TypeOK, Body, NotLapped, NEW s \in SQs, Copy(s)
    PROVE  NotLapped'
<1>0. PICK w \in work :
          /\ work' = (work \ {w}) \union
                        {[w EXCEPT !.copied = TRUE, !.read = sqRing[s][w.slot]]}
          /\ UNCHANGED <<hostVars, dbVars, cqVars, statVars>>
  BY DEF Copy
<1>1. PICK x : /\ work' = (work \ {w}) \union {x}
               /\ UNCHANGED <<hostVars, dbVars, cqVars, statVars>>
  BY <1>0
<1>2. UNCHANGED <<cq_db, old_cq_db, cHead, cPhase, cq, turn>>
  BY <1>1 DEF hostVars, dbVars, cqVars, statVars
<1>3. PICK b \in Nat, p \in Nat, n \in Nat :
          b = Behind /\ p = Cardinality(Pending) /\ n = Cardinality(work)
  BY LapTypes
<1>4. IsFiniteSet(work \ {w}) /\ Cardinality(work \ {w}) = n - 1
  BY <1>3, LapTypes, FS_RemoveElement
<1>5. Cardinality(work') \in Int /\ Cardinality(work') <= n
  <2>1. Cardinality(work') = IF x \in work \ {w} THEN n - 1 ELSE n - 1 + 1
    BY <1>1, <1>4, FS_AddElement
  <2> QED
    BY <2>1
<1>6. Pending' = Pending
  BY <1>2 DEF Pending
<1>7. Behind' = Behind /\ Unrung' = Unrung /\ Unwalked' = Unwalked /\ Bound(turn)' = Bound(turn)
  BY <1>2 DEF Behind, Unrung, Unwalked, Bound
<1>8. PICK B \in Int : B = Bound(turn)
  BY QueueAssumption DEF Bound, TypeOK
<1>9. b + p + n <= B
  BY <1>3, <1>8 DEF NotLapped
<1>10. b + p + Cardinality(work') <= B
  BY <1>5, <1>9
<1> QED
  BY <1>3, <1>6, <1>7, <1>8, <1>10 DEF NotLapped

(* A command goes from its worker to the completion queue.                 *)
LEMMA LapFill ==
    ASSUME TypeOK, Body, NotLapped, NEW s \in SQs, FillEntry(s)
    PROVE  NotLapped'
<1>1. PICK w \in work : Posts(s, w, cq_head)
  BY FillPosts
<1>2. UNCHANGED <<cq_db, old_cq_db, cHead, turn>> /\ work' = work \ {w}
  BY <1>1 DEF Posts, FillEntry, hostVars, dbVars, statVars
<1>3. cq_head \notin Pending /\ Pending' = Pending \union {cq_head}
  BY <1>1, PostsHead DEF Body
<1>4. PICK b \in Nat, p \in Nat, n \in Nat :
          b = Behind /\ p = Cardinality(Pending) /\ n = Cardinality(work)
  BY LapTypes
<1>5. Cardinality(work') = n - 1
  BY <1>2, <1>4, LapTypes, FS_RemoveElement
<1>6. Cardinality(Pending') = p + 1
  BY <1>3, <1>4, LapTypes, FS_AddElement
<1>7. Behind' = Behind /\ Unrung' = Unrung /\ Unwalked' = Unwalked /\ Bound(turn)' = Bound(turn)
  BY <1>2 DEF Behind, Unrung, Unwalked, Bound
<1>8. b + (p + 1) + (n - 1) = b + p + n
  OBVIOUS
<1> QED
  BY <1>4, <1>5, <1>6, <1>7, <1>8 DEF NotLapped

(* A submission queue emptied: at most QSize - 1 commands more.            *)
LEMMA LapDispatch ==
    ASSUME Roomy, TypeOK, Body, NotLapped, NEW s \in SQs, nvmev_proc_io_sq(s)
    PROVE  NotLapped'
<1>0. PICK n \in 0 .. QSize - 1 : Dispatch(s, n)
  BY DEF nvmev_proc_io_sq
<1>1. PICK N : N = {NewWork(s, (old_dbs[s] + i) % QSize) : i \in 0 .. n - 1}
  OBVIOUS
<1>2. work' = work \union N /\ UNCHANGED <<cq_db, old_cq_db, cHead, cPhase, cq>>
      /\ turn = s /\ turn' = s + 1
  BY <1>0, <1>1 DEF Dispatch, hostVars, cqVars
<1>3. PICK d \in Nat : d = Dispatched(s) /\ n \in Nat
  BY <1>0, DispatchFacts DEF Body
<1>4. \A i \in 0 .. n - 1 :
          NewWork(s, (old_dbs[s] + i) % QSize) =
             [sq |-> s, slot |-> ((d + i) % QSize),
              cmd |-> d + i + 1, copied |-> FALSE, read |-> NoCmd]
  BY <1>0, <1>3, DispatchFacts DEF Body
<1>5. \A w \in N : \E i \in 0 .. n - 1 :
          w = [sq |-> s, slot |-> ((d + i) % QSize),
               cmd |-> d + i + 1, copied |-> FALSE, read |-> NoCmd]
  BY <1>1, <1>4
<1>6. IsFiniteSet(N) /\ Cardinality(N) \in Nat /\ Cardinality(N) <= QSize - 1
  <2>1. PICK f : f = [w \in N |-> w.cmd]
    OBVIOUS
  <2>2. f \in [N -> d + 1 .. d + n]
    <3>1. \A w \in N : w.cmd \in d + 1 .. d + n
      <4> TAKE w \in N
      <4>1. PICK i \in 0 .. n - 1 : w = [sq |-> s, slot |-> ((d + i) % QSize),
                                         cmd |-> d + i + 1, copied |-> FALSE, read |-> NoCmd]
        BY <1>5
      <4>2. w.cmd = d + i + 1
        BY <4>1
      <4> QED
        BY <1>3, <4>2
    <3> QED
      BY <2>1, <3>1
  <2>3. \A v, w \in N : f[v] = f[w] => v = w
    <3> SUFFICES ASSUME NEW v \in N, NEW w \in N, f[v] = f[w] PROVE v = w
      OBVIOUS
    <3>1. PICK i \in 0 .. n - 1 : v = [sq |-> s, slot |-> ((d + i) % QSize),
                                       cmd |-> d + i + 1, copied |-> FALSE, read |-> NoCmd]
      BY <1>5
    <3>2. PICK j \in 0 .. n - 1 : w = [sq |-> s, slot |-> ((d + j) % QSize),
                                       cmd |-> d + j + 1, copied |-> FALSE, read |-> NoCmd]
      BY <1>5
    <3>3. d + i + 1 = d + j + 1
      <4>1. v.cmd = d + i + 1 /\ w.cmd = d + j + 1
        BY <3>1, <3>2
      <4>2. f[v] = v.cmd /\ f[w] = w.cmd
        BY <2>1
      <4> QED
        BY <4>1, <4>2
    <3>4. i = j
      BY <3>3
    <3> QED
      BY <3>1, <3>2, <3>4
  <2>4. IsFiniteSet(d + 1 .. d + n) /\ Cardinality(d + 1 .. d + n) = n
    <3>1. d + 1 \in Int /\ d + n \in Int
      BY <1>3
    <3>2. IsFiniteSet(d + 1 .. d + n)
          /\ Cardinality(d + 1 .. d + n) = IF d + 1 > d + n THEN 0 ELSE (d + n) - (d + 1) + 1
      BY <3>1, FS_Interval
    <3> QED
      BY <1>3, <3>2
  <2>5. f \in Injection(N, d + 1 .. d + n)
    BY <2>2, <2>3 DEF Injection, IsInjective
  <2>6. IsFiniteSet(N) /\ Cardinality(N) <= n
    BY <2>4, <2>5, FS_Injection
  <2>7. Cardinality(N) \in Nat
    BY <2>6, FS_CardinalityType
  <2> QED
    BY <2>6, <2>7, <1>3, Sizes
<1>7. PICK b \in Nat, p \in Nat, w \in Nat, m \in Nat, q \in Nat :
          /\ b = Behind /\ p = Cardinality(Pending) /\ w = Cardinality(work)
          /\ m = Cardinality(N) /\ q = QSize - 1 /\ m <= q
  BY <1>6, LapTypes, Sizes
<1>8. Cardinality(work') \in Int /\ Cardinality(work') <= w + m
  <2>1. Cardinality(work \union N) = w + m - Cardinality(work \cap N)
    BY <1>6, <1>7, LapTypes, FS_Union
  <2>2. Cardinality(work \cap N) \in Nat
    BY LapTypes, FS_Intersection, FS_CardinalityType
  <2> QED
    BY <1>2, <2>1, <2>2
<1>9. PICK B \in Nat : B = Bound(turn) /\ Bound(turn)' = B + q
  <2>1. Bound(turn)' = Bound(s + 1) /\ turn = s
    BY <1>2 DEF Bound
  <2>2. s \in 1 .. NrSq + 1
    BY Sizes DEF SQs
  <2> QED
    BY <1>7, <2>1, <2>2, BoundFacts
<1>10. Pending' = Pending
  BY <1>2 DEF Pending
<1>11. Behind' = Behind /\ Unrung' = Unrung /\ Unwalked' = Unwalked
  BY <1>2 DEF Behind, Unrung, Unwalked
<1>12. b + p + w <= B
  BY <1>7, <1>9 DEF NotLapped
<1>13. b + p + Cardinality(work') <= B + q
  BY <1>7, <1>8, <1>12
<1> QED
  BY <1>7, <1>9, <1>10, <1>11, <1>13 DEF NotLapped

(* Nothing is in the completion queue at the start ...                     *)
LEMMA InitLap ==
    ASSUME Roomy, Init
    PROVE  NotLapped
<1>1. Behind = 0 /\ Unrung = 0 /\ Unwalked = 0 /\ turn = 1 /\ work = {}
  BY DEF Init, Behind, Unrung, Unwalked, Span
<1>2. Pending = {}
  <2>1. \A i \in Slots : cq[i].phase = 0 /\ ~(i < 0)
    BY DEF Init, Slots
  <2>2. cHead = 0 /\ cPhase = 1
    BY DEF Init
  <2> QED
    BY <2>1, <2>2 DEF Pending
<1>3. 1 \in 1 .. NrSq + 1
  BY Sizes
<1>4. Bound(turn) \in Nat /\ MaxReap \in Nat
  BY <1>1, <1>3, BoundFacts
<1> QED
  BY <1>1, <1>2, <1>4, FS_EmptySet DEF NotLapped

(* ... and the workers do not lap the walk in any step.                    *)
LEMMA LapStep ==
    ASSUME Roomy
    PROVE  TypeOK /\ Body /\ NotLapped /\ [Next]_vars => NotLapped'
<1> SUFFICES ASSUME TypeOK, Body, NotLapped, [Next]_vars PROVE NotLapped'
  OBVIOUS
<1> USE DEF hostVars, dbVars, cqVars, statVars
<1>1. ASSUME UNCHANGED <<cq_db, old_cq_db, cHead, cPhase, cq, work, turn>> PROVE NotLapped'
  BY <1>1, LapUnchanged
<1>2. CASE UNCHANGED vars
  BY <1>1, <1>2 DEF vars
<1>3. CASE Host
  <2>1. ASSUME NEW s \in SQs, HostSubmit(s) \/ HostDeleteSq(s) PROVE NotLapped'
    BY <1>1, <2>1 DEF HostSubmit, HostDeleteSq
  <2>2. CASE HostIrq
    BY <1>1, <2>2 DEF HostIrq
  <2> QED
    BY <1>3, <2>1, <2>2, LapReap, LapDone DEF Host
<1>4. CASE nvmev_proc_dbs
  <2>1. CASE nvmev_proc_io_cq
    BY <2>1, LapWalk DEF nvmev_proc_io_cq
  <2> QED
    BY <1>4, <2>1, LapDispatch, LapSkip DEF nvmev_proc_dbs
<1>5. CASE Irq
  BY <1>1, <1>5 DEF Irq, IrqClear, IrqSignal, RaiseIrq
<1>6. ASSUME NEW s \in SQs, Worker(s) PROVE NotLapped'
  <2>1. CASE FillDone(s)
    BY <1>1, <2>1 DEF FillDone
  <2> QED
    BY <1>6, <2>1, LapCopy, LapFill DEF Worker
<1> QED
  BY <1>2, <1>3, <1>4, <1>5, <1>6 DEF Next
-----------------------------------------------------------------------------
(* The count of commands in flight. *)

Answered(s) == Cardinality({c \in Cmds : got[s][c] > 0})

Flight ==
    \A s \in SQs : alive[s] =>
        nr_in_flight[s] = Dispatched(s) - Answered(s)
                            + Cardinality(WalkedOf(s, cHead, old_cq_db))

(* Finitely many commands are answered.                                    *)
LEMMA AnsweredFinite ==
    ASSUME TypeOK, NEW s \in SQs
    PROVE  IsFiniteSet({c \in Cmds : got[s][c] > 0}) /\ Answered(s) \in Nat
<1>1. IsFiniteSet(Cmds)
  BY Sizes, FS_Interval DEF Cmds
<1>2. PICK S : S = {c \in Cmds : got[s][c] > 0}
  OBVIOUS
<1>3. S \in SUBSET Cmds
  BY <1>2
<1>4. IsFiniteSet(S)
  BY <1>1, <1>3, FS_Subset
<1> QED
  BY <1>2, <1>4, FS_CardinalityType DEF Answered

(* Steps that change no count and no released entry.                       *)
LEMMA FlightUnchanged ==
    ASSUME Flight, UNCHANGED <<nr_in_flight, got, cHead, old_cq_db, cq>>,
           \A s \in SQs : Dispatched(s)' = Dispatched(s) /\ (alive'[s] => alive[s])
    PROVE  Flight'
<1> SUFFICES ASSUME NEW s \in SQs, alive'[s]
             PROVE  nr_in_flight'[s] = Dispatched(s)' - Answered(s)'
                                         + Cardinality(WalkedOf(s, cHead, old_cq_db)')
  BY DEF Flight
<1>1. Answered(s)' = Answered(s)
  BY DEF Answered
<1>2. WalkedOf(s, cHead, old_cq_db)' = WalkedOf(s, cHead, old_cq_db)
  BY DEF WalkedOf, Walked
<1> QED
  BY <1>1, <1>2 DEF Flight

(* An answered command is still counted, for its entry is yet to be walked *)
(* over.                                                                   *)
LEMMA FlightReap ==
    ASSUME Roomy, TypeOK, Body, NotLapped, Flight, HostReap
    PROVE  Flight'
<1> SUFFICES ASSUME NEW s \in SQs, alive'[s]
             PROVE  nr_in_flight'[s] = Dispatched(s)' - Answered(s)'
                                         + Cardinality(WalkedOf(s, cHead, old_cq_db)')
  BY DEF Flight
<1>1. PICK q, c : q = cq[cHead].sq /\ c = cq[cHead].cmd
  OBVIOUS
<1>2. /\ got' = [got EXCEPT ![q][c] = @ + 1]
      /\ UNCHANGED <<sent, dbs, old_dbs, old_cq_db, cq, nr_in_flight, alive>>
  BY <1>1 DEF HostReap, dbVars, cqVars, statVars
<1>3. cHead \in Pending
  BY ReapPending
<1>4. q \in SQs /\ c \in out[q] /\ c \in Cmds
  <2>1. q \in SQs
    BY <1>1, <1>3, EntryTypes
  <2>2. c \in out[q]
    BY <1>1, <1>3 DEF Body, Posted
  <2> QED
    BY <2>1, <2>2 DEF TypeOK
<1>5. Dispatched(s)' = Dispatched(s)
  BY <1>2 DEF Dispatched, ToDispatch
<1>6. cHead' = NextHead(cHead) /\ Behind < CQSize - 1
  BY LapReap
<1>7. /\ cHead \notin Walked(cHead, old_cq_db)
      /\ Walked(cHead', old_cq_db) = Walked(cHead, old_cq_db) \union {cHead}
  BY <1>6, LapTypes, WalkedNext DEF Behind
<1>8. WalkedOf(s, cHead, old_cq_db)' = {i \in Walked(cHead', old_cq_db) : cq[i].sq = s}
  BY <1>2 DEF WalkedOf, Walked
<1>9. PICK V, A, B : /\ V = WalkedOf(s, cHead, old_cq_db)
                     /\ A = {d \in Cmds : got[s][d] > 0}
                     /\ B = {d \in Cmds : got'[s][d] > 0}
  OBVIOUS
<1>10. IsFiniteSet(V) /\ Cardinality(V) \in Nat /\ IsFiniteSet(A) /\ Cardinality(A) \in Nat
  BY <1>9, LapTypes, WalkedFinite, AnsweredFinite DEF Answered
<1>11. nr_in_flight[s] = Dispatched(s) - Cardinality(A) + Cardinality(V)
  BY <1>2, <1>9 DEF Flight, Answered
<1>12. Answered(s)' = Cardinality(B)
  BY <1>9 DEF Answered
<1>13. CASE s = q
  <2>1. WalkedOf(s, cHead, old_cq_db)' = V \union {cHead} /\ cHead \notin V
    BY <1>1, <1>7, <1>8, <1>9, <1>13 DEF WalkedOf
  <2>2. Cardinality(V \union {cHead}) = Cardinality(V) + 1
    BY <1>10, <2>1, FS_AddElement
  <2>3. got[q] \in [Cmds -> Nat]
    BY <1>4 DEF TypeOK
  <2>4. got'[q] = [got[q] EXCEPT ![c] = @ + 1]
    BY <1>2, <1>4 DEF TypeOK
  <2>5. got[q][c] = 0
    BY <1>4 DEF Body, AnsweredOnce
  <2>6. c \notin A
    BY <1>9, <1>13, <2>5
  <2>7. B = A \union {c}
    <3>1. \A d \in Cmds : d # c => got'[q][d] = got[q][d]
      BY <2>3, <2>4
    <3>2. got'[q][c] = 1
      BY <1>4, <2>3, <2>4, <2>5
    <3> QED
      BY <1>4, <1>9, <1>13, <3>1, <3>2
  <2>8. Cardinality(B) = Cardinality(A) + 1
    BY <1>10, <2>6, <2>7, FS_AddElement
  <2>9. Dispatched(s) \in Int
    BY ToDispatchType
  <2>10. \A x \in Int, a \in Nat, v \in Nat : x - a + v = x - (a + 1) + (v + 1)
    OBVIOUS
  <2> QED
    BY <1>2, <1>5, <1>10, <1>11, <1>12, <2>1, <2>2, <2>8, <2>9, <2>10
<1>14. CASE s # q
  <2>1. WalkedOf(s, cHead, old_cq_db)' = V
    BY <1>1, <1>7, <1>8, <1>9, <1>14 DEF WalkedOf
  <2>2. got'[s] = got[s]
    BY <1>2, <1>4, <1>14 DEF TypeOK
  <2>3. B = A
    BY <1>9, <2>2
  <2> QED
    BY <1>2, <1>5, <1>11, <1>12, <2>1, <2>3
<1> QED
  BY <1>13, <1>14

(* nvmev_proc_io_sq() adds what it dispatches.                             *)
LEMMA FlightDispatch ==
    ASSUME TypeOK, Body, Flight, NEW s \in SQs, nvmev_proc_io_sq(s)
    PROVE  Flight'
<1>0. PICK n \in 0 .. QSize - 1 : Dispatch(s, n)
  BY DEF nvmev_proc_io_sq
<1>1. /\ n \in Nat /\ Dispatched(s) \in Nat /\ Dispatched(s)' = Dispatched(s) + n
      /\ \A t \in SQs : t # s => Dispatched(t)' = Dispatched(t)
  BY <1>0, DispatchFacts DEF Body
<1>2. /\ nr_in_flight' = [nr_in_flight EXCEPT ![s] = @ + n]
      /\ UNCHANGED <<got, cHead, old_cq_db, cq, alive>>
  BY <1>0 DEF Dispatch, hostVars, cqVars
<1> SUFFICES ASSUME NEW t \in SQs, alive[t]
             PROVE  nr_in_flight'[t] = Dispatched(t)' - Answered(t)'
                                         + Cardinality(WalkedOf(t, cHead, old_cq_db)')
  BY <1>2 DEF Flight
<1>3. Answered(t)' = Answered(t)
      /\ WalkedOf(t, cHead, old_cq_db)' = WalkedOf(t, cHead, old_cq_db)
  BY <1>2 DEF Answered, WalkedOf, Walked
<1>4. PICK a \in Nat, v \in Nat :
          a = Answered(t) /\ v = Cardinality(WalkedOf(t, cHead, old_cq_db))
  BY LapTypes, AnsweredFinite, WalkedFinite
<1>5. nr_in_flight[t] = Dispatched(t) - a + v
  BY <1>4 DEF Flight
<1>6. CASE t = s
  <2>1. nr_in_flight'[t] = nr_in_flight[t] + n
    BY <1>2, <1>6 DEF TypeOK
  <2>2. \A x \in Nat : x - a + v + n = (x + n) - a + v
    BY <1>1
  <2> QED
    BY <1>1, <1>3, <1>4, <1>5, <1>6, <2>1, <2>2
<1>7. CASE t # s
  BY <1>1, <1>2, <1>3, <1>4, <1>5, <1>7 DEF TypeOK
<1> QED
  BY <1>6, <1>7

(* nvmev_proc_io_cq() takes off the entries of each queue that it walks    *)
(* over.                                                                   *)
LEMMA FlightWalk ==
    ASSUME TypeOK, Body, NotLapped, Flight, nvmev_proc_io_cq
    PROVE  Flight'
<1>1. old_cq_db' = cq_db /\ UNCHANGED <<sent, dbs, old_dbs, got, cHead, cq, alive>>
  BY DEF nvmev_proc_io_cq, hostVars, cqVars
<1> SUFFICES ASSUME NEW s \in SQs, alive[s]
             PROVE  nr_in_flight'[s] = Dispatched(s)' - Answered(s)'
                                         + Cardinality(WalkedOf(s, cHead, old_cq_db)')
  BY <1>1 DEF Flight
<1>2. nr_in_flight'[s] = nr_in_flight[s] - Uncounted(s)
  BY DEF nvmev_proc_io_cq, NoSuchQueue
<1>3. PICK V, R, H : /\ V = WalkedOf(s, cHead, old_cq_db)
                     /\ R = WalkedOf(s, cq_db, old_cq_db)
                     /\ H = WalkedOf(s, cHead, cq_db)
  OBVIOUS
<1>4. Uncounted(s) = Cardinality(R)
  BY <1>3 DEF Uncounted, Released, WalkedOf
<1>5. WalkedOf(s, cHead, old_cq_db)' = H
  BY <1>1, <1>3 DEF WalkedOf, Walked
<1>6. /\ Walked(cHead, old_cq_db) = Walked(cq_db, old_cq_db) \union Walked(cHead, cq_db)
      /\ Walked(cq_db, old_cq_db) \cap Walked(cHead, cq_db) = {}
  <2>1. Span(cq_db, old_cq_db, CQSize) + Span(cHead, cq_db, CQSize)
            = Span(cHead, old_cq_db, CQSize)
    BY DEF NotLapped, Unwalked, Unrung, Behind
  <2> QED
    BY <2>1, LapTypes, WalkedParts
<1>7. V = R \union H /\ R \cap H = {}
  BY <1>3, <1>6 DEF WalkedOf
<1>8. /\ IsFiniteSet(R) /\ IsFiniteSet(H) /\ Cardinality(R) \in Nat /\ Cardinality(H) \in Nat
  BY <1>3, LapTypes, WalkedFinite
<1>9. Cardinality(V) = Cardinality(R) + Cardinality(H)
  <2>1. Cardinality(R \cap H) = 0
    BY <1>7, FS_EmptySet
  <2>2. Cardinality(R \union H) = Cardinality(R) + Cardinality(H) - Cardinality(R \cap H)
    BY <1>8, FS_Union
  <2> QED
    BY <1>7, <1>8, <2>1, <2>2
<1>10. Dispatched(s)' = Dispatched(s) /\ Answered(s)' = Answered(s)
  BY <1>1 DEF Dispatched, ToDispatch, Answered
<1>11. Dispatched(s) \in Int /\ Answered(s) \in Nat
  BY ToDispatchType, AnsweredFinite
<1>12. nr_in_flight[s] = Dispatched(s) - Answered(s) + Cardinality(V)
  BY <1>3 DEF Flight
<1>13. \A x \in Int, a, r, h \in Nat : x - a + (r + h) - r = x - a + h
  OBVIOUS
<1> QED
  BY <1>2, <1>4, <1>5, <1>8, <1>9, <1>10, <1>11, <1>12, <1>13

(* A worker fills a slot beyond those the dispatcher has yet to walk over. *)
LEMMA FlightFill ==
    ASSUME Roomy, TypeOK, Body, NotLapped, Flight, NEW s \in SQs, FillEntry(s)
    PROVE  Flight'
<1>0. PICK w \in work : Posts(s, w, cq_head)
  BY FillPosts
<1>1. PICK h : h = cq_head /\ Posts(s, w, h)
  BY <1>0
<1>2. UNCHANGED <<sent, dbs, old_dbs, got, cHead, old_cq_db, nr_in_flight, alive>>
  BY <1>1 DEF Posts, FillEntry, hostVars, dbVars, statVars
<1>3. /\ h = PostHead /\ h \in Slots /\ \A i \in Slots : i # h => cq'[i] = cq[i]
  <2>1. cq_head \in Slots /\ lock = 0
    BY <1>0 DEF TypeOK, Slots, Posts
  <2>2. h \in Slots /\ h = PostHead
    BY <1>1, <2>1 DEF PostHead
  <2>3. ASSUME NEW i \in Slots, i # h PROVE cq'[i] = cq[i]
    <3>1. cq \in [Slots -> Entries]
      BY DEF TypeOK, Slots
    <3>2. cq' = [cq EXCEPT ![h] = [cmd |-> w.cmd, sq |-> s, phase |-> phase]]
      BY <1>1 DEF Posts
    <3> QED
      BY <2>3, <3>1, <3>2
  <2> QED
    BY <2>2, <2>3
<1>4. h \notin Walked(cHead, old_cq_db)
  <2>1. PICK b \in Nat, p \in Nat :
            b = Behind /\ p = Cardinality(Pending) /\ b + p < CQSize
    <3>1. turn \in 1 .. NrSq + 1
      BY DEF TypeOK
    <3>2. PICK B \in Nat, x \in Nat, p \in Nat, n \in Nat :
              /\ B = Bound(turn) /\ B < CQSize /\ x = Behind
              /\ p = Cardinality(Pending) /\ n = Cardinality(work)
      BY <3>1, BoundFacts, LapTypes
    <3>3. x + p + n <= B
      BY <3>2 DEF NotLapped
    <3>4. x + p < CQSize
      BY <3>2, <3>3, Sizes
    <3> QED
      BY <3>2, <3>4
  <2>2. p = IF cPhase = PostPhase THEN h - cHead ELSE h - cHead + CQSize
    BY <1>3, <2>1, PendingCount DEF Body
  <2>3. IF cPhase = PostPhase THEN cHead <= h ELSE h < cHead
    BY <1>3 DEF Body, Phases
  <2>4. PICK o \in Slots, c \in Slots : o = old_cq_db /\ c = cHead
    BY LapTypes
  <2>5. b = IF c < o THEN c - o + CQSize ELSE c - o
    BY <2>1, <2>4 DEF Behind, Span
  <2>6. ~(Span(h, o, CQSize) < Span(c, o, CQSize))
    BY <1>3, <2>1, <2>2, <2>3, <2>4, <2>5, Sizes DEF Span, Slots
  <2> QED
    BY <1>3, <2>4, <2>6, WalkedMember
<1>5. \A i \in Walked(cHead, old_cq_db) : cq'[i] = cq[i]
  <2>1. Walked(cHead, old_cq_db) \subseteq Slots
    BY LapTypes, WalkedSlots
  <2> QED
    BY <1>3, <1>4, <2>1
<1> SUFFICES ASSUME NEW t \in SQs, alive[t]
             PROVE  nr_in_flight'[t] = Dispatched(t)' - Answered(t)'
                                         + Cardinality(WalkedOf(t, cHead, old_cq_db)')
  BY <1>2 DEF Flight
<1>6. WalkedOf(t, cHead, old_cq_db)' = WalkedOf(t, cHead, old_cq_db)
  <2>1. Walked(cHead, old_cq_db)' = Walked(cHead, old_cq_db)
    BY <1>2 DEF Walked
  <2>2. WalkedOf(t, cHead, old_cq_db)' = {i \in Walked(cHead, old_cq_db)' : cq'[i].sq = t}
    BY DEF WalkedOf
  <2> QED
    BY <1>5, <2>1, <2>2 DEF WalkedOf
<1>7. Dispatched(t)' = Dispatched(t) /\ Answered(t)' = Answered(t)
  BY <1>2 DEF Dispatched, ToDispatch, Answered
<1> QED
  BY <1>2, <1>6, <1>7 DEF Flight

(* Nothing is in flight at the start ...                                   *)
LEMMA InitFlight ==
    ASSUME Init
    PROVE  Flight
<1> SUFFICES ASSUME NEW s \in SQs
             PROVE  nr_in_flight[s] = Dispatched(s) - Answered(s)
                                        + Cardinality(WalkedOf(s, cHead, old_cq_db))
  BY DEF Flight
<1>1. Dispatched(s) = 0 /\ nr_in_flight[s] = 0
  BY DEF Init, Dispatched, ToDispatch, Span
<1>2. Answered(s) = 0
  <2>1. \A c \in Cmds : ~(got[s][c] > 0)
    BY DEF Init
  <2>2. {c \in Cmds : got[s][c] > 0} = {}
    BY <2>1
  <2> QED
    BY <2>2, FS_EmptySet DEF Answered
<1>3. Cardinality(WalkedOf(s, cHead, old_cq_db)) = 0
  <2>1. Span(cHead, old_cq_db, CQSize) = 0
    BY DEF Init, Span
  <2>2. \A i \in 0 .. 0 - 1 : FALSE
    OBVIOUS
  <2>3. WalkedOf(s, cHead, old_cq_db) = {}
    BY <2>1, <2>2 DEF WalkedOf, Walked
  <2> QED
    BY <2>3, FS_EmptySet
<1> QED
  BY <1>1, <1>2, <1>3

(* ... and the count is right after every step.                            *)
LEMMA FlightStep ==
    ASSUME Roomy
    PROVE  TypeOK /\ Body /\ NotLapped /\ Flight /\ [Next]_vars => Flight'
<1> SUFFICES ASSUME TypeOK, Body, NotLapped, Flight, [Next]_vars PROVE Flight'
  OBVIOUS
<1> USE DEF hostVars, dbVars, cqVars, statVars
<1>1. ASSUME UNCHANGED <<nr_in_flight, got, cHead, old_cq_db, cq, sent, dbs, old_dbs>>,
             \A s \in SQs : alive'[s] => alive[s]
      PROVE  Flight'
  <2>1. \A s \in SQs : Dispatched(s)' = Dispatched(s)
    BY <1>1 DEF Dispatched, ToDispatch
  <2> QED
    BY <1>1, <2>1, FlightUnchanged
<1>2. CASE UNCHANGED vars
  BY <1>1, <1>2 DEF vars
<1>3. CASE Host
  <2>1. ASSUME NEW s \in SQs, HostSubmit(s) PROVE Flight'
    <3>1. UNCHANGED <<nr_in_flight, got, cHead, old_cq_db, cq, alive>>
      BY <2>1 DEF HostSubmit
    <3>2. \A t \in SQs : Dispatched(t)' = Dispatched(t)
      BY <2>1, SubmitFacts DEF Body
    <3> QED
      BY <3>1, <3>2, FlightUnchanged
  <2>2. ASSUME NEW s \in SQs, HostDeleteSq(s) PROVE Flight'
    <3>1. \A t \in SQs : alive'[t] => alive[t]
      BY <2>2 DEF HostDeleteSq, TypeOK
    <3>2. UNCHANGED <<nr_in_flight, got, cHead, old_cq_db, cq, sent, dbs, old_dbs>>
      BY <2>2 DEF HostDeleteSq
    <3> QED
      BY <1>1, <3>1, <3>2
  <2>3. CASE HostIrq
    BY <1>1, <2>3 DEF HostIrq
  <2>4. CASE HostDone
    BY <1>1, <2>4 DEF HostDone
  <2> QED
    BY <1>3, <2>1, <2>2, <2>3, <2>4, FlightReap DEF Host
<1>4. CASE nvmev_proc_dbs
  <2>1. CASE Skip
    BY <1>1, <2>1 DEF Skip
  <2> QED
    BY <1>4, <2>1, FlightDispatch, FlightWalk DEF nvmev_proc_dbs
<1>5. CASE Irq
  BY <1>1, <1>5 DEF Irq, IrqClear, IrqSignal, RaiseIrq
<1>6. ASSUME NEW s \in SQs, Worker(s) PROVE Flight'
  <2>1. CASE FillDone(s)
    BY <1>1, <2>1 DEF FillDone
  <2>2. CASE Copy(s)
    BY <1>1, <2>2 DEF Copy
  <2> QED
    BY <1>6, <2>1, <2>2, FlightFill DEF Worker
<1> QED
  BY <1>2, <1>3, <1>4, <1>5, <1>6 DEF Next

(* Only commands that the dispatcher has taken are answered.               *)
LEMMA AnsweredBound ==
    ASSUME TypeOK, Body, NEW s \in SQs
    PROVE  Answered(s) <= Dispatched(s)
<1>0. PICK S : S = {c \in Cmds : got[s][c] > 0}
  OBVIOUS
<1>1. PICK d \in Nat : S = {c \in Cmds : got[s][c] > 0} /\ d = Dispatched(s)
  BY <1>0 DEF Body, Rings
<1>2. \A c \in S : c \in 1 .. d
  <2> TAKE c \in S
  <2>1. c \in Cmds /\ got[s][c] > 0
    BY <1>1
  <2>2. c <= sent[s] /\ c \notin out[s]
    BY <2>1 DEF Body, AnsweredOnce
  <2>3. c \notin d + 1 .. sent[s]
    BY <1>1, <2>2 DEF Body, Outstanding
  <2>4. sent[s] \in Nat /\ c \in Nat /\ c >= 1
    BY <2>1 DEF TypeOK, Cmds
  <2> QED
    BY <2>2, <2>3, <2>4
<1>3. S \in SUBSET (1 .. d)
  BY <1>2
<1>4. IsFiniteSet(1 .. d) /\ Cardinality(1 .. d) = d
  <2>1. 1 \in Int /\ d \in Int
    OBVIOUS
  <2>2. IsFiniteSet(1 .. d) /\ Cardinality(1 .. d) = IF 1 > d THEN 0 ELSE d - 1 + 1
    BY <2>1, FS_Interval
  <2> QED
    BY <2>2
<1>5. Cardinality(S) <= d
  BY <1>3, <1>4, FS_Subset
<1> QED
  BY <1>1, <1>5 DEF Answered

(* InFlightExact, in the terms of the specification.                       *)
LEMMA FlightExact ==
    ASSUME TypeOK, Body, Flight
    PROVE  InFlightExact
<1> SUFFICES ASSUME NEW s \in SQs, alive[s]
             PROVE  /\ nr_in_flight[s] >= 0
                    /\ nr_in_flight[s] = Dispatched(s) - Answered(s)
                                           + Cardinality(WalkedOf(s, cHead, old_cq_db))
  BY DEF InFlightExact, Dispatched, Answered, WalkedOf
<1>1. nr_in_flight[s] = Dispatched(s) - Answered(s)
                          + Cardinality(WalkedOf(s, cHead, old_cq_db))
  BY DEF Flight
<1>2. PICK d \in Nat, a \in Nat, v \in Nat :
          /\ d = Dispatched(s) /\ a = Answered(s) /\ a <= d
          /\ v = Cardinality(WalkedOf(s, cHead, old_cq_db))
  <2>1. Dispatched(s) \in Nat
    BY DEF Body, Rings
  <2> QED
    BY <2>1, AnsweredFinite, AnsweredBound, LapTypes, WalkedFinite
<1>3. d - a + v >= 0
  BY <1>2
<1> QED
  BY <1>1, <1>2, <1>3

(* The device's count of a live queue's commands in flight, taken down by  *)
(* nvmev_proc_io_cq() from queue ids in entries that the host has already  *)
(* released, is never negative and is what was dispatched and not released *)
(* at the completion doorbell, in a completion queue that the workers      *)
(* cannot lap between two rounds of the dispatcher.                        *)
THEOREM InFlightCounted ==
    ASSUME Roomy
    PROVE  Spec => []InFlightExact
<1>1. Init => TypeOK /\ Body /\ NotLapped /\ Flight
  BY InitType, InitBody, InitLap, InitFlight
<1>2. TypeOK /\ Body /\ NotLapped /\ Flight /\ [Next]_vars
          => (TypeOK /\ Body /\ NotLapped /\ Flight)'
  BY BodyStep, LapStep, FlightStep
<1>3. TypeOK /\ Body /\ NotLapped /\ Flight => InFlightExact
  BY FlightExact
<1> QED
  BY <1>1, <1>2, <1>3, PTL DEF Spec
=============================================================================
