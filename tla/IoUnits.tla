------------------------------ MODULE IoUnits -------------------------------
(***************************************************************************)
(* The timing model of the simple FTL and of the KV FTL: I/O units that    *)
(* operate in parallel, each with the time it is busy until.  A command    *)
(* goes to as many units, one after the other, as its length needs; flush  *)
(* waits for all of them.                                                  *)
(***************************************************************************)
EXTENDS Integers, FiniteSetsExt

CONSTANTS Units,        \* nr_io_units
          MaxUnits,     \* the largest command, in I/O units
          WriteDelay, WriteTime, WriteTrailing,
          ReadDelay, ReadTime, ReadTrailing,
          MaxTime,      \* bound: the clock
          MaxBusy       \* bound: io_unit_stat

ASSUME UnitsAssumption ==
    /\ Units \in Nat \ {0} /\ MaxUnits \in Nat \ {0}
    /\ {WriteDelay, WriteTime, WriteTrailing} \subseteq Nat
    /\ {ReadDelay, ReadTime, ReadTrailing} \subseteq Nat

VARIABLES stat,     \* io_unit_stat
          now,      \* the clock
          targets   \* history: nsecs_target of the commands that are not due

vars == <<stat, now, targets>>

Unit == 0 .. Units - 1

Init == stat = [u \in Unit |-> 0] /\ now = 0 /\ targets = {}

-----------------------------------------------------------------------------
Delay(op)    == IF op = "write" THEN WriteDelay ELSE ReadDelay
Latency(op)  == IF op = "write" THEN WriteTime ELSE ReadTime
Trailing(op) == IF op = "write" THEN WriteTrailing ELSE ReadTrailing

\* Only the first unit is asked when it is free.
StartOfNext(op, first) ==
    LET next == (first + 1) % Units
    IN  (IF stat[next] > now THEN stat[next] ELSE now) + Delay(op)
Start(op, first) == (IF stat[first] > now THEN stat[first] ELSE now) + Delay(op)

\* The rounds of the loop that come to unit u, for a command of n units.
Rounds(first, n, u) == {k \in 0 .. n - 1 : (first + k) % Units = u}

\* The last of them sets the unit's time; the first Units rounds add the trailing time.
StatAfter(op, first, n, u) ==
    LET k == CHOOSE x \in Rounds(first, n, u) : \A y \in Rounds(first, n, u) : y <= x
    IN  IF Rounds(first, n, u) = {} THEN stat[u]
        ELSE Start(op, first) + (k + 1) * Latency(op) + (IF k < Units THEN Trailing(op) ELSE 0)

\* What __schedule_io_units() returns.
Target(op, first, n) == Start(op, first) + n * Latency(op)

schedule_io_units ==
    \E op \in {"read", "write"}, first \in Unit, n \in 1 .. MaxUnits :
        /\ stat[first] <= MaxBusy
        /\ stat' = [u \in Unit |-> StatAfter(op, first, n, u)]
        /\ targets' = targets \union {Target(op, first, n)}
        /\ UNCHANGED now

\* What __schedule_flush() returns is the largest of stat: the flush comes after
\* a time if some unit is busy until then.
FlushCovers(t) == \E u \in Unit : t <= stat[u]

Tick == /\ now < MaxTime
        /\ now' = now + 1
        /\ targets' = {t \in targets : t > now + 1}
        /\ UNCHANGED stat

Next == schedule_io_units \/ Tick

Spec == Init /\ [][Next]_vars

-----------------------------------------------------------------------------
(* Properties. *)

\* Times are natural numbers, and what is not due lies ahead.
TypeOK == /\ stat \in [Unit -> Nat] /\ now \in Nat
          /\ targets \subseteq Nat

\* "I/O units that operate in parallel" do one thing at a time, so a flush, which
\* waits for all of them, is answered after every command accepted before it.
FlushAfterWrites == \A t \in targets : FlushCovers(t)
=============================================================================
