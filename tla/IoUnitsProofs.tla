--------------------------- MODULE IoUnitsProofs ----------------------------
(***************************************************************************)
(* Commands that fit one I/O unit: a flush comes after all of them, for    *)
(* any number of units, latencies and clock.                               *)
(***************************************************************************)
EXTENDS IoUnits, TLAPS

\* The times of a command are natural numbers.
LEMMA TimesNat == \A op : Delay(op) \in Nat /\ Latency(op) \in Nat /\ Trailing(op) \in Nat
  BY UnitsAssumption DEF Delay, Latency, Trailing

\* A command of one unit comes to its first unit and to no other.
LEMMA OneRound ==
    ASSUME NEW first \in Unit, NEW u \in Unit
    PROVE  /\ u = first => Rounds(first, 1, u) = {0}
           /\ u # first => Rounds(first, 1, u) = {}
  <1>1. (first + 0) % Units = first
    BY UnitsAssumption DEF Unit
  <1>2. 0 .. 1 - 1 = {0}
    OBVIOUS
  <1> QED BY <1>1, <1>2 DEF Rounds

\* What it does to the units: its own is busy for longer, the others as before.
LEMMA OneUnit ==
    ASSUME NEW op, NEW first \in Unit, NEW u \in Unit, TypeOK
    PROVE  /\ u = first => StatAfter(op, first, 1, u) = Start(op, first) + Latency(op) + Trailing(op)
           /\ u # first => StatAfter(op, first, 1, u) = stat[u]
  <1>1. ASSUME u # first PROVE StatAfter(op, first, 1, u) = stat[u]
    BY <1>1, OneRound DEF StatAfter
  <1>2. ASSUME u = first PROVE StatAfter(op, first, 1, u) = Start(op, first) + Latency(op) + Trailing(op)
    <2> DEFINE k == CHOOSE x \in Rounds(first, 1, u) : \A y \in Rounds(first, 1, u) : y <= x
    <2>1. Rounds(first, 1, u) = {0}
      BY <1>2, OneRound
    <2>2. k = 0
      BY <2>1
    <2>3. StatAfter(op, first, 1, u)
            = Start(op, first) + (k + 1) * Latency(op) + (IF k < Units THEN Trailing(op) ELSE 0)
      BY <2>1 DEF StatAfter
    <2>4. (0 + 1) * Latency(op) = Latency(op) /\ 0 < Units
      BY TimesNat, UnitsAssumption
    <2> QED BY <2>2, <2>3, <2>4
  <1> QED BY <1>1, <1>2

\* The times are typed and a flush comes after everything not due: inductive.
IInv == TypeOK /\ FlushAfterWrites

\* No command of one unit, and no passing of time, breaks it.
LEMMA IInvStep == ASSUME MaxUnits = 1 PROVE IInv /\ [Next]_vars => IInv'
  <1> SUFFICES ASSUME IInv, [Next]_vars PROVE IInv'
    OBVIOUS
  <1> USE DEF IInv
  <1>1. CASE schedule_io_units
    <2>1. PICK op \in {"read", "write"}, first \in Unit :
             /\ stat' = [u \in Unit |-> StatAfter(op, first, 1, u)]
             /\ targets' = targets \union {Target(op, first, 1)}
             /\ now' = now
      BY <1>1 DEF schedule_io_units
    <2>2. Start(op, first) \in Nat /\ Start(op, first) >= stat[first]
      BY TimesNat, UnitsAssumption DEF TypeOK, Start
    <2>3. Target(op, first, 1) = Start(op, first) + Latency(op)
      BY <2>2, TimesNat, UnitsAssumption DEF Target
    <2>4. \A u \in Unit : stat'[u] = IF u = first THEN Start(op, first) + Latency(op) + Trailing(op)
                                                  ELSE stat[u]
      BY <2>1, OneUnit
    <2>5. \A u \in Unit : stat'[u] \in Nat /\ stat'[u] >= stat[u]
      BY <2>2, <2>4, TimesNat, UnitsAssumption DEF TypeOK
    <2>6. TypeOK'
      <3>1. stat' \in [Unit -> Nat]
        BY <2>1, <2>5
      <3>2. ASSUME NEW t \in targets' PROVE t \in Nat
        <4>1. CASE t = Target(op, first, 1)
          BY <2>2, <2>3, <4>1, TimesNat, UnitsAssumption
        <4>2. CASE t \in targets
          BY <4>2 DEF TypeOK
        <4> QED BY <2>1, <3>2, <4>1, <4>2
      <3> QED BY <2>1, <3>1, <3>2 DEF TypeOK
    <2>7. ASSUME NEW t \in targets' PROVE FlushCovers(t)'
      <3>1. CASE t = Target(op, first, 1)
        BY <2>2, <2>3, <2>4, <3>1, TimesNat, UnitsAssumption DEF FlushCovers
      <3>2. CASE t \in targets
        <4>1. PICK u \in Unit : t <= stat[u]
          BY <3>2 DEF FlushAfterWrites, FlushCovers
        <4>2. t <= stat'[u]
          BY <2>5, <3>2, <4>1 DEF TypeOK
        <4> QED BY <4>2 DEF FlushCovers
      <3> QED BY <2>1, <2>7, <3>1, <3>2
    <2> QED BY <2>6, <2>7 DEF FlushAfterWrites
  <1>2. CASE Tick
    <2>1. TypeOK'
      <3>1. ASSUME NEW t \in targets' PROVE t \in Nat
        BY <1>2, <3>1 DEF Tick, TypeOK
      <3>2. now' \in Nat
        BY <1>2 DEF Tick, TypeOK
      <3> QED BY <1>2, <3>1, <3>2 DEF Tick, TypeOK
    <2>2. FlushAfterWrites'
      BY <1>2 DEF Tick, FlushAfterWrites, FlushCovers
    <2> QED BY <2>1, <2>2
  <1>3. CASE UNCHANGED vars
    BY <1>3 DEF vars, TypeOK, FlushAfterWrites, FlushCovers
  <1> QED BY <1>1, <1>2, <1>3 DEF Next

\* As long as no command needs more than one unit, __schedule_flush() returns a
\* time after that of every command __schedule_io_units() has accepted.
THEOREM SingleUnitFlush == ASSUME MaxUnits = 1 PROVE Spec => []FlushAfterWrites
  <1>1. Init => IInv
    BY UnitsAssumption DEF Init, IInv, TypeOK, FlushAfterWrites
  <1>2. IInv /\ [Next]_vars => IInv'
    BY IInvStep
  <1>3. IInv => FlushAfterWrites
    BY DEF IInv
  <1> QED BY <1>1, <1>2, <1>3, PTL DEF Spec
=============================================================================
