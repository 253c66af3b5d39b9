---------------------------- MODULE ChannelModel ----------------------------
(***************************************************************************)
(* chmodel_request(): when a transfer over a NAND channel or the PCIe link *)
(* will be done.  A channel books its bandwidth in a ring of intervals,    *)
(* each with the credits it has left; the ring begins at the interval of   *)
(* the clock and is moved along by the next request.                       *)
(***************************************************************************)
EXTENDS Integers, FiniteSetsExt

CONSTANTS Entries,      \* NR_CREDIT_ENTRIES
          Interval,     \* UNIT_TIME_INTERVAL
          XferLat,      \* xfer_lat
          Wrap          \* 2^32: the offsets are 32 bits wide

ChannelAssumption ==
    Entries \in Nat \ {0} /\ Interval \in Nat \ {0} /\ XferLat \in Nat /\ Wrap \in Nat \ {0}

Slot(t) == t \div Interval
U32(x)  == x % Wrap

chmodel_init(max) == [head |-> 0, valid_len |-> 0, cur_time |-> 0, max_credits |-> max,
                      avail |-> [i \in 0 .. Entries - 1 |-> max]]

\* The entries the clock has passed are full again.
Cleared(r, offs) ==
    [i \in 0 .. Entries - 1 |->
        IF (i - r.head) % Entries < offs THEN r.max_credits ELSE r.avail[i]]

\* The ring moved to the interval of the clock.
Moved(r, now) ==
    LET offs == Min({U32(Slot(now) - Slot(r.cur_time)), r.valid_len}) IN
    [r EXCEPT !.head = (@ + offs) % Entries, !.valid_len = @ - offs, !.cur_time = now,
              !.avail = Cleared(r, offs)]

DebitedNot(r, pos, n) == r
Debited(r, pos, n) == [r EXCEPT !.avail[pos] = @ - n]

\* Takes credits entry by entry, up to the end of the ring.
RECURSIVE Spend(_, _, _, _)
Spend(r, pos, remaining, delay) ==
    LET consumed == Min({remaining, r.avail[pos]})
        taken    == Debited(r, pos, consumed)
        next     == (pos + 1) % Entries
    IN  IF remaining = consumed \/ next = r.head
        THEN [r |-> taken, pos |-> pos, delay |-> delay]
        ELSE Spend(taken, next, remaining - consumed, delay + 1)

ValidLength(r, pos) ==
    IF pos >= r.head THEN pos - r.head + 1 ELSE Entries - (r.head - pos - 1)

\* Intervals of waiting beyond those the transfer needs by itself.
Late(delay, units, max) == IF delay > units \div max THEN delay - units \div max ELSE 0

\* The channel after a request at rt for so many units, and the time it is done.
chmodel_request(r, now, rt, units) ==
    LET m    == Moved(r, now)
        offs == U32(Slot(rt) - Slot(now))
        s    == Spend(m, (m.head + offs) % Entries, units, 0)
    IN  IF rt < now \/ offs >= Entries THEN [r |-> m, at |-> rt]
        ELSE [r  |-> [s.r EXCEPT !.valid_len = Max({@, ValidLength(m, s.pos)})],
              at |-> rt + XferLat * units + Late(s.delay, units, r.max_credits) * Interval]
=============================================================================
