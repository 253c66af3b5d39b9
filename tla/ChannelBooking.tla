--------------------------- MODULE ChannelBooking ---------------------------
(***************************************************************************)
(* One channel under requests at any time, against a reference that keeps  *)
(* the same bandwidth by absolute time: nothing moves, nothing is cleared, *)
(* and the end of a request is found by its definition.                    *)
(***************************************************************************)
EXTENDS ChannelModel

CONSTANTS Credits,      \* max_credits
          Sizes,        \* of requests, in UNIT_XFER_SIZE
          Ahead,        \* bound: start of a request after the clock
          MaxTime       \* bound: the clock

BookingAssumption == Credits \in Nat \ {0} /\ Sizes \subseteq Nat /\ MaxTime \in Nat

VARIABLES ch,       \* the channel
          now,      \* __get_wallclock()
          booked    \* reference: the credits taken, by absolute interval

vars == <<ch, now, booked>>

\* No interval after these can be booked.
Slots == 0 .. Slot(MaxTime) + Entries

Init == ch = chmodel_init(Credits) /\ now = 0 /\ booked = [s \in Slots |-> 0]

-----------------------------------------------------------------------------
(* The reference. *)

FreeIn(a, b) == MapThenSumSet(LAMBDA s : Credits - booked[s], a .. b)

\* Too late, or farther ahead than the ring reaches: answered without booking.
Bookable(rt) == rt >= now /\ Slot(rt) - Slot(now) < Entries

\* The first interval by which there is enough, or the last that can be booked.
EndSlot(rt, units) ==
    LET last == Slot(now) + Entries - 1
    IN  Min({s \in Slot(rt) .. last : FreeIn(Slot(rt), s) >= units} \union {last})

Booked(rt, units) ==
    [s \in Slots |->
        IF Bookable(rt) /\ s \in Slot(rt) .. EndSlot(rt, units)
        THEN booked[s] + Min({Credits - booked[s], units - FreeIn(Slot(rt), s - 1)})
        ELSE booked[s]]

DoneAt(rt, units) ==
    IF ~Bookable(rt) THEN rt
    ELSE LET wait == EndSlot(rt, units) - Slot(rt)
         IN  rt + XferLat * units + Interval * Max({0, wait - units \div Credits})

-----------------------------------------------------------------------------
Requests == (0 .. now + Ahead) \X Sizes

Request ==
    /\ \E q \in Requests :
          /\ ch' = chmodel_request(ch, now, q[1], q[2]).r
          /\ booked' = Booked(q[1], q[2])
    /\ UNCHANGED now

\* Time passes, however long no request comes.
Tick == now' \in now + 1 .. MaxTime /\ UNCHANGED <<ch, booked>>

Next == Request \/ Tick

Spec == Init /\ [][Next]_vars

-----------------------------------------------------------------------------
(* Properties. *)

\* The ring and its indices have their types; valid_len is within the assertion
\* of chmodel_request().
TypeOK ==
    /\ ch.head \in 0 .. Entries - 1 /\ ch.valid_len \in 0 .. Entries
    /\ ch.avail \in [0 .. Entries - 1 -> 0 .. Credits]
    /\ ch.cur_time \in 0 .. now

\* "Search current time index and move head to it": read from its head, the
\* ring is the bandwidth left from the interval of its clock on, whatever was
\* cleared, wrapped or left idle, and no interval is given away twice.
RingIsTimeline ==
    \A k \in 0 .. Entries - 1 :
        ch.avail[(ch.head + k) % Entries] = Credits - booked[Slot(ch.cur_time) + k]

\* Whatever is asked next, the answer is the time the bandwidth allows: the ring
\* gives the one the reference gives.
AnswersFromTimeline ==
    \A q \in Requests : chmodel_request(ch, now, q[1], q[2]).at = DoneAt(q[1], q[2])
=============================================================================
