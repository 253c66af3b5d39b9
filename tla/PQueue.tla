-------------------------------- MODULE PQueue --------------------------------
(***************************************************************************)
(* The victim priority queue (src/pqueue/pqueue.c): a binary heap in an    *)
(* array, in which every member keeps its own position, driven by the      *)
(* calls that src/conv_ftl.c makes.  A member is a line, its priority the  *)
(* line's vpc (fewest valid pages on top), its position line->pos, with 0  *)
(* for "not in the queue".                                                 *)
(*                                                                         *)
(* ConvFtl treats the queue as the set `members` kept here: this module    *)
(* shows that the heap and its positions say the same as that set.         *)
(***************************************************************************)
EXTENDS Integers, FiniteSets

CONSTANTS Lines,          \* the lines of one area
          pgs_per_line,   \* pages of a line: vpc is in 0 .. pgs_per_line
          NONE            \* an array slot that was never written

QueueAssumption == pgs_per_line \in Nat \ {0} /\ NONE \notin Lines

N == Cardinality(Lines)

VARIABLES q,          \* [d, size, pos, pri]: the heap with the lines' fields
          members     \* the lines put in and not taken out

vars == <<q, members>>

(* pqueue_init(): element 0 of the array is not used, size is one more     *)
(* than the number of members.                                             *)
Init ==
    /\ q = [d |-> [i \in 1 .. N |-> NONE], size |-> 1,
            pos |-> [ln \in Lines |-> 0], pri |-> [ln \in Lines |-> 0]]
    /\ members = {}
-----------------------------------------------------------------------------
(* victim_line_cmp_pri(): must x go below y?                               *)
CmpPri(x, y) == x > y

(* q->d[i] = ln and its position.                                          *)
Put(h, i, ln) == [h EXCEPT !.d[i] = ln, !.pos[ln] = i]

(* bubble_up(): move down every ancestor of i that belongs below the       *)
(* moving node, then put that node into the hole.                          *)
RECURSIVE BubbleFrom(_, _, _)
BubbleFrom(h, i, ln) ==
    IF i > 1 /\ CmpPri(h.pri[h.d[i \div 2]], h.pri[ln])
    THEN BubbleFrom(Put(h, i, h.d[i \div 2]), i \div 2, ln)
    ELSE Put(h, i, ln)
BubbleUp(h, i) == BubbleFrom(h, i, h.d[i])

(* maxchild(): the child that goes on top, 0 if there is none.             *)
MaxChild(h, i) ==
    LET l == 2 * i IN
    IF l >= h.size
    THEN 0
    ELSE IF l + 1 < h.size /\ CmpPri(h.pri[h.d[l]], h.pri[h.d[l + 1]]) THEN l + 1 ELSE l

(* percolate_down(): move up the better child as long as it belongs above  *)
(* the moving node.                                                        *)
RECURSIVE PercolateFrom(_, _, _)
PercolateFrom(h, i, ln) ==
    LET c == MaxChild(h, i) IN
    IF c # 0 /\ CmpPri(h.pri[ln], h.pri[h.d[c]])
    THEN PercolateFrom(Put(h, i, h.d[c]), c, ln)
    ELSE Put(h, i, ln)
PercolateDown(h, i) == PercolateFrom(h, i, h.d[i])

PqueueInsert(h, ln) ==
    BubbleUp([h EXCEPT !.size = @ + 1, !.d[h.size] = ln], h.size)

PqueueChangePriority(h, pri, ln) ==
    LET g == [h EXCEPT !.pri[ln] = pri] IN
    IF CmpPri(h.pri[ln], pri)
    THEN BubbleUp(g, h.pos[ln])
    ELSE PercolateDown(g, h.pos[ln])

(* The last node takes the place of the removed one; it may have to move   *)
(* up, as it can come from another branch.                                 *)
PqueueRemoveDown(h, ln) ==
    PercolateDown([h EXCEPT !.size = @ - 1, !.d[h.pos[ln]] = h.d[h.size - 1]], h.pos[ln])
PqueueRemove(h, ln) ==
    LET i == h.pos[ln]
        g == [h EXCEPT !.size = @ - 1, !.d[i] = h.d[h.size - 1]]
    IN  IF CmpPri(g.pri[ln], g.pri[g.d[i]]) THEN BubbleUp(g, i) ELSE PercolateDown(g, i)

PqueuePop(h) ==
    PercolateDown([h EXCEPT !.size = @ - 1, !.d[1] = h.d[h.size - 1]], 1)

PqueuePeek(h) == IF h.size = 1 THEN NONE ELSE h.d[1]
-----------------------------------------------------------------------------
(* The callers in conv_ftl.c.                                              *)

(* No call reads a slot at or above size that it has not written itself,   *)
(* so what an earlier call left there is forgotten: TLC would report a     *)
(* read of NONE.                                                           *)
Live(h) == [h EXCEPT !.d = [i \in 1 .. N |-> IF i < h.size THEN h.d[i] ELSE NONE]]

(* mark_page_valid() of a page of the open line.                           *)
MarkPageValid(ln) ==
    /\ ln \notin members
    /\ q.pri[ln] < pgs_per_line
    /\ q' = [q EXCEPT !.pri[ln] = @ + 1]
    /\ UNCHANGED members

(* mark_line_free() of a line that was taken out and cleaned.              *)
MarkLineFree(ln) ==
    /\ ln \notin members
    /\ q' = [q EXCEPT !.pri[ln] = 0]
    /\ UNCHANGED members

(* advance_write_pointer() closes a line that has invalid pages.           *)
Close(ln) ==
    /\ ln \notin members
    /\ q.pri[ln] < pgs_per_line
    /\ q' = PqueueInsert(q, ln)
    /\ members' = members \cup {ln}

(* mark_page_invalid() of a page of line ln: pos decides whether the line  *)
(* is in the queue, and a full line is put into it.                        *)
MarkPageInvalid(ln) ==
    LET h == IF q.pos[ln] # 0
             THEN PqueueChangePriority(q, q.pri[ln] - 1, ln)
             ELSE [q EXCEPT !.pri[ln] = @ - 1]
    IN  /\ q.pri[ln] > 0
        /\ IF q.pri[ln] = pgs_per_line
           THEN q' = PqueueInsert(h, ln) /\ members' = members \cup {ln}
           ELSE q' = h /\ UNCHANGED members

(* victim_line->pos = 0 after the line has been taken out.                 *)
ResetPos(h, ln) == [h EXCEPT !.pos[ln] = 0]

(* select_victim_line() takes any member, by its cost-benefit value.       *)
SelectVictimLine(ln) ==
    /\ ln \in {q.d[i] : i \in 1 .. q.size - 1}
    /\ q' = Live(ResetPos(PqueueRemove(q, ln), ln))
    /\ members' = members \ {ln}

(* select_victim_line_slc() takes the top.                                 *)
SelectVictimLineSlc ==
    /\ PqueuePeek(q) # NONE
    /\ q' = Live(ResetPos(PqueuePop(q), PqueuePeek(q)))
    /\ members' = members \ {PqueuePeek(q)}

Next ==
    \/ \E ln \in Lines : \/ MarkPageValid(ln) \/ MarkLineFree(ln) \/ Close(ln)
                          \/ MarkPageInvalid(ln) \/ SelectVictimLine(ln)
    \/ SelectVictimLineSlc

Spec == Init /\ [][Next]_vars
-----------------------------------------------------------------------------
(* Properties.                                                             *)

(* The array holds exactly the members, each once, and never needs more    *)
(* slots than were allocated ("Need more space in pqueue").                *)
HoldsMembers ==
    /\ q.size = Cardinality(members) + 1
    /\ {q.d[i] : i \in 1 .. q.size - 1} = members

(* A member's position is where it is in the array and a line outside has  *)
(* position 0: mark_page_invalid() trusts both.                            *)
PositionsExact ==
    \A ln \in Lines : IF ln \in members
                      THEN q.pos[ln] \in 1 .. q.size - 1 /\ q.d[q.pos[ln]] = ln
                      ELSE q.pos[ln] = 0

(* The top, which migration cleans, has the fewest valid pages of all      *)
(* members, however lines were inserted, invalidated and removed from the  *)
(* middle of the array.                                                    *)
TopIsMinimum ==
    IF members = {}
    THEN PqueuePeek(q) = NONE
    ELSE /\ PqueuePeek(q) \in members
         /\ \A ln \in members : q.pri[PqueuePeek(q)] <= q.pri[ln]
=============================================================================
