------------------------------ MODULE NandStore ------------------------------
(***************************************************************************)
(* What the flash translation layer of src/conv_ftl.c promises, without    *)
(* saying how: a page-mapped store over NAND blocks.                       *)
(*                                                                         *)
(* The medium has three rules.  A page is programmed at most once between  *)
(* two erases; the pages of a line are programmed in order; a line is      *)
(* erased as a whole.  The store adds one more: a line may be erased only  *)
(* when no logical page lives in it.  A logical page, once written, stays  *)
(* written, and it changes its place only by being programmed somewhere    *)
(* else.  ConvFtl is shown to implement this module.                       *)
(***************************************************************************)
EXTENDS Naturals

CONSTANTS
    Lpns,        \* logical page numbers
    Lines,       \* erase units (super blocks)
    Size,        \* Size[ln] is the number of pages of line ln
    Unmapped     \* "this logical page was never written" (UNMAPPED_PPA)

VARIABLES
    where,       \* where[l] is the physical page of logical page l
    programmed   \* the physical pages programmed since their last erase

vars == <<where, programmed>>

PagesOf(ln) == {[blk |-> ln, pg |-> k] : k \in 0 .. Size[ln] - 1}

Init ==
    /\ where = [l \in Lpns |-> Unmapped]
    /\ programmed = {}

(* Put logical page l on page p: p is erased, every earlier page of its    *)
(* line is programmed, and no other logical page moves.                    *)
Program(l, ln, k) ==
    LET p == [blk |-> ln, pg |-> k] IN
    /\ p \notin programmed
    /\ \A j \in 0 .. k - 1 : [blk |-> ln, pg |-> j] \in programmed
    /\ programmed' = programmed \cup {p}
    /\ where' = [where EXCEPT ![l] = p]

(* Erase a used up line in which no logical page lives.                    *)
Erase(ln) ==
    /\ PagesOf(ln) \subseteq programmed
    /\ \A l \in Lpns : where[l] \notin PagesOf(ln)
    /\ programmed' = programmed \ PagesOf(ln)
    /\ UNCHANGED where

Next ==
    \E ln \in Lines :
        \/ \E l \in Lpns, k \in 0 .. Size[ln] - 1 : Program(l, ln, k)
        \/ Erase(ln)

Spec == Init /\ [][Next]_vars
=============================================================================
