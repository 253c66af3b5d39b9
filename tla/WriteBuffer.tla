---------------------------- MODULE WriteBuffer -----------------------------
(***************************************************************************)
(* The write buffer of the conventional FTL, shared by its partitions.     *)
(* conv_write() takes the bytes of a request from it, or is refused and    *)
(* called again by the dispatcher; page by page the request fills the      *)
(* wordlines of the partitions' write pointers, and a full wordline is     *)
(* given back, whole, by an internal operation of a worker.  Sizes are in  *)
(* sectors.                                                                *)
(***************************************************************************)
EXTENDS Integers, FiniteSetsExt, Functions

CONSTANTS BufSize,      \* GLOBAL_WB_SIZE
          SecsPerPg,    \* secs_per_pg
          PgsPerOneshot,\* pages of a wordline in the mode of the host's writes
          Parts,        \* nr_parts
          TtPgs,        \* tt_pgs: pages of a partition
          MaxReq,       \* largest request (MDTS)
          HostAligned   \* the host writes whole pages

ASSUME BufferAssumption ==
    /\ HostAligned \in BOOLEAN
    /\ {BufSize, SecsPerPg, PgsPerOneshot, Parts, TtPgs, MaxReq} \subseteq Nat \ {0}
    /\ MaxReq <= BufSize   \* asserted in buffer_allocate()

VARIABLES
    remaining,  \* buf->remaining
    filled,     \* pages in the open wordline, by partition
    releases,   \* internal operations scheduled and not yet run
    cmd         \* the write at the head of the submission queue, or NoCmd

vars == <<remaining, filled, releases, cmd>>

NoCmd == <<>>
Part  == 0 .. Parts - 1

Init == /\ remaining = BufSize
        /\ filled = [p \in Part |-> 0]
        /\ releases = 0
        /\ cmd = NoCmd

-----------------------------------------------------------------------------
\* The host sends the next write: its first sector and its length.
Sectors == 0 .. Parts * TtPgs * SecsPerPg - 1
Writes ==
    {w \in Sectors \X (1 .. MaxReq) :
        /\ w[1] + w[2] - 1 \in Sectors
        /\ HostAligned => w[1] % SecsPerPg = 0 /\ w[2] % SecsPerPg = 0}

HostWrite == cmd = NoCmd /\ cmd' \in Writes /\ UNCHANGED <<remaining, filled, releases>>

\* The logical pages of a write, and how many of them go to partition p.
Lpns(w) == w[1] \div SecsPerPg .. (w[1] + w[2] - 1) \div SecsPerPg
PagesOf(w, p) == Cardinality({lpn \in Lpns(w) : lpn % Parts = p})

InRange(w) == \A lpn \in Lpns(w) : lpn \div Parts < TtPgs

\* A wordline is complete, and scheduled for release, at its last page.
FilledAfter(f, n) == (f + n) % PgsPerOneshot
Completed(f, n) == (f + n) \div PgsPerOneshot

\* What buffer_allocate() takes: all of the request or nothing.
AllocatedStrict(size) == IF remaining <= size THEN 0 ELSE size
Allocated(size) == IF remaining < size THEN 0 ELSE size

conv_write ==
    LET size == cmd[2] IN
    /\ cmd # NoCmd
    /\ InRange(cmd) /\ Allocated(size) = size
    /\ remaining' = remaining - size
    /\ filled' = [p \in Part |-> FilledAfter(filled[p], PagesOf(cmd, p))]
    /\ releases' = releases + SumFunctionOnSet(
                       [p \in Part |-> Completed(filled[p], PagesOf(cmd, p))], Part)
    /\ cmd' = NoCmd

\* The internal operation of one wordline.
Wordline == PgsPerOneshot * SecsPerPg
ReleasedOnePage == SecsPerPg
Released == Wordline
buffer_release ==
    /\ releases > 0
    /\ releases' = releases - 1
    /\ remaining' = remaining + Released
    /\ UNCHANGED <<filled, cmd>>

Next == HostWrite \/ conv_write \/ buffer_release

Spec == Init /\ [][Next]_vars

\* The dispatcher offers a refused write again; the worker reaches every
\* operation when its time has come.
FairSpec == Spec /\ WF_vars(conv_write) /\ WF_vars(buffer_release)

-----------------------------------------------------------------------------
(* Properties. *)

\* The buffer, the wordlines and the command have their types.
TypeOK ==
    /\ remaining \in Nat /\ releases \in Nat
    /\ filled \in [Part -> 0 .. PgsPerOneshot - 1]
    /\ cmd = NoCmd \/ cmd \in Writes

\* Nothing of the buffer is lost or made: what is not free waits in an open
\* wordline or in an operation that will give it back.
BufferConserved ==
    remaining + Wordline * releases
              + SecsPerPg * SumFunctionOnSet(filled, Part) = BufSize

\* BufferConserved, with TypeOK: buffer_allocate() and buffer_release() balance over
\* requests that are smaller and larger than a wordline.
BufferBalanced == TypeOK /\ BufferConserved

\* A write the buffer can hold is accepted in the end, whatever is left behind
\* in wordlines that no write may ever complete.
WriteAccepted == (cmd # NoCmd) ~> (cmd = NoCmd)
=============================================================================
