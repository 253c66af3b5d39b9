------------------------------ MODULE ConvRead ------------------------------
(***************************************************************************)
(* conv_read(): the flash reads a host's read is turned into.  Partition   *)
(* by partition it goes through the logical pages, and pages of the same   *)
(* flash page that follow each other become one command.                   *)
(***************************************************************************)
EXTENDS Integers, Sequences, SequencesExt

CONSTANTS Parts,        \* nr_parts
          NrLpns,       \* logical pages of the device
          NrFlash,      \* flash pages of a partition
          PgsPerFlash   \* pgs_per_flashpg

ReadAssumption == {Parts, NrLpns, NrFlash, PgsPerFlash} \subseteq Nat \ {0}

VARIABLES
    maptbl,     \* the flash page that holds each logical page, or Unmapped
    start_lpn, end_lpn,
    i,          \* partitions gone through
    lpn,        \* the logical page at hand
    prev,       \* prev_ppa
    xfer_size,  \* pages gathered
    reads,      \* the commands so far: partition, flash page, pages
    pc

vars == <<maptbl, start_lpn, end_lpn, i, lpn, prev, xfer_size, reads, pc>>
table == <<maptbl, end_lpn>>

Lpns     == 0 .. NrLpns - 1
Unmapped == 0
Flash    == 1 .. NrFlash

\* Logical pages of partition p that table m keeps on flash page f.
On(m, p, f) == {x \in Lpns : x % Parts = p /\ m[x] = f}

Init ==
    /\ maptbl \in {m \in [Lpns -> Flash \union {Unmapped}] :
                     \A p \in 0 .. Parts - 1, f \in Flash : Cardinality(On(m, p, f)) <= PgsPerFlash}
    /\ start_lpn \in Lpns /\ end_lpn \in start_lpn .. NrLpns - 1
    /\ i = 0 /\ lpn = 0 /\ prev = Unmapped /\ xfer_size = 0 /\ reads = <<>>
    /\ pc = "partition"

Partition ==
    /\ pc = "partition"
    /\ IF i < Parts /\ start_lpn <= end_lpn
       THEN /\ lpn' = start_lpn /\ prev' = maptbl[start_lpn] /\ xfer_size' = 0 /\ pc' = "page"
       ELSE pc' = "done" /\ UNCHANGED <<lpn, prev, xfer_size>>
    /\ UNCHANGED <<table, start_lpn, i, reads>>

\* The command for the pages gathered, if there are any.
IssuedLate(f) ==
    IF xfer_size <= 1 THEN reads ELSE Append(reads, <<start_lpn % Parts, f, xfer_size>>)
Issued(f) == IF xfer_size = 0 THEN reads ELSE Append(reads, <<start_lpn % Parts, f, xfer_size>>)

\* The page at hand is on flash page f.
SameFlash(f) == maptbl[lpn] = f

\* One page: left out when it is not mapped, added to those of its flash page,
\* or the first of the next command.
Page ==
    /\ pc = "page" /\ lpn <= end_lpn
    /\ IF maptbl[lpn] = Unmapped THEN UNCHANGED <<prev, xfer_size, reads>>
       ELSE IF prev # Unmapped /\ SameFlash(prev)
       THEN xfer_size' = xfer_size + 1 /\ UNCHANGED <<prev, reads>>
       ELSE /\ reads' = Issued(prev)
            /\ xfer_size' = 1 /\ prev' = maptbl[lpn]
    /\ lpn' = lpn + Parts
    /\ UNCHANGED <<table, start_lpn, i, pc>>

PartitionEnd ==
    /\ pc = "page" /\ lpn > end_lpn
    /\ reads' = Issued(prev)
    /\ i' = i + 1 /\ start_lpn' = start_lpn + 1 /\ pc' = "partition"
    /\ UNCHANGED <<table, lpn, prev, xfer_size>>

Next == Partition \/ Page \/ PartitionEnd

Spec == Init /\ [][Next]_vars /\ WF_vars(Next)

-----------------------------------------------------------------------------
(* Properties. *)

\* The pages the request asks for; start_lpn has moved on by i.
Wanted == start_lpn - i .. end_lpn

PagesRead(p, f) ==
    LET mine == SelectSeq(reads, LAMBDA r : r[1] = p /\ r[2] = f)
    IN  FoldSeq(LAMBDA r, n : r[3] + n, 0, mine)

\* Every mapped page of the request is read once and from the flash page it is
\* on, whatever is unmapped between, and in whichever partition the request
\* begins; no flash page is asked for more than it has.
ReadsExactly ==
    pc = "done" =>
        \A p \in 0 .. Parts - 1, f \in Flash :
            PagesRead(p, f) = Cardinality(On(maptbl, p, f) \intersect Wanted)

\* Pages of one flash page that follow each other in the request cost one command.
Aggregates ==
    \A n \in 1 .. Len(reads) - 1 : reads[n][1] = reads[n + 1][1] => reads[n][2] # reads[n + 1][2]
=============================================================================
