------------------------------ MODULE Geometry ------------------------------
(***************************************************************************)
(* The geometry of a partition with an SLC region, as ssd_init_params_slc() *)
(* computes it from the configuration, the index of a page in the reverse  *)
(* map, the size the device exports, and the order in which a write        *)
(* pointer goes through the pages of a line: one-shot page by one-shot     *)
(* page over the channels and LUNs.  Sizes are in sectors; lengths in the  *)
(* flash are in pages.                                                     *)
(***************************************************************************)
EXTENDS Integers, Sequences, SequencesExt, FiniteSetsExt

CONSTANTS SecsPerPg,    \* secs_per_pg
          MaxChs, MaxLuns, MaxParts, MaxBlks, MaxFlash,
          Portions,     \* values of SLC_PORTION
          MaxSize       \* bound: the storage of a partition, in pages

GeometryAssumption ==
    /\ {SecsPerPg, MaxChs, MaxLuns, MaxParts, MaxBlks, MaxFlash, MaxSize} \subseteq Nat \ {0}
    /\ Portions \subseteq 0 .. 99

VARIABLES geo,      \* the configuration: channels, LUNs, lines, ...
          wp,       \* the write pointer: line, channel, LUN, page
          fresh,    \* history: the pointer has just taken a line
          written   \* history: pages written to the line, up to the last one taken

vars == <<geo, wp, fresh, written>>

DivRoundUp(a, b) == (a + b - 1) \div b

-----------------------------------------------------------------------------
(* ssd_init_params_slc(), for BLKS_PER_PLN > 0 and one plane per LUN. *)

nchs == geo.channels \div geo.parts
capacity == geo.size \div geo.parts
blk_size == DivRoundUp(capacity, geo.blks * geo.luns * nchs)

\* ONESHOT_PAGE_SIZE is three flash pages, SLC_ONESHOT_PAGE_SIZE one.
pgs_per_oneshotpg     == 3 * geo.flash
pgs_per_oneshotpg_slc == geo.flash
oneshotpgs_per_blk    == DivRoundUp(blk_size, pgs_per_oneshotpg * SecsPerPg)
pgs_per_blk           == pgs_per_oneshotpg * oneshotpgs_per_blk
pgs_per_blk_slc       == pgs_per_oneshotpg_slc * oneshotpgs_per_blk

tt_lines_slc == (geo.blks * geo.portion) \div 100
tt_lines_tlc == geo.blks - tt_lines_slc

pgs_per_lun == pgs_per_blk_slc * tt_lines_slc + pgs_per_blk * tt_lines_tlc
pgs_per_ch  == pgs_per_lun * geo.luns
tt_pgs      == pgs_per_ch * nchs

\* What the namespace exports, over all partitions.
NsSize == ((100 - geo.portion) * geo.size + (geo.portion * geo.size) \div 3) \div 100

-----------------------------------------------------------------------------
(* Pages of a line and their index. *)

InSlc(blk)  == blk < tt_lines_slc
Pages(blk)  == IF InSlc(blk) THEN pgs_per_blk_slc ELSE pgs_per_blk
Oneshot(blk) == IF InSlc(blk) THEN pgs_per_oneshotpg_slc ELSE pgs_per_oneshotpg

LinePages(blk) ==
    [blk : {blk}, ch : 0 .. nchs - 1, lun : 0 .. geo.luns - 1, pg : 0 .. Pages(blk) - 1]

ppa2pgidxFlat(ppa) ==
    ppa.ch * pgs_per_ch + ppa.lun * pgs_per_lun + ppa.blk * pgs_per_blk_slc + ppa.pg
ppa2pgidx(ppa) ==
    ppa.ch * pgs_per_ch + ppa.lun * pgs_per_lun + ppa.pg
      + IF InSlc(ppa.blk) THEN ppa.blk * pgs_per_blk_slc
        ELSE tt_lines_slc * pgs_per_blk_slc + (ppa.blk - tt_lines_slc) * pgs_per_blk

last_pg_in_wordline(ppa) == ppa.pg % Oneshot(ppa.blk) = Oneshot(ppa.blk) - 1

-----------------------------------------------------------------------------
(* The write pointer. *)

\* A pointer at the first page of a line.
AtStart(blk) == [blk |-> blk, ch |-> 0, lun |-> 0, pg |-> 0]

Configurations ==
    {g \in [channels : 1 .. MaxChs, luns : 1 .. MaxLuns, parts : 1 .. MaxParts,
            blks : 1 .. MaxBlks, flash : 1 .. MaxFlash, portion : Portions,
            size : {n * SecsPerPg * p : n \in 1 .. MaxSize, p \in 1 .. MaxParts}] :
        g.channels % g.parts = 0 /\ g.size % (g.parts * SecsPerPg) = 0}

Init ==
    /\ geo \in Configurations
    /\ \E blk \in 0 .. geo.blks - 1 : wp = AtStart(blk)
    /\ fresh = TRUE /\ written = <<>>

\* Next after page p of the same line, or the start of the line when it is full.
AfterSlcBlock(p) ==
    IF (p.pg + 1) % Oneshot(p.blk) # 0 THEN [p EXCEPT !.pg = @ + 1]
    ELSE LET q == [p EXCEPT !.pg = @ + 1 - Oneshot(p.blk)]
         IN  IF q.ch + 1 # nchs THEN [q EXCEPT !.ch = @ + 1]
             ELSE IF q.lun + 1 # geo.luns THEN [q EXCEPT !.ch = 0, !.lun = @ + 1]
             ELSE IF p.pg + 1 # pgs_per_blk_slc
                  THEN [q EXCEPT !.ch = 0, !.lun = 0, !.pg = p.pg + 1]
             ELSE AtStart(p.blk)
After(p) ==
    IF (p.pg + 1) % Oneshot(p.blk) # 0 THEN [p EXCEPT !.pg = @ + 1]
    ELSE LET q == [p EXCEPT !.pg = @ + 1 - Oneshot(p.blk)]
         IN  IF q.ch + 1 # nchs THEN [q EXCEPT !.ch = @ + 1]
             ELSE IF q.lun + 1 # geo.luns THEN [q EXCEPT !.ch = 0, !.lun = @ + 1]
             ELSE IF p.pg + 1 # Pages(p.blk)
                  THEN [q EXCEPT !.ch = 0, !.lun = 0, !.pg = p.pg + 1]
             ELSE AtStart(p.blk)

\* get_new_page(), then advance_write_pointer(): the next line is one of the
\* same region (which one is the free list's business).
advance_write_pointer ==
    LET next == After(wp)
    IN  /\ written' = Append(IF fresh THEN <<>> ELSE written, wp)
        /\ fresh' = (next = AtStart(wp.blk))
        /\ IF fresh'
           THEN \E blk \in 0 .. geo.blks - 1 :
                   /\ InSlc(blk) = InSlc(wp.blk) /\ wp' = AtStart(blk)
           ELSE wp' = next
        /\ UNCHANGED geo

Next == advance_write_pointer

Spec == Init /\ [][Next]_vars

-----------------------------------------------------------------------------
(* Properties. *)

\* A line is written page by page, none of them twice, and is left for the next
\* one when every page of it has been written: vpc + ipc = pgs_per_line.
LineWrittenOnce ==
    /\ IsInjective(written)
    /\ fresh /\ written # <<>> => ToSet(written) = LinePages(Last(written).blk)

\* When last_pg_in_wordline() sends a one-shot page to the flash, the pages
\* before it are the rest of that one-shot page, so a program is of data that
\* has arrived and the buffer is given back what was charged for it.
WordlinesWhole ==
    written # <<>> /\ last_pg_in_wordline(Last(written)) =>
        LET n == Oneshot(Last(written).blk)
        IN  /\ Len(written) >= n
            /\ \A k \in 0 .. n - 1 :
                  written[Len(written) - k] = [Last(written) EXCEPT !.pg = @ - k]

\* Pages of both regions have different entries of the reverse map, within it.
IndexExact ==
    written = <<>> =>
        LET all == UNION {LinePages(b) : b \in 0 .. geo.blks - 1}
            idx == {ppa2pgidx(p) : p \in all}
        IN  Cardinality(idx) = Cardinality(all) /\ idx \subseteq 0 .. tt_pgs - 1

\* The namespace ends within the map tables of its partitions, whichever way the
\* divisions round, so no read or write of the device is out of the FTL's range.
NamespaceMapped ==
    NsSize > 0 => ((NsSize - 1) \div SecsPerPg) \div geo.parts < tt_pgs
=============================================================================
