------------------------------ MODULE ConvFtl --------------------------------
(***************************************************************************)
(* One partition of the conventional FTL (src/conv_ftl.c) with the SLC     *)
(* write cache enabled: host writes go to SLC lines, foreground_gc()       *)
(* migrates SLC lines into the TLC area and garbage-collects TLC lines.    *)
(*                                                                         *)
(* All of this state is touched by the dispatcher thread only.  A host     *)
(* page write is the body of conv_write()'s loop; the model cuts it, and   *)
(* the collection it may start, into the steps the C code takes in         *)
(* sequence, so that the invariants are checked between them too.  pc says *)
(* which step comes next; nothing else may happen in between.              *)
(*                                                                         *)
(* A physical page is [blk, pg]: blk is the line (block ids and line ids   *)
(* coincide) and pg the page's rank in the order in which                  *)
(* advance_write_pointer() visits the line's pages.                        *)
(***************************************************************************)
EXTENDS Integers, Sequences, FiniteSets, SequencesExt

CONSTANTS
    tt_lines_slc, tt_lines_tlc,       \* number of SLC and of TLC lines
    pgs_per_line_slc, pgs_per_line,   \* pages of an SLC and of a TLC line
    mig_thres_lines_high,             \* both thresholds are 2 in
    gc_thres_lines_high,              \*   conv_init_params()
    Lpns,                             \* logical pages of this partition
    AgeLevels,                        \* values of age_levelize()
    SCALER,                           \* fixed-point factor of cost-benefit
    UINT32_MAX,                       \* largest value of a credit counter
    NULL                              \* UNMAPPED_PPA, INVALID_LPN, no line

ASSUME LineCounts == /\ tt_lines_slc \in Nat /\ tt_lines_slc >= 2
                     /\ tt_lines_tlc \in Nat /\ tt_lines_tlc >= 1
ASSUME PageCounts == /\ pgs_per_line_slc \in Nat \ {0}
                     /\ pgs_per_line \in Nat \ {0}
ASSUME Thresholds == /\ mig_thres_lines_high \in Nat
                     /\ gc_thres_lines_high \in Nat
ASSUME Ages == AgeLevels \subseteq Nat \ {0} /\ AgeLevels # {}
ASSUME Scaler == SCALER \in Nat \ {0}
ASSUME CreditWidth == /\ UINT32_MAX \in Nat
                      /\ pgs_per_line_slc <= UINT32_MAX
                      /\ pgs_per_line <= UINT32_MAX

Modes == {"SLC", "TLC"}
IoTypes == {"USER", "GC"}

SlcLines == 0 .. tt_lines_slc - 1
TlcLines == tt_lines_slc .. tt_lines_slc + tt_lines_tlc - 1
Lines == SlcLines \cup TlcLines
LinesOf(m) == IF m = "SLC" THEN SlcLines ELSE TlcLines

(* lm_lines are after slm_lines: the line id decides which area it is in.  *)
ModeOf(ln) == IF ln < tt_lines_slc THEN "SLC" ELSE "TLC"
PgsPerLine(ln) == IF ln < tt_lines_slc THEN pgs_per_line_slc ELSE pgs_per_line

Ppa(ln, k) == [blk |-> ln, pg |-> k]
PagesOf(ln) == {Ppa(ln, k) : k \in 0 .. PgsPerLine(ln) - 1}
Ppas == UNION {PagesOf(ln) : ln \in Lines}

ASSUME NullIsFresh == NULL \notin Lpns /\ NULL \notin Lines /\ NULL \notin Ppas

VARIABLES
    maptbl,            \* lpn -> ppa or NULL
    rmap,              \* ppa -> lpn or NULL
    status,            \* ppa -> "FREE", "VALID", "INVALID" (nand_page.status)
    vpc, ipc,          \* per line: valid and invalid page counters
    free_line_list,    \* per mode: FIFO list of erased lines
    full_line_list,    \* per mode: list of closed lines without invalid pages
    victim_line_pq,    \* per mode: closed lines with invalid pages
    free_line_cnt, full_line_cnt, victim_line_cnt,
    wp,                \* per io type: the open line and the next page in it
    write_credits, credits_to_refill,
    dyn_slc_mode,      \* which area the code is working on
    pc,                \* next step of the dispatcher
    lpn,               \* logical page being written
    victim_line,       \* line being cleaned, or NULL
    todo,              \* its valid pages not copied yet
    resume             \* where do_gc() returns to

mapping == <<maptbl, rmap>>
pages == <<status, vpc, ipc>>
freeVars == <<free_line_list, free_line_cnt>>
fullVars == <<full_line_list, full_line_cnt>>
victimVars == <<victim_line_pq, victim_line_cnt>>
credits == <<write_credits, credits_to_refill>>
gcVars == <<victim_line, todo, resume>>
vars == <<mapping, pages, freeVars, fullVars, victimVars, wp, credits,
          dyn_slc_mode, pc, lpn, gcVars>>

(* Both tables are empty and every page is erased.                         *)
InitTables ==
    /\ maptbl = [l \in Lpns |-> NULL]
    /\ rmap = [p \in Ppas |-> NULL]
    /\ status = [p \in Ppas |-> "FREE"]
    /\ vpc = [ln \in Lines |-> 0]
    /\ ipc = [ln \in Lines |-> 0]

(* init_lines() makes every line free; prepare_write_pointer() then takes  *)
(* the first SLC line for host writes and the first TLC line for copies.   *)
InitLines ==
    /\ free_line_list = [SLC |-> [i \in 1 .. tt_lines_slc - 1 |-> i],
                         TLC |-> [i \in 1 .. tt_lines_tlc - 1 |-> tt_lines_slc + i]]
    /\ free_line_cnt = [SLC |-> tt_lines_slc - 1, TLC |-> tt_lines_tlc - 1]
    /\ full_line_list = [m \in Modes |-> <<>>]
    /\ full_line_cnt = [m \in Modes |-> 0]
    /\ victim_line_pq = [m \in Modes |-> {}]
    /\ victim_line_cnt = [m \in Modes |-> 0]

PrepareWritePointers ==
    /\ wp = [USER |-> [line |-> 0, pg |-> 0], GC |-> [line |-> tt_lines_slc, pg |-> 0]]
    /\ dyn_slc_mode = "TLC"

InitWriteFlowControl ==
    /\ write_credits = pgs_per_line_slc
    /\ credits_to_refill = pgs_per_line_slc

(* conv_init_ftl(); the dispatcher waits for a write.                      *)
Init ==
    /\ InitTables
    /\ InitLines
    /\ PrepareWritePointers
    /\ InitWriteFlowControl
    /\ pc = "host"
    /\ lpn = NULL
    /\ victim_line = NULL
    /\ todo = {}
    /\ resume = "mig"
-----------------------------------------------------------------------------
(* Page and line bookkeeping.                                              *)

GetNewPage(io) == Ppa(wp[io].line, wp[io].pg)

(* mark_page_invalid(): a full line that loses a page becomes a candidate. *)
WasFullLineOffByOne(ln) == vpc[ln] >= PgsPerLine(ln) - 1
WasFullLine(ln) == vpc[ln] = PgsPerLine(ln)

MarkPageInvalid(p) ==
    LET ln == p.blk
        m == ModeOf(ln)
    IN  /\ status' = [status EXCEPT ![p] = "INVALID"]
        /\ ipc' = [ipc EXCEPT ![ln] = @ + 1]
        /\ vpc' = [vpc EXCEPT ![ln] = @ - 1]
        /\ IF WasFullLine(ln)
           THEN /\ full_line_list' = [full_line_list EXCEPT ![m] = RemoveFirst(@, ln)]
                /\ full_line_cnt' = [full_line_cnt EXCEPT ![m] = @ - 1]
                /\ victim_line_pq' = [victim_line_pq EXCEPT ![m] = @ \cup {ln}]
                /\ victim_line_cnt' = [victim_line_cnt EXCEPT ![m] = @ + 1]
           ELSE UNCHANGED <<fullVars, victimVars>>

MarkPageValid(p) ==
    /\ status' = [status EXCEPT ![p] = "VALID"]
    /\ vpc' = [vpc EXCEPT ![p.blk] = @ + 1]
    /\ UNCHANGED ipc

(* Bind logical page l to page p: set_maptbl_ent(), set_rmap_ent(),        *)
(* mark_page_valid().                                                      *)
MapPageNoRmap(l, p) ==
    /\ maptbl' = [maptbl EXCEPT ![l] = p]
    /\ UNCHANGED rmap
    /\ MarkPageValid(p)

MapPage(l, p) ==
    /\ maptbl' = [maptbl EXCEPT ![l] = p]
    /\ rmap' = [rmap EXCEPT ![p] = l]
    /\ MarkPageValid(p)

(* A used up line goes to the full list or, if it has invalid pages, to    *)
(* the victim queue.  Reads vpc', which MarkPageValid has just set.        *)
CloseLineAsFull(ln) ==
    LET m == ModeOf(ln) IN
    /\ full_line_list' = [full_line_list EXCEPT ![m] = Append(@, ln)]
    /\ full_line_cnt' = [full_line_cnt EXCEPT ![m] = @ + 1]
    /\ UNCHANGED victimVars

CloseLine(ln) ==
    LET m == ModeOf(ln) IN
    IF vpc'[ln] = PgsPerLine(ln)
    THEN /\ full_line_list' = [full_line_list EXCEPT ![m] = Append(@, ln)]
         /\ full_line_cnt' = [full_line_cnt EXCEPT ![m] = @ + 1]
         /\ UNCHANGED victimVars
    ELSE /\ victim_line_pq' = [victim_line_pq EXCEPT ![m] = @ \cup {ln}]
         /\ victim_line_cnt' = [victim_line_cnt EXCEPT ![m] = @ + 1]
         /\ UNCHANGED fullVars

(* The area an io type writes to.                                          *)
ModeFor(io) == IF io = "USER" THEN "SLC" ELSE "TLC"

(* get_next_free_line() for a closed line: the head of the free list, or   *)
(* NULL, on which advance_write_pointer() hits NVMEV_ASSERT(curline).      *)
OpenNextLine(io) ==
    LET m == ModeFor(io) IN
    IF free_line_list[m] = <<>>
    THEN /\ wp' = [wp EXCEPT ![io] = [line |-> NULL, pg |-> 0]]
         /\ UNCHANGED freeVars
    ELSE /\ wp' = [wp EXCEPT ![io] = [line |-> Head(free_line_list[m]), pg |-> 0]]
         /\ free_line_list' = [free_line_list EXCEPT ![m] = Tail(@)]
         /\ free_line_cnt' = [free_line_cnt EXCEPT ![m] = @ - 1]

AdvanceWritePointer(io) ==
    LET ln == wp[io].line IN
    IF wp[io].pg + 1 < PgsPerLine(ln)
    THEN /\ wp' = [wp EXCEPT ![io].pg = @ + 1]
         /\ UNCHANGED <<freeVars, fullVars, victimVars, dyn_slc_mode>>
    ELSE /\ CloseLine(ln)
         /\ dyn_slc_mode' = ModeFor(io)
         /\ OpenNextLine(io)

(* The assertion on the new line stops the kernel.                         *)
NextPc(io, next) == IF wp'[io].line = NULL THEN "bug" ELSE next
-----------------------------------------------------------------------------
(* Host page writes: the body of the loop in conv_write().                 *)

(* First half: the old copy of the page, if any, is invalidated and its    *)
(* reverse entry cleared.                                                  *)
Invalidate(l) ==
    /\ pc = "host"
    /\ lpn' = l
    /\ pc' = "program"
    /\ IF maptbl[l] = NULL
       THEN UNCHANGED <<rmap, pages, fullVars, victimVars>>
       ELSE /\ MarkPageInvalid(maptbl[l])
            /\ rmap' = [rmap EXCEPT ![maptbl[l]] = NULL]
    /\ UNCHANGED <<maptbl, freeVars, wp, credits, dyn_slc_mode, gcVars>>

(* write_credits is unsigned.                                              *)
Decrement(n) == IF n = 0 THEN UINT32_MAX ELSE n - 1
Add(m, n) == (m + n) % (UINT32_MAX + 1)

(* Second half: a new SLC page, the write pointer, one write credit; no    *)
(* credit left means a call of foreground_gc().                            *)
Program ==
    /\ pc = "program"
    /\ MapPage(lpn, GetNewPage("USER"))
    /\ AdvanceWritePointer("USER")
    /\ write_credits' = Decrement(write_credits)
    /\ pc' = NextPc("USER", IF write_credits' = 0 THEN "fg" ELSE "host")
    /\ lpn' = NULL
    /\ UNCHANGED <<credits_to_refill, gcVars>>

(* check_and_refill_write_credit() after foreground_gc() has returned.     *)
Refill ==
    /\ pc = "refill"
    /\ write_credits' = Add(write_credits, credits_to_refill)
    /\ pc' = "host"
    /\ UNCHANGED <<mapping, pages, freeVars, fullVars, victimVars, wp,
                   credits_to_refill, dyn_slc_mode, lpn, gcVars>>
-----------------------------------------------------------------------------
(* Victim selection.                                                       *)

ShouldMigrationHigh == free_line_cnt["SLC"] <= mig_thres_lines_high
ShouldGcHigh == free_line_cnt["TLC"] <= gc_thres_lines_high

(* calculate_cost_benefit_val(): cost grows with the valid pages, benefit  *)
(* with the age level of the last invalidation.                            *)
CostBenefit(ln, age) ==
    IF vpc[ln] = pgs_per_line
    THEN SCALER * 10
    ELSE (vpc[ln] * SCALER) \div ((pgs_per_line - vpc[ln]) * age)

(* select_victim_line(): a line of least cost-benefit value for some ages  *)
(* of the candidates.  Which of several least ones the array scan meets    *)
(* first depends on the heap's layout.                                     *)
SelectVictimLine ==
    LET cands == {ln \in victim_line_pq["TLC"] : ipc[ln] # 0} IN
    IF cands = {}
    THEN {NULL}
    ELSE {ln \in cands : \E age \in [cands -> AgeLevels] :
            \A o \in cands : CostBenefit(ln, age[ln]) <= CostBenefit(o, age[o])}

(* select_victim_line_slc(force = true): the top of the victim queue, else *)
(* the oldest full line.                                                   *)
SelectVictimLineSlc ==
    LET q == victim_line_pq["SLC"] IN
    IF q # {}
    THEN {ln \in q : \A o \in q : vpc[ln] <= vpc[o]}
    ELSE IF full_line_list["SLC"] # <<>>
         THEN {Head(full_line_list["SLC"])}
         ELSE {NULL}

(* The victim is taken out of the queue or list it was found in.           *)
PeekVictim(ln) == ln \in Lines /\ UNCHANGED <<fullVars, victimVars>>

TakeVictim(ln) ==
    LET m == ModeOf(ln) IN
    IF ln \in victim_line_pq[m]
    THEN /\ victim_line_pq' = [victim_line_pq EXCEPT ![m] = @ \ {ln}]
         /\ victim_line_cnt' = [victim_line_cnt EXCEPT ![m] = @ - 1]
         /\ UNCHANGED fullVars
    ELSE /\ full_line_list' = [full_line_list EXCEPT ![m] = Tail(@)]
         /\ full_line_cnt' = [full_line_cnt EXCEPT ![m] = @ - 1]
         /\ UNCHANGED victimVars

(* Credits the host gets for cleaning line ln.                             *)
CreditsForInvalidPages(m, ln) == IF m \in Modes THEN ipc[ln] ELSE 0
CreditsForTlcLine(m, ln) == IF m = "SLC" THEN pgs_per_line ELSE ipc[ln]
CreditsFor(m, ln) == IF m = "SLC" THEN pgs_per_line_slc ELSE ipc[ln]

(* The pages clean_one_flashpg() copies: do_gc() visits every flash page   *)
(* of the line, and copying changes no state of a page of the line.        *)
VictimPagesButLast(ln) == {p \in PagesOf(ln) : status[p] = "VALID" /\ p.pg < PgsPerLine(ln) - 1}
VictimPages(ln) == {p \in PagesOf(ln) : status[p] = "VALID"}

(* do_gc() in mode m up to its copy loop; without a victim it returns.     *)
DoGc(m, ln, return) ==
    /\ dyn_slc_mode' = m
    /\ IF ln = NULL
       THEN /\ pc' = return
            /\ UNCHANGED <<fullVars, victimVars, credits_to_refill, gcVars>>
       ELSE /\ TakeVictim(ln)
            /\ credits_to_refill' = CreditsFor(m, ln)
            /\ victim_line' = ln
            /\ todo' = VictimPages(ln)
            /\ resume' = return
            /\ pc' = "clean"
    /\ UNCHANGED <<mapping, pages, freeVars, wp, write_credits, lpn>>
-----------------------------------------------------------------------------
(* foreground_gc().                                                        *)

(* Mutant: with enough free lines the write waits for a collection.        *)
FgSkipWaits ==
    /\ pc = "fg"
    /\ ~ShouldMigrationHigh
    /\ UNCHANGED vars

FgSkip ==
    /\ pc = "fg"
    /\ ~ShouldMigrationHigh
    /\ pc' = "refill"
    /\ UNCHANGED <<mapping, pages, freeVars, fullVars, victimVars, wp, credits,
                   dyn_slc_mode, lpn, gcVars>>

FgGc ==
    /\ pc = "fg"
    /\ ShouldMigrationHigh
    /\ ShouldGcHigh
    /\ \E ln \in SelectVictimLine : DoGc("TLC", ln, "mig")

FgNoGc ==
    /\ pc = "fg"
    /\ ShouldMigrationHigh
    /\ ~ShouldGcHigh
    /\ pc' = "mig"
    /\ UNCHANGED <<mapping, pages, freeVars, fullVars, victimVars, wp, credits,
                   dyn_slc_mode, lpn, gcVars>>

Migrate ==
    /\ pc = "mig"
    /\ \E ln \in SelectVictimLineSlc : DoGc("SLC", ln, "refill")

(* gc_write_page(): copy one valid page of the victim to the TLC area.     *)
(* The old page keeps its status and reverse entry until the erase.        *)
GcWritePage(p) ==
    /\ pc = "clean"
    /\ MapPage(rmap[p], GetNewPage("GC"))
    /\ AdvanceWritePointer("GC")
    /\ todo' = todo \ {p}
    /\ pc' = NextPc("GC", "clean")
    /\ UNCHANGED <<credits, lpn, victim_line, resume>>

(* mark_block_free() for every block of the line.                          *)
MarkBlocksFree(ln) ==
    status' = [p \in Ppas |-> IF p.blk = ln THEN "FREE" ELSE status[p]]

(* mark_line_free(): the line goes to the tail of its area's free list.    *)
MarkLineFreeKeepIpc(ln) ==
    /\ vpc' = [vpc EXCEPT ![ln] = 0]
    /\ UNCHANGED ipc
    /\ free_line_list' = [free_line_list EXCEPT ![ModeOf(ln)] = Append(@, ln)]
    /\ free_line_cnt' = [free_line_cnt EXCEPT ![ModeOf(ln)] = @ + 1]

MarkLineFree(ln) ==
    /\ vpc' = [vpc EXCEPT ![ln] = 0]
    /\ ipc' = [ipc EXCEPT ![ln] = 0]
    /\ free_line_list' = [free_line_list EXCEPT ![ModeOf(ln)] = Append(@, ln)]
    /\ free_line_cnt' = [free_line_cnt EXCEPT ![ModeOf(ln)] = @ + 1]

(* The last pass of do_gc()'s loop erases the blocks of the line one after *)
(* the other, each after its last pages have been copied; do_gc() returns  *)
(* after mark_line_free().  The model erases them in one step.             *)
EraseLine ==
    /\ pc = "clean"
    /\ todo = {}
    /\ MarkBlocksFree(victim_line)
    /\ MarkLineFree(victim_line)
    /\ victim_line' = NULL
    /\ pc' = resume
    /\ UNCHANGED <<mapping, fullVars, victimVars, wp, credits, dyn_slc_mode,
                   lpn, todo, resume>>
-----------------------------------------------------------------------------
(* Everything the dispatcher does on its own once a write has started.     *)
Dispatch ==
    \/ Program
    \/ FgSkip \/ FgGc \/ FgNoGc
    \/ Migrate
    \/ \E p \in todo : GcWritePage(p)
    \/ EraseLine
    \/ Refill

Next ==
    \/ \E l \in Lpns : Invalidate(l)
    \/ Dispatch

Spec == Init /\ [][Next]_vars

(* The steps of a write run to the end inside one call of conv_write():    *)
(* no other thread can hold them up.  The host need not write.             *)
FairSpec == Spec /\ WF_vars(Dispatch)
-----------------------------------------------------------------------------
(* Properties.                                                             *)

Statuses == {"FREE", "VALID", "INVALID"}

(* Every variable has its type; in particular no line or page counter that *)
(* the code decrements goes below zero.                                    *)
TablesOK ==
    /\ maptbl \in [Lpns -> Ppas \cup {NULL}]
    /\ rmap \in [Ppas -> Lpns \cup {NULL}]
    /\ status \in [Ppas -> Statuses]
    /\ vpc \in [Lines -> Nat]
    /\ ipc \in [Lines -> Nat]

ListsOK ==
    /\ DOMAIN free_line_list = Modes
    /\ DOMAIN full_line_list = Modes
    /\ DOMAIN victim_line_pq = Modes
    /\ \A m \in Modes : /\ free_line_list[m] \in Seq(LinesOf(m))
                        /\ full_line_list[m] \in Seq(LinesOf(m))
                        /\ victim_line_pq[m] \subseteq LinesOf(m)
    /\ free_line_cnt \in [Modes -> Nat]
    /\ full_line_cnt \in [Modes -> Nat]
    /\ victim_line_cnt \in [Modes -> Nat]

ControlOK ==
    /\ wp \in [IoTypes -> [line : Lines \cup {NULL}, pg : Nat]]
    /\ write_credits \in 0 .. UINT32_MAX
    /\ credits_to_refill \in 0 .. UINT32_MAX
    /\ dyn_slc_mode \in Modes
    /\ pc \in {"host", "program", "fg", "clean", "mig", "refill", "bug"}
    /\ lpn \in Lpns \cup {NULL}
    /\ victim_line \in Lines \cup {NULL}
    /\ todo \subseteq Ppas
    /\ resume \in {"mig", "refill"}

TypeOK == TablesOK /\ ListsOK /\ ControlOK

(* The logical page whose old copy is already invalid while its new one is *)
(* not programmed yet (conv_write() between its two halves).               *)
InFlight(l) == pc = "program" /\ l = lpn

(* maptbl and rmap describe the same pages.  A written logical page is on  *)
(* a valid page that names it back, whatever collection is under way; a    *)
(* valid page belongs to the logical page its reverse entry names, unless  *)
(* it has just been copied out of the victim; and no logical page is left  *)
(* on a page of the victim that will not be copied before the erase.       *)
MappingSound ==
    /\ \A l \in Lpns : maptbl[l] # NULL /\ ~InFlight(l) =>
            status[maptbl[l]] = "VALID" /\ rmap[maptbl[l]] = l
    /\ \A p \in Ppas : status[p] = "VALID" /\ (p.blk = victim_line => p \in todo) =>
            rmap[p] \in Lpns /\ maptbl[rmap[p]] = p
    /\ \A l \in Lpns : maptbl[l] # NULL /\ maptbl[l].blk = victim_line =>
            maptbl[l] \in todo

(* The valid and invalid page counters of a line, on which victim          *)
(* selection and the full/victim decision rest, are exact.                 *)
Count(f, ln, st) == Cardinality({k \in 0 .. PgsPerLine(ln) - 1 : f[Ppa(ln, k)] = st})

CountsExact ==
    \A ln \in Lines : /\ vpc[ln] = Count(status, ln, "VALID")
                       /\ ipc[ln] = Count(status, ln, "INVALID")

(* A line on the full list has only valid pages, a candidate has an        *)
(* invalid page, and neither has an erased one (the assertion of           *)
(* clean_one_flashpg()); the line being cleaned is used up as well.        *)
ClosedLinesUsedUp ==
    \A m \in Modes :
        /\ \A ln \in ToSet(full_line_list[m]) : \A p \in PagesOf(ln) : status[p] = "VALID"
        /\ \A ln \in victim_line_pq[m] :
                /\ \A p \in PagesOf(ln) : status[p] # "FREE"
                /\ \E p \in PagesOf(ln) : status[p] = "INVALID"
        /\ victim_line # NULL => \A p \in PagesOf(victim_line) : status[p] # "FREE"

(* The lines by what holds them.                                           *)
Held ==
    [free     |-> UNION {ToSet(free_line_list[m]) : m \in Modes},
     full     |-> UNION {ToSet(full_line_list[m]) : m \in Modes},
     victim   |-> UNION {victim_line_pq[m] : m \in Modes},
     open     |-> {wp[io].line : io \in IoTypes} \ {NULL},
     cleaning |-> {victim_line} \ {NULL}]
Holders == {"free", "full", "victim", "open", "cleaning"}

(* No line is lost and none is in two places: it is free, full, a          *)
(* candidate, open for one kind of write, or being cleaned; a list holds   *)
(* it once, and the counters that the thresholds look at are exact.        *)
LinesConserved ==
    /\ Lines = UNION {Held[h] : h \in Holders}
    /\ \A g, h \in Holders : g # h => Held[g] \cap Held[h] = {}
    /\ \A m \in Modes :
        /\ IsInjective(free_line_list[m]) /\ free_line_cnt[m] = Len(free_line_list[m])
        /\ IsInjective(full_line_list[m]) /\ full_line_cnt[m] = Len(full_line_list[m])
        /\ victim_line_cnt[m] = Cardinality(victim_line_pq[m])

(* Credits run out exactly when the open SLC line is used up, so that      *)
(* foreground_gc() runs once per SLC line and never in the middle of one.  *)
CreditsTrackLine ==
    pc \in {"host", "program"} => write_credits + wp["USER"].pg = pgs_per_line_slc

(* A host write never runs out of SLC lines: the assertion on the new line *)
(* in advance_write_pointer() cannot fail for USER_IO, however many lines  *)
(* there are and whatever the thresholds.                                  *)
HostFindsLine == wp["USER"].line # NULL

(* NVMEV_ASSERT(wpp->curline) of advance_write_pointer() never fails.      *)
NeverOutOfLines == pc # "bug"

(* The greedy policy that README.md gives as the default of `make`: the    *)
(* TLC line being collected had the fewest valid pages of all candidates.  *)
GreedyVictim ==
    pc = "clean" /\ resume = "mig" /\ Cardinality(todo) = vpc[victim_line] =>
        \A ln \in victim_line_pq["TLC"] : vpc[victim_line] <= vpc[ln]

(* A page write that has started comes to its end: collection terminates.  *)
WriteCompletes == pc = "program" ~> pc = "host"

(* The FTL keeps the rules of the medium and loses no page (NandStore).    *)
Store == INSTANCE NandStore WITH
            where <- maptbl,
            programmed <- {p \in Ppas : status[p] # "FREE"},
            Size <- [ln \in Lines |-> PgsPerLine(ln)],
            Unmapped <- NULL
ImplementsStore == Store!Spec
-----------------------------------------------------------------------------
(* The inductive invariant behind the safety properties.                   *)

(* The pages of an open line from the write pointer on are erased, the     *)
(* others are not, and the line is on no free list.                        *)
OpenLines ==
    \A io \in IoTypes : wp[io].line # NULL =>
        /\ wp[io].line \in LinesOf(ModeFor(io))
        /\ wp[io].pg < PgsPerLine(wp[io].line)
        /\ \A p \in PagesOf(wp[io].line) : status[p] = "FREE" <=> wp[io].pg <= p.pg
        /\ wp[io].line \notin ToSet(free_line_list[ModeFor(io)])

(* The lines of a free list are erased.                                    *)
FreeLines ==
    \A m \in Modes : \A ln \in ToSet(free_line_list[m]) :
        \A p \in PagesOf(ln) : status[p] = "FREE"

(* A list holds a line once and its counter is its length; the line being  *)
(* cleaned has left the list it was found in; every line is held.          *)
ListsExact ==
    \A m \in Modes :
        /\ IsInjective(free_line_list[m]) /\ free_line_cnt[m] = Len(free_line_list[m])
        /\ IsInjective(full_line_list[m]) /\ full_line_cnt[m] = Len(full_line_list[m])
        /\ IsFiniteSet(victim_line_pq[m])
        /\ victim_line_cnt[m] = Cardinality(victim_line_pq[m])
        /\ victim_line \notin victim_line_pq[m] \cup ToSet(full_line_list[m])
        /\ \A ln \in LinesOf(m) :
                \/ ln \in ToSet(free_line_list[m]) \/ ln \in ToSet(full_line_list[m])
                \/ ln \in victim_line_pq[m] \/ ln = victim_line
                \/ \E io \in IoTypes : wp[io].line = ln

(* What the program counter tells about the rest of the state.             *)
ControlSound ==
    /\ pc = "program" => /\ lpn \in Lpns
                         /\ maptbl[lpn] # NULL => status[maptbl[lpn]] = "INVALID"
    /\ pc = "clean" => victim_line # NULL
    /\ pc \notin {"clean", "bug"} => victim_line = NULL
    /\ victim_line # NULL => victim_line \in LinesOf(IF resume = "mig" THEN "TLC" ELSE "SLC")
    /\ \A p \in todo : status[p] = "VALID" /\ p.blk = victim_line
    /\ \A io \in IoTypes : wp[io].line = NULL => pc = "bug"

IInv == /\ TypeOK /\ CountsExact /\ ClosedLinesUsedUp /\ OpenLines /\ FreeLines
        /\ ListsExact /\ ControlSound /\ MappingSound

(* Write credits against the open SLC line, and where the next SLC line    *)
(* comes from: while a collection is due there is a line to migrate.       *)
FlowInv ==
    /\ wp["USER"].line # NULL
    /\ pc \in {"host", "program"} =>
            /\ write_credits + wp["USER"].pg = pgs_per_line_slc
            /\ free_line_list["SLC"] # <<>>
    /\ pc \in {"fg", "clean", "mig", "refill"} => write_credits = 0 /\ wp["USER"].pg = 0
    /\ pc \in {"host", "program", "fg", "refill"} \/ (pc = "clean" /\ resume = "refill") =>
            credits_to_refill = pgs_per_line_slc
    /\ pc \in {"fg", "mig"} \/ (pc = "clean" /\ resume = "mig") =>
            victim_line_pq["SLC"] # {} \/ full_line_list["SLC"] # <<>>
    /\ pc = "refill" => free_line_list["SLC"] # <<>>
=============================================================================
