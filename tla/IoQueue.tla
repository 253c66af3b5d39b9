------------------------------- MODULE IoQueue -------------------------------
(***************************************************************************)
(* The work queue between the dispatcher thread and one IO worker thread   *)
(* (src/io.c).  The dispatcher allocates an entry, fills it in, links it   *)
(* into a list sorted by target time and takes completed entries back; the *)
(* worker walks the list, copies the data of a request, posts its          *)
(* completion once its target time has come, and raises the interrupt.     *)
(* They share the queue without a lock: each step below is a stretch of    *)
(* code in which one thread makes at most one access that the other can    *)
(* notice.  Stores are seen in program order.                              *)
(*                                                                         *)
(* An op is an NVMe command, or the release of write buffer space that the *)
(* FTL schedules while it processes one (an internal operation).           *)
(***************************************************************************)
EXTENDS Integers, FiniteSets

CONSTANTS
    NR_MAX_PARALLEL_IO,    \* entries of work_queue
    Latencies,             \* nsecs_target - nsecs_start
    MaxOps,                \* bound: ops of a behaviour
    MaxTime,               \* bound: the clock and every target time
    WorkerMayStall         \* may the worker sleep between two instructions
                           \* while the whole free list is recycled?

ASSUME QueueSize == NR_MAX_PARALLEL_IO \in Nat /\ NR_MAX_PARALLEL_IO >= 2
ASSUME Bounds == /\ MaxOps \in Nat /\ MaxTime \in Nat
                 /\ Latencies \subseteq Nat
ASSUME StallSwitch == WorkerMayStall \in BOOLEAN

Entries == 0 .. NR_MAX_PARALLEL_IO - 1
NIL == -1
Ops == 1 .. MaxOps
Time == 0 .. MaxTime

VARIABLES
    next, prev,               \* links of the entries
    work,                     \* the other fields of an entry the worker reads
    free_seq, free_seq_end,   \* list of free entries
    io_seq, io_seq_end,       \* list of entries in use
    latest_nsecs,             \* the time the worker last looked at
    now,                      \* the clock
    dpc, entry, target, internal, cur, last,     \* the dispatcher's locals
    wpc, curr, curr_nsecs,                       \* the worker's locals
    interrupt_ready,
    issued,                   \* number of ops so far
    due,                      \* op -> target time it was given, or NIL
    dropped,                  \* ops refused because the queue was full
    copied,                   \* ops whose data has been transferred
    posted,                   \* op -> number of completions (or releases)
    signalled                 \* ops posted before the last interrupt

links == <<next, prev>>
lists == <<free_seq, free_seq_end, io_seq, io_seq_end>>
dlocal == <<entry, target, internal, cur, last>>
wlocal == <<curr, curr_nsecs>>
dvars == <<dpc, dlocal, issued, due, dropped>>
wvars == <<wpc, wlocal, latest_nsecs, interrupt_ready, copied, posted, signalled>>
vars == <<links, work, lists, now, dvars, wvars>>

(* NVMEV_IO_WORKER_INIT(): zeroed entries, all of them on the free list.   *)
Init ==
    /\ next = [e \in Entries |-> IF e = NR_MAX_PARALLEL_IO - 1 THEN NIL ELSE e + 1]
    /\ prev = [e \in Entries |-> e - 1]
    /\ work = [e \in Entries |-> [op |-> 0, target |-> 0, is_completed |-> FALSE,
                                  is_copied |-> FALSE, is_internal |-> FALSE]]
    /\ free_seq = 0 /\ free_seq_end = NR_MAX_PARALLEL_IO - 1
    /\ io_seq = NIL /\ io_seq_end = NIL
    /\ latest_nsecs = 0 /\ now = 0
    /\ dpc = "ftl" /\ entry = NIL /\ target = 0 /\ internal = FALSE
    /\ cur = NIL /\ last = NIL
    /\ wpc = "scan" /\ curr = NIL /\ curr_nsecs = 0
    /\ interrupt_ready = FALSE
    /\ issued = 0 /\ due = [o \in Ops |-> NIL] /\ dropped = {}
    /\ copied = {} /\ posted = [o \in Ops |-> 0] /\ signalled = {}
-----------------------------------------------------------------------------
(* Dispatcher: __nvmev_proc_io().  The FTL schedules internal operations,  *)
(* then the command itself is enqueued, then completed entries are taken   *)
(* back.                                                                   *)

(* __allocate_work_queue_entry() leaves the last free entry alone: its     *)
(* next is -1, the largest unsigned value.                                 *)
QueueFull == next[free_seq] = NIL

Allocate(int, lat) ==
    /\ dpc = "ftl"
    /\ issued < MaxOps /\ now + lat <= MaxTime
    /\ WorkerMayStall \/ curr # free_seq
    /\ issued' = issued + 1
    /\ due' = [due EXCEPT ![issued + 1] = now + lat]
    /\ IF QueueFull
       THEN /\ dropped' = dropped \cup {issued + 1}
            /\ dpc' = IF int THEN "ftl" ELSE "reclaim"
            /\ UNCHANGED <<free_seq, entry, target, internal>>
       ELSE /\ free_seq' = next[free_seq]
            /\ entry' = free_seq
            /\ target' = now + lat
            /\ internal' = int
            /\ dpc' = "fill"
            /\ UNCHANGED dropped
    /\ UNCHANGED <<links, work, free_seq_end, io_seq, io_seq_end, now, cur, last, wvars>>

(* The stores up to is_completed = false, ...                              *)
FillRequest ==
    /\ dpc = "fill"
    /\ work' = [work EXCEPT ![entry].op = issued, ![entry].target = target,
                            ![entry].is_completed = FALSE]
    /\ dpc' = "fill2"
    /\ UNCHANGED <<links, lists, now, dlocal, issued, due, dropped, wvars>>

(* ... and the others.  An internal operation has no data to copy.         *)
StaleIsCopied(e, int) == work[e].is_copied \/ int
InitIsCopied(e, int) == int

FillLinks ==
    /\ dpc = "fill2"
    /\ work' = [work EXCEPT ![entry].is_copied = InitIsCopied(entry, internal),
                            ![entry].is_internal = internal]
    /\ prev' = [prev EXCEPT ![entry] = NIL]
    /\ next' = [next EXCEPT ![entry] = NIL]
    /\ dpc' = IF io_seq = NIL THEN "empty" ELSE "search"
    /\ cur' = io_seq_end
    /\ UNCHANGED <<lists, now, entry, target, internal, last, issued, due, dropped, wvars>>

(* A command is followed by a reclaim; after an internal operation the FTL *)
(* goes on.                                                                *)
Enqueued == /\ dpc' = IF internal THEN "ftl" ELSE "reclaim"
            /\ entry' = NIL

(* __insert_req_sorted(): the first entry, ...                             *)
InsertFirst ==
    /\ dpc = "empty"
    /\ io_seq' = entry /\ io_seq_end' = entry
    /\ Enqueued
    /\ UNCHANGED <<links, work, free_seq, free_seq_end, now, target, internal, cur, last,
                   issued, due, dropped, wvars>>

(* ... else the place is after the last entry that is due or not later.    *)
(* latest_nsecs is read anew for each entry.                               *)
Stop(e) == work[e].target <= latest_nsecs \/ work[e].target <= target

Search ==
    /\ dpc = "search"
    /\ cur # NIL
    /\ IF Stop(cur)
       THEN dpc' = "link" /\ UNCHANGED cur
       ELSE cur' = prev[cur] /\ UNCHANGED dpc
    /\ UNCHANGED <<links, work, lists, now, entry, target, internal, last,
                   issued, due, dropped, wvars>>

InsertHead ==
    /\ dpc = "search"
    /\ cur = NIL
    /\ prev' = [prev EXCEPT ![io_seq] = entry]
    /\ next' = [next EXCEPT ![entry] = io_seq]
    /\ io_seq' = entry
    /\ Enqueued
    /\ UNCHANGED <<work, free_seq, free_seq_end, io_seq_end, now, target, internal, cur, last,
                   issued, due, dropped, wvars>>

InsertTail ==
    /\ dpc = "link"
    /\ next[cur] = NIL
    /\ prev' = [prev EXCEPT ![entry] = cur]
    /\ next' = [next EXCEPT ![cur] = entry]
    /\ io_seq_end' = entry
    /\ Enqueued
    /\ UNCHANGED <<work, free_seq, free_seq_end, io_seq, now, target, internal, cur, last,
                   issued, due, dropped, wvars>>

LinkBetweenNoBack(e, c) == /\ prev' = [prev EXCEPT ![e] = c]
                           /\ next' = [next EXCEPT ![e] = next[c], ![c] = e]
LinkBetween(e, c) == /\ prev' = [prev EXCEPT ![e] = c, ![next[c]] = e]
                     /\ next' = [next EXCEPT ![e] = next[c], ![c] = e]

InsertBetween ==
    /\ dpc = "link"
    /\ next[cur] # NIL
    /\ LinkBetween(entry, cur)
    /\ Enqueued
    /\ UNCHANGED <<work, lists, now, target, internal, cur, last,
                   issued, due, dropped, wvars>>

(* __reclaim_completed_reqs(): walk over the completed entries at the      *)
(* front of the list, ...                                                  *)
ReclaimableDue(e) == work[e].is_copied /\ work[e].target <= latest_nsecs
Reclaimable(e) == /\ work[e].is_completed /\ work[e].is_copied
                  /\ work[e].target <= latest_nsecs

ReclaimStart ==
    /\ dpc = "reclaim"
    /\ cur' = io_seq
    /\ last' = NIL
    /\ dpc' = "walk"
    /\ UNCHANGED <<links, work, lists, now, entry, target, internal,
                   issued, due, dropped, wvars>>

ReclaimWalk ==
    /\ dpc = "walk"
    /\ cur # NIL
    /\ Reclaimable(cur)
    /\ last' = cur
    /\ cur' = next[cur]
    /\ UNCHANGED <<links, work, lists, now, dpc, entry, target, internal,
                   issued, due, dropped, wvars>>

(* ... and move them behind the free list.                                 *)
Splice(first, l) ==
    /\ next' = [next EXCEPT ![l] = NIL, ![free_seq_end] = first]
    /\ prev' = [e \in Entries |-> IF e = next[l] THEN NIL
                                  ELSE IF e = first THEN free_seq_end ELSE prev[e]]
    /\ io_seq' = next[l]
    /\ free_seq_end' = l

ReclaimEnd ==
    /\ dpc = "walk"
    /\ cur # NIL => ~Reclaimable(cur)
    /\ IF last = NIL
       THEN UNCHANGED <<links, lists>>
       ELSE Splice(io_seq, last) /\ UNCHANGED <<free_seq, io_seq_end>>
    /\ dpc' = "ftl"
    /\ UNCHANGED <<work, now, dlocal, issued, due, dropped, wvars>>
-----------------------------------------------------------------------------
(* Worker: nvmev_io_worker().                                              *)

Goto(e) == /\ curr' = e
           /\ wpc' = IF e = NIL THEN "irq" ELSE "visit"

Scan ==
    /\ wpc = "scan"
    /\ Goto(io_seq)
    /\ UNCHANGED <<links, work, lists, now, dvars, curr_nsecs, latest_nsecs,
                   interrupt_ready, copied, posted, signalled>>

(* Read the clock; step over a completed entry.                            *)
VisitBreak ==
    /\ wpc = "visit"
    /\ curr_nsecs' = now
    /\ latest_nsecs' = now
    /\ IF work[curr].is_completed
       THEN Goto(NIL)
       ELSE wpc' = "copy" /\ UNCHANGED curr
    /\ UNCHANGED <<links, work, lists, now, dvars, interrupt_ready, copied, posted, signalled>>

Visit ==
    /\ wpc = "visit"
    /\ curr_nsecs' = now
    /\ latest_nsecs' = now
    /\ IF work[curr].is_completed
       THEN Goto(next[curr])
       ELSE wpc' = "copy" /\ UNCHANGED curr
    /\ UNCHANGED <<links, work, lists, now, dvars, interrupt_ready, copied, posted, signalled>>

(* __do_perform_io() moves the data of a command, page by page.            *)
PerformIo(o) == copied' = copied \cup {o}

(* The data is moved at the first visit to an entry, due or not.           *)
Copy ==
    /\ wpc = "copy"
    /\ IF work[curr].is_copied \/ work[curr].is_internal
       THEN UNCHANGED copied
       ELSE PerformIo(work[curr].op)
    /\ work' = [work EXCEPT ![curr].is_copied = TRUE]
    /\ wpc' = "due"
    /\ UNCHANGED <<links, lists, now, dvars, wlocal, latest_nsecs, interrupt_ready,
                   posted, signalled>>

IsDue(e) == work[e].target <= curr_nsecs

NotDue ==
    /\ wpc = "due"
    /\ ~IsDue(curr)
    /\ wpc' = "advance"
    /\ UNCHANGED <<links, work, lists, now, dvars, wlocal, latest_nsecs, interrupt_ready,
                   copied, posted, signalled>>

(* __fill_cq_result(): the next entry of the completion queue is written,  *)
(* and an interrupt is wanted.                                             *)
FillCqResult(o) == /\ posted' = [posted EXCEPT ![o] = @ + 1]
                   /\ interrupt_ready' = TRUE

(* buffer_release() of an internal operation.                              *)
BufferRelease(o) == /\ posted' = [posted EXCEPT ![o] = @ + 1]
                    /\ UNCHANGED interrupt_ready

Post ==
    /\ wpc = "due"
    /\ IsDue(curr)
    /\ IF work[curr].is_internal
       THEN BufferRelease(work[curr].op)
       ELSE FillCqResult(work[curr].op)
    /\ wpc' = "mark"
    /\ UNCHANGED <<links, work, lists, now, dvars, wlocal, latest_nsecs, copied, signalled>>

MarkCompleted ==
    /\ wpc = "mark"
    /\ work' = [work EXCEPT ![curr].is_completed = TRUE]
    /\ wpc' = "advance"
    /\ UNCHANGED <<links, lists, now, dvars, wlocal, latest_nsecs, interrupt_ready,
                   copied, posted, signalled>>

Advance ==
    /\ wpc = "advance"
    /\ Goto(next[curr])
    /\ UNCHANGED <<links, work, lists, now, dvars, curr_nsecs, latest_nsecs,
                   interrupt_ready, copied, posted, signalled>>

(* After the walk: one interrupt for all completions posted so far.        *)
Irq ==
    /\ wpc = "irq"
    /\ interrupt_ready' = FALSE
    /\ signalled' = IF interrupt_ready THEN {o \in Ops : posted[o] > 0} ELSE signalled
    /\ wpc' = "scan"
    /\ UNCHANGED <<links, work, lists, now, dvars, wlocal, latest_nsecs, copied, posted>>
-----------------------------------------------------------------------------
Tick ==
    /\ now < MaxTime
    /\ now' = now + 1
    /\ UNCHANGED <<links, work, lists, dvars, wvars>>

Insert == InsertFirst \/ Search \/ InsertHead \/ InsertTail \/ InsertBetween
Reclaim == ReclaimStart \/ ReclaimWalk \/ ReclaimEnd
Dispatcher == FillRequest \/ FillLinks \/ Insert \/ Reclaim
Worker == Scan \/ Visit \/ Copy \/ NotDue \/ Post \/ MarkCompleted \/ Advance \/ Irq

Next ==
    \/ \E int \in BOOLEAN, lat \in Latencies : Allocate(int, lat)
    \/ Dispatcher
    \/ Worker
    \/ Tick

Spec == Init /\ [][Next]_vars

(* Both threads are bound to a cpu of their own and run in loops that do   *)
(* not block, and time passes.  The host need not send commands.           *)
FairSpec == Spec /\ WF_vars(Dispatcher) /\ WF_vars(Worker) /\ WF_vars(Tick)
-----------------------------------------------------------------------------
(* Properties.                                                             *)

(* Every variable has its type: in particular no thread ever indexes the   *)
(* work queue with -1.                                                     *)
TypeOK ==
    /\ next \in [Entries -> Entries \cup {NIL}]
    /\ prev \in [Entries -> Entries \cup {NIL}]
    /\ work \in [Entries -> [op : 0 .. MaxOps, target : Time, is_completed : BOOLEAN,
                             is_copied : BOOLEAN, is_internal : BOOLEAN]]
    /\ {free_seq, free_seq_end} \subseteq Entries
    /\ {io_seq, io_seq_end, entry, cur, last, curr} \subseteq Entries \cup {NIL}
    /\ {latest_nsecs, now, target, curr_nsecs} \subseteq Time
    /\ {internal, interrupt_ready} \subseteq BOOLEAN
    /\ dpc \in {"ftl", "fill", "fill2", "empty", "search", "link", "reclaim", "walk"}
    /\ wpc \in {"scan", "visit", "copy", "due", "mark", "advance", "irq"}
    /\ issued \in 0 .. MaxOps
    /\ due \in [Ops -> Time \cup {NIL}]
    /\ posted \in [Ops -> Nat]
    /\ dropped \cup copied \cup signalled \subseteq Ops

(* The k-th entry of the list that starts at h, and the list's entries.    *)
At(h) ==
    LET f[k \in 0 .. NR_MAX_PARALLEL_IO] ==
            IF k = 0 THEN h ELSE IF f[k - 1] = NIL THEN NIL ELSE next[f[k - 1]]
    IN  f
InList(h) == {At(h)[k] : k \in 0 .. NR_MAX_PARALLEL_IO} \ {NIL}
Ends(h, e) == \E k \in 0 .. NR_MAX_PARALLEL_IO - 1 :
                At(h)[k] = e /\ e # NIL /\ next[e] = NIL

(* While the dispatcher fills in an entry it is on neither list.           *)
HeldEntries == {entry} \ {NIL}

(* The two lists end where their end pointers say, so neither has a cycle; *)
(* together with the entry being filled in they hold every entry exactly   *)
(* once; and prev is the inverse of next along the list in use.            *)
ListsPartitionQueue ==
    /\ Ends(free_seq, free_seq_end)
    /\ io_seq # NIL => Ends(io_seq, io_seq_end) /\ prev[io_seq] = NIL
    /\ InList(free_seq) \cup InList(io_seq) \cup HeldEntries = Entries
    /\ InList(free_seq) \cap InList(io_seq) = {}
    /\ HeldEntries \cap (InList(free_seq) \cup InList(io_seq)) = {}
    /\ \A e \in InList(io_seq) : next[e] # NIL => prev[next[e]] = e

(* "Requests are placed in @work_queue sorted by their target time": an    *)
(* entry that is not due yet has no entry with an earlier target behind    *)
(* it, although latest_nsecs moves while the dispatcher searches.          *)
SortedFromDueOn ==
    \A i, j \in 0 .. NR_MAX_PARALLEL_IO :
        LET a == At(io_seq)[i]
            b == At(io_seq)[j]
        IN  i < j /\ b # NIL /\ work[a].target > latest_nsecs =>
                work[a].target <= work[b].target

(* An op that was neither refused nor completed is in exactly one entry of *)
(* the list in use, not marked completed and with the target time it was   *)
(* given: no reclaim and no reuse of an entry loses it.                    *)
Pending(o) == o <= issued /\ o \notin dropped /\ posted[o] = 0
PendingOpsQueued ==
    \A o \in Ops : Pending(o) /\ ~(entry # NIL /\ o = issued) =>
        \E e \in InList(io_seq) :
            /\ work[e].op = o /\ ~work[e].is_completed /\ work[e].target = due[o]
            /\ \A f \in InList(io_seq) : work[f].op = o => f = e

(* An op completes at most once, not before its target time, and not at    *)
(* all if it was refused.                                                  *)
CompletedOnceInTime ==
    \A o \in Ops : posted[o] > 0 =>
        posted[o] = 1 /\ due[o] <= now /\ o \notin dropped

(* ListsPartitionQueue and SortedFromDueOn: inserts, a worker that moves    *)
(* latest_nsecs on meanwhile and __reclaim_completed_reqs() leave two whole *)
(* lists, the one in use sorted.                                            *)
ListsSound == ListsPartitionQueue /\ SortedFromDueOn

(* TypeOK, PendingOpsQueued and CompletedOnceInTime: no thread follows an  *)
(* index of -1, reclaim and reuse of an entry lose no accepted op, and     *)
(* none is completed twice, early or after a refusal.                      *)
OpsKept == TypeOK /\ PendingOpsQueued /\ CompletedOnceInTime

(* The host sees the completion of a command only after its data has been  *)
(* transferred: whatever the worker is about to post has been copied.      *)
CopiedBeforePosted ==
    wpc = "mark" /\ ~work[curr].is_internal => work[curr].op \in copied

(* Every op that got an entry completes: the worker comes to every entry,  *)
(* whatever is inserted and reclaimed around it.                           *)
OpsComplete ==
    \A o \in Ops : (o <= issued /\ o \notin dropped) ~> posted[o] > 0

(* The completion of a command is followed by an interrupt.                *)
CompletionsSignalled ==
    \A o \in Ops : (posted[o] > 0 /\ o \in copied) ~> o \in signalled
=============================================================================
