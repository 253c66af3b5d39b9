--------------------------- MODULE IoQueueProofs ----------------------------
(***************************************************************************)
(* The work queue stays sound for any number of entries, ops, latencies    *)
(* and any interleaving of the dispatcher with the worker.                 *)
(*                                                                         *)
(* The properties speak of lists by following next; the invariant speaks   *)
(* of the sequences f (free) and g (in use) that the links thread          *)
(* together, so that allocating an entry drops the first of f, an insert   *)
(* puts the held entry into g and a reclaim moves a prefix of g behind f.  *)
(* Structure is kept whatever the worker does: the worker writes neither   *)
(* links nor targets.  What the entries hold (Contents) rests on the       *)
(* worker never being at an entry that is free and not completed, which is *)
(* what WorkerMayStall = FALSE buys; the completed entries of the free     *)
(* list form a suffix of it, so that walking on from a reclaimed entry     *)
(* meets completed entries only.                                           *)
(***************************************************************************)
EXTENDS IoQueue, SumLemmas

(* The sequence l of n entries is a list from first to end: the links go   *)
(* from each entry to the following one, and from the last one nowhere.    *)
IsList(l, n, first, end) ==
    /\ l \in [1 .. n -> Entries]
    /\ \A i, j \in 1 .. n : l[i] = l[j] => i = j
    /\ \A i \in 1 .. n - 1 : next[l[i]] = l[i + 1]
    /\ n > 0 => l[1] = first /\ l[n] = end /\ next[end] = NIL

(* The free list f and the list in use g.                                  *)
Lists(f, n, g, m) ==
    /\ n \in Nat \ {0} /\ m \in Nat
    /\ IsList(f, n, free_seq, free_seq_end)
    /\ IsList(g, m, io_seq, io_seq_end)
    /\ m = 0 <=> io_seq = NIL
    /\ m > 0 => prev[io_seq] = NIL
    /\ \A i \in 1 .. m - 1 : prev[g[i + 1]] = g[i]
    /\ \A i \in 1 .. n : f[i] # entry /\ \A j \in 1 .. m : f[i] # g[j]
    /\ \A j \in 1 .. m : g[j] # entry
    /\ \A e \in Entries : e = entry \/ (\E i \in 1 .. n : e = f[i]) \/ (\E j \in 1 .. m : e = g[j])

Target(e) == work[e].target

Sorted(g, m) ==
    \A i, j \in 1 .. m : i < j /\ Target(g[i]) > latest_nsecs => Target(g[i]) <= Target(g[j])

(* Where the dispatcher is in the list in use.                             *)
Later(g, m, k) == \A i \in k + 1 .. m : Target(g[i]) > target
Searching(g, m) ==
    /\ dpc = "empty" => m = 0
    /\ dpc = "search" =>
          m > 0 /\ \E k \in 0 .. m : /\ cur = IF k = 0 THEN NIL ELSE g[k]
                                     /\ Later(g, m, k)
    /\ dpc = "link" =>
          \E k \in 1 .. m : cur = g[k] /\ Stop(cur) /\ Later(g, m, k)
Walking(g, m) ==
    dpc = "walk" =>
        \E k \in 0 .. m : /\ last = IF k = 0 THEN NIL ELSE g[k]
                          /\ cur = IF k = m THEN NIL ELSE g[k + 1]
                          /\ \A i \in 1 .. k : work[g[i]].is_completed

(* The entry the dispatcher fills in: its fields are written one after the *)
(* other, and nobody else writes its op, its target or its links.          *)
Linking == {"empty", "search", "link"}
Filling == {"fill", "fill2"} \cup Linking
Held ==
    /\ entry # NIL <=> dpc \in Filling
    /\ dpc \in Filling => issued \in Ops
    /\ dpc \in Filling \ {"fill"} => work[entry].op = issued /\ Target(entry) = target
    /\ dpc \in Linking => next[entry] = NIL /\ prev[entry] = NIL

(* The flags of that entry; the worker writes flags of entries too.        *)
HeldFlags ==
    /\ dpc \in Filling \ {"fill"} => ~work[entry].is_completed
    /\ dpc \in Linking => /\ work[entry].is_internal = internal
                          /\ work[entry].is_copied = internal

(* What the worker is at: a free entry only after the dispatcher has taken *)
(* it back, and then all that follow it have been taken back too.          *)
Reading(f, n) ==
    /\ \A i, j \in 1 .. n : i < j /\ work[f[i]].is_completed => work[f[j]].is_completed
    /\ \A i \in 1 .. n : curr = f[i] => work[curr].is_completed
    /\ curr # NIL => curr # entry
    /\ wpc \in {"copy", "due", "mark"} => ~work[curr].is_completed
    /\ wpc \in {"due", "mark"} => work[curr].is_copied

(* An entry in use carries an op of its own, which the worker has posted   *)
(* if it is completed or about to be marked so.                            *)
Posted(e) == work[e].is_completed \/ (wpc = "mark" /\ curr = e)
Queued(g, m) ==
    /\ \A j \in 1 .. m :
          LET e == work[g[j]] IN
          /\ e.op \in 1 .. issued /\ e.op \notin dropped /\ e.target = due[e.op]
          /\ entry # NIL => e.op # issued
          /\ posted[e.op] = IF Posted(g[j]) THEN 1 ELSE 0
          /\ e.is_copied /\ ~e.is_internal => e.op \in copied
    /\ \A i, j \in 1 .. m : work[g[i]].op = work[g[j]].op => i = j
    /\ \A o \in 1 .. issued : o \in dropped \/ posted[o] = 1 \/ (entry # NIL /\ o = issued)
                              \/ \E j \in 1 .. m : work[g[j]].op = o

Accounted ==
    /\ entry # NIL => issued \notin dropped /\ posted[issued] = 0 /\ due[issued] = target
    /\ \A o \in Ops : o > issued => posted[o] = 0 /\ o \notin dropped
    /\ \A o \in Ops : posted[o] > 0 => posted[o] = 1 /\ due[o] <= now /\ o \notin dropped
    /\ copied \subseteq Ops

Fields == [op : 0 .. MaxOps, target : Time, is_completed : BOOLEAN,
           is_copied : BOOLEAN, is_internal : BOOLEAN]

(* Types that hold however long the worker sleeps: all but that of copied. *)
Typed ==
    /\ next \in [Entries -> Entries \cup {NIL}]
    /\ prev \in [Entries -> Entries \cup {NIL}]
    /\ work \in [Entries -> Fields]
    /\ free_seq \in Entries /\ free_seq_end \in Entries
    /\ io_seq \in Entries \cup {NIL} /\ io_seq_end \in Entries \cup {NIL}
    /\ entry \in Entries \cup {NIL} /\ cur \in Entries \cup {NIL}
    /\ last \in Entries \cup {NIL} /\ curr \in Entries \cup {NIL}
    /\ now \in Time /\ target \in Time
    /\ latest_nsecs \in 0 .. now /\ curr_nsecs \in 0 .. now
    /\ internal \in BOOLEAN /\ interrupt_ready \in BOOLEAN
    /\ dpc \in Filling \cup {"ftl", "reclaim", "walk"}
    /\ wpc \in {"scan", "visit", "copy", "due", "mark", "advance", "irq"}
    /\ issued \in 0 .. MaxOps
    /\ due \in [Ops -> Time \cup {NIL}]
    /\ posted \in [Ops -> Nat]
    /\ dropped \subseteq Ops /\ signalled \subseteq Ops
    /\ wpc \in {"scan", "irq"} <=> curr = NIL
    /\ dpc = "link" => cur # NIL

Structure(f, n, g, m) == /\ Lists(f, n, g, m) /\ Sorted(g, m)
                         /\ Searching(g, m) /\ Walking(g, m)
Contents(f, n, g, m) == HeldFlags /\ Reading(f, n) /\ Queued(g, m) /\ Accounted

Inv(f, n, g, m) == Structure(f, n, g, m) /\ (~WorkerMayStall => Contents(f, n, g, m))

IInv == Typed /\ Held /\ \E f, n, g, m : Inv(f, n, g, m)
-----------------------------------------------------------------------------
LEMMA Constants ==
    /\ NR_MAX_PARALLEL_IO \in Nat /\ NR_MAX_PARALLEL_IO >= 2
    /\ MaxOps \in Nat /\ MaxTime \in Nat /\ Latencies \subseteq Nat
    /\ NIL \notin Entries /\ 0 \in Entries /\ NR_MAX_PARALLEL_IO - 1 \in Entries
    /\ NIL \notin Time /\ Ops \subseteq Nat /\ Time \subseteq Nat
BY QueueSize, Bounds DEF Entries, NIL, Time, Ops

(* The four actions that write fields.                                     *)
LEMMA FillRequestWork ==
    ASSUME Typed, Held, FillRequest
    PROVE  /\ entry \in Entries /\ work' \in [Entries -> Fields]
           /\ \A e \in Entries : e # entry => work'[e] = work[e]
           /\ work'[entry].op = issued /\ work'[entry].target = target
           /\ work'[entry].is_completed = FALSE
<1>1. /\ entry \in Entries /\ issued \in 0 .. MaxOps /\ target \in Time
      /\ work \in [Entries -> Fields]
  BY DEF Typed, Held, FillRequest, Filling
<1>2. work' = [work EXCEPT ![entry].op = issued, ![entry].target = target,
                           ![entry].is_completed = FALSE]
  BY DEF FillRequest
<1> QED
  BY <1>1, <1>2 DEF Fields

LEMMA FillLinksWork ==
    ASSUME Typed, Held, FillLinks
    PROVE  /\ entry \in Entries /\ work' \in [Entries -> Fields]
           /\ \A e \in Entries : e # entry => work'[e] = work[e]
           /\ work'[entry].op = work[entry].op /\ work'[entry].target = work[entry].target
           /\ work'[entry].is_completed = work[entry].is_completed
           /\ work'[entry].is_copied = internal /\ work'[entry].is_internal = internal
<1>1. entry \in Entries /\ internal \in BOOLEAN /\ work \in [Entries -> Fields]
  BY DEF Typed, Held, FillLinks, Filling
<1>2. work' = [work EXCEPT ![entry].is_copied = internal, ![entry].is_internal = internal]
  BY DEF FillLinks, InitIsCopied
<1> QED
  BY <1>1, <1>2 DEF Fields

LEMMA CopyWork ==
    ASSUME Typed, Copy
    PROVE  /\ curr \in Entries /\ work' \in [Entries -> Fields]
           /\ \A e \in Entries : e # curr => work'[e] = work[e]
           /\ work'[curr].op = work[curr].op /\ work'[curr].target = work[curr].target
           /\ work'[curr].is_completed = work[curr].is_completed
           /\ work'[curr].is_copied = TRUE /\ work'[curr].is_internal = work[curr].is_internal
<1>1. curr \in Entries /\ work \in [Entries -> Fields]
  BY DEF Typed, Copy
<1>2. work' = [work EXCEPT ![curr].is_copied = TRUE]
  BY DEF Copy
<1> QED
  BY <1>1, <1>2 DEF Fields

LEMMA MarkWork ==
    ASSUME Typed, MarkCompleted
    PROVE  /\ curr \in Entries /\ work' \in [Entries -> Fields]
           /\ \A e \in Entries : e # curr => work'[e] = work[e]
           /\ work'[curr].op = work[curr].op /\ work'[curr].target = work[curr].target
           /\ work'[curr].is_completed = TRUE
           /\ work'[curr].is_copied = work[curr].is_copied
           /\ work'[curr].is_internal = work[curr].is_internal
<1>1. curr \in Entries /\ work \in [Entries -> Fields]
  BY DEF Typed, MarkCompleted
<1>2. work' = [work EXCEPT ![curr].is_completed = TRUE]
  BY DEF MarkCompleted
<1> QED
  BY <1>1, <1>2 DEF Fields

LEMMA TypedInit == Init => Typed /\ Held
<1> SUFFICES ASSUME Init
             PROVE  Typed /\ Held
  OBVIOUS
<1>1. work \in [Entries -> Fields]
  BY Constants DEF Init, Fields, Time
<1>2. /\ next \in [Entries -> Entries \cup {NIL}]
      /\ prev \in [Entries -> Entries \cup {NIL}]
  BY Constants DEF Init, Entries, NIL
<1>3. /\ due \in [Ops -> Time \cup {NIL}] /\ posted \in [Ops -> Nat]
      /\ now \in Time /\ target \in Time
      /\ latest_nsecs \in 0 .. now /\ curr_nsecs \in 0 .. now
      /\ free_seq \in Entries /\ free_seq_end \in Entries /\ issued \in 0 .. MaxOps
  BY Constants DEF Init, Time
<1> QED
  BY <1>1, <1>2, <1>3 DEF Init, Typed, Held, Filling, Linking

LEMMA TypedDispatcher ==
    ASSUME Typed, Held, Dispatcher
    PROVE  Typed'
<1>0. dpc \in Filling => entry \in Entries
  BY DEF Typed, Held
<1> USE Constants
<1>1. CASE FillRequest
  <2>1. /\ dpc' = "fill2"
        /\ UNCHANGED <<links, lists, now, dlocal, issued, due, dropped, wvars>>
    BY <1>1 DEF FillRequest
  <2> QED
    BY <1>1, <2>1, FillRequestWork DEF Typed, lists, links, dlocal, wvars, wlocal, Filling, Linking
<1>2. CASE FillLinks
  <2>1. /\ prev' = [prev EXCEPT ![entry] = NIL] /\ next' = [next EXCEPT ![entry] = NIL]
        /\ dpc' \in {"empty", "search"} /\ cur' = io_seq_end
        /\ UNCHANGED <<lists, now, entry, target, internal, last, issued, due, dropped, wvars>>
    BY <1>2 DEF FillLinks
  <2> QED
    BY <1>0, <1>2, <2>1, FillLinksWork DEF Typed, lists, links, wvars, wlocal, Filling, Linking
<1>3. CASE InsertFirst
  BY <1>0, <1>3 DEF InsertFirst, Enqueued, Typed, lists, links, dlocal, wvars, wlocal, Filling, Linking
<1>4. CASE Search
  BY <1>0, <1>4 DEF Search, Typed, lists, links, dlocal, wvars, wlocal, Filling, Linking
<1>5. CASE InsertHead
  BY <1>0, <1>5 DEF InsertHead, Enqueued, Typed, lists, links, dlocal, wvars, wlocal, Filling, Linking
<1>6. CASE InsertTail
  BY <1>0, <1>6 DEF InsertTail, Enqueued, Typed, lists, links, dlocal, wvars, wlocal, Filling, Linking
<1>7. CASE InsertBetween
  BY <1>0, <1>7 DEF InsertBetween, LinkBetween, Enqueued, Typed, lists, links, dlocal, wvars, wlocal, Filling, Linking
<1>8. CASE ReclaimStart
  BY <1>0, <1>8 DEF ReclaimStart, Typed, lists, links, dlocal, wvars, wlocal, Filling, Linking
<1>9. CASE ReclaimWalk
  BY <1>0, <1>9 DEF ReclaimWalk, Typed, lists, links, dlocal, wvars, wlocal, Filling, Linking
<1>10. CASE ReclaimEnd
  BY <1>0, <1>10 DEF ReclaimEnd, Splice, Typed, lists, links, dlocal, wvars, wlocal, Filling, Linking
<1> QED
  BY <1>1, <1>2, <1>3, <1>4, <1>5, <1>6, <1>7, <1>8, <1>9, <1>10 DEF Dispatcher, Insert, Reclaim

LEMMA TypedAllocate ==
    ASSUME Typed, Held, NEW int \in BOOLEAN, NEW lat \in Latencies, Allocate(int, lat)
    PROVE  Typed'
<1>1. issued' \in 0 .. MaxOps /\ issued + 1 \in Ops /\ now + lat \in Time
  BY Constants DEF Allocate, Typed, Time, Ops
<1>2. due' \in [Ops -> Time \cup {NIL}] /\ dropped' \subseteq Ops
  BY <1>1 DEF Allocate, Typed
<1>3. /\ free_seq' \in Entries /\ entry' \in Entries \cup {NIL} /\ target' \in Time
      /\ internal' \in BOOLEAN /\ dpc' \in {"ftl", "reclaim", "fill"}
  BY <1>1 DEF Allocate, QueueFull, Typed
<1>4. UNCHANGED <<links, work, free_seq_end, io_seq, io_seq_end, now, cur, last, wvars>>
  BY DEF Allocate
<1> QED
  BY <1>1, <1>2, <1>3, <1>4 DEF Typed, links, wvars, wlocal, Filling, Linking

LEMMA TypedWorker ==
    ASSUME Typed, Worker \/ Tick
    PROVE  Typed'
<1> USE Constants
<1>1. CASE Scan
  BY <1>1 DEF Scan, Goto, Typed, lists, links, dvars, dlocal, Filling, Linking
<1>2. CASE Visit
  BY <1>2 DEF Visit, Goto, Typed, lists, links, dvars, dlocal, Filling, Linking, Time
<1>3. CASE Copy
  <2>1. wpc = "copy" /\ wpc' = "due"
        /\ UNCHANGED <<links, lists, now, dvars, wlocal, latest_nsecs, interrupt_ready,
                       posted, signalled>>
    BY <1>3 DEF Copy
  <2> QED
    BY <1>3, <2>1, CopyWork DEF Typed, lists, links, dvars, dlocal, wlocal
<1>4. CASE NotDue
  BY <1>4 DEF NotDue, Typed, lists, links, dvars, dlocal, wlocal, Filling, Linking
<1>5. CASE Post
  <2>1. /\ posted' = [posted EXCEPT ![work[curr].op] = @ + 1]
        /\ interrupt_ready' \in BOOLEAN
        /\ wpc = "due" /\ wpc' = "mark"
        /\ UNCHANGED <<links, work, lists, now, dvars, wlocal, latest_nsecs, signalled>>
    BY <1>5 DEF Post, BufferRelease, FillCqResult, Typed
  <2>2. posted' \in [Ops -> Nat]
    <3>1. PICK o : o = work[curr].op
      OBVIOUS
    <3>2. posted' = [posted EXCEPT ![o] = @ + 1] /\ posted \in [Ops -> Nat]
      BY <2>1, <3>1 DEF Typed
    <3>3. CASE o \in Ops
      BY <3>2, <3>3
    <3>4. CASE o \notin Ops
      <4>1. posted' = posted
        BY <3>2, <3>4
      <4> QED
        BY <4>1, <3>2
    <3> QED
      BY <3>3, <3>4
  <2> QED
    BY <2>1, <2>2 DEF Typed, lists, links, dvars, dlocal, wlocal
<1>6. CASE MarkCompleted
  <2>1. wpc = "mark" /\ wpc' = "advance"
        /\ UNCHANGED <<links, lists, now, dvars, wlocal, latest_nsecs, interrupt_ready,
                       posted, signalled>>
    BY <1>6 DEF MarkCompleted
  <2> QED
    BY <1>6, <2>1, MarkWork DEF Typed, lists, links, dvars, dlocal, wlocal
<1>7. CASE Advance
  BY <1>7 DEF Advance, Goto, Typed, lists, links, dvars, dlocal, wlocal, Filling, Linking
<1>8. CASE Irq
  BY <1>8 DEF Irq, Typed, lists, links, dvars, dlocal, wlocal, Filling, Linking
<1>9. CASE Tick
  BY <1>9 DEF Tick, Typed, lists, links, dvars, dlocal, wvars, wlocal, Filling, Linking, Time
<1> QED
  BY <1>1, <1>2, <1>3, <1>4, <1>5, <1>6, <1>7, <1>8, <1>9 DEF Worker

(* The worker writes flags only.                                           *)
LEMMA WorkerStores ==
    ASSUME Typed, Worker \/ Tick
    PROVE  /\ \A e \in Entries : /\ work'[e].op = work[e].op /\ work'[e].target = work[e].target
                                 /\ work'[e].is_internal = work[e].is_internal
                                 /\ work[e].is_completed => work'[e].is_completed
           /\ UNCHANGED <<links, lists, dvars>>
<1>1. CASE Copy
  <2>1. UNCHANGED <<links, lists, dvars>>
    BY <1>1 DEF Copy
  <2> QED
    BY <1>1, <2>1, CopyWork
<1>2. CASE MarkCompleted
  <2>1. UNCHANGED <<links, lists, dvars>>
    BY <1>2 DEF MarkCompleted
  <2> QED
    BY <1>2, <2>1, MarkWork
<1>3. CASE Scan \/ Visit \/ NotDue \/ Post \/ Advance \/ Irq \/ Tick
  BY <1>3 DEF Scan, Visit, NotDue, Post, Advance, Irq, Tick
<1> QED
  BY <1>1, <1>2, <1>3 DEF Worker

LEMMA HeldNext ==
    ASSUME Typed, Held, Next
    PROVE  Held'
<1>0. dpc \in Filling => entry \in Entries
  BY DEF Typed, Held
<1>1. ASSUME NEW int \in BOOLEAN, NEW lat \in Latencies, Allocate(int, lat)
      PROVE  Held'
  <2>1. entry = NIL
    BY <1>1 DEF Held, Allocate, Filling, Linking
  <2>2. issued + 1 \in Ops /\ free_seq # NIL
    BY <1>1, Constants DEF Allocate, Typed, Ops
  <2> QED
    BY <1>1, <2>1, <2>2 DEF Held, Allocate, Filling, Linking
<1>2. CASE FillRequest
  <2>1. /\ dpc = "fill" /\ dpc' = "fill2"
        /\ UNCHANGED <<links, entry, target, issued>>
    BY <1>2 DEF FillRequest, dlocal
  <2> QED
    BY <1>2, <2>1, FillRequestWork DEF Held, Target, Filling, Linking
<1>3. CASE FillLinks
  <2>1. /\ prev' = [prev EXCEPT ![entry] = NIL] /\ next' = [next EXCEPT ![entry] = NIL]
        /\ dpc = "fill2" /\ dpc' \in {"empty", "search"}
        /\ UNCHANGED <<entry, target, issued>>
    BY <1>3 DEF FillLinks
  <2>2. next'[entry] = NIL /\ prev'[entry] = NIL
    BY <1>3, <2>1, FillLinksWork DEF Typed
  <2> QED
    BY <1>3, <2>1, <2>2, FillLinksWork DEF Held, Target, Filling, Linking
<1>4. CASE InsertFirst \/ InsertHead \/ InsertTail \/ InsertBetween
  BY <1>4 DEF InsertFirst, InsertHead, InsertTail, InsertBetween, Enqueued, Held, Filling, Linking
<1>5. CASE Search
  BY <1>5 DEF Search, links, Held, Target, Filling, Linking
<1>6. CASE Reclaim
  BY <1>6 DEF Reclaim, ReclaimStart, ReclaimWalk, ReclaimEnd, dlocal, Held, Filling, Linking
<1>7. CASE Worker \/ Tick
  BY <1>0, <1>7, WorkerStores DEF Held, Target, links, dvars, dlocal, Filling, Linking
<1> QED
  BY <1>1, <1>2, <1>3, <1>4, <1>5, <1>6, <1>7 DEF Next, Dispatcher, Insert
-----------------------------------------------------------------------------
(* What the dispatcher does to the two lists.                              *)
Behind(l, n, k) == [i \in 1 .. n - k |-> l[i + k]]
Inserted(l, n, k, e) ==
    [i \in 1 .. n + 1 |-> IF i <= k THEN l[i] ELSE IF i = k + 1 THEN e ELSE l[i - 1]]
Joined(l, n, h, k) == [i \in 1 .. n + k |-> IF i <= n THEN l[i] ELSE h[i - n]]

LEMMA ListsFrame ==
    ASSUME NEW f, NEW n, NEW g, NEW m, Lists(f, n, g, m), UNCHANGED <<links, lists, entry>>
    PROVE  Lists(f, n, g, m)'
BY DEF Lists, IsList, links, lists

(* Taking the first free entry: it is not the last one.                    *)
LEMMA TakeFree ==
    ASSUME NEW f, NEW n, NEW g, NEW m, Typed, Lists(f, n, g, m), entry = NIL,
           next[free_seq] # NIL, free_seq' = next[free_seq], entry' = free_seq,
           UNCHANGED <<links, free_seq_end, io_seq, io_seq_end>>
    PROVE  n - 1 \in Nat \ {0} /\ Lists(Behind(f, n, 1), n - 1, g, m)'
<1> DEFINE h == Behind(f, n, 1)
<1>1. n \in Nat /\ n >= 2 /\ m \in Nat
  BY DEF Lists, IsList
<1>2. h \in [1 .. n - 1 -> Entries] /\ \A i \in 1 .. n - 1 : h[i] = f[i + 1]
  BY <1>1 DEF Lists, IsList, Behind
<1> HIDE DEF h
<1>3. f[1] = free_seq /\ next[free_seq] = f[2] /\ f[n] = free_seq_end
  BY <1>1 DEF Lists, IsList
<1>4. IsList(h, n - 1, free_seq, free_seq_end)'
  BY <1>1, <1>2, <1>3 DEF Lists, IsList, links
<1>5. IsList(g, m, io_seq, io_seq_end)'
  BY DEF Lists, IsList, links
<1>6. \A i \in 1 .. n - 1 : h[i] # free_seq /\ \A j \in 1 .. m : h[i] # g[j]
  BY <1>1, <1>2, <1>3 DEF Lists, IsList
<1>7. \A j \in 1 .. m : g[j] # free_seq
  BY <1>1, <1>3 DEF Lists
<1>8. ASSUME NEW e \in Entries
      PROVE  e = free_seq \/ (\E i \in 1 .. n - 1 : e = h[i]) \/ (\E j \in 1 .. m : e = g[j])
  <2>1. e # entry
    BY Constants
  <2>2. CASE \E i \in 1 .. n : e = f[i]
    <3>1. PICK i \in 1 .. n : e = f[i]
      BY <2>2
    <3>2. CASE i = 1
      BY <3>1, <3>2, <1>3
    <3>3. CASE i # 1
      <4>1. i - 1 \in 1 .. n - 1 /\ h[i - 1] = e
        BY <3>1, <3>3, <1>1, <1>2
      <4> QED
        BY <4>1
    <3> QED
      BY <3>2, <3>3
  <2> QED
    BY <2>1, <2>2 DEF Lists
<1> QED
  BY <1>1, <1>4, <1>5, <1>6, <1>7, <1>8 DEF Lists, links, h

(* The four ways of __insert_req_sorted(): behind the k-th entry in use.   *)
LEMMA InsertInUse ==
    ASSUME NEW f, NEW n, NEW g, NEW m, NEW k \in 0 .. m, NEW c, Typed, Lists(f, n, g, m),
           entry \in Entries, entry' = NIL, c = entry,
           next'[entry] = IF k = m THEN NIL ELSE g[k + 1],
           k > 0 => next'[g[k]] = entry,
           \A e \in Entries : e # entry /\ (k > 0 => e # g[k]) => next'[e] = next[e],
           prev'[entry] = IF k = 0 THEN NIL ELSE g[k],
           k < m => prev'[g[k + 1]] = entry,
           \A e \in Entries : e # entry /\ (k < m => e # g[k + 1]) => prev'[e] = prev[e],
           io_seq' = IF k = 0 THEN entry ELSE io_seq,
           io_seq_end' = IF k = m THEN entry ELSE io_seq_end,
           UNCHANGED <<free_seq, free_seq_end>>
    PROVE  Lists(f, n, Inserted(g, m, k, c), m + 1)'
<1> DEFINE h == Inserted(g, m, k, c)
<1>1. n \in Nat \ {0} /\ m \in Nat /\ k \in Nat
  BY DEF Lists
<1>2. f \in [1 .. n -> Entries] /\ g \in [1 .. m -> Entries]
  BY DEF Lists, IsList
<1>3. /\ h \in [1 .. m + 1 -> Entries]
      /\ \A i \in 1 .. m + 1 : /\ i <= k => h[i] = g[i]
                               /\ i = k + 1 => h[i] = entry
                               /\ i > k + 1 => h[i] = g[i - 1]
  BY <1>1, <1>2 DEF Inserted
<1> HIDE DEF h
<1>4. \A i \in 1 .. n : f[i] # entry /\ \A j \in 1 .. m : f[i] # g[j]
  BY DEF Lists
<1>5. \A j \in 1 .. m : g[j] # entry
  BY DEF Lists
<1>6. \A i, j \in 1 .. m : g[i] = g[j] => i = j
  BY DEF Lists, IsList
<1>7. IsList(f, n, free_seq, free_seq_end)'
  <2>1. \A i \in 1 .. n : next'[f[i]] = next[f[i]]
    BY <1>1, <1>2, <1>4
  <2> QED
    BY <2>1, <1>1, <1>2 DEF Lists, IsList
<1>8. ASSUME NEW i \in 1 .. m + 1, NEW j \in 1 .. m + 1, h[i] = h[j]
      PROVE  i = j
  <2>1. \A x \in 1 .. m + 1 : x # k + 1 => h[x] # entry
    BY <1>1, <1>3, <1>5
  <2>2. CASE i = k + 1 \/ j = k + 1
    BY <1>8, <2>1, <2>2, <1>1, <1>3
  <2>3. CASE i # k + 1 /\ j # k + 1
    <3>1. PICK a \in 1 .. m : h[i] = g[a] /\ a = IF i <= k THEN i ELSE i - 1
      BY <2>3, <1>1, <1>3
    <3>2. PICK b \in 1 .. m : h[j] = g[b] /\ b = IF j <= k THEN j ELSE j - 1
      BY <2>3, <1>1, <1>3
    <3>3. a = b
      <4>1. g[a] = g[b]
        BY <1>8, <3>1, <3>2
      <4> QED
        BY <4>1, <1>6
    <3> QED
      BY <2>3, <3>1, <3>2, <3>3, <1>1
  <2> QED
    BY <2>2, <2>3
<1>9. ASSUME NEW i \in 1 .. m
      PROVE  next'[h[i]] = h[i + 1] /\ prev'[h[i + 1]] = h[i]
  <2>1. CASE i < k
    <3>1. h[i] = g[i] /\ h[i + 1] = g[i + 1] /\ g[i] # g[k] /\ i \in 1 .. m - 1
      BY <2>1, <1>1, <1>3, <1>6
    <3>2. next[g[i]] = g[i + 1] /\ prev[g[i + 1]] = g[i]
      BY <3>1 DEF Lists, IsList
    <3>3. next'[g[i]] = next[g[i]]
      BY <3>1, <1>2, <1>5
    <3>4. prev'[g[i + 1]] = prev[g[i + 1]]
      <4>1. k < m => g[i + 1] # g[k + 1]
        BY <2>1, <1>1, <1>6
      <4> QED
        BY <4>1, <1>1, <1>2, <1>5, <3>1
    <3> QED
      BY <3>1, <3>2, <3>3, <3>4
  <2>2. CASE i = k
    BY <2>2, <1>1, <1>3
  <2>3. CASE i = k + 1
    BY <2>3, <1>1, <1>3
  <2>4. CASE i > k + 1
    <3>1. h[i] = g[i - 1] /\ h[i + 1] = g[i] /\ i - 1 \in 1 .. m - 1
      BY <2>4, <1>1, <1>3
    <3>2. next[g[i - 1]] = g[i] /\ prev[g[i]] = g[i - 1]
      <4>1. PICK j \in 1 .. m - 1 : j = i - 1
        BY <3>1
      <4> QED
        BY <4>1 DEF Lists, IsList
    <3>3. next'[g[i - 1]] = next[g[i - 1]]
      <4>1. k > 0 => g[i - 1] # g[k]
        BY <2>4, <3>1, <1>1, <1>6
      <4> QED
        BY <4>1, <1>1, <1>2, <1>5, <3>1
    <3>4. prev'[g[i]] = prev[g[i]]
      <4>1. k < m => g[i] # g[k + 1]
        BY <2>4, <1>1, <1>6
      <4> QED
        BY <4>1, <1>2, <1>5
    <3> QED
      BY <3>1, <3>2, <3>3, <3>4
  <2> QED
    BY <2>1, <2>2, <2>3, <2>4, <1>1
<1>10. h[1] = io_seq' /\ prev'[h[1]] = NIL
  <2>1. CASE k = 0
    BY <2>1, <1>1, <1>3
  <2>2. CASE k > 0
    <3>1. h[1] = g[1] /\ g[1] = io_seq /\ prev[g[1]] = NIL
      BY <2>2, <1>1, <1>3 DEF Lists, IsList
    <3>2. k < m => g[1] # g[k + 1]
      BY <2>2, <1>1, <1>6
    <3> QED
      BY <2>2, <3>1, <3>2, <1>1, <1>2, <1>5
  <2> QED
    BY <2>1, <2>2, <1>1
<1>11. h[m + 1] = io_seq_end' /\ next'[h[m + 1]] = NIL
  <2>1. CASE k = m
    BY <2>1, <1>1, <1>3
  <2>2. CASE k < m
    <3>1. h[m + 1] = g[m] /\ g[m] = io_seq_end /\ next[g[m]] = NIL
      BY <2>2, <1>1, <1>3 DEF Lists, IsList
    <3>2. k > 0 => g[m] # g[k]
      BY <2>2, <1>1, <1>6
    <3> QED
      BY <2>2, <3>1, <3>2, <1>1, <1>2, <1>5
  <2> QED
    BY <2>1, <2>2, <1>1
<1>12. IsList(h, m + 1, io_seq, io_seq_end)'
  <2>1. \A i \in 1 .. (m + 1) - 1 : next'[h[i]] = h[i + 1]
    BY <1>1, <1>9
  <2> QED
    BY <2>1, <1>1, <1>3, <1>8, <1>10, <1>11 DEF IsList
<1>13. \A i \in 1 .. n : f[i] # NIL /\ \A j \in 1 .. m + 1 : f[i] # h[j]
  BY <1>1, <1>2, <1>3, <1>4, Constants
<1>14. \A j \in 1 .. m + 1 : h[j] # NIL
  BY <1>3, Constants
<1>15. ASSUME NEW e \in Entries
       PROVE  (\E i \in 1 .. n : e = f[i]) \/ (\E j \in 1 .. m + 1 : e = h[j])
  <2>1. CASE e = entry
    BY <2>1, <1>1, <1>3
  <2>2. CASE \E j \in 1 .. m : e = g[j]
    <3>1. PICK j \in 1 .. m : e = g[j]
      BY <2>2
    <3>2. CASE j <= k
      <4>1. j \in 1 .. m + 1 /\ h[j] = e
        BY <3>1, <3>2, <1>1, <1>3
      <4> QED
        BY <4>1
    <3>3. CASE j > k
      <4>1. j + 1 \in 1 .. m + 1 /\ h[j + 1] = e
        BY <3>1, <3>3, <1>1, <1>3
      <4> QED
        BY <4>1
    <3> QED
      BY <3>2, <3>3, <1>1
  <2> QED
    BY <2>1, <2>2 DEF Lists
<1>16. io_seq' # NIL
  BY <1>1, <1>3, <1>10, Constants
<1>17. \A i \in 1 .. (m + 1) - 1 : prev'[h[i + 1]] = h[i]
  BY <1>1, <1>9
<1>18. m + 1 \in Nat /\ m + 1 # 0
  BY <1>1
<1> QED
  BY <1>1, <1>7, <1>10, <1>12, <1>13, <1>14, <1>15, <1>16, <1>17, <1>18 DEF Lists, h

(* __reclaim_completed_reqs(): the first k entries in use, k > 0, go       *)
(* behind the free list.                                                   *)
LEMMA SpliceLists ==
    ASSUME NEW f, NEW n, NEW g, NEW m, NEW k \in 1 .. m, Typed, Lists(f, n, g, m),
           entry = NIL, Splice(io_seq, g[k]),
           UNCHANGED <<free_seq, io_seq_end, entry>>
    PROVE  Lists(Joined(f, n, g, k), n + k, Behind(g, m, k), m - k)'
<1> DEFINE a == Joined(f, n, g, k)
           b == Behind(g, m, k)
<1>1. n \in Nat \ {0} /\ m \in Nat /\ k \in Nat \ {0} /\ k <= m
  BY DEF Lists
<1>2. f \in [1 .. n -> Entries] /\ g \in [1 .. m -> Entries]
  BY DEF Lists, IsList
<1>3. /\ a \in [1 .. n + k -> Entries]
      /\ \A i \in 1 .. n + k : (i <= n => a[i] = f[i]) /\ (i > n => a[i] = g[i - n])
  BY <1>1, <1>2 DEF Joined
<1>4. /\ b \in [1 .. m - k -> Entries]
      /\ \A i \in 1 .. m - k : b[i] = g[i + k]
  BY <1>1, <1>2 DEF Behind
<1> HIDE DEF a, b
<1>5. /\ f[n] = free_seq_end /\ free_seq_end \in Entries /\ f[1] = free_seq
      /\ g[1] = io_seq /\ io_seq \in Entries
  BY <1>1, <1>2 DEF Lists, IsList
<1>6. \A i \in 1 .. n : \A j \in 1 .. m : f[i] # g[j]
  BY DEF Lists
<1>7. /\ \A i, j \in 1 .. m : g[i] = g[j] => i = j
      /\ \A i, j \in 1 .. n : f[i] = f[j] => i = j
  BY DEF Lists, IsList
<1>8. /\ k < m => next[g[k]] = g[k + 1]
      /\ k = m => next[g[k]] = NIL
  BY <1>1 DEF Lists, IsList
<1>9. /\ next' = [next EXCEPT ![g[k]] = NIL, ![free_seq_end] = io_seq]
      /\ prev' = [e \in Entries |-> IF e = next[g[k]] THEN NIL
                                    ELSE IF e = io_seq THEN free_seq_end ELSE prev[e]]
      /\ io_seq' = next[g[k]] /\ free_seq_end' = g[k]
  BY DEF Splice
<1>10. /\ next'[g[k]] = NIL /\ next'[free_seq_end] = io_seq
       /\ \A e \in Entries : e # g[k] /\ e # free_seq_end => next'[e] = next[e]
  BY <1>1, <1>2, <1>5, <1>6, <1>9 DEF Typed
<1>11. \A i, j \in 1 .. n + k : a[i] = a[j] => i = j
  <2> SUFFICES ASSUME NEW i \in 1 .. n + k, NEW j \in 1 .. n + k, a[i] = a[j]
               PROVE  i = j
    OBVIOUS
  <2>1. CASE i <= n /\ j <= n
    BY <2>1, <1>1, <1>3, <1>7
  <2>2. CASE i > n /\ j > n
    <3>1. i - n \in 1 .. m /\ j - n \in 1 .. m /\ g[i - n] = g[j - n]
      BY <2>2, <1>1, <1>3
    <3>2. i - n = j - n
      BY <3>1, <1>7
    <3> QED
      BY <3>2, <1>1
  <2>3. CASE i <= n /\ j > n
    BY <2>3, <1>1, <1>3, <1>6
  <2>4. CASE i > n /\ j <= n
    <3>1. j \in 1 .. n /\ i - n \in 1 .. m /\ a[i] = g[i - n] /\ a[j] = f[j]
      BY <2>4, <1>1, <1>3
    <3> QED
      BY <3>1, <1>6
  <2> QED
    BY <2>1, <2>2, <2>3, <2>4, <1>1
<1>12. ASSUME NEW i \in 1 .. (n + k) - 1
       PROVE  next'[a[i]] = a[i + 1]
  <2>1. CASE i < n
    <3>1. /\ a[i] = f[i] /\ a[i + 1] = f[i + 1] /\ i \in 1 .. n - 1 /\ i \in 1 .. n
          /\ f[i] # f[n]
      BY <2>1, <1>1, <1>3, <1>7
    <3>2. next[f[i]] = f[i + 1]
      BY <3>1 DEF Lists, IsList
    <3> QED
      BY <3>1, <3>2, <1>1, <1>2, <1>5, <1>6, <1>10
  <2>2. CASE i = n
    BY <2>2, <1>1, <1>3, <1>5, <1>10
  <2>3. CASE i > n
    <3>1. PICK j \in 1 .. m - 1 : j = i - n /\ j < k
      BY <2>3, <1>1
    <3>2. a[i] = g[j] /\ a[i + 1] = g[j + 1] /\ g[j] # g[k] /\ g[j] # free_seq_end /\ g[j] \in Entries
      BY <2>3, <3>1, <1>1, <1>2, <1>3, <1>5, <1>6, <1>7
    <3>3. next[g[j]] = g[j + 1]
      BY DEF Lists, IsList
    <3> QED
      BY <3>2, <3>3, <1>10
  <2> QED
    BY <2>1, <2>2, <2>3, <1>1
<1>13. a[1] = free_seq /\ a[n + k] = g[k]
  <2>1. n + k \in 1 .. n + k /\ n + k > n /\ (n + k) - n = k /\ 1 \in 1 .. n + k /\ 1 <= n
    BY <1>1
  <2> QED
    BY <2>1, <1>3, <1>5
<1>14. IsList(a, n + k, free_seq, free_seq_end)'
  BY <1>1, <1>3, <1>9, <1>10, <1>11, <1>12, <1>13 DEF IsList
<1>15. \A i, j \in 1 .. m - k : b[i] = b[j] => i = j
  <2> SUFFICES ASSUME NEW i \in 1 .. m - k, NEW j \in 1 .. m - k, b[i] = b[j]
               PROVE  i = j
    OBVIOUS
  <2>1. i + k \in 1 .. m /\ j + k \in 1 .. m /\ g[i + k] = g[j + k]
    BY <1>1, <1>4
  <2>2. i + k = j + k
    BY <2>1, <1>7
  <2> QED
    BY <2>2, <1>1
<1>16. ASSUME NEW i \in 1 .. (m - k) - 1
       PROVE  next'[b[i]] = b[i + 1] /\ prev'[b[i + 1]] = b[i]
  <2>1. PICK j \in 1 .. m - 1 : j = i + k
    BY <1>1
  <2>2. /\ b[i] = g[j] /\ b[i + 1] = g[j + 1] /\ g[j] # g[k] /\ g[j] # free_seq_end
        /\ g[j] \in Entries /\ g[j + 1] \in Entries
    BY <2>1, <1>1, <1>2, <1>4, <1>5, <1>6, <1>7
  <2>3. next[g[j]] = g[j + 1] /\ prev[g[j + 1]] = g[j]
    BY DEF Lists, IsList
  <2>4. g[j + 1] # next[g[k]] /\ g[j + 1] # io_seq
    <3>1. g[j + 1] # g[1] /\ g[j + 1] # g[k + 1] /\ k < m
      BY <2>1, <1>1, <1>7
    <3> QED
      BY <3>1, <1>5, <1>8
  <2>5. prev'[g[j + 1]] = prev[g[j + 1]]
    BY <2>2, <2>4, <1>9
  <2> QED
    BY <2>2, <2>3, <2>5, <1>10
<1>17. /\ m - k > 0 => b[1] = io_seq' /\ prev'[io_seq'] = NIL
       /\ m - k > 0 => b[m - k] = io_seq_end' /\ next'[io_seq_end'] = NIL
  <2> SUFFICES ASSUME m - k > 0
               PROVE  /\ b[1] = io_seq' /\ prev'[io_seq'] = NIL
                      /\ b[m - k] = io_seq_end' /\ next'[io_seq_end'] = NIL
    OBVIOUS
  <2>1. b[1] = g[k + 1] /\ b[m - k] = g[m] /\ k < m /\ g[k + 1] \in Entries /\ g[m] \in Entries
    BY <1>1, <1>2, <1>4
  <2>2. g[m] = io_seq_end /\ next[g[m]] = NIL /\ g[m] # g[k] /\ g[m] # free_seq_end
    BY <2>1, <1>1, <1>5, <1>6, <1>7 DEF Lists, IsList
  <2>3. next'[g[m]] = NIL
    BY <2>1, <2>2, <1>10
  <2> QED
    BY <2>1, <2>2, <2>3, <1>8, <1>9
<1>18. IsList(b, m - k, io_seq, io_seq_end)'
  BY <1>1, <1>4, <1>15, <1>16, <1>17 DEF IsList
<1>19. m - k = 0 <=> io_seq' = NIL
  <2>1. k < m => g[k + 1] # NIL
    BY <1>1, <1>2, Constants
  <2> QED
    BY <2>1, <1>1, <1>8, <1>9
<1>20. \A i \in 1 .. n + k : a[i] # NIL /\ \A j \in 1 .. m - k : a[i] # b[j]
  <2> SUFFICES ASSUME NEW i \in 1 .. n + k
               PROVE  a[i] # NIL /\ \A j \in 1 .. m - k : a[i] # b[j]
    OBVIOUS
  <2>1. a[i] # NIL
    BY <1>3, Constants
  <2>2. ASSUME NEW j \in 1 .. m - k
        PROVE  a[i] # b[j]
    <3>1. b[j] = g[j + k] /\ j + k \in 1 .. m
      BY <1>1, <1>4
    <3>2. CASE i <= n
      BY <3>1, <3>2, <1>1, <1>3, <1>6
    <3>3. CASE i > n
      <4>1. a[i] = g[i - n] /\ i - n \in 1 .. m /\ i - n # j + k
        BY <3>3, <1>1, <1>3
      <4> QED
        BY <4>1, <3>1, <1>7
    <3> QED
      BY <3>2, <3>3, <1>1
  <2> QED
    BY <2>1, <2>2
<1>21. \A j \in 1 .. m - k : b[j] # NIL
  BY <1>4, Constants
<1>22. ASSUME NEW e \in Entries
       PROVE  (\E i \in 1 .. n + k : e = a[i]) \/ (\E j \in 1 .. m - k : e = b[j])
  <2>1. e # entry
    BY Constants
  <2>2. CASE \E i \in 1 .. n : e = f[i]
    <3>1. PICK i \in 1 .. n : e = f[i]
      BY <2>2
    <3>2. i \in 1 .. n + k /\ a[i] = e
      BY <3>1, <1>1, <1>3
    <3> QED
      BY <3>2
  <2>3. CASE \E j \in 1 .. m : e = g[j]
    <3>1. PICK j \in 1 .. m : e = g[j]
      BY <2>3
    <3>2. CASE j <= k
      <4>1. n + j \in 1 .. n + k /\ a[n + j] = e
        BY <3>1, <3>2, <1>1, <1>3
      <4> QED
        BY <4>1
    <3>3. CASE j > k
      <4>1. j - k \in 1 .. m - k /\ b[j - k] = e
        BY <3>1, <3>3, <1>1, <1>4
      <4> QED
        BY <4>1
    <3> QED
      BY <3>2, <3>3, <1>1
  <2> QED
    BY <2>1, <2>2, <2>3 DEF Lists
<1>23. n + k \in Nat \ {0} /\ m - k \in Nat
  BY <1>1
<1>24. entry' = NIL
  OBVIOUS
<1> QED
  BY <1>14, <1>16, <1>17, <1>18, <1>19, <1>20, <1>21, <1>22, <1>23, <1>24 DEF Lists, a, b
-----------------------------------------------------------------------------
(* How the steps keep the structure of the two lists.                      *)
LEMMA ListFacts ==
    ASSUME NEW f, NEW n, NEW g, NEW m, Lists(f, n, g, m)
    PROVE  /\ n \in Nat \ {0} /\ m \in Nat
           /\ f \in [1 .. n -> Entries] /\ g \in [1 .. m -> Entries]
           /\ \A i \in 1 .. n : f[i] \in Entries /\ f[i] # entry
           /\ \A j \in 1 .. m : g[j] \in Entries /\ g[j] # entry
           /\ \A i \in 1 .. n : \A j \in 1 .. m : f[i] # g[j]
           /\ \A i, j \in 1 .. m : g[i] = g[j] => i = j
BY DEF Lists, IsList

LEMMA FieldTypes ==
    ASSUME Typed
    PROVE  \A e \in Entries : /\ work[e].op \in 0 .. MaxOps /\ work[e].target \in Nat
                              /\ Target(e) \in Nat /\ work[e].is_completed \in BOOLEAN
                              /\ work[e].is_copied \in BOOLEAN /\ work[e].is_internal \in BOOLEAN
<1> SUFFICES ASSUME NEW e \in Entries
             PROVE  /\ work[e].op \in 0 .. MaxOps /\ work[e].target \in Time
                    /\ work[e].is_completed \in BOOLEAN
                    /\ work[e].is_copied \in BOOLEAN /\ work[e].is_internal \in BOOLEAN
  BY Constants DEF Target
<1>1. work[e] \in Fields
  BY DEF Typed
<1> QED
  BY <1>1 DEF Fields

LEMMA StructureWorker ==
    ASSUME NEW f, NEW n, NEW g, NEW m, Typed, Structure(f, n, g, m), Worker \/ Tick
    PROVE  Structure(f, n, g, m)'
<1>1. /\ \A e \in Entries : /\ work'[e].target = work[e].target
                            /\ work[e].is_completed => work'[e].is_completed
      /\ UNCHANGED <<next, prev, free_seq, free_seq_end, io_seq, io_seq_end, dpc, entry,
                     target, cur, last>>
  BY WorkerStores DEF links, lists, dvars, dlocal
<1>2. latest_nsecs \in Int /\ latest_nsecs' \in Int /\ latest_nsecs <= latest_nsecs'
  <2>1. now \in Nat /\ latest_nsecs \in 0 .. now
    BY Constants DEF Typed
  <2>2. latest_nsecs' = latest_nsecs \/ latest_nsecs' = now
    BY DEF Worker, Scan, Visit, Copy, NotDue, Post, MarkCompleted, Advance, Irq, Tick, wvars
  <2> QED
    BY <2>1, <2>2
<1>3. Lists(f, n, g, m)'
  BY <1>1, ListsFrame DEF Structure, links, lists
<1>4. \A j \in 1 .. m : /\ g[j] \in Entries /\ Target(g[j])' = Target(g[j])
                        /\ Target(g[j]) \in Nat
  BY <1>1, ListFacts, FieldTypes DEF Structure, Target
<1>5. m \in Nat /\ target \in Nat
  BY Constants DEF Structure, Lists, Typed
<1>6. Sorted(g, m)'
  BY <1>2, <1>4 DEF Structure, Sorted
<1>7. Searching(g, m)'
  <2>1. \A k \in 0 .. m : Later(g, m, k) => Later(g, m, k)'
    BY <1>1, <1>4, <1>5 DEF Later
  <2>2. \A j \in 1 .. m : Stop(g[j]) => Stop(g[j])'
    BY <1>1, <1>2, <1>4, <1>5 DEF Stop, Target
  <2> QED
    BY <2>1, <2>2, <1>1, <1>5 DEF Structure, Searching
<1>8. Walking(g, m)'
  BY <1>1, <1>4, <1>5 DEF Structure, Walking
<1> QED
  BY <1>3, <1>6, <1>7, <1>8 DEF Structure

LEMMA StructureFill ==
    ASSUME NEW f, NEW n, NEW g, NEW m, Typed, Held, Structure(f, n, g, m),
           FillRequest \/ FillLinks
    PROVE  Structure(f, n, g, m)'
<1>0. Lists(f, n, g, m) /\ m \in Nat /\ n \in Nat
  BY DEF Structure, Lists
<1>1. /\ entry \in Entries /\ entry' = entry
      /\ \A e \in Entries : e # entry => /\ next'[e] = next[e] /\ prev'[e] = prev[e]
                                         /\ work'[e] = work[e]
  <2>1. CASE FillRequest
    BY <2>1, FillRequestWork DEF FillRequest, links, dlocal
  <2>2. CASE FillLinks
    <3>1. /\ prev' = [prev EXCEPT ![entry] = NIL] /\ next' = [next EXCEPT ![entry] = NIL]
          /\ entry' = entry
      BY <2>2 DEF FillLinks
    <3> QED
      BY <2>2, <3>1, FillLinksWork DEF Typed
  <2> QED
    BY <2>1, <2>2
<1>2. UNCHANGED <<free_seq, free_seq_end, io_seq, io_seq_end, latest_nsecs>>
  BY DEF FillRequest, FillLinks, lists, wvars
<1>3. /\ \A i \in 1 .. n : next'[f[i]] = next[f[i]]
      /\ \A j \in 1 .. m : /\ next'[g[j]] = next[g[j]] /\ prev'[g[j]] = prev[g[j]]
                           /\ work'[g[j]] = work[g[j]]
  BY <1>0, <1>1, ListFacts
<1>4. Lists(f, n, g, m)'
  <2>1. IsList(f, n, free_seq, free_seq_end)'
    BY <1>0, <1>2, <1>3 DEF Lists, IsList
  <2>2. IsList(g, m, io_seq, io_seq_end)'
    BY <1>0, <1>2, <1>3 DEF Lists, IsList
  <2>3. /\ m > 0 => io_seq = g[1] /\ prev'[io_seq] = NIL
        /\ \A i \in 1 .. m - 1 : prev'[g[i + 1]] = g[i]
    BY <1>0, <1>3 DEF Lists, IsList
  <2> QED
    BY <1>0, <1>1, <1>2, <2>1, <2>2, <2>3 DEF Lists
<1>5. Sorted(g, m)'
  BY <1>0, <1>2, <1>3 DEF Structure, Sorted, Target
<1>6. Walking(g, m)' /\ dpc' \in {"fill2", "empty", "search"}
  BY DEF FillRequest, FillLinks, Walking
<1>7. Searching(g, m)'
  <2>1. CASE FillRequest
    BY <2>1 DEF FillRequest, Searching
  <2>2. CASE FillLinks
    <3>1. cur' = io_seq_end /\ dpc' = IF io_seq = NIL THEN "empty" ELSE "search"
      BY <2>2 DEF FillLinks
    <3>2. CASE m = 0
      BY <3>1, <3>2, <1>0 DEF Searching, Lists
    <3>3. CASE m > 0
      <4>1. io_seq # NIL /\ io_seq_end = g[m] /\ dpc' = "search" /\ m \in 0 .. m /\ m # 0
        BY <3>1, <3>3, <1>0 DEF Lists, IsList
      <4>2. Later(g, m, m)'
        BY <1>0 DEF Later
      <4> QED
        BY <3>1, <3>3, <4>1, <4>2 DEF Searching
    <3> QED
      BY <3>2, <3>3, <1>0
  <2> QED
    BY <2>1, <2>2
<1> QED
  BY <1>4, <1>5, <1>6, <1>7 DEF Structure

LEMMA StructureSearch ==
    ASSUME NEW f, NEW n, NEW g, NEW m, Typed, Held, Structure(f, n, g, m), Search
    PROVE  Structure(f, n, g, m)'
<1>0. /\ Lists(f, n, g, m) /\ m \in Nat
      /\ dpc = "search" /\ cur # NIL
      /\ UNCHANGED <<links, work, lists, entry, target, last, latest_nsecs>>
  BY DEF Structure, Lists, Search, wvars
<1>1. Lists(f, n, g, m)' /\ Sorted(g, m)' /\ Walking(g, m)'
  <2>1. dpc' \in {"search", "link"}
    BY DEF Search
  <2> QED
    BY <1>0, <2>1, ListsFrame DEF Structure, Sorted, Target, Walking
<1>2. PICK k \in 1 .. m : cur = g[k] /\ Later(g, m, k)
  BY <1>0 DEF Structure, Searching
<1>3. \A j \in 1 .. m : Target(g[j]) \in Nat
  BY <1>0, ListFacts, FieldTypes
<1>4. target \in Nat /\ latest_nsecs \in Int
  BY Constants DEF Typed
<1>5. CASE Stop(cur)
  <2>1. dpc' = "link" /\ cur' = cur
    BY <1>5 DEF Search
  <2>2. Stop(cur)' /\ Later(g, m, k)'
    BY <1>0, <1>2, <1>5, <2>1 DEF Stop, Later, Target
  <2> QED
    BY <1>1, <1>2, <2>1, <2>2 DEF Structure, Searching
<1>6. CASE ~Stop(cur)
  <2>1. dpc' = "search" /\ cur' = prev[cur]
    BY <1>0, <1>6 DEF Search
  <2>2. Target(g[k]) > target
    BY <1>2, <1>3, <1>4, <1>6 DEF Stop, Target
  <2>3. k - 1 \in 0 .. m /\ m > 0
    BY <1>0
  <2>4. Later(g, m, k - 1)'
    <3>1. \A i \in (k - 1) + 1 .. m : i = k \/ i \in k + 1 .. m
      BY <1>0
    <3> QED
      BY <3>1, <1>0, <1>2, <2>2 DEF Later, Target
  <2>5. cur' = IF k - 1 = 0 THEN NIL ELSE g[k - 1]
    <3>1. CASE k = 1
      BY <3>1, <2>1, <1>0, <1>2 DEF Lists, IsList
    <3>2. CASE k > 1
      <4>1. PICK i \in 1 .. m - 1 : i = k - 1 /\ i + 1 = k
        BY <3>2, <1>0
      <4>2. prev[g[i + 1]] = g[i]
        BY <1>0 DEF Lists
      <4> QED
        BY <4>1, <4>2, <3>2, <2>1, <1>2
    <3> QED
      BY <3>1, <3>2, <1>0
  <2> QED
    BY <1>1, <2>1, <2>3, <2>4, <2>5 DEF Structure, Searching
<1> QED
  BY <1>5, <1>6

(* The place found by __insert_req_sorted() keeps the list sorted.         *)
LEMMA InsertSorted ==
    ASSUME NEW f, NEW n, NEW g, NEW m, NEW k \in 0 .. m, NEW c,
           Typed, Lists(f, n, g, m), Sorted(g, m), Later(g, m, k),
           k > 0 => Stop(g[k]), c = entry, entry \in Entries, Target(entry) = target,
           UNCHANGED <<work, latest_nsecs>>
    PROVE  Sorted(Inserted(g, m, k, c), m + 1)'
<1> DEFINE h == Inserted(g, m, k, c)
<1>1. /\ m \in Nat /\ k \in Nat /\ k <= m
      /\ g \in [1 .. m -> Entries]
  BY ListFacts
<1>2. \A i \in 1 .. m + 1 : /\ i <= k => h[i] = g[i]
                            /\ i = k + 1 => h[i] = c
                            /\ i > k + 1 => h[i] = g[i - 1]
  BY <1>1 DEF Inserted
<1> HIDE DEF h
<1>3. /\ \A i \in 1 .. m : Target(g[i]) \in Nat
      /\ target \in Nat /\ latest_nsecs \in Int
  BY <1>1, FieldTypes, Constants DEF Typed
<1>4. \A i \in 1 .. k : Target(g[i]) > latest_nsecs => Target(g[i]) <= target
  <2> SUFFICES ASSUME NEW i \in 1 .. k, Target(g[i]) > latest_nsecs
               PROVE  Target(g[i]) <= target
    OBVIOUS
  <2>1. k > 0 /\ k \in 1 .. m /\ i \in 1 .. m
    BY <1>1
  <2>2. Target(g[k]) <= latest_nsecs \/ Target(g[k]) <= target
    BY <2>1 DEF Stop, Target
  <2>3. Target(g[i]) <= Target(g[k])
    BY <2>1, <1>1, <1>3 DEF Sorted
  <2> QED
    BY <2>1, <2>2, <2>3, <1>3
<1>5. \A i \in k + 1 .. m : target <= Target(g[i])
  BY <1>1, <1>3 DEF Later
<1>6. SUFFICES ASSUME NEW i \in 1 .. m + 1, NEW j \in 1 .. m + 1, i < j,
                      Target(h[i]) > latest_nsecs
               PROVE  Target(h[i]) <= Target(h[j])
  BY DEF Sorted, Target, h
<1>7. CASE i <= k /\ j <= k
  BY <1>1, <1>2, <1>6, <1>7 DEF Sorted
<1>8. CASE i <= k /\ j = k + 1
  BY <1>1, <1>2, <1>4, <1>6, <1>8
<1>9. CASE i <= k /\ j > k + 1
  <2>1. h[i] = g[i] /\ h[j] = g[j - 1] /\ i \in 1 .. m /\ j - 1 \in 1 .. m /\ i < j - 1
    BY <1>1, <1>2, <1>9
  <2> QED
    BY <2>1, <1>6 DEF Sorted
<1>10. CASE i = k + 1
  <2>1. h[i] = entry /\ h[j] = g[j - 1] /\ j - 1 \in k + 1 .. m
    BY <1>1, <1>2, <1>6, <1>10
  <2> QED
    BY <2>1, <1>5
<1>11. CASE i > k + 1
  <2>1. /\ h[i] = g[i - 1] /\ h[j] = g[j - 1] /\ i - 1 \in 1 .. m /\ j - 1 \in 1 .. m
        /\ i - 1 < j - 1
    BY <1>1, <1>2, <1>6, <1>11
  <2> QED
    BY <2>1, <1>6 DEF Sorted
<1> QED
  BY <1>1, <1>7, <1>8, <1>9, <1>10, <1>11

LEMMA StructureInsert ==
    ASSUME NEW f, NEW n, NEW g, NEW m, NEW c, c = entry,
           Typed, Held, Structure(f, n, g, m),
           InsertFirst \/ InsertHead \/ InsertTail \/ InsertBetween
    PROVE  \E k \in 0 .. m : Structure(f, n, Inserted(g, m, k, c), m + 1)'
<1>0. /\ Lists(f, n, g, m) /\ Sorted(g, m) /\ m \in Nat
      /\ g \in [1 .. m -> Entries]
      /\ \A j \in 1 .. m : g[j] # entry
      /\ \A i, j \in 1 .. m : g[i] = g[j] => i = j
  BY ListFacts DEF Structure
<1>1. /\ entry \in Entries /\ Target(entry) = target
      /\ next[entry] = NIL /\ prev[entry] = NIL
  BY DEF Typed, Held, InsertFirst, InsertHead, InsertTail, InsertBetween, Filling, Linking
<1>2. /\ entry' = NIL /\ dpc' \in {"ftl", "reclaim"}
      /\ UNCHANGED <<work, latest_nsecs, free_seq, free_seq_end>>
  BY DEF InsertFirst, InsertHead, InsertTail, InsertBetween, Enqueued, lists, links, wvars
<1>3. ASSUME NEW k \in 0 .. m, Later(g, m, k), k > 0 => Stop(g[k]),
             Lists(f, n, Inserted(g, m, k, c), m + 1)'
      PROVE  Structure(f, n, Inserted(g, m, k, c), m + 1)'
  <2>1. Sorted(Inserted(g, m, k, c), m + 1)'
    BY <1>0, <1>1, <1>2, <1>3, InsertSorted
  <2>2. Searching(Inserted(g, m, k, c), m + 1)' /\ Walking(Inserted(g, m, k, c), m + 1)'
    BY <1>2 DEF Searching, Walking
  <2> QED
    BY <1>3, <2>1, <2>2 DEF Structure
<1>4. CASE InsertFirst
  <2>1. /\ m = 0 /\ io_seq' = entry /\ io_seq_end' = entry /\ UNCHANGED <<next, prev>>
    BY <1>4 DEF InsertFirst, Structure, Searching, links
  <2>2. 0 \in 0 .. m /\ Later(g, m, 0)
    BY <2>1 DEF Later
  <2>3. /\ next'[entry] = IF 0 = m THEN NIL ELSE g[0 + 1]
        /\ 0 > 0 => next'[g[0]] = entry
        /\ \A e \in Entries : e # entry /\ (0 > 0 => e # g[0]) => next'[e] = next[e]
        /\ prev'[entry] = IF 0 = 0 THEN NIL ELSE g[0]
        /\ 0 < m => prev'[g[0 + 1]] = entry
        /\ \A e \in Entries : e # entry /\ (0 < m => e # g[0 + 1]) => prev'[e] = prev[e]
        /\ io_seq' = IF 0 = 0 THEN entry ELSE io_seq
        /\ io_seq_end' = IF 0 = m THEN entry ELSE io_seq_end
    BY <1>1, <2>1
  <2>4. Lists(f, n, Inserted(g, m, 0, c), m + 1)'
    BY <1>0, <1>1, <1>2, <2>2, <2>3, InsertInUse
  <2> QED
    BY <1>3, <2>2, <2>4
<1>5. CASE InsertHead
  <2>1. /\ prev' = [prev EXCEPT ![io_seq] = entry] /\ next' = [next EXCEPT ![entry] = io_seq]
        /\ io_seq' = entry /\ UNCHANGED io_seq_end
        /\ dpc = "search" /\ cur = NIL
    BY <1>5 DEF InsertHead
  <2>2. m > 0 /\ 0 \in 0 .. m /\ Later(g, m, 0)
    <3>1. PICK k \in 0 .. m : (cur = IF k = 0 THEN NIL ELSE g[k]) /\ Later(g, m, k) /\ m > 0
      BY <2>1 DEF Structure, Searching
    <3>2. k = 0
      BY <3>1, <2>1, <1>0, Constants
    <3> QED
      BY <3>1, <3>2
  <2>3. io_seq = g[1] /\ io_seq \in Entries /\ io_seq # entry
    BY <1>0, <2>2 DEF Lists, IsList
  <2>4. /\ next'[entry] = g[1] /\ prev'[g[1]] = entry /\ prev'[entry] = NIL
        /\ \A e \in Entries : e # entry => next'[e] = next[e]
        /\ \A e \in Entries : e # g[1] => prev'[e] = prev[e]
    BY <2>1, <2>3, <1>1 DEF Typed
  <2>5. Lists(f, n, Inserted(g, m, 0, c), m + 1)'
    BY <1>0, <1>1, <1>2, <2>1, <2>2, <2>4, InsertInUse
  <2> QED
    BY <1>3, <2>2, <2>5
<1>6. CASE InsertTail \/ InsertBetween
  <2>1. PICK k \in 1 .. m : cur = g[k] /\ Stop(cur) /\ Later(g, m, k)
    BY <1>6 DEF InsertTail, InsertBetween, Structure, Searching
  <2>2. k \in 0 .. m /\ k > 0 /\ k \in Nat /\ cur \in Entries /\ cur # entry
    BY <1>0, <2>1
  <2>3. CASE k = m
    <3>1. next[cur] = NIL /\ cur = io_seq_end
      BY <1>0, <2>1, <2>2, <2>3 DEF Lists, IsList
    <3>2. /\ prev' = [prev EXCEPT ![entry] = cur] /\ next' = [next EXCEPT ![cur] = entry]
          /\ io_seq_end' = entry /\ UNCHANGED io_seq
      BY <1>6, <3>1 DEF InsertTail, InsertBetween
    <3>3. /\ next'[entry] = NIL /\ next'[cur] = entry /\ prev'[entry] = cur
          /\ \A e \in Entries : e # cur => next'[e] = next[e]
          /\ \A e \in Entries : e # entry => prev'[e] = prev[e]
      BY <3>2, <2>2, <1>1 DEF Typed
    <3>4. /\ next'[entry] = IF k = m THEN NIL ELSE g[k + 1]
          /\ k > 0 => next'[g[k]] = entry
          /\ \A e \in Entries : e # entry /\ (k > 0 => e # g[k]) => next'[e] = next[e]
          /\ prev'[entry] = IF k = 0 THEN NIL ELSE g[k]
          /\ k < m => prev'[g[k + 1]] = entry
          /\ \A e \in Entries : e # entry /\ (k < m => e # g[k + 1]) => prev'[e] = prev[e]
          /\ io_seq' = IF k = 0 THEN entry ELSE io_seq
          /\ io_seq_end' = IF k = m THEN entry ELSE io_seq_end
      BY <2>1, <2>2, <2>3, <3>2, <3>3
    <3>5. Lists(f, n, Inserted(g, m, k, c), m + 1)'
      BY <1>0, <1>1, <1>2, <2>2, <3>4, InsertInUse
    <3> QED
      BY <1>3, <2>1, <2>2, <3>5
  <2>4. CASE k < m
    <3>1. next[cur] = g[k + 1] /\ g[k + 1] \in Entries /\ g[k + 1] # entry
      BY <1>0, <2>1, <2>2, <2>4 DEF Lists, IsList
    <3>2. /\ prev' = [prev EXCEPT ![entry] = cur, ![g[k + 1]] = entry]
          /\ next' = [next EXCEPT ![entry] = g[k + 1], ![cur] = entry]
          /\ UNCHANGED <<io_seq, io_seq_end>>
      BY <1>6, <3>1, Constants DEF InsertTail, InsertBetween, LinkBetween, lists
    <3>3. /\ next'[entry] = g[k + 1] /\ next'[cur] = entry
          /\ prev'[entry] = cur /\ prev'[g[k + 1]] = entry
          /\ \A e \in Entries : e # entry /\ e # cur => next'[e] = next[e]
          /\ \A e \in Entries : e # entry /\ e # g[k + 1] => prev'[e] = prev[e]
      BY <3>1, <3>2, <2>2, <1>1 DEF Typed
    <3>4. /\ next'[entry] = IF k = m THEN NIL ELSE g[k + 1]
          /\ k > 0 => next'[g[k]] = entry
          /\ \A e \in Entries : e # entry /\ (k > 0 => e # g[k]) => next'[e] = next[e]
          /\ prev'[entry] = IF k = 0 THEN NIL ELSE g[k]
          /\ k < m => prev'[g[k + 1]] = entry
          /\ \A e \in Entries : e # entry /\ (k < m => e # g[k + 1]) => prev'[e] = prev[e]
          /\ io_seq' = IF k = 0 THEN entry ELSE io_seq
          /\ io_seq_end' = IF k = m THEN entry ELSE io_seq_end
      <4>1. k > 0 /\ k # 0 /\ k < m /\ k # m /\ g[k] = cur
        BY <1>0, <2>1, <2>2, <2>4
      <4>2. /\ \A e \in Entries : e # entry /\ (k > 0 => e # g[k]) => next'[e] = next[e]
            /\ \A e \in Entries : e # entry /\ (k < m => e # g[k + 1]) => prev'[e] = prev[e]
        BY <4>1, <3>3
      <4> QED
        BY <4>1, <4>2, <3>2, <3>3
    <3>5. Lists(f, n, Inserted(g, m, k, c), m + 1)'
      BY <1>0, <1>1, <1>2, <2>2, <3>4, InsertInUse
    <3> QED
      BY <1>3, <2>1, <2>2, <3>5
  <2> QED
    BY <2>2, <2>3, <2>4, <1>0
<1> QED
  BY <1>4, <1>5, <1>6

LEMMA StructureAllocate ==
    ASSUME NEW f, NEW n, NEW g, NEW m, NEW int \in BOOLEAN, NEW lat \in Latencies,
           Typed, Held, Structure(f, n, g, m), Allocate(int, lat)
    PROVE  /\ QueueFull => Structure(f, n, g, m)'
           /\ ~QueueFull => Structure(Behind(f, n, 1), n - 1, g, m)'
<1>0. /\ Lists(f, n, g, m) /\ Sorted(g, m)
      /\ UNCHANGED <<links, work, free_seq_end, io_seq, io_seq_end, latest_nsecs>>
      /\ dpc' \in {"ftl", "reclaim", "fill"} /\ entry = NIL
  BY DEF Structure, Allocate, wvars, Held, Filling, Linking
<1>1. Sorted(g, m)' /\ Searching(g, m)' /\ Walking(g, m)'
  BY <1>0 DEF Sorted, Target, Searching, Walking
<1>2. CASE QueueFull
  <2>1. UNCHANGED <<free_seq, entry>>
    BY <1>2 DEF Allocate
  <2> QED
    BY <1>0, <1>1, <1>2, <2>1, ListsFrame DEF Structure, lists
<1>3. CASE ~QueueFull
  <2>1. free_seq' = next[free_seq] /\ entry' = free_seq /\ next[free_seq] # NIL
    BY <1>3 DEF Allocate, QueueFull
  <2>2. Lists(Behind(f, n, 1), n - 1, g, m)'
    BY <1>0, <2>1, TakeFree
  <2> QED
    BY <1>1, <1>3, <2>2 DEF Structure
<1> QED
  BY <1>2, <1>3

LEMMA StructureWalk ==
    ASSUME NEW f, NEW n, NEW g, NEW m,
           Typed, Held, Structure(f, n, g, m), ReclaimStart \/ ReclaimWalk
    PROVE  Structure(f, n, g, m)'
<1>0. /\ Lists(f, n, g, m) /\ Sorted(g, m) /\ m \in Nat
      /\ UNCHANGED <<links, work, lists, latest_nsecs, entry>> /\ dpc' = "walk"
  BY DEF Structure, Lists, ReclaimStart, ReclaimWalk, wvars
<1>1. Lists(f, n, g, m)' /\ Sorted(g, m)' /\ Searching(g, m)'
  BY <1>0, ListsFrame DEF Sorted, Target, Searching
<1>2. CASE ReclaimStart
  <2>1. last' = NIL /\ cur' = io_seq
    BY <1>2 DEF ReclaimStart
  <2>2. cur' = IF 0 = m THEN NIL ELSE g[0 + 1]
    BY <1>0, <2>1 DEF Lists, IsList
  <2>3. 0 \in 0 .. m /\ \A i \in 1 .. 0 : work'[g[i]].is_completed
    BY <1>0
  <2>4. Walking(g, m)'
    BY <2>1, <2>2, <2>3 DEF Walking
  <2> QED
    BY <1>1, <2>4 DEF Structure
<1>3. CASE ReclaimWalk
  <2>1. /\ dpc = "walk" /\ last' = cur /\ cur' = next[cur] /\ cur # NIL
        /\ work[cur].is_completed
    BY <1>3 DEF ReclaimWalk, Reclaimable
  <2>2. PICK k \in 0 .. m : /\ last = IF k = 0 THEN NIL ELSE g[k]
                            /\ cur = IF k = m THEN NIL ELSE g[k + 1]
                            /\ \A i \in 1 .. k : work[g[i]].is_completed
    BY <2>1 DEF Structure, Walking
  <2>3. PICK j \in 1 .. m : j = k + 1
    BY <1>0, <2>1, <2>2
  <2>4. cur = g[j] /\ j # 0 /\ j \in 0 .. m
    BY <1>0, <2>1, <2>2, <2>3
  <2>5. next[g[j]] = IF j = m THEN NIL ELSE g[j + 1]
    BY <1>0, <2>4 DEF Lists, IsList
  <2>6. \A i \in 1 .. j : work'[g[i]].is_completed
    <3>1. \A i \in 1 .. j : i \in 1 .. k \/ i = j
      BY <1>0, <2>3
    <3> QED
      BY <3>1, <1>0, <2>1, <2>2, <2>4
  <2>7. Walking(g, m)'
    BY <2>1, <2>4, <2>5, <2>6 DEF Walking
  <2> QED
    BY <1>1, <2>7 DEF Structure
<1> QED
  BY <1>2, <1>3

LEMMA StructureReclaim ==
    ASSUME NEW f, NEW n, NEW g, NEW m,
           Typed, Held, Structure(f, n, g, m), ReclaimEnd
    PROVE  \/ Structure(f, n, g, m)' /\ UNCHANGED <<links, lists>>
           \/ \E k \in 1 .. m : /\ \A i \in 1 .. k : work[g[i]].is_completed
                                /\ Structure(Joined(f, n, g, k), n + k, Behind(g, m, k), m - k)'
<1>0. /\ Lists(f, n, g, m) /\ Sorted(g, m) /\ m \in Nat
      /\ UNCHANGED <<work, latest_nsecs, entry>> /\ dpc' = "ftl" /\ dpc = "walk" /\ entry = NIL
  BY DEF Structure, Lists, ReclaimEnd, wvars, dlocal, Held, Filling, Linking
<1>1. PICK k \in 0 .. m : /\ last = IF k = 0 THEN NIL ELSE g[k]
                          /\ \A i \in 1 .. k : work[g[i]].is_completed
  BY <1>0 DEF Structure, Walking
<1>2. g \in [1 .. m -> Entries]
  BY <1>0, ListFacts
<1>3. CASE k = 0
  <2>1. UNCHANGED <<links, lists>>
    BY <1>1, <1>3 DEF ReclaimEnd
  <2> QED
    BY <1>0, <2>1, ListsFrame DEF Structure, Sorted, Target, Searching, Walking
<1>4. CASE k \in 1 .. m
  <2>1. last = g[k] /\ last # NIL
    BY <1>1, <1>2, <1>4, Constants
  <2>2. Splice(io_seq, g[k]) /\ UNCHANGED <<free_seq, io_seq_end>>
    BY <2>1 DEF ReclaimEnd
  <2>3. Lists(Joined(f, n, g, k), n + k, Behind(g, m, k), m - k)'
    BY <1>0, <1>4, <2>2, SpliceLists
  <2>4. \A i \in 1 .. m - k : i + k \in 1 .. m /\ Behind(g, m, k)[i] = g[i + k]
    BY <1>0, <1>4 DEF Behind
  <2>5. Sorted(Behind(g, m, k), m - k)'
    <3> SUFFICES ASSUME NEW i \in 1 .. m - k, NEW j \in 1 .. m - k, i < j,
                        Target(Behind(g, m, k)[i])' > latest_nsecs'
                 PROVE  Target(Behind(g, m, k)[i])' <= Target(Behind(g, m, k)[j])'
      BY DEF Sorted
    <3>1. i + k < j + k
      BY <1>0, <1>4
    <3> QED
      BY <2>4, <3>1, <1>0 DEF Sorted, Target
  <2> QED
    BY <1>0, <1>1, <1>4, <2>3, <2>5 DEF Structure, Searching, Walking
<1> QED
  BY <1>0, <1>3, <1>4
-----------------------------------------------------------------------------
(* How the steps keep what the entries hold, when the worker never sleeps  *)
(* through a round of the free list.                                       *)
LEMMA AtInUse ==
    ASSUME NEW f, NEW n, NEW g, NEW m, Typed, Lists(f, n, g, m), Reading(f, n),
           curr # NIL, ~work[curr].is_completed
    PROVE  \E j \in 1 .. m : curr = g[j]
BY DEF Typed, Lists, Reading

(* The entry after the one the worker is at.                               *)
LEMMA NextRead ==
    ASSUME NEW f, NEW n, NEW g, NEW m, Typed, Lists(f, n, g, m), Reading(f, n), curr # NIL
    PROVE  /\ next[curr] # NIL => next[curr] # entry
           /\ \A i \in 1 .. n : next[curr] = f[i] => work[next[curr]].is_completed
<1>1. n \in Nat /\ m \in Nat /\ curr \in Entries /\ curr # entry
  BY DEF Lists, Typed, Reading
<1>2. CASE \E i \in 1 .. n : curr = f[i]
  <2>1. PICK i \in 1 .. n : curr = f[i] /\ work[curr].is_completed
    BY <1>2 DEF Reading
  <2>2. CASE i = n
    <3>1. next[curr] = NIL
      BY <1>1, <2>1, <2>2 DEF Lists, IsList
    <3>2. \A j \in 1 .. n : f[j] # NIL
      BY ListFacts, Constants
    <3> QED
      BY <3>1, <3>2
  <2>3. CASE i < n
    <3>1. i + 1 \in 1 .. n /\ i < i + 1 /\ next[f[i]] = f[i + 1] /\ f[i + 1] # entry
      BY <1>1, <2>3 DEF Lists, IsList
    <3>2. work[f[i + 1]].is_completed
      BY <2>1, <3>1 DEF Reading
    <3> QED
      BY <2>1, <3>1, <3>2
  <2> QED
    BY <1>1, <2>2, <2>3
<1>3. CASE \E j \in 1 .. m : curr = g[j]
  <2>1. PICK j \in 1 .. m : curr = g[j]
    BY <1>3
  <2>2. CASE j = m
    <3>1. next[curr] = NIL
      BY <1>1, <2>1, <2>2 DEF Lists, IsList
    <3>2. \A i \in 1 .. n : f[i] # NIL
      BY ListFacts, Constants
    <3> QED
      BY <3>1, <3>2
  <2>3. CASE j < m
    <3>1. j + 1 \in 1 .. m /\ j \in 1 .. m - 1
      BY <1>1, <2>3
    <3>2. next[g[j]] = g[j + 1] /\ g[j + 1] # entry
      BY <3>1 DEF Lists, IsList
    <3>3. \A i \in 1 .. n : f[i] # g[j + 1]
      BY <3>1 DEF Lists
    <3> QED
      BY <2>1, <3>2, <3>3
  <2> QED
    BY <1>1, <2>2, <2>3
<1> QED
  BY <1>1, <1>2, <1>3 DEF Lists

LEMMA ContentsIdle ==
    ASSUME NEW f, NEW n, NEW g, NEW m, Typed, Contents(f, n, g, m),
           UNCHANGED <<work, dpc, entry, internal, target, issued, dropped, due, posted, copied>>,
           now' \in Nat, now' >= now, Reading(f, n)',
           (wpc # "mark" /\ wpc' # "mark") \/ UNCHANGED <<wpc, curr>>
    PROVE  Contents(f, n, g, m)'
<1>1. HeldFlags'
  BY DEF Contents, HeldFlags
<1>2. \A e : Posted(e)' <=> Posted(e)
  BY DEF Posted
<1>3. Queued(g, m)'
  BY <1>2 DEF Contents, Queued
<1>4. Accounted'
  <2>1. now \in Nat /\ \A o \in Ops : due[o] \in Int
    <3>1. now \in Nat /\ NIL \in Int /\ Time \subseteq Int /\ due \in [Ops -> Time \cup {NIL}]
      BY Constants DEF Typed, NIL
    <3> QED
      BY <3>1
  <2> QED
    BY <2>1 DEF Contents, Accounted
<1> QED
  BY <1>1, <1>3, <1>4 DEF Contents

LEMMA ContentsWalk ==
    ASSUME NEW f, NEW n, NEW g, NEW m, Typed, Lists(f, n, g, m), Contents(f, n, g, m),
           Scan \/ Visit \/ NotDue \/ Advance \/ Irq \/ Tick
    PROVE  Contents(f, n, g, m)'
<1>1. /\ UNCHANGED <<work, dpc, entry, internal, target, issued, dropped, due, posted, copied>>
      /\ now' \in Nat /\ now' >= now /\ Reading(f, n)
  <2>1. now \in Nat
    BY Constants DEF Typed
  <2> QED
    BY <2>1 DEF Scan, Visit, NotDue, Advance, Irq, Tick, dvars, dlocal, wvars, Contents
<1>2. (wpc # "mark" /\ wpc' # "mark") \/ UNCHANGED <<wpc, curr>>
  BY DEF Scan, Visit, NotDue, Advance, Irq, Tick, Goto, wvars, wlocal
<1>3. CASE Scan
  <2>1. curr' = io_seq /\ wpc' \in {"irq", "visit"}
    BY <1>3 DEF Scan, Goto
  <2>2. /\ io_seq # NIL => io_seq # entry
        /\ \A i \in 1 .. n : io_seq # f[i]
    <3>1. CASE m = 0
      <4>1. io_seq = NIL /\ \A i \in 1 .. n : f[i] \in Entries
        BY <3>1 DEF Lists, IsList
      <4> QED
        BY <4>1, Constants
    <3>2. CASE m > 0
      BY <3>2 DEF Lists, IsList
    <3> QED
      BY <3>1, <3>2 DEF Lists
  <2>3. Reading(f, n)'
    BY <1>1, <2>1, <2>2 DEF Reading
  <2> QED
    BY <1>1, <1>2, <2>3, ContentsIdle
<1>4. CASE Visit
  <2>1. wpc = "visit" /\ curr # NIL
    BY <1>4 DEF Visit, Typed
  <2>2. CASE work[curr].is_completed
    <3>1. curr' = next[curr] /\ wpc' \in {"irq", "visit"}
      BY <1>4, <2>2 DEF Visit, Goto
    <3>2. Reading(f, n)'
      BY <1>1, <2>1, <3>1, NextRead DEF Reading
    <3> QED
      BY <1>1, <1>2, <3>2, ContentsIdle
  <2>3. CASE ~work[curr].is_completed
    <3>1. curr' = curr /\ wpc' = "copy"
      BY <1>4, <2>3 DEF Visit
    <3>2. Reading(f, n)'
      BY <1>1, <2>3, <3>1 DEF Reading
    <3> QED
      BY <1>1, <1>2, <3>2, ContentsIdle
  <2> QED
    BY <2>2, <2>3
<1>5. CASE Advance
  <2>1. wpc = "advance" /\ curr # NIL /\ curr' = next[curr] /\ wpc' \in {"irq", "visit"}
    BY <1>5 DEF Advance, Goto, Typed
  <2>2. Reading(f, n)'
    BY <1>1, <2>1, NextRead DEF Reading
  <2> QED
    BY <1>1, <1>2, <2>2, ContentsIdle
<1>6. CASE NotDue \/ Irq
  <2>1. curr' = curr /\ wpc' \in {"advance", "scan"}
    BY <1>6 DEF NotDue, Irq, wlocal
  <2>2. Reading(f, n)'
    BY <1>1, <2>1 DEF Reading
  <2> QED
    BY <1>1, <1>2, <2>2, ContentsIdle
<1>7. CASE Tick
  <2>1. curr' = curr /\ wpc' = wpc
    BY <1>7 DEF Tick, wvars, wlocal
  <2>2. Reading(f, n)'
    BY <1>1, <2>1 DEF Reading
  <2> QED
    BY <1>1, <1>2, <2>2, ContentsIdle
<1> QED
  BY <1>3, <1>4, <1>5, <1>6, <1>7

LEMMA ContentsCopy ==
    ASSUME NEW f, NEW n, NEW g, NEW m, Typed, Held, Lists(f, n, g, m), Contents(f, n, g, m), Copy
    PROVE  Contents(f, n, g, m)'
<1>0. /\ wpc = "copy" /\ wpc' = "due" /\ curr' = curr /\ curr # NIL
      /\ UNCHANGED <<dpc, entry, internal, target, issued, dropped, due, posted, now>>
      /\ m \in Nat /\ n \in Nat /\ issued \in 0 .. MaxOps
  BY DEF Copy, dvars, dlocal, wlocal, Typed, Lists
<1>1. HeldFlags /\ Reading(f, n) /\ Queued(g, m) /\ Accounted
  BY DEF Contents
<1>2. ~work[curr].is_completed /\ curr # entry
  BY <1>0, <1>1 DEF Reading
<1>3. PICK k \in 1 .. m : curr = g[k]
  BY <1>0, <1>1, <1>2, AtInUse
<1>4. /\ \A e \in Entries : e # curr => work'[e] = work[e]
      /\ work'[curr].op = work[curr].op /\ work'[curr].target = work[curr].target
      /\ work'[curr].is_completed = work[curr].is_completed
      /\ work'[curr].is_copied = TRUE /\ work'[curr].is_internal = work[curr].is_internal
  BY CopyWork
<1>5. /\ \A i \in 1 .. n : f[i] \in Entries /\ f[i] # curr
      /\ \A j \in 1 .. m : g[j] \in Entries
      /\ \A i, j \in 1 .. m : g[i] = g[j] => i = j
  BY <1>3, ListFacts
<1>6. HeldFlags'
  BY <1>0, <1>1, <1>2, <1>4 DEF HeldFlags, Held, Typed, Filling, Linking
<1>7. Reading(f, n)'
  BY <1>0, <1>1, <1>2, <1>4, <1>5 DEF Reading
<1>8. \A j \in 1 .. m : /\ work'[g[j]].op = work[g[j]].op /\ work'[g[j]].target = work[g[j]].target
                        /\ work'[g[j]].is_internal = work[g[j]].is_internal
                        /\ work'[g[j]].is_completed = work[g[j]].is_completed
  BY <1>4, <1>5
<1>9. \A j \in 1 .. m : Posted(g[j])' <=> Posted(g[j])
  BY <1>0, <1>8 DEF Posted
<1>10. work[curr].op \in Ops
  BY <1>0, <1>1, <1>3, Constants DEF Queued, Ops
<1>11. copied \subseteq copied' /\ copied' \subseteq copied \cup {work[curr].op}
  BY DEF Copy, PerformIo
<1>12. ASSUME NEW j \in 1 .. m
       PROVE  work'[g[j]].is_copied /\ ~work'[g[j]].is_internal => work'[g[j]].op \in copied'
  <2>1. CASE g[j] = curr
    <3>1. work[curr].is_copied \/ work[curr].is_internal \/ work[curr].op \in copied'
      BY DEF Copy, PerformIo
    <3>2. work[g[j]].is_copied /\ ~work[g[j]].is_internal => work[g[j]].op \in copied
      BY <1>1 DEF Queued
    <3> QED
      BY <2>1, <3>1, <3>2, <1>4, <1>11
  <2>2. CASE g[j] # curr
    <3>1. work[g[j]].is_copied /\ ~work[g[j]].is_internal => work[g[j]].op \in copied
      BY <1>1 DEF Queued
    <3> QED
      BY <2>2, <3>1, <1>4, <1>5, <1>11
  <2> QED
    BY <2>1, <2>2
<1>13. Queued(g, m)'
  BY <1>0, <1>1, <1>8, <1>9, <1>12 DEF Queued
<1>14. Accounted'
  BY <1>0, <1>1, <1>10, <1>11 DEF Accounted
<1> QED
  BY <1>6, <1>7, <1>13, <1>14 DEF Contents

LEMMA ContentsPost ==
    ASSUME NEW f, NEW n, NEW g, NEW m, Typed, Held, Lists(f, n, g, m), Contents(f, n, g, m), Post
    PROVE  Contents(f, n, g, m)'
<1>0. /\ wpc = "due" /\ wpc' = "mark" /\ curr' = curr /\ curr # NIL /\ IsDue(curr)
      /\ UNCHANGED <<work, dpc, entry, internal, target, issued, dropped, due, copied, now>>
      /\ m \in Nat /\ n \in Nat /\ issued \in 0 .. MaxOps
  BY DEF Post, dvars, dlocal, wlocal, Typed, Lists
<1>1. HeldFlags /\ Reading(f, n) /\ Queued(g, m) /\ Accounted
  BY DEF Contents
<1>2. ~work[curr].is_completed /\ curr # entry
  BY <1>0, <1>1 DEF Reading
<1>3. PICK k \in 1 .. m : curr = g[k]
  BY <1>0, <1>1, <1>2, AtInUse
<1>4. PICK o : o = work[curr].op
  OBVIOUS
<1>5. posted' = [posted EXCEPT ![o] = @ + 1]
  BY <1>4 DEF Post, BufferRelease, FillCqResult
<1>6. /\ o \in Ops /\ o \in 1 .. issued /\ o \notin dropped /\ posted[o] = 0
      /\ due[o] = work[curr].target /\ (entry # NIL => o # issued)
  BY <1>0, <1>1, <1>2, <1>3, <1>4, Constants DEF Queued, Posted, Ops
<1>7. posted'[o] = 1 /\ \A p \in Ops : p # o => posted'[p] = posted[p]
  BY <1>5, <1>6 DEF Typed
<1>8. due[o] <= now
  <2>1. /\ work[curr].target \in Nat /\ work[curr].target <= curr_nsecs /\ curr_nsecs \in 0 .. now
        /\ now \in Nat
    BY <1>0, FieldTypes, Constants DEF IsDue, Typed
  <2> QED
    BY <2>1, <1>6
<1>9. HeldFlags' /\ Reading(f, n)'
  BY <1>0, <1>1 DEF HeldFlags, Reading
<1>10. /\ \A i, j \in 1 .. m : g[i] = g[j] => i = j
       /\ \A j \in 1 .. m : j # k => work[g[j]].op # o
  BY <1>1, <1>3, <1>4, ListFacts DEF Queued
<1>11. ASSUME NEW j \in 1 .. m
       PROVE  posted'[work[g[j]].op] = IF Posted(g[j])' THEN 1 ELSE 0
  <2>1. /\ work[g[j]].op \in 1 .. issued
        /\ posted[work[g[j]].op] = IF Posted(g[j]) THEN 1 ELSE 0
    BY <1>1 DEF Queued
  <2>2. CASE j = k
    BY <2>2, <1>0, <1>3, <1>4, <1>7 DEF Posted
  <2>3. CASE j # k
    <3>1. work[g[j]].op # o /\ g[j] # curr /\ work[g[j]].op \in Ops
      BY <2>1, <2>3, <1>0, <1>3, <1>10, Constants DEF Ops
    <3> QED
      BY <2>1, <3>1, <1>0, <1>7 DEF Posted
  <2> QED
    BY <2>2, <2>3
<1>12. \A p \in 1 .. issued : posted[p] = 1 => posted'[p] = 1
  <2>1. \A p \in 1 .. issued : p \in Ops
    BY <1>0, Constants DEF Ops
  <2> QED
    BY <2>1, <1>6, <1>7
<1>13. Queued(g, m)'
  BY <1>0, <1>1, <1>11, <1>12 DEF Queued
<1>14. Accounted'
  <2>1. entry # NIL => posted'[issued] = posted[issued]
    BY <1>6, <1>7 DEF Held
  <2>2. \A p \in Ops : p > issued => posted'[p] = posted[p]
    BY <1>0, <1>6, <1>7
  <2>3. \A p \in Ops : posted'[p] > 0 => posted'[p] = 1 /\ due[p] <= now /\ p \notin dropped
    BY <1>1, <1>6, <1>7, <1>8 DEF Accounted
  <2> QED
    BY <1>0, <1>1, <2>1, <2>2, <2>3 DEF Accounted
<1> QED
  BY <1>9, <1>13, <1>14 DEF Contents

LEMMA ContentsMark ==
    ASSUME NEW f, NEW n, NEW g, NEW m, Typed, Held, Lists(f, n, g, m), Contents(f, n, g, m),
           MarkCompleted
    PROVE  Contents(f, n, g, m)'
<1>0. /\ wpc = "mark" /\ wpc' = "advance" /\ curr' = curr /\ curr # NIL
      /\ UNCHANGED <<dpc, entry, internal, target, issued, dropped, due, posted, copied, now>>
      /\ m \in Nat /\ n \in Nat
  BY DEF MarkCompleted, dvars, dlocal, wlocal, Typed, Lists
<1>1. HeldFlags /\ Reading(f, n) /\ Queued(g, m) /\ Accounted
  BY DEF Contents
<1>2. ~work[curr].is_completed /\ curr # entry
  BY <1>0, <1>1 DEF Reading
<1>3. PICK k \in 1 .. m : curr = g[k]
  BY <1>0, <1>1, <1>2, AtInUse
<1>4. /\ \A e \in Entries : e # curr => work'[e] = work[e]
      /\ work'[curr].op = work[curr].op /\ work'[curr].target = work[curr].target
      /\ work'[curr].is_completed = TRUE
      /\ work'[curr].is_copied = work[curr].is_copied
      /\ work'[curr].is_internal = work[curr].is_internal
  BY MarkWork
<1>5. /\ \A i \in 1 .. n : f[i] \in Entries /\ f[i] # curr
      /\ \A j \in 1 .. m : g[j] \in Entries
  BY <1>3, ListFacts
<1>6. HeldFlags'
  BY <1>0, <1>1, <1>2, <1>4 DEF HeldFlags, Held, Typed, Filling, Linking
<1>7. Reading(f, n)'
  BY <1>0, <1>1, <1>2, <1>4, <1>5 DEF Reading
<1>8. \A j \in 1 .. m : /\ work'[g[j]].op = work[g[j]].op /\ work'[g[j]].target = work[g[j]].target
                        /\ work'[g[j]].is_internal = work[g[j]].is_internal
                        /\ work'[g[j]].is_copied = work[g[j]].is_copied
  BY <1>4, <1>5
<1>9. \A j \in 1 .. m : Posted(g[j])' <=> Posted(g[j])
  BY <1>0, <1>4, <1>5 DEF Posted
<1>10. Queued(g, m)'
  BY <1>0, <1>1, <1>8, <1>9 DEF Queued
<1>11. Accounted'
  BY <1>0, <1>1 DEF Accounted
<1> QED
  BY <1>6, <1>7, <1>10, <1>11 DEF Contents

LEMMA ContentsAllocate ==
    ASSUME NEW f, NEW n, NEW g, NEW m, NEW int \in BOOLEAN, NEW lat \in Latencies,
           Typed, Held, Lists(f, n, g, m), Contents(f, n, g, m), ~WorkerMayStall,
           Allocate(int, lat)
    PROVE  /\ QueueFull => Contents(f, n, g, m)'
           /\ ~QueueFull => Contents(Behind(f, n, 1), n - 1, g, m)'
<1>0. /\ UNCHANGED <<work, wpc, curr, posted, copied, now>> /\ entry = NIL
      /\ m \in Nat /\ n \in Nat \ {0} /\ issued \in Nat /\ issued + 1 \in Ops
      /\ issued' = issued + 1 /\ curr # free_seq
      /\ dpc' \in {"ftl", "reclaim", "fill"}
  BY Constants DEF Allocate, wvars, wlocal, Held, Typed, Lists, Filling, Linking, Ops
<1>1. HeldFlags /\ Reading(f, n) /\ Queued(g, m) /\ Accounted
  BY DEF Contents
<1>2. /\ due'[issued + 1] = now + lat
      /\ \A o \in Ops : o # issued + 1 => due'[o] = due[o]
  BY <1>0 DEF Allocate, Typed
<1>3. dropped' \subseteq dropped \cup {issued + 1} /\ dropped \subseteq dropped'
  BY DEF Allocate
<1>4. HeldFlags'
  BY <1>0 DEF HeldFlags, Filling, Linking
<1>5. issued + 1 \notin dropped /\ posted[issued + 1] = 0
  BY <1>0, <1>1 DEF Accounted
<1>6. \A j \in 1 .. m : /\ work[g[j]].op \in Ops /\ work[g[j]].op \in 1 .. issued
                        /\ work[g[j]].op # issued + 1 /\ work[g[j]].op \in 1 .. issued + 1
  <2>1. \A j \in 1 .. m : work[g[j]].op \in 1 .. issued
    BY <1>1 DEF Queued
  <2> QED
    BY <2>1, <1>0, Constants DEF Ops
<1>7. \A j \in 1 .. m : Posted(g[j])' <=> Posted(g[j])
  BY <1>0 DEF Posted
<1>8. issued + 1 \in dropped' \/ entry' # NIL
  BY <1>0, Constants DEF Allocate, Typed
<1>9. Queued(g, m)'
  <2>1. \A j \in 1 .. m :
          /\ work'[g[j]].op \in 1 .. issued' /\ work'[g[j]].op \notin dropped'
          /\ work'[g[j]].target = due'[work'[g[j]].op]
          /\ entry' # NIL => work'[g[j]].op # issued'
          /\ posted'[work'[g[j]].op] = IF Posted(g[j])' THEN 1 ELSE 0
          /\ work'[g[j]].is_copied /\ ~work'[g[j]].is_internal => work'[g[j]].op \in copied'
    BY <1>0, <1>1, <1>2, <1>3, <1>6, <1>7 DEF Queued
  <2>2. \A o \in 1 .. issued' : o \in 1 .. issued \/ o = issued + 1
    BY <1>0
  <2>3. \A o \in 1 .. issued' : \/ o \in dropped' \/ posted'[o] = 1 \/ (entry' # NIL /\ o = issued')
                               \/ \E j \in 1 .. m : work'[g[j]].op = o
    BY <2>2, <1>0, <1>1, <1>3, <1>8 DEF Queued
  <2> QED
    BY <2>1, <2>3, <1>0, <1>1 DEF Queued
<1>10. Accounted'
  <2>1. entry' # NIL => /\ issued' \notin dropped' /\ posted'[issued'] = 0
                        /\ due'[issued'] = target'
    BY <1>0, <1>2, <1>5 DEF Allocate
  <2>2. \A o \in Ops : o > issued' => o > issued /\ o # issued + 1
    BY <1>0 DEF Ops
  <2>3. \A o \in Ops : posted[o] > 0 => o # issued + 1
    BY <1>5
  <2> QED
    BY <2>1, <2>2, <2>3, <1>0, <1>1, <1>2, <1>3 DEF Accounted
<1>11. CASE QueueFull
  <2>1. entry' = NIL
    BY <1>0, <1>11 DEF Allocate
  <2>2. Reading(f, n)'
    BY <1>0, <1>1, <2>1 DEF Reading
  <2> QED
    BY <1>4, <1>9, <1>10, <1>11, <2>2 DEF Contents
<1>12. CASE ~QueueFull
  <2>1. entry' = free_seq
    BY <1>12 DEF Allocate
  <2>2. \A i \in 1 .. n - 1 : i + 1 \in 1 .. n /\ Behind(f, n, 1)[i] = f[i + 1]
    BY <1>0 DEF Behind
  <2>3. ASSUME NEW i \in 1 .. n - 1, NEW j \in 1 .. n - 1, i < j,
               work[f[i + 1]].is_completed
        PROVE  work[f[j + 1]].is_completed
    <3>1. i + 1 \in 1 .. n /\ j + 1 \in 1 .. n /\ i + 1 < j + 1
      BY <2>3, <1>0
    <3> QED
      BY <2>3, <3>1, <1>1 DEF Reading
  <2>4. Reading(Behind(f, n, 1), n - 1)'
    BY <1>0, <1>1, <2>1, <2>2, <2>3 DEF Reading
  <2> QED
    BY <1>4, <1>9, <1>10, <1>12, <2>4 DEF Contents
<1> QED
  BY <1>11, <1>12

LEMMA ContentsFill ==
    ASSUME NEW f, NEW n, NEW g, NEW m, Typed, Held, Lists(f, n, g, m), Contents(f, n, g, m),
           FillRequest \/ FillLinks
    PROVE  Contents(f, n, g, m)'
<1>0. /\ UNCHANGED <<entry, internal, target, issued, dropped, due, wpc, curr, posted, copied, now>>
      /\ m \in Nat /\ n \in Nat
  BY DEF FillRequest, FillLinks, dlocal, wvars, wlocal, Lists
<1>1. HeldFlags /\ Reading(f, n) /\ Queued(g, m) /\ Accounted
  BY DEF Contents
<1>2. \A e \in Entries : e # entry => work'[e] = work[e]
  BY FillRequestWork, FillLinksWork
<1>3. /\ \A i \in 1 .. n : work'[f[i]] = work[f[i]]
      /\ \A j \in 1 .. m : work'[g[j]] = work[g[j]]
      /\ curr # NIL => work'[curr] = work[curr]
  BY <1>1, <1>2, ListFacts DEF Reading, Typed
<1>4. HeldFlags'
  <2>1. CASE FillRequest
    <3>1. dpc' = "fill2" /\ work'[entry].is_completed = FALSE
      BY <2>1, FillRequestWork DEF FillRequest
    <3> QED
      BY <3>1, <1>0 DEF HeldFlags, Filling, Linking
  <2>2. CASE FillLinks
    <3>1. /\ dpc = "fill2" /\ work'[entry].is_completed = work[entry].is_completed
          /\ work'[entry].is_copied = internal /\ work'[entry].is_internal = internal
      BY <2>2, FillLinksWork DEF FillLinks
    <3> QED
      BY <3>1, <1>0, <1>1 DEF HeldFlags, Filling, Linking
  <2> QED
    BY <2>1, <2>2
<1>5. Reading(f, n)'
  <2>1. wpc \in {"copy", "due", "mark"} => curr # NIL
    BY DEF Typed
  <2> QED
    BY <1>0, <1>1, <1>3, <2>1 DEF Reading
<1>6. Queued(g, m)'
  BY <1>0, <1>1, <1>3 DEF Queued, Posted
<1>7. Accounted'
  BY <1>0, <1>1 DEF Accounted
<1> QED
  BY <1>4, <1>5, <1>6, <1>7 DEF Contents

LEMMA ContentsInsert ==
    ASSUME NEW f, NEW n, NEW g, NEW m, NEW c, NEW k \in 0 .. m, c = entry,
           Typed, Held, Lists(f, n, g, m), Contents(f, n, g, m),
           InsertFirst \/ InsertHead \/ InsertTail \/ InsertBetween
    PROVE  Contents(f, n, Inserted(g, m, k, c), m + 1)'
<1> DEFINE h == Inserted(g, m, k, c)
<1>0. /\ entry' = NIL /\ dpc' \in {"ftl", "reclaim"} /\ dpc \in Linking
      /\ UNCHANGED <<work, target, issued, dropped, due, wpc, curr, posted, copied, now>>
      /\ m \in Nat /\ n \in Nat /\ k \in Nat
  BY DEF InsertFirst, InsertHead, InsertTail, InsertBetween, Enqueued, lists, wvars, wlocal,
         Linking, Lists
<1>1. HeldFlags /\ Reading(f, n) /\ Queued(g, m) /\ Accounted
  BY DEF Contents
<1>2. /\ entry # NIL /\ issued \in Ops /\ issued \in 1 .. issued
      /\ work[entry].op = issued /\ work[entry].target = target
      /\ ~work[entry].is_completed /\ work[entry].is_copied = work[entry].is_internal
  BY <1>0, <1>1, Constants DEF Held, HeldFlags, Target, Filling, Linking, Ops
<1>3. /\ issued \notin dropped /\ posted[issued] = 0 /\ due[issued] = target
      /\ \A j \in 1 .. m : work[g[j]].op # issued
  BY <1>1, <1>2 DEF Accounted, Queued
<1>4. \A i \in 1 .. m + 1 : \/ h[i] = c /\ i = k + 1
                            \/ i <= k /\ i \in 1 .. m /\ h[i] = g[i]
                            \/ i > k + 1 /\ i - 1 \in 1 .. m /\ h[i] = g[i - 1]
  BY <1>0 DEF Inserted
<1>5. h[k + 1] = c /\ k + 1 \in 1 .. m + 1
  BY <1>0 DEF Inserted
<1>6. ASSUME NEW j \in 1 .. m
      PROVE  \E i \in 1 .. m + 1 : h[i] = g[j]
  <2>1. CASE j <= k
    <3>1. j \in 1 .. m + 1 /\ h[j] = g[j]
      BY <2>1, <1>0 DEF Inserted
    <3> QED
      BY <3>1
  <2>2. CASE j > k
    <3>1. j + 1 \in 1 .. m + 1 /\ h[j + 1] = g[j]
      BY <2>2, <1>0 DEF Inserted
    <3> QED
      BY <3>1
  <2> QED
    BY <2>1, <2>2, <1>0
<1> HIDE DEF h
<1>7. HeldFlags'
  BY <1>0 DEF HeldFlags, Filling, Linking
<1>8. Reading(f, n)'
  BY <1>0, <1>1 DEF Reading
<1>9. Accounted'
  BY <1>0, <1>1 DEF Accounted
<1>10. ~Posted(entry) /\ \A e : Posted(e)' <=> Posted(e)
  BY <1>0, <1>1, <1>2 DEF Posted, Reading, Typed
<1>11. ASSUME NEW i \in 1 .. m + 1
       PROVE  /\ work[h[i]].op \in 1 .. issued /\ work[h[i]].op \notin dropped
              /\ work[h[i]].target = due[work[h[i]].op]
              /\ posted[work[h[i]].op] = IF Posted(h[i]) THEN 1 ELSE 0
              /\ work[h[i]].is_copied /\ ~work[h[i]].is_internal => work[h[i]].op \in copied
  <2>1. CASE h[i] = c
    BY <2>1, <1>2, <1>3, <1>10
  <2>2. CASE \E j \in 1 .. m : h[i] = g[j]
    BY <2>2, <1>1 DEF Queued
  <2> QED
    BY <2>1, <2>2, <1>4
<1>12. ASSUME NEW i \in 1 .. m + 1, NEW j \in 1 .. m + 1, work[h[i]].op = work[h[j]].op
       PROVE  i = j
  <2>1. CASE i = k + 1 \/ j = k + 1
    BY <2>1, <1>0, <1>2, <1>3, <1>4, <1>5, <1>12
  <2>2. CASE i # k + 1 /\ j # k + 1
    <3>1. PICK a \in 1 .. m : h[i] = g[a] /\ a = IF i <= k THEN i ELSE i - 1
      BY <2>2, <1>0, <1>4
    <3>2. PICK b \in 1 .. m : h[j] = g[b] /\ b = IF j <= k THEN j ELSE j - 1
      BY <2>2, <1>0, <1>4
    <3>3. a = b
      BY <3>1, <3>2, <1>1, <1>12 DEF Queued
    <3> QED
      BY <2>2, <3>1, <3>2, <3>3, <1>0
  <2> QED
    BY <2>1, <2>2
<1>13. ASSUME NEW o \in 1 .. issued
       PROVE  o \in dropped \/ posted[o] = 1 \/ \E i \in 1 .. m + 1 : work[h[i]].op = o
  <2>1. CASE o = issued
    BY <2>1, <1>2, <1>5
  <2>2. CASE \E j \in 1 .. m : work[g[j]].op = o
    BY <2>2, <1>6
  <2> QED
    BY <2>1, <2>2, <1>1 DEF Queued
<1>14. Queued(h, m + 1)'
  BY <1>0, <1>10, <1>11, <1>12, <1>13 DEF Queued, h
<1> QED
  BY <1>7, <1>8, <1>9, <1>14 DEF Contents, h

LEMMA ContentsSearch ==
    ASSUME NEW f, NEW n, NEW g, NEW m, Typed, Held, Contents(f, n, g, m),
           \/ Search \/ ReclaimStart \/ ReclaimWalk
           \/ ReclaimEnd
    PROVE  Contents(f, n, g, m)'
<1>0. /\ UNCHANGED <<work, entry, internal, target, issued, dropped, due, wpc, curr, posted, copied, now>>
      /\ dpc' \in Linking => dpc \in Linking
      /\ dpc' \in Filling => dpc' \in Linking
  BY DEF Search, ReclaimStart, ReclaimWalk, ReclaimEnd, wvars, wlocal, dlocal, Linking, Filling
<1>1. HeldFlags'
  BY <1>0 DEF Contents, HeldFlags, Filling, Linking
<1>2. Reading(f, n)'
  BY <1>0 DEF Contents, Reading
<1>3. Queued(g, m)'
  BY <1>0 DEF Contents, Queued, Posted
<1>4. Accounted'
  BY <1>0 DEF Contents, Accounted
<1> QED
  BY <1>1, <1>2, <1>3, <1>4 DEF Contents

LEMMA ContentsReclaim ==
    ASSUME NEW f, NEW n, NEW g, NEW m, NEW k \in 1 .. m, Typed, Held, Lists(f, n, g, m),
           Contents(f, n, g, m), ReclaimEnd, \A i \in 1 .. k : work[g[i]].is_completed
    PROVE  Contents(Joined(f, n, g, k), n + k, Behind(g, m, k), m - k)'
<1> DEFINE a == Joined(f, n, g, k)
           b == Behind(g, m, k)
<1>0. m \in Nat /\ n \in Nat /\ k \in Nat /\ k <= m
  BY DEF Lists
<1>1. Contents(f, n, g, m)'
  BY ContentsSearch
<1>2. UNCHANGED <<work, curr, wpc, posted, entry, issued, dropped, due, copied>>
  BY DEF ReclaimEnd, dlocal, wvars, wlocal
<1>3. Reading(f, n) /\ Queued(g, m)
  BY DEF Contents
<1>4. \A i \in 1 .. n + k : \/ i <= n /\ i \in 1 .. n /\ a[i] = f[i]
                            \/ i > n /\ i - n \in 1 .. k /\ a[i] = g[i - n]
  BY <1>0 DEF Joined
<1>5. \A i \in 1 .. m - k : i + k \in 1 .. m /\ b[i] = g[i + k]
  BY <1>0 DEF Behind
<1> HIDE DEF a, b
<1>6. Reading(a, n + k)'
  <2>1. ASSUME NEW i \in 1 .. n + k, NEW j \in 1 .. n + k, i < j, work[a[i]].is_completed
        PROVE  work[a[j]].is_completed
    <3>1. CASE j <= n
      <4>1. i \in 1 .. n /\ j \in 1 .. n /\ a[i] = f[i] /\ a[j] = f[j]
        BY <2>1, <3>1, <1>0, <1>4
      <4> QED
        BY <2>1, <4>1, <1>3 DEF Reading
    <3>2. CASE j > n
      BY <3>2, <1>0, <1>4
    <3> QED
      BY <3>1, <3>2, <1>0
  <2>2. ASSUME NEW i \in 1 .. n + k, curr = a[i]
        PROVE  work[curr].is_completed
    BY <2>2, <1>3, <1>4 DEF Reading
  <2> QED
    BY <2>1, <2>2, <1>2, <1>3 DEF Reading
<1>7. Queued(b, m - k)'
  <2>1. \A i, j \in 1 .. m - k : i + k = j + k => i = j
    BY <1>0
  <2>2. ASSUME NEW o \in 1 .. issued, ~(o \in dropped \/ posted[o] = 1 \/ (entry # NIL /\ o = issued))
        PROVE  \E i \in 1 .. m - k : work[b[i]].op = o
    <3>1. PICK j \in 1 .. m : work[g[j]].op = o
      BY <2>2, <1>3 DEF Queued
    <3>2. j > k
      <4>1. CASE j <= k
        <5>1. j \in 1 .. k /\ Posted(g[j])
          BY <4>1, <1>0 DEF Posted
        <5>2. posted[o] = 1
          BY <3>1, <5>1, <1>3 DEF Queued
        <5> QED
          BY <5>2, <2>2
      <4> QED
        BY <4>1, <1>0
    <3>3. j - k \in 1 .. m - k /\ (j - k) + k = j
      BY <3>2, <1>0
    <3> QED
      BY <3>1, <3>3, <1>5
  <2>3. ASSUME NEW i \in 1 .. m - k
        PROVE  /\ work[b[i]].op \in 1 .. issued /\ work[b[i]].op \notin dropped
               /\ work[b[i]].target = due[work[b[i]].op]
               /\ entry # NIL => work[b[i]].op # issued
               /\ posted[work[b[i]].op] = IF Posted(b[i]) THEN 1 ELSE 0
               /\ work[b[i]].is_copied /\ ~work[b[i]].is_internal => work[b[i]].op \in copied
    BY <1>3, <1>5 DEF Queued
  <2>4. \A i, j \in 1 .. m - k : work[b[i]].op = work[b[j]].op => i = j
    BY <1>3, <1>5, <2>1 DEF Queued
  <2>5. \A e : Posted(e)' <=> Posted(e)
    BY <1>2 DEF Posted
  <2> QED
    BY <2>2, <2>3, <2>4, <2>5, <1>2 DEF Queued, b
<1> QED
  BY <1>1, <1>6, <1>7 DEF Contents, a, b
-----------------------------------------------------------------------------
(* The lists as the properties speak of them.                              *)
LEMMA ListLength ==
    ASSUME NEW l, NEW n \in Nat, NEW first, NEW end, IsList(l, n, first, end)
    PROVE  n <= NR_MAX_PARALLEL_IO
<1>1. l \in Injection(1 .. n, Entries)
  BY DEF IsList, Injection, IsInjective
<1>2. /\ IsFiniteSet(Entries) /\ Cardinality(Entries) = NR_MAX_PARALLEL_IO
      /\ Cardinality(1 .. n) = n
  BY FS_Interval, QueueSize DEF Entries
<1>3. Cardinality(1 .. n) <= Cardinality(Entries)
  BY <1>1, <1>2, FS_Injection DEF ExistsInjection
<1> QED
  BY <1>2, <1>3

LEMMA AtList ==
    ASSUME NEW l, NEW n \in Nat, NEW first, NEW end, NEW k \in 0 .. NR_MAX_PARALLEL_IO,
           IsList(l, n, first, end), n = 0 => first = NIL
    PROVE  At(first)[k] = IF k < n THEN l[k + 1] ELSE NIL
<1> DEFINE D == 0 .. NR_MAX_PARALLEL_IO
           Follow(a, j) == IF j = 0 THEN first ELSE IF a[j - 1] = NIL THEN NIL ELSE next[a[j - 1]]
           h == [j \in D |-> IF j < n THEN l[j + 1] ELSE NIL]
           a == CHOOSE x : x = [j \in D |-> Follow(x, j)]
<1>0. NR_MAX_PARALLEL_IO \in Nat /\ D \subseteq Nat
  BY QueueSize
<1>1. \A j \in D : h[j] = Follow(h, j)
  <2> SUFFICES ASSUME NEW j \in D
               PROVE  h[j] = Follow(h, j)
    OBVIOUS
  <2>1. CASE j = 0
    BY <2>1, <1>0 DEF IsList
  <2>2. CASE j # 0 /\ j < n
    <3>1. j - 1 \in D /\ j \in 1 .. n - 1 /\ j \in 1 .. n /\ h[j - 1] = l[j] /\ h[j] = l[j + 1]
      BY <2>2, <1>0
    <3>2. next[l[j]] = l[j + 1] /\ l[j] \in Entries
      BY <3>1 DEF IsList
    <3> QED
      BY <2>2, <3>1, <3>2, Constants
  <2>3. CASE j # 0 /\ j = n
    <3>1. j - 1 \in D /\ j \in 1 .. n /\ h[j - 1] = l[n] /\ h[j] = NIL
      BY <2>3, <1>0
    <3>2. next[l[n]] = NIL /\ l[n] \in Entries
      BY <3>1, <2>3 DEF IsList
    <3> QED
      BY <2>3, <3>1, <3>2, Constants
  <2>4. CASE j # 0 /\ j > n
    <3>1. j - 1 \in D /\ h[j - 1] = NIL /\ h[j] = NIL
      BY <2>4, <1>0
    <3> QED
      BY <2>4, <3>1
  <2> QED
    BY <2>1, <2>2, <2>3, <2>4, <1>0
<1>2. h = [j \in D |-> Follow(h, j)]
  BY <1>1
<1>3. At(first) = a
  BY DEF At
<1>4. a = [j \in D |-> Follow(a, j)]
  <2>1. PICK x : x = [j \in D |-> Follow(x, j)]
    <3> HIDE DEF h
    <3> QED
      BY <1>2
  <2> QED
    BY <2>1
<1>5. \A j \in D : a[j] = Follow(a, j)
  <2> HIDE DEF a
  <2> QED
    BY <1>4
<1> HIDE DEF a, h
<1> DEFINE P == {j \in Nat : j \in D => a[j] = h[j]}
<1>6. 0 \in P
  BY <1>0, <1>1, <1>5
<1>7. ASSUME NEW j \in Nat, j \in P
      PROVE  j + 1 \in P
  <2>1. CASE j + 1 \in D
    <3>1. j \in D /\ (j + 1) - 1 = j /\ a[j] = h[j] /\ j + 1 # 0
      BY <2>1, <1>0, <1>7
    <3> QED
      BY <2>1, <3>1, <1>1, <1>5
  <2> QED
    BY <2>1
<1>8. Nat \subseteq P
  <2> HIDE DEF P
  <2> QED
    BY <1>6, <1>7, SetInduction
<1>9. a[k] = h[k]
  BY <1>0, <1>8
<1> QED
  BY <1>3, <1>9 DEF h

LEMMA InListIs ==
    ASSUME NEW l, NEW n \in Nat, NEW first, NEW end,
           IsList(l, n, first, end), n = 0 => first = NIL
    PROVE  InList(first) = {l[i] : i \in 1 .. n}
<1>0. NR_MAX_PARALLEL_IO \in Nat /\ n <= NR_MAX_PARALLEL_IO
  BY ListLength, QueueSize
<1>1. \A k \in 0 .. NR_MAX_PARALLEL_IO : At(first)[k] = IF k < n THEN l[k + 1] ELSE NIL
  BY AtList
<1>2. \A i \in 1 .. n : l[i] # NIL
  BY Constants DEF IsList
<1>3. ASSUME NEW e \in InList(first)
      PROVE  e \in {l[i] : i \in 1 .. n}
  <2>1. PICK k \in 0 .. NR_MAX_PARALLEL_IO : e = At(first)[k] /\ e # NIL
    BY <1>3 DEF InList
  <2>2. k < n /\ e = l[k + 1] /\ k + 1 \in 1 .. n
    BY <2>1, <1>0, <1>1
  <2> QED
    BY <2>2
<1>4. ASSUME NEW i \in 1 .. n
      PROVE  l[i] \in InList(first)
  <2>1. i - 1 \in 0 .. NR_MAX_PARALLEL_IO /\ i - 1 < n /\ (i - 1) + 1 = i
    BY <1>0
  <2>2. At(first)[i - 1] = l[i]
    BY <2>1, <1>1
  <2> QED
    BY <2>1, <2>2, <1>2 DEF InList
<1> QED
  BY <1>3, <1>4

LEMMA EndsAt ==
    ASSUME NEW l, NEW n \in Nat \ {0}, NEW first, NEW end, IsList(l, n, first, end)
    PROVE  Ends(first, end)
<1>1. NR_MAX_PARALLEL_IO \in Nat /\ n <= NR_MAX_PARALLEL_IO
  BY ListLength, QueueSize
<1>2. PICK k \in 0 .. NR_MAX_PARALLEL_IO : k = n - 1
  BY <1>1
<1>3. At(first)[k] = l[n] /\ k \in 0 .. NR_MAX_PARALLEL_IO - 1
  <2>1. At(first)[k] = IF k < n THEN l[k + 1] ELSE NIL
    BY AtList
  <2> QED
    BY <2>1, <1>1, <1>2
<1>4. l[n] = end /\ end # NIL /\ next[end] = NIL
  BY Constants DEF IsList
<1> QED
  BY <1>3, <1>4 DEF Ends

LEMMA StructureProperties ==
    ASSUME NEW f, NEW n, NEW g, NEW m, Typed, Structure(f, n, g, m)
    PROVE  /\ ListsPartitionQueue /\ SortedFromDueOn
           /\ InList(io_seq) = {g[j] : j \in 1 .. m}
<1>0. /\ Lists(f, n, g, m) /\ Sorted(g, m) /\ n \in Nat \ {0} /\ m \in Nat
      /\ IsList(f, n, free_seq, free_seq_end) /\ IsList(g, m, io_seq, io_seq_end)
      /\ m = 0 <=> io_seq = NIL
  BY DEF Structure, Lists
<1>1. InList(free_seq) = {f[i] : i \in 1 .. n}
  BY <1>0, InListIs
<1>2. InList(io_seq) = {g[j] : j \in 1 .. m}
  BY <1>0, InListIs
<1>3. Ends(free_seq, free_seq_end)
  BY <1>0, EndsAt
<1>4. io_seq # NIL => Ends(io_seq, io_seq_end) /\ prev[io_seq] = NIL
  <2>1. io_seq # NIL => m \in Nat \ {0} /\ prev[io_seq] = NIL
    BY <1>0 DEF Lists
  <2> QED
    BY <2>1, <1>0, EndsAt
<1>5. ListsPartitionQueue
  <2>1. InList(free_seq) \cup InList(io_seq) \cup HeldEntries = Entries
    <3>1. HeldEntries \subseteq Entries /\ (entry \in Entries => entry \in HeldEntries)
      BY Constants DEF HeldEntries, Typed
    <3>2. InList(free_seq) \subseteq Entries /\ InList(io_seq) \subseteq Entries
      BY <1>0, <1>1, <1>2 DEF IsList
    <3>3. \A e \in Entries : e \in HeldEntries \/ e \in InList(free_seq) \/ e \in InList(io_seq)
      BY <3>1, <1>0, <1>1, <1>2 DEF Lists
    <3> QED
      BY <3>1, <3>2, <3>3
  <2>2. /\ InList(free_seq) \cap InList(io_seq) = {}
        /\ HeldEntries \cap (InList(free_seq) \cup InList(io_seq)) = {}
    BY <1>0, <1>1, <1>2 DEF Lists, HeldEntries
  <2>3. ASSUME NEW e \in InList(io_seq), next[e] # NIL
        PROVE  prev[next[e]] = e
    <3>1. PICK j \in 1 .. m : e = g[j]
      BY <2>3, <1>2
    <3>2. j \in 1 .. m - 1
      <4>1. j # m
        BY <2>3, <3>1, <1>0 DEF IsList
      <4> QED
        BY <4>1, <1>0
    <3>3. next[g[j]] = g[j + 1] /\ prev[g[j + 1]] = g[j]
      BY <3>2, <1>0 DEF Lists, IsList
    <3> QED
      BY <3>1, <3>3
  <2> QED
    BY <1>3, <1>4, <2>1, <2>2, <2>3 DEF ListsPartitionQueue
<1>6. \A k \in 0 .. NR_MAX_PARALLEL_IO : At(io_seq)[k] = IF k < m THEN g[k + 1] ELSE NIL
  <2> SUFFICES ASSUME NEW k \in 0 .. NR_MAX_PARALLEL_IO
               PROVE  At(io_seq)[k] = IF k < m THEN g[k + 1] ELSE NIL
    OBVIOUS
  <2>1. m \in Nat /\ (m = 0 => io_seq = NIL)
    BY <1>0
  <2> QED
    BY <1>0, <2>1, AtList
<1>7. SortedFromDueOn
  <2> SUFFICES ASSUME NEW i \in 0 .. NR_MAX_PARALLEL_IO, NEW j \in 0 .. NR_MAX_PARALLEL_IO,
                      i < j, At(io_seq)[j] # NIL, work[At(io_seq)[i]].target > latest_nsecs
               PROVE  work[At(io_seq)[i]].target <= work[At(io_seq)[j]].target
    BY DEF SortedFromDueOn
  <2>1. /\ At(io_seq)[i] = IF i < m THEN g[i + 1] ELSE NIL
        /\ At(io_seq)[j] = IF j < m THEN g[j + 1] ELSE NIL
    BY <1>6
  <2>2. i \in Nat /\ j \in Nat /\ j < m
    BY <2>1, QueueSize
  <2>3. /\ At(io_seq)[i] = g[i + 1] /\ At(io_seq)[j] = g[j + 1]
        /\ i + 1 \in 1 .. m /\ j + 1 \in 1 .. m /\ i + 1 < j + 1
    BY <2>1, <2>2, <1>0
  <2> QED
    BY <2>3, <1>0 DEF Sorted, Target
<1> QED
  BY <1>2, <1>5, <1>7

LEMMA ContentsProperties ==
    ASSUME NEW f, NEW n, NEW g, NEW m, Typed, Structure(f, n, g, m), Contents(f, n, g, m)
    PROVE  TypeOK /\ PendingOpsQueued /\ CompletedOnceInTime /\ CopiedBeforePosted
<1>0. /\ Lists(f, n, g, m) /\ Reading(f, n) /\ Queued(g, m) /\ Accounted
      /\ InList(io_seq) = {g[j] : j \in 1 .. m} /\ m \in Nat
  BY StructureProperties DEF Structure, Contents, Lists
<1>1. TypeOK
  <2>1. latest_nsecs \in Time /\ curr_nsecs \in Time
    <3>1. MaxTime \in Nat /\ now \in 0 .. MaxTime /\ latest_nsecs \in 0 .. now /\ curr_nsecs \in 0 .. now
      BY Constants DEF Typed, Time
    <3> QED
      BY <3>1 DEF Time
  <2>2. copied \subseteq Ops
    BY <1>0 DEF Accounted
  <2> QED
    BY <2>1, <2>2 DEF TypeOK, Typed, Fields, Filling, Linking
<1>2. PendingOpsQueued
  <2> SUFFICES ASSUME NEW o \in Ops, Pending(o), ~(entry # NIL /\ o = issued)
               PROVE  \E e \in InList(io_seq) :
                        /\ work[e].op = o /\ ~work[e].is_completed /\ work[e].target = due[o]
                        /\ \A x \in InList(io_seq) : work[x].op = o => x = e
    BY DEF PendingOpsQueued
  <2>1. o \in 1 .. issued /\ o \notin dropped /\ posted[o] = 0
    BY Constants DEF Pending, Ops, Typed
  <2>2. PICK j \in 1 .. m : work[g[j]].op = o
    BY <2>1, <1>0 DEF Queued
  <2>3. ~work[g[j]].is_completed /\ work[g[j]].target = due[o]
    BY <2>1, <2>2, <1>0 DEF Queued, Posted
  <2>4. \A i \in 1 .. m : work[g[i]].op = o => g[i] = g[j]
    BY <2>2, <1>0 DEF Queued
  <2> QED
    BY <2>2, <2>3, <2>4, <1>0
<1>3. CompletedOnceInTime
  BY <1>0 DEF Accounted, CompletedOnceInTime
<1>4. CopiedBeforePosted
  <2> SUFFICES ASSUME wpc = "mark", ~work[curr].is_internal
               PROVE  work[curr].op \in copied
    BY DEF CopiedBeforePosted
  <2>1. curr # NIL /\ ~work[curr].is_completed /\ work[curr].is_copied
    BY <1>0 DEF Typed, Reading
  <2>2. PICK j \in 1 .. m : curr = g[j]
    BY <2>1, <1>0, AtInUse
  <2> QED
    BY <2>1, <2>2, <1>0 DEF Queued
<1> QED
  BY <1>1, <1>2, <1>3, <1>4
-----------------------------------------------------------------------------
LEMMA InitIInv == Init => IInv
<1> SUFFICES ASSUME Init
             PROVE  IInv
  OBVIOUS
<1>0. Typed /\ Held
  BY TypedInit
<1>1. PICK n : n = NR_MAX_PARALLEL_IO
  OBVIOUS
<1>2. PICK f : f = [i \in 1 .. n |-> i - 1]
  OBVIOUS
<1>3. PICK g : g = [i \in 1 .. 0 |-> 0]
  OBVIOUS
<1>4. n \in Nat /\ n >= 2 /\ Entries = 0 .. n - 1
  BY <1>1, QueueSize DEF Entries
<1>5. /\ next = [e \in Entries |-> IF e = n - 1 THEN NIL ELSE e + 1]
      /\ free_seq = 0 /\ free_seq_end = n - 1 /\ io_seq = NIL /\ entry = NIL
      /\ dpc = "ftl" /\ wpc = "scan" /\ curr = NIL /\ issued = 0
      /\ posted = [o \in Ops |-> 0] /\ dropped = {} /\ copied = {}
      /\ \A e \in Entries : ~work[e].is_completed
  BY <1>1 DEF Init
<1>6. f \in [1 .. n -> Entries] /\ \A i \in 1 .. n : f[i] = i - 1
  BY <1>2, <1>4
<1>7. IsList(f, n, free_seq, free_seq_end)
  <2>1. \A i, j \in 1 .. n : f[i] = f[j] => i = j
    BY <1>4, <1>6
  <2>2. \A i \in 1 .. n - 1 : next[f[i]] = f[i + 1]
    BY <1>4, <1>5, <1>6
  <2>3. f[1] = free_seq /\ f[n] = free_seq_end /\ next[free_seq_end] = NIL
    BY <1>4, <1>5, <1>6
  <2> QED
    BY <1>6, <2>1, <2>2, <2>3 DEF IsList
<1>8. IsList(g, 0, io_seq, io_seq_end)
  BY <1>3 DEF IsList
<1>9. Lists(f, n, g, 0)
  <2>1. \A e \in Entries : \E i \in 1 .. n : e = f[i]
    <3> SUFFICES ASSUME NEW e \in Entries
                 PROVE  \E i \in 1 .. n : e = f[i]
      OBVIOUS
    <3>1. e + 1 \in 1 .. n /\ f[e + 1] = e
      BY <1>4, <1>6
    <3> QED
      BY <3>1
  <2>2. \A i \in 1 .. n : f[i] # NIL
    BY <1>6, Constants
  <2> QED
    BY <1>4, <1>5, <1>7, <1>8, <2>1, <2>2 DEF Lists
<1>10. Structure(f, n, g, 0)
  BY <1>5, <1>9 DEF Structure, Sorted, Searching, Walking
<1>11. Contents(f, n, g, 0)
  <2>1. \A i \in 1 .. n : f[i] # NIL /\ ~work[f[i]].is_completed
    BY <1>5, <1>6, Constants
  <2>2. HeldFlags /\ Reading(f, n)
    BY <1>5, <2>1 DEF HeldFlags, Reading, Filling, Linking
  <2>3. Queued(g, 0) /\ Accounted
    BY <1>5 DEF Queued, Accounted
  <2> QED
    BY <2>2, <2>3 DEF Contents
<1> QED
  BY <1>0, <1>10, <1>11 DEF IInv, Inv

LEMMA NextIInv ==
    ASSUME IInv, Next
    PROVE  IInv'
<1>1. PICK f, n, g, m : Inv(f, n, g, m)
  BY DEF IInv
<1>2. /\ Typed /\ Held /\ Structure(f, n, g, m) /\ Lists(f, n, g, m)
      /\ ~WorkerMayStall => Contents(f, n, g, m)
  BY <1>1 DEF IInv, Inv, Structure
<1>3. Typed'
  BY <1>2, TypedDispatcher, TypedAllocate, TypedWorker DEF Next
<1>4. Held'
  BY <1>2, HeldNext
<1>5. SUFFICES \E a, j, b, k : Inv(a, j, b, k)'
  BY <1>3, <1>4 DEF IInv
<1>6. ASSUME NEW int \in BOOLEAN, NEW lat \in Latencies, Allocate(int, lat)
      PROVE  \E a, j, b, k : Inv(a, j, b, k)'
  <2>1. /\ QueueFull => Structure(f, n, g, m)'
        /\ ~QueueFull => Structure(Behind(f, n, 1), n - 1, g, m)'
    BY <1>2, <1>6, StructureAllocate
  <2>2. ~WorkerMayStall => /\ QueueFull => Contents(f, n, g, m)'
                           /\ ~QueueFull => Contents(Behind(f, n, 1), n - 1, g, m)'
    BY <1>2, <1>6, ContentsAllocate
  <2>3. Inv(f, n, g, m)' \/ Inv(Behind(f, n, 1), n - 1, g, m)'
    BY <2>1, <2>2 DEF Inv
  <2> QED
    BY <2>3
<1>7. CASE FillRequest \/ FillLinks
  BY <1>2, <1>7, StructureFill, ContentsFill DEF Inv
<1>8. CASE Search
  BY <1>2, <1>8, StructureSearch, ContentsSearch DEF Inv
<1>9. CASE InsertFirst \/ InsertHead \/ InsertTail \/ InsertBetween
  <2>1. PICK c : c = entry
    OBVIOUS
  <2>2. PICK k \in 0 .. m : Structure(f, n, Inserted(g, m, k, c), m + 1)'
    BY <1>2, <1>9, <2>1, StructureInsert
  <2>3. ~WorkerMayStall => Contents(f, n, Inserted(g, m, k, c), m + 1)'
    BY <1>2, <1>9, <2>1, ContentsInsert
  <2>4. Inv(f, n, Inserted(g, m, k, c), m + 1)'
    BY <2>2, <2>3 DEF Inv
  <2> QED
    BY <2>4
<1>10. CASE ReclaimStart \/ ReclaimWalk
  BY <1>2, <1>10, StructureWalk, ContentsSearch DEF Inv
<1>11. CASE ReclaimEnd
  <2>1. CASE Structure(f, n, g, m)'
    BY <1>2, <1>11, <2>1, ContentsSearch DEF Inv
  <2>2. CASE \E k \in 1 .. m :
               /\ \A i \in 1 .. k : work[g[i]].is_completed
               /\ Structure(Joined(f, n, g, k), n + k, Behind(g, m, k), m - k)'
    <3>1. PICK k \in 1 .. m :
               /\ \A i \in 1 .. k : work[g[i]].is_completed
               /\ Structure(Joined(f, n, g, k), n + k, Behind(g, m, k), m - k)'
      BY <2>2
    <3>2. ~WorkerMayStall => Contents(Joined(f, n, g, k), n + k, Behind(g, m, k), m - k)'
      BY <1>2, <1>11, <3>1, ContentsReclaim
    <3>3. Inv(Joined(f, n, g, k), n + k, Behind(g, m, k), m - k)'
      BY <3>1, <3>2 DEF Inv
    <3> QED
      BY <3>3
  <2> QED
    BY <1>2, <1>11, <2>1, <2>2, StructureReclaim
<1>12. CASE Worker \/ Tick
  <2>1. Structure(f, n, g, m)'
    BY <1>2, <1>12, StructureWorker
  <2>2. ~WorkerMayStall => Contents(f, n, g, m)'
    BY <1>2, <1>12, ContentsWalk, ContentsCopy, ContentsPost, ContentsMark DEF Worker
  <2> QED
    BY <2>1, <2>2 DEF Inv
<1> QED
  BY <1>6, <1>7, <1>8, <1>9, <1>10, <1>11, <1>12 DEF Next, Dispatcher, Insert, Reclaim

LEMMA StutterIInv ==
    ASSUME IInv, UNCHANGED vars
    PROVE  IInv'
<1>1. PICK f, n, g, m : Inv(f, n, g, m)
  BY DEF IInv
<1> USE DEF vars, links, lists, dvars, dlocal, wvars, wlocal
<1>2. Typed' /\ Held'
  BY DEF IInv, Typed, Held, Target
<1>3. Lists(f, n, g, m)'
  BY <1>1 DEF Inv, Structure, Lists, IsList
<1>4. Sorted(g, m)' /\ Searching(g, m)' /\ Walking(g, m)'
  BY <1>1 DEF Inv, Structure, Sorted, Searching, Walking, Later, Stop, Target
<1>5. ~WorkerMayStall => HeldFlags' /\ Reading(f, n)' /\ Accounted'
  BY <1>1 DEF Inv, Contents, HeldFlags, Reading, Accounted
<1>6. ~WorkerMayStall => Queued(g, m)'
  BY <1>1 DEF Inv, Contents, Queued, Posted
<1> QED
  BY <1>2, <1>3, <1>4, <1>5, <1>6 DEF IInv, Inv, Structure, Contents

(* IInv is an invariant of the queue.                                      *)
LEMMA AlwaysIInv == Spec => []IInv
BY InitIInv, NextIInv, StutterIInv, PTL DEF Spec

(* __insert_req_sorted(), __allocate_work_queue_entry() and                *)
(* __reclaim_completed_reqs() keep every entry on exactly one of the two   *)
(* lists, without a cycle, and the list in use sorted by target time from  *)
(* the first entry that is not due: even if the worker moves latest_nsecs  *)
(* during a search, and even if it sleeps for any time between two         *)
(* instructions.                                                           *)
THEOREM QueueListsSound == Spec => []ListsSound
<1>1. IInv => ListsSound
  <2> SUFFICES ASSUME IInv
               PROVE  ListsSound
    BY DEF ListsSound
  <2>1. PICK f, n, g, m : Inv(f, n, g, m)
    BY DEF IInv
  <2> QED
    BY <2>1, StructureProperties DEF IInv, Inv, ListsSound
<1> QED
  BY <1>1, AlwaysIInv, PTL

LEMMA KeptWithoutStall ==
    ASSUME ~WorkerMayStall, IInv
    PROVE  OpsKept /\ CopiedBeforePosted
<1>1. PICK f, n, g, m : Inv(f, n, g, m)
  BY DEF IInv
<1> QED
  BY <1>1, ContentsProperties DEF IInv, Inv, OpsKept

(* As long as the worker does not sleep while the whole free list is       *)
(* recycled, no accepted op is lost by reclaim and reuse of entries, and   *)
(* none is completed twice, early or after a refusal.                      *)
THEOREM QueueKeepsOps ==
    ASSUME ~WorkerMayStall
    PROVE  Spec => []OpsKept
<1>1. IInv => OpsKept
  BY KeptWithoutStall
<1> QED
  BY <1>1, AlwaysIInv, PTL

(* Under the same condition nvmev_io_worker() posts no completion before   *)
(* the data of the command was copied, although it reads is_copied of an   *)
(* entry that the dispatcher may have filled in again.                     *)
THEOREM QueueCopiesFirst ==
    ASSUME ~WorkerMayStall
    PROVE  Spec => []CopiedBeforePosted
<1>1. IInv => CopiedBeforePosted
  BY KeptWithoutStall
<1> QED
  BY <1>1, AlwaysIInv, PTL
=============================================================================
