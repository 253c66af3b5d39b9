------------------------------- MODULE KvFtl -------------------------------
(***************************************************************************)
(* The key-value FTL: a hash table whose collision chains run through the  *)
(* table itself, an allocator of value space that never frees, and the     *)
(* iterators that scan the table.  The worker threads run the commands     *)
(* without a lock, so an insertion is the steps it has in memory: look up  *)
(* the key and read the allocator, claim the space and copy the value,     *)
(* find a slot, write the entry and chain it.                              *)
(***************************************************************************)
EXTENDS Integers, FiniteSets, Sequences, FiniteSetsExt

CONSTANTS Keys, HashSlots,
          Home,         \* the hash slot of each key
          PrefixPairs,  \* <<k, l>>: k is a proper prefix of l
          Group,        \* what an iterator's bitmask keeps of each key
          Lengths,      \* value lengths the host stores
          SmallLength, LargeLength, StorageSize,
          Allocator,    \* "append_only" or "bitmap"
          Workers,      \* I/O worker threads
          Ops,          \* "store", "delete", "batch" and "iterate"
          Resize,       \* a key's new length: "any", "small" (both are) or "fixed"
          NrIter,       \* last iterator handle (16 in the code)
          PageKeys,     \* keys one iterator read returns at most
          MaxCmds,      \* bound: sub-commands the host sends
          MaxIters      \* bound: iterators the host has open

ASSUME KvAssumption ==
    /\ HashSlots \in Nat \ {0} /\ Home \in [Keys -> 0 .. HashSlots - 1]
    /\ SmallLength \in Nat \ {0} /\ LargeLength > SmallLength
    /\ Allocator \in {"append_only", "bitmap"}
    /\ NrIter \in Nat \ {0} /\ PageKeys \in Nat \ {0}

VARIABLES table,        \* kv_mapping_table
          mem,          \* one cell of storage: the sub-command that wrote it
          alloc,        \* append_only.c latest; bitmap.c bits and last positions
          wk,           \* each worker's command and the locals of its insertion
          handle,       \* iter_handle[1 .. NrIter]
          fault,        \* "none", or what stopped the kernel
          sent,         \* history: sub-commands sent
          ref,          \* history: what the host has stored
          iters         \* history: the iterations the host believes it runs
vars == <<table, mem, alloc, wk, handle, fault, sent, ref, iters>>

None    == -1
Absent  == [len |-> None, data |-> {}]
Slots   == 0 .. HashSlots - 1
NoEntry == [key |-> None, off |-> None, len |-> None, next |-> None]
Idle    == [pc |-> "idle", batch |-> FALSE, off |-> 0, slot |-> 0, prev |-> 0,
            todo |-> <<>>]
Null    == [pos |-> None, group |-> None]
Value(len, tag) == [len |-> len, data |-> IF len = 0 THEN {} ELSE {tag}]

-----------------------------------------------------------------------------
(* The mapping table. *)

Occupied(s) == table[s].off # None

\* memcmp() over the length of the key searched for.
Matches(k, s) == table[s].key = k \/ <<k, table[s].key>> \in PrefixPairs

\* The slot at which the search for k along its chain ends, or None.
Lookup(k) ==
    LET search[s \in Slots, fuel \in 0 .. HashSlots] ==
            IF ~Occupied(s) THEN None
            ELSE IF Matches(k, s) THEN s
            ELSE IF table[s].next = None \/ fuel = 0 THEN None
            ELSE search[table[s].next, fuel - 1]
    IN  search[Home[k], HashSlots]

\* The last occupied slot of the chain that starts at h.
ChainTail(h) ==
    LET last[s \in Slots, fuel \in 0 .. HashSlots] ==
            IF table[s].next = None \/ fuel = 0 THEN s
            ELSE IF ~Occupied(table[s].next) THEN s
            ELSE last[table[s].next, fuel - 1]
    IN  last[h, HashSlots]

\* The first free slot from s on, wrapping at the end of the table.
FreeFrom(s) ==
    LET free == {d \in 1 .. HashSlots - 1 : ~Occupied((s + d) % HashSlots)}
    IN  (s + Min(free)) % HashSlots

\* The slot for a new entry, and the slot it is chained to.
FindSlotAtHead(k) ==
    IF ~Occupied(Home[k]) THEN [slot |-> Home[k], prev |-> None]
    ELSE [slot |-> FreeFrom(Home[k]), prev |-> Home[k]]

find_next_slot(k) ==
    IF ~Occupied(Home[k]) THEN [slot |-> Home[k], prev |-> None]
    ELSE LET tail == ChainTail(Home[k])
         IN  [slot |-> FreeFrom(tail), prev |-> tail]

\* memset() of the whole entry: next_slot goes with the rest.
Cleared(s) == NoEntry

\* What a retrieve of k returns (asked for at least the length stored).
Retrieve(k) ==
    LET s == Lookup(k) IN
    IF s = None THEN Absent
    ELSE [len |-> table[s].len,
          data |-> {mem[c] : c \in table[s].off .. table[s].off + table[s].len - 1}]

-----------------------------------------------------------------------------
(* The allocators. *)

Class(len) == IF len > SmallLength THEN "large" ELSE "small"
SlotSize(class) == IF class = "small" THEN SmallLength ELSE LargeLength
NrBits(class) == (StorageSize \div 2) \div SlotSize(class)

\* bitmap_find_next_zero_area() for one bit from the last position on: with
\* none left it returns one past the size.
NextZero(class) ==
    LET zero == alloc[class].pos .. NrBits(class) - 1 \ alloc[class].bits
    IN  IF zero # {} THEN Min(zero) ELSE NrBits(class) + 1

Allocate(len) ==
    LET class == Class(len) IN
    IF Allocator = "append_only" THEN alloc.latest
    ELSE (IF class = "small" THEN 0 ELSE StorageSize \div 2)
         + NextZero(class) * SlotSize(class)

\* The allocator after the space at off was handed out.
Claimed(off, len) ==
    LET class == Class(len)
        bit == IF class = "small" THEN off \div SmallLength
               ELSE (off - StorageSize \div 2) \div LargeLength
    IN  IF Allocator = "append_only" THEN [alloc EXCEPT !.latest = off + len]
        ELSE [alloc EXCEPT ![class] =
                  [bits |-> @.bits \union {bit},
                   pos  |-> IF bit + 1 > NrBits(class) THEN 0 ELSE bit + 1]]

-----------------------------------------------------------------------------
Init ==
    /\ table = [s \in Slots |-> NoEntry]
    /\ mem = [c \in 0 .. StorageSize - 1 |-> 0]
    /\ alloc = [latest |-> 0, small |-> [bits |-> {}, pos |-> 0],
                              large |-> [bits |-> {}, pos |-> 0]]
    /\ wk = [w \in Workers |-> Idle]
    \* kv_init_namespace() clears handles 0 .. 15 of 17.
    /\ \E last \in {Null, [pos |-> 0, group |-> None]} :
          handle = [i \in 1 .. NrIter |-> IF i = NrIter THEN last ELSE Null]
    /\ fault = "none" /\ sent = 0
    /\ ref = [k \in Keys |-> Absent]
    /\ iters = {}

-----------------------------------------------------------------------------
(* The host.  It has one command on a key at a time. *)

Busy == UNION {{wk[w].todo[i].key : i \in DOMAIN wk[w].todo} : w \in Workers}

MayResize(k, len) ==
    \/ ref[k] = Absent \/ ref[k].len = len \/ Resize = "any"
    \/ Resize = "small" /\ len <= SmallLength /\ ref[k].len <= SmallLength

SubCmds(op, tag, lengths) ==
    {[op |-> op, key |-> k, tag |-> tag, val |-> Value(l, tag)] :
        k \in Keys, l \in lengths}
Stores(tag)  == SubCmds("store", tag, Lengths)
Deletes(tag) == SubCmds("delete", tag, {0})
Others(tag)  == SubCmds("other", tag, {0})

Sendable(c) == /\ c.key \notin Busy
               /\ c.op = "store" => MayResize(c.key, c.val.len)

\* The worker takes a store or a delete ...
Receive(w) ==
    /\ wk[w].pc = "idle" /\ sent < MaxCmds
    /\ \E c \in (IF "store" \in Ops THEN Stores(sent + 1) ELSE {})
                \union (IF "delete" \in Ops THEN Deletes(sent + 1) ELSE {}) :
          /\ Sendable(c)
          /\ wk' = [wk EXCEPT ![w] = [Idle EXCEPT !.pc = "lookup", !.todo = <<c>>]]
    /\ sent' = sent + 1
    /\ UNCHANGED <<table, mem, alloc, handle, fault, ref, iters>>

\* ... or a batch.
ReceiveBatch(w) ==
    /\ "batch" \in Ops /\ wk[w].pc = "idle" /\ sent + 1 < MaxCmds
    /\ \E c \in Stores(sent + 1), d \in Stores(sent + 2) \union Others(sent + 2) :
          /\ c.key # d.key /\ Sendable(c) /\ Sendable(d)
          /\ wk' = [wk EXCEPT ![w] = [Idle EXCEPT !.pc = "lookup", !.batch = TRUE,
                                                  !.todo = <<c, d>>]]
    /\ sent' = sent + 2
    /\ UNCHANGED <<table, mem, alloc, handle, fault, ref, iters>>

-----------------------------------------------------------------------------
(* The worker. *)

Sub(w) == Head(wk[w].todo)

\* The sub-command is done: the next one of the batch, or the completion.
Finish(w) ==
    /\ wk' = [wk EXCEPT ![w] =
                IF Len(wk[w].todo) = 1 THEN Idle
                ELSE [Idle EXCEPT !.pc = "lookup", !.batch = wk[w].batch,
                                  !.todo = Tail(wk[w].todo)]]
    /\ ref' = CASE Sub(w).op = "store"  -> [ref EXCEPT ![Sub(w).key] = Sub(w).val]
                [] Sub(w).op = "delete" -> [ref EXCEPT ![Sub(w).key] = Absent]
                [] OTHER                -> ref
    /\ iters' = IF Sub(w).op = "delete"
                THEN {[i EXCEPT !.live = @ \ {Sub(w).key}] : i \in iters}
                ELSE iters

Fault(what) == fault' = what /\ UNCHANGED <<table, mem, alloc, wk, handle, sent, ref, iters>>

InStorage(off, len) == off + len <= StorageSize
Copied(off, sub) ==
    [c \in DOMAIN mem |-> IF c \in off .. off + sub.val.len - 1 THEN sub.tag ELSE mem[c]]

\* A store of a key that is in the table writes in place, whatever the length.
\* Only a store outside a batch, between two small lengths, sets the new length.
NewLengthKept(w, s) == table[s].len
NewLength(w, s) ==
    IF /\ ~wk[w].batch
       /\ Sub(w).val.len <= SmallLength /\ table[s].len <= SmallLength
    THEN Sub(w).val.len ELSE table[s].len

Update(w) ==
    LET s == Lookup(Sub(w).key) IN
    /\ fault = "none" /\ wk[w].pc = "lookup" /\ Sub(w).op = "store" /\ s # None
    /\ IF ~InStorage(table[s].off, Sub(w).val.len) THEN Fault("past_end")
       ELSE /\ mem' = Copied(table[s].off, Sub(w))
            /\ table' = [table EXCEPT ![s].len = NewLength(w, s)]
            /\ Finish(w)
            /\ UNCHANGED <<alloc, handle, fault, sent>>

\* A store of a new key reads where the allocator stands ...
InsertBegin(w) ==
    /\ fault = "none" /\ wk[w].pc = "lookup" /\ Sub(w).op = "store"
    /\ Lookup(Sub(w).key) = None
    /\ wk' = [wk EXCEPT ![w].pc = "claim", ![w].off = Allocate(Sub(w).val.len)]
    /\ UNCHANGED <<table, mem, alloc, handle, fault, sent, ref, iters>>

\* ... moves it on and copies the value: past the end of storage the copy, or
\* the BUG_ON() behind it, stops the kernel ...
InsertCopy(w) ==
    /\ fault = "none" /\ wk[w].pc = "claim"
    /\ IF ~InStorage(wk[w].off, Sub(w).val.len) \/ wk[w].off >= StorageSize
       THEN Fault("past_end")
       ELSE /\ alloc' = Claimed(wk[w].off, Sub(w).val.len)
            /\ mem' = Copied(wk[w].off, Sub(w))
            /\ wk' = [wk EXCEPT ![w].pc = "slot"]
            /\ UNCHANGED <<table, handle, fault, sent, ref, iters>>

\* ... finds a slot, searching a full table for ever ...
InsertSlot(w) ==
    /\ fault = "none" /\ wk[w].pc = "slot"
    /\ IF \A s \in Slots : Occupied(s) THEN Fault("spin")
       ELSE /\ LET f == find_next_slot(Sub(w).key) IN
               wk' = [wk EXCEPT ![w].pc = "entry", ![w].slot = f.slot, ![w].prev = f.prev]
            /\ UNCHANGED <<table, mem, alloc, handle, fault, sent, ref, iters>>

\* ... and writes the entry there, behind the end of its chain.  The entry's
\* next_slot is left as it is.
InsertEntry(w) ==
    /\ fault = "none" /\ wk[w].pc = "entry"
    /\ table' = [s \in Slots |->
          IF s = wk[w].slot
          THEN [key |-> Sub(w).key, off |-> wk[w].off, len |-> Sub(w).val.len,
                next |-> table[s].next]
          ELSE IF s = wk[w].prev THEN [table[s] EXCEPT !.next = wk[w].slot]
          ELSE table[s]]
    /\ Finish(w)
    /\ UNCHANGED <<mem, alloc, handle, fault, sent>>

\* A delete clears the entry; one of a key that is not found answers
\* KV_ERR_KEY_NOT_EXIST.
Delete(w) ==
    LET s == Lookup(Sub(w).key) IN
    /\ fault = "none" /\ wk[w].pc = "lookup" /\ Sub(w).op = "delete"
    /\ table' = IF s = None THEN table ELSE [table EXCEPT ![s] = Cleared(s)]
    /\ Finish(w)
    /\ UNCHANGED <<mem, alloc, handle, fault, sent>>

\* A batch skips a sub-command that is not a store.
SkipSub(w) ==
    /\ fault = "none" /\ wk[w].pc = "lookup" /\ Sub(w).op = "other"
    /\ Finish(w)
    /\ UNCHANGED <<table, mem, alloc, handle, fault, sent>>

-----------------------------------------------------------------------------
(* Iterators, carried out by an idle worker. *)

\* With every handle taken the answer is handle 1, and no error.
kv_iter_open(w) ==
    LET free == {i \in 1 .. NrIter : handle[i] = Null}
        h == IF free = {} THEN 1 ELSE Min(free)
    IN  /\ fault = "none" /\ "iterate" \in Ops /\ wk[w].pc = "idle"
        /\ Cardinality(iters) < MaxIters
        /\ \E g \in {Group[k] : k \in Keys} :
              /\ handle' = IF free = {} THEN handle
                           ELSE [handle EXCEPT ![h] = [pos |-> 0, group |-> g]]
              /\ iters' = iters \union
                    {[h |-> h, id |-> CHOOSE n \in 1 .. MaxIters : \A i \in iters : i.id # n,
                      live |-> {k \in Keys : ref[k] # Absent /\ Group[k] = g},
                      got |-> [k \in Keys |-> 0], done |-> FALSE]}
        /\ UNCHANGED <<table, mem, alloc, wk, fault, sent, ref>>

\* Where a read stops: at the first match that does not fit, or at the end.
Matching(h) == {s \in handle[h].pos .. HashSlots - 1 :
                   Occupied(s) /\ Group[table[s].key] = handle[h].group}
ScanStopSkips(h) ==
    LET m == Matching(h) IN
    IF Cardinality(m) <= PageKeys THEN HashSlots
    ELSE 1 + CHOOSE s \in m : Cardinality({t \in m : t < s}) = PageKeys
ScanStop(h) ==
    LET m == Matching(h) IN
    IF Cardinality(m) <= PageKeys THEN HashSlots
    ELSE CHOOSE s \in m : Cardinality({t \in m : t < s}) = PageKeys

\* One read: the keys found, and status 0x393 when the scan came to the end.  A
\* handle that is not open answers nothing.
kv_iter_read(w) ==
    /\ fault = "none" /\ wk[w].pc = "idle"
    /\ \E i \in iters :
          /\ ~i.done
          /\ IF handle[i.h] = Null THEN UNCHANGED <<handle, iters>>
             ELSE LET stop == ScanStop(i.h)
                      m == Matching(i.h)
                      page == {s \in m : Cardinality({t \in m : t < s}) < PageKeys}
                      new == [i EXCEPT
                          !.got = [k \in Keys |-> @[k] +
                                     Cardinality({s \in page : table[s].key = k})],
                          !.done = stop = HashSlots /\ handle[i.h].pos < HashSlots]
                  IN  /\ handle' = [handle EXCEPT ![i.h].pos = stop]
                      /\ iters' = (iters \ {i}) \union {new}
    /\ UNCHANGED <<table, mem, alloc, wk, fault, sent, ref>>

kv_iter_close(w) ==
    /\ fault = "none" /\ wk[w].pc = "idle"
    /\ \E i \in iters :
          /\ handle' = [handle EXCEPT ![i.h] = Null]
          /\ iters' = iters \ {i}
    /\ UNCHANGED <<table, mem, alloc, wk, fault, sent, ref>>

-----------------------------------------------------------------------------
Perform(w) == \/ Update(w) \/ InsertBegin(w) \/ InsertCopy(w) \/ InsertSlot(w)
              \/ InsertEntry(w) \/ Delete(w) \/ SkipSub(w)

Iterate(w) == kv_iter_open(w) \/ kv_iter_read(w) \/ kv_iter_close(w)

Next == \E w \in Workers : \/ fault = "none" /\ (Receive(w) \/ ReceiveBatch(w))
                           \/ Perform(w) \/ Iterate(w)

Spec == Init /\ [][Next]_vars

-----------------------------------------------------------------------------
(* Properties. *)

\* Table, storage, handles and the workers' places have their types.
TypeOK ==
    /\ table \in [Slots -> [key : Keys \union {None}, off : 0 .. StorageSize \union {None},
                            len : Nat \union {None}, next : Slots \union {None}]]
    /\ mem \in [0 .. StorageSize - 1 -> 0 .. MaxCmds]
    /\ \A w \in Workers : wk[w].pc \in {"idle", "lookup", "claim", "slot", "entry"}
    /\ \A i \in 1 .. NrIter : handle[i].pos \in 0 .. HashSlots \union {None}
    /\ fault \in {"none", "past_end", "spin"}
    /\ sent \in 0 .. MaxCmds
    /\ \A k \in Keys : ref[k].data \subseteq 1 .. MaxCmds

\* find_next_slot() appends to a chain that may share slots with others: no
\* chain ever leads back to itself, deletes and reused slots included, so every
\* search of get_mapping_entry() ends.
ChainsAcyclic ==
    LET ends[s \in Slots, fuel \in 0 .. HashSlots] ==
            \/ table[s].next = None
            \/ fuel > 0 /\ ends[table[s].next, fuel - 1]
    IN  \A s \in Slots : ends[s, HashSlots]

\* The space of two values never overlaps, nor leaves the storage: the
\* allocator and the updates in place keep what other keys hold.
ValuesDisjoint ==
    \A s, t \in {u \in Slots : Occupied(u)} :
        /\ table[s].off + table[s].len <= StorageSize
        /\ s # t => \/ table[s].off + table[s].len <= table[t].off
                    \/ table[t].off + table[t].len <= table[s].off

\* __do_perform_kv_io(): "if mapping_entry exist -> read from mem_offset, else
\* -> key doesn't exist!".  A key no worker is busy with reads as what the host
\* last stored, and as absent when it was deleted or never stored.
StoredIsFound == \A k \in Keys \ Busy : Retrieve(k) = ref[k]

\* The part of StoredIsFound that deletes leave: a key the table finds has the
\* value last stored under it, never an older one or another key's.
FoundIsCurrent ==
    \A k \in Keys \ Busy : Lookup(k) # None => Retrieve(k) = ref[k]

\* kv_iter_read() walks the table by slot over several reads while entries come
\* and go: when it reports the end, every key that was there all along was
\* returned, once.
IterComplete ==
    \A i \in iters : i.done => \A k \in i.live : i.got[k] = 1

\* The table and the allocator implement the map from keys to values, an
\* insertion becoming visible at once when its entry is chained (Store!Spec).
Store == INSTANCE KvStore WITH kv <- [k \in Keys |-> Retrieve(k)],
                               todo <- [w \in Workers |-> wk[w].todo]
=============================================================================
