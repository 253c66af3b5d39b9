------------------------------ MODULE MCKvFtl ------------------------------
(***************************************************************************)
(* Five stores for TLC, one per initial value of store: what is worth      *)
(* checking needs different hash functions, allocators and commands.  The  *)
(* configuration file describes the store "refine"; the others differ from *)
(* it as their INSTANCE says.                                              *)
(***************************************************************************)
EXTENDS KvFtl

VARIABLE store
mcvars == <<vars, store>>

\* Keys 1, 2 and 3 hash to slot 0, key 4 where their chain runs through.
Collide(keys) == [k \in keys |-> IF k = 4 THEN 1 ELSE 0]
\* All keys but 2 hash to the last slot: their chain wraps into key 2's.
Wrap(keys, slots) == [k \in keys |-> IF k = 2 THEN 0 ELSE slots - 1]

MCHome  == Wrap(Keys, HashSlots)
MCPairs == {}
MCGroup == [k \in Keys |-> 1]

\* The allocator with one bit per small value.
Bitmap == INSTANCE KvFtl WITH
    Keys <- {1, 2, 4}, HashSlots <- 4, Home <- Collide({1, 2, 4}),
    Group <- [k \in {1, 2, 4} |-> 1], Lengths <- {1, 2, 3}, StorageSize <- 24,
    Allocator <- "bitmap", Ops <- {"store"}, Resize <- "small"

\* Deletes among keys whose chains meet.
Deleting == INSTANCE KvFtl WITH
    HashSlots <- 4, Home <- Collide(Keys), Lengths <- {1}, StorageSize <- 7,
    Ops <- {"store", "delete"}, MaxCmds <- 7

\* A table that fills up and empties again, with a chain through all of it.
Chains == INSTANCE KvFtl WITH
    Keys <- {1, 2, 3}, HashSlots <- 3, Home <- Wrap({1, 2, 3}, 3),
    Group <- [k \in {1, 2, 3} |-> 1], Lengths <- {1}, StorageSize <- 8,
    Ops <- {"store", "delete"}, MaxCmds <- 8

\* Iterators over one of two groups of keys, one key a page.
Iterators == INSTANCE KvFtl WITH
    HashSlots <- 4, Home <- [k \in Keys |-> k - 1],
    Group <- [k \in Keys |-> IF k = 1 THEN 1 ELSE 2], StorageSize <- 8,
    Ops <- {"store", "delete", "iterate"}, PageKeys <- 1, MaxCmds <- 4, MaxIters <- 1

MCInit == \/ store = "refine" /\ Init
          \/ store = "bitmap" /\ Bitmap!Init
          \/ store = "deletes" /\ Deleting!Init
          \/ store = "chains" /\ Chains!Init
          \/ store = "iterators" /\ Iterators!Init

MCNext == /\ UNCHANGED store
          /\ \/ store = "refine" /\ Next
             \/ store = "bitmap" /\ Bitmap!Next
             \/ store = "deletes" /\ Deleting!Next
             \/ store = "chains" /\ Chains!Next
             \/ store = "iterators" /\ Iterators!Next

MCSpec == MCInit /\ [][MCNext]_mcvars

-----------------------------------------------------------------------------
\* What get_mapping_entry() finds.  StoredIsFound and ValuesDisjoint: what the host
\* stored, whichever keys collide, in space of its own, with either allocator.
\* FoundIsCurrent and ChainsAcyclic: with deletes, which may cut a chain, no old
\* value, and find_next_slot() never closes a chain into a ring.
LookupsSound ==
    /\ store = "refine" => TypeOK /\ StoredIsFound /\ ValuesDisjoint
    /\ store = "bitmap" => Bitmap!StoredIsFound /\ Bitmap!ValuesDisjoint
    /\ store = "deletes" => Deleting!FoundIsCurrent /\ Deleting!ChainsAcyclic
    /\ store = "chains" =>
          Chains!TypeOK /\ Chains!FoundIsCurrent /\ Chains!ChainsAcyclic

\* IterComplete: kv_iter_read() misses no key and returns none twice.
IteratorsComplete == store = "iterators" => Iterators!IterComplete

\* Store!Spec of KvFtl: each step of an insertion or a batch is a step of the map
\* from keys to values (KvStore) or leaves it as it is.
RefinesStore == /\ store = "refine" => Store!Init
                /\ [][store = "refine" => [Store!Next]_(Store!vars)]_vars
=============================================================================
