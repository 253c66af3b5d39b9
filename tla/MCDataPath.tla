----------------------------- MODULE MCDataPath -----------------------------
(***************************************************************************)
(* Four parts of the data path that share no state, for TLC: the write     *)
(* buffer, whose sizes the configuration file gives, the victim queue, the *)
(* geometry with the walk of the write pointer, and the loop of            *)
(* conv_read().  The initial value of part says which one runs; the others *)
(* stand still.                                                            *)
(***************************************************************************)
EXTENDS WriteBuffer

VARIABLES part,
          q, members,                                          \* PQueue
          geo, wp, fresh, written,                             \* Geometry
          maptbl, start_lpn, end_lpn, i, lpn, prev, xfer_size, reads, pc \* ConvRead

heapVars   == <<q, members>>
bufferVars == vars
geoVars    == <<geo, wp, fresh, written>>
readVars   == <<maptbl, start_lpn, end_lpn, i, lpn, prev, xfer_size, reads, pc>>
mcvars     == <<part, heapVars, bufferVars, geoVars, readVars>>

\* Six lines, so that the heap has three levels.
Heap == INSTANCE PQueue WITH Lines <- 1 .. 6, pgs_per_line <- 3, NONE <- 0

\* All geometries up to these sizes, without SLC, with a third and two thirds.
Geo == INSTANCE Geometry WITH
    SecsPerPg <- 2, MaxChs <- 2, MaxLuns <- 2, MaxParts <- 2, MaxBlks <- 3,
    MaxFlash <- 2, Portions <- {0, 34, 67}, MaxSize <- 20

\* All requests to two partitions of three logical pages each.
Reader == INSTANCE ConvRead WITH Parts <- 2, NrLpns <- 6, NrFlash <- 2, PgsPerFlash <- 2

ASSUME PathAssumptions == /\ Heap!QueueAssumption /\ Geo!GeometryAssumption
                          /\ Reader!ReadAssumption

HeapOff   == q = 0 /\ members = 0
GeoOff    == geo = 0 /\ wp = 0 /\ fresh = 0 /\ written = 0
ReadOff   == /\ maptbl = 0 /\ start_lpn = 0 /\ end_lpn = 0 /\ i = 0 /\ lpn = 0
             /\ prev = 0 /\ xfer_size = 0 /\ reads = 0 /\ pc = 0

MCInit ==
    \/ part = "heap" /\ Heap!Init /\ Init /\ GeoOff /\ ReadOff
    \/ part = "buffer" /\ HeapOff /\ Init /\ GeoOff /\ ReadOff
    \/ part = "geometry" /\ HeapOff /\ Init /\ Geo!Init /\ ReadOff
    \/ part = "read" /\ HeapOff /\ Init /\ GeoOff /\ Reader!Init

BufferStep(A) ==
    part = "buffer" /\ A /\ UNCHANGED <<part, heapVars, geoVars, readVars>>

MCNext ==
    \/ part = "heap" /\ Heap!Next /\ UNCHANGED <<part, bufferVars, geoVars, readVars>>
    \/ BufferStep(Next)
    \/ part = "geometry" /\ Geo!Next /\ UNCHANGED <<part, heapVars, bufferVars, readVars>>
    \/ part = "read" /\ Reader!Next /\ UNCHANGED <<part, heapVars, bufferVars, geoVars>>

\* The fairness of WriteBuffer; the other parts have only safety properties.
MCSpec == /\ MCInit /\ [][MCNext]_mcvars
          /\ WF_mcvars(BufferStep(conv_write))
          /\ WF_mcvars(BufferStep(buffer_release))

-----------------------------------------------------------------------------
\* HoldsMembers, PositionsExact and TopIsMinimum: after any inserts, removals from
\* the middle and updates, the array of pqueue.c holds each member once, at the
\* position its line remembers, and pqueue_peek() gives a least one.
HeapMatchesSet ==
    part = "heap" => Heap!HoldsMembers /\ Heap!PositionsExact /\ Heap!TopIsMinimum

\* WriteAccepted: conv_write() does not refuse a write for ever.
WritesAccepted == part = "buffer" => WriteAccepted

\* LineWrittenOnce and WordlinesWhole: advance_write_pointer() visits every page of
\* a line, once, and last_pg_in_wordline() ends a wordline that was all written.
PointerCoversLine == part = "geometry" => Geo!LineWrittenOnce /\ Geo!WordlinesWhole

\* IndexExact and NamespaceMapped: ppa2pgidx() gives every page of both regions an
\* index of its own, and the last LBA of the namespace has a map table entry.
AddressesExact == part = "geometry" => Geo!IndexExact /\ Geo!NamespaceMapped

\* ReadsExactly and Aggregates: conv_read() reads every mapped page of the request
\* once and merges neighbours on one flash page.
ReadsExact == part = "read" => Reader!ReadsExactly /\ Reader!Aggregates
=============================================================================
