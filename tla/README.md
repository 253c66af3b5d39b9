# Verification of nvmevirt-slc-cache

NVMeVirt is a Linux kernel module that emulates an NVMe SSD in reserved memory;
this repository adds an SLC write cache and cost-benefit garbage collection to
its conventional FTL. This directory holds TLA+ models of its core, the TLC
configurations that check them on small instances, and TLAPS proofs.

## The system

| part | state | operations | meets |
| --- | --- | --- | --- |
| conventional FTL (`conv_ftl.c`) | `maptbl`, `rmap`, page states, line counters, free/full/victim lines of the SLC and the TLC area, two write pointers, write credits | `conv_write`, `conv_read`, `conv_flush`; inside a write: `foreground_gc`, `do_gc` | called by the dispatcher; schedules buffer releases on the work queue; uses the priority queue and the timing model |
| priority queue (`pqueue/`) | binary heap of victim lines, position stored in the line | insert, pop, peek, remove, change priority | FTL only |
| work queue and workers (`io.c`) | array of entries chained into a free list and a list in use; `latest_nsecs` | `__enqueue_io_req`, `schedule_internal_operation`, `__reclaim_completed_reqs` (dispatcher); the worker's loop | lock-free sharing of dispatcher and worker |
| SQ/CQ processing (`io.c`) | doorbells, CQ ring, phase bit, `interrupt_ready` | `nvmev_proc_io_sq`, `nvmev_proc_io_cq`, `__fill_cq_result` | host driver, dispatcher, workers |
| write buffer (`ssd.c`) | bytes remaining, spin lock | allocate, release, refill | dispatcher allocates, workers release |
| geometry, timing (`ssd.c`, `channel_model.c`) | sizes derived at load; busy-until times | `ssd_advance_nand`, `chmodel_request` ... | FTLs |
| dispatcher, start-up (`main.c`), admin (`admin.c`), BAR (`pci.c`) | controller registers, queues | polling loop, admin commands | host driver |
| ZNS, KV and simple FTL | zone states and resources; hash table and allocators; none | their commands | other build configurations |

What is hard here: the FTL's state is touched by one thread only, but one host
write can run through dozens of dependent updates (invalidate, program, close
a line, collect a TLC line, migrate an SLC line, erase, refill credits), and a
wrong counter shows only many writes later. The work queue is shared between
two threads without a lock; an entry goes through both lists and is reused.
Limits (lines, credits, queue entries, buffer bytes) are checked in one place
and relied on in another. The list of hazards, each with its line and the
properties that would catch it, is in `PROJECT.json`.

## Modules

| module | what it is |
| --- | --- |
| `NandStore` | abstract specification: what a flash store may do to its medium and its map |
| `ConvFtl` | the conventional FTL, one partition, SLC cache enabled |
| `MCConvFtl` | the symmetry of its logical pages for TLC |
| `ConvFtlProofs` | inductive invariant and the safety theorems of `ConvFtl`, its write credits and free SLC lines, and that it implements `NandStore`; facts on sequences without duplicates |
| `SumLemmas` | induction over numbers in a first-order form, sums over finite sets, division, ring positions |
| `ConvRead` | the flash reads of `conv_read()`, over all partitions |
| `Geometry` | sizes from `ssd_init_params_slc()`, page index, exported size, order of the write pointer |
| `WriteBuffer`, `WriteBufferProofs` | the write buffer under the writes of the conventional FTL, and its theorem |
| `PQueue` | the victim heap, against the set that stands for it in `ConvFtl` |
| `IoQueue`, `IoQueueProofs` | the work queue between the dispatcher and one worker, and its theorems |
| `HostQueues`, `HostQueuesProofs` | submission and completion rings between host, dispatcher and several workers, and their theorems |
| `Controller`, `ControllerProofs` | registers, enable and reset, the admin queue, I/O queue management, and their theorems |
| `ChannelModel` | `channel_model.c` as operators |
| `ChannelBooking` | a channel against bandwidth kept by absolute time |
| `NandTiming` | LUNs, channel and link under NAND commands; uses `ChannelModel` |
| `IoUnits`, `IoUnitsProofs` | timing of the simple and the KV FTL, and its theorem |
| `Zns`, `ZnsProofs` | the zoned FTL with the dispatcher's retry and the worker's copy, and its theorems |
| `KvStore` | abstract specification: a map from keys to values |
| `KvFtl` | hash table, allocators, iterators of the KV FTL |
| `MCIoQueue`, `MCHostQueues`, `MCController`, `MCZns`, `MCKvFtl` | the instances of these components for TLC |
| `MCDataPath` | instances of `PQueue`, `WriteBuffer`, `Geometry`, `ConvRead` |
| `MCTiming` | instances of `IoUnits`, `ChannelBooking`, `NandTiming` |

An MC module has one variable more than its component (`load`, `queues`,
`driver`, `device`, `store`, `part`, `model`). Its initial value picks one of
several INSTANCEs, and no step changes it: a run explores every instance from
its own initial states. The configuration file gives the constants of the base
instance, the `WITH` clauses say in what the others differ. A property of the MC
module names the instances it is about (`part = "geometry" =>
Geo!LineWrittenOnce`); the property itself is stated and explained in the
component's module, and a property that is proved is checked under the name it
is proved under. The loads of `MCIoQueue` are restrictions of one instance: each
has bounds of its own, below those of the configuration file. `MCZns`,
`MCHostQueues` and `MCController` have a second set of variables for the
instances other than the base one, so that the properties of the component are
checked under their own names on the base instance. Fairness is asked
of the instance whose liveness is checked and of no other.

### ConvFtl

State: the variables carry the names of the C fields. A physical page is
`[blk, pg]`, `blk` the line and `pg` the rank of the page in the order in which
`advance_write_pointer()` visits the line (channel, LUN, word line); per-block
counters are left out, the per-line ones are kept. The victim priority queue is
the set of its members. `pc` is the next step of the dispatcher inside one
call of `conv_write()`; `resume` is the return address of `do_gc()`.

| action | code |
| --- | --- |
| `Invalidate(l)` | loop body of `conv_write()`, the old copy: `mark_page_invalid()`, reverse entry cleared |
| `Program` | the new copy: page from the SLC write pointer, both tables, `advance_write_pointer()`, one credit |
| `FgSkip`, `FgGc`, `FgNoGc` | `foreground_gc()`: nothing to do; collect a TLC line first; migrate at once |
| `Migrate` | `do_gc()` in SLC mode, `select_victim_line_slc(force)` |
| `GcWritePage(p)` | `clean_one_flashpg()` / `gc_write_page()` for one valid page |
| `EraseLine` | `mark_block_free()`, `mark_line_free()`, return of `do_gc()` |
| `Refill` | `check_and_refill_write_credit()` after `foreground_gc()` |

Over-approximations: the age of a line, which the cost-benefit value divides
by, is any level; the pages of a victim are copied in any order; ties between
victims are broken in any way. A failed `NVMEV_ASSERT(wpp->curline)` is the
state `pc = "bug"`.

### NandStore

`where` (logical page to physical page) and `programmed` (pages that are not
erased). A page is programmed once between two erases and in the order of its
line, a write or a copy binds a logical page to a page it has just programmed,
an erase takes a fully programmed line on which no logical page lives, and a
logical page once written is never unmapped.

### PQueue

The heap is a record of the array, its size, and the position and priority kept
in the lines; `bubble_up()` and `percolate_down()` are recursive operators that
return the heap after the loop. The actions are the call sites in `conv_ftl.c`:
closing a line, invalidating a page of a line in or outside the queue, taking a
victim from the middle (cost-benefit) or from the top (migration). `members` is
the set `ConvFtl` uses. Slots at or above the size are blanked after a removal:
no call reads one it has not written.

### IoQueue

State: `next`, `prev` and the fields of `nvmev_io_work` that steer the worker;
the four list pointers; the locals of both threads. An op is a command or an
internal operation (a write buffer release). Each action is a stretch of code
in which a thread makes at most one access the other can notice: filling an
entry is two steps (up to `is_completed = false`, and the rest), the search for
the insertion point is one step per entry because `latest_nsecs` is read each
time, each of the three insertions publishes the entry with one store, reclaim
walks entry by entry and then splices. Stores are taken in program order, as
on x86 and as the barriers ask. `due`, `dropped`, `copied`, `posted` and
`signalled` record what happened to an op; nothing in the code reads them. One
worker with its queue is modelled: with `CONFIG_NVMEV_IO_WORKER_BY_SQ` each
worker has its own, and the dispatcher treats them one after the other. Clocks
of two cpus are taken to agree.

### HostQueues

A command is its number in its queue. The host fills a slot and rings the
doorbell (`HostSubmit`), takes entries by their phase (`HostReap`) inside its
interrupt handler, and may delete a submission queue that has nothing
outstanding. The dispatcher looks at one doorbell after the other
(`nvmev_proc_dbs`): it dispatches as many of the new commands as the FTL takes,
a refused one stops the round and is offered again, and walks the released
completion entries as `nvmev_proc_io_cq()` does, index past the ring included.
A worker copies (reading the command from the slot at that moment) and posts in
two steps under `entry_lock`. The owner of the completion queue clears
`interrupt_ready` and signals in two steps.

Two properties rest on conditions that the code does not enforce. The host reuses
the slot of a command that is dispatched and not copied once enough later ones
are answered; `MaxOvertake` bounds how many later commands complete before a
command is copied, and `CopiesItsCommand` holds for at most one, whatever the
size of the ring. `nr_in_flight` is counted from entries that the host has
released, which the workers may overwrite before the dispatcher walks over them:
`Roomy` says that the completion queue has room for what the host holds and two
rounds of the submission queues.

### Controller

`scan` is where the dispatcher is between two register comparisons; each
comparison is one action (`ScanAqa`, `ScanAddress`, `ScanCc`), and the first
difference found ends the pass. `ScanDbs` and `ProcAdmin` take admin commands
one by one. The driver writes AQA, ASQ, ACQ and CC in this order, waits for
CSTS, sends admin commands with one I/O queue operation at a time, and resets
or shuts down. `HostSlow = TRUE` assumes that a pass over the registers begins
between the addresses and CC, `SameAddr = FALSE` that a reset comes with fresh
queue pages: both are about the driver and the machine.

### WriteBuffer, Geometry, ConvRead

`WriteBuffer` has the write at the head of the submission queue, the bytes
remaining, the pages in each partition's open wordline, and the releases on
their way. `conv_write` is a single step: refuse, or charge the sectors and
fill wordlines. That a wordline is complete every `pgs_per_oneshotpg` pages of
a partition, which its counter assumes, is `WordlinesWhole` of `Geometry`, where
the write pointer goes by channel, LUN and page. `Geometry` starts in every
configuration within its bounds; its definitions have the names of the fields of
`struct ssdparams`. `ConvRead` starts with every table of its size and makes one
step per logical page.

### ChannelModel, ChannelBooking, NandTiming, IoUnits

A channel is the ring of credits, its head, its time and the length in use;
`chmodel_request` returns the channel after a request and the time of its end.
The reference of `ChannelBooking` never moves or clears anything. `Wrap` stands
for 2^32. `NandTiming` adds the chunked reads, writes, erases and link
transfers, `IoUnits` the other timing model: `targets` remembers the times
promised to commands that are not due.

### Zns

The FTL's state is one record, so that a command is a function from state to
state with a status, as the handlers are; `fault` is a BUG, a division by zero
or an index out of range. `cmd` is the head of the submission queue: `Dispatch`
runs it, and one that returns false stays, with the changes it made to itself.
`work` is with the worker, whose `Complete` moves data whatever the status.
Buffer releases are counted by size and come back one by one. `lost` and
`programs` are history. `HostMayErr` lets the host send what must be refused.

### KvStore, KvFtl

A worker takes a command (a sequence of sub-commands) and goes through the
steps of an insertion: look up and read the allocator, claim and copy, find a
slot, write the entry and chain it. Keys have a home slot (the hash), may be
prefixes of each other, and belong to a group (what an iterator's mask keeps).
`mem` holds the sub-command that wrote each cell. `ref` is what the host has
stored. The refinement maps every key to what a retrieve would return.

## Runs

| run | instances | shows |
| --- | --- | --- |
| `ftl_pages` | 3+2 lines of 2 and 6 pages, 2 logical pages | types, map against reverse map, exact page counters, credits against the write pointer, closed lines used up, every line in exactly one place |
| `ftl_lines` | 5+4 lines of 1 and 3 pages, 2 logical pages, with fairness | the host always finds an SLC line, refinement of `NandStore`, every write ends |
| `ftl_exhaustion` | 2+2 lines, 6 logical pages | finding: TLC lines run out |
| `ftl_greedy` | 2+4 lines, 4 logical pages | finding: the default build is not greedy |
| `ioq` | 4 entries; `order`: 3 ops, targets up to 2; `reuse`: 5 ops, due at once; `live`: 3 ops, targets up to 1, with fairness | lists whole, entries not yet due sorted; nothing lost, doubled, early or uncopied with a full queue and reused entries; every accepted op completes and is signalled |
| `ioq_stall` | 3 entries, 5 ops, `WorkerMayStall` | finding: a half filled entry is seen |
| `queues` | `roomy`: 2 queues of 2 entries, 3 commands, CQ of 6 | answered once, copied from the command's own slot, no lost interrupt; `nr_in_flight` exact |
| | `ring`: 1 queue of 4 entries, 5 commands, CQ of 4 | the same but the count, over wraps of both rings, with commands that pass others |
| | `shared`: 2 queues, 2 workers, CQ of 3, with fairness | the same, a deleted queue is not used, every command answered |
| `admin` | `queues`: ring of 2, 4 commands, 1 reset | no command before the pages are known, answers match; granted queues exist and are polled |
| | `resets`: ring of 3, 5 commands, 2 resets, with fairness | ready in the end, answers match, every command answered |
| `data_path` | `heap`: 6 lines of 3 pages | array, positions and top agree with the set of members |
| | `buffer`: 2 partitions, wordlines of 3 pages, 14 sectors, with fairness | space conserved, every write accepted |
| | `geometry`: up to 2 channels, LUNs, partitions; 3 lines; 20 pages | lines written once in whole wordlines, index exact, namespace mapped |
| | `read`: 2 partitions, 6 logical pages, 2 flash pages each | reads cover the request exactly, gathered |
| `timing` | `channel`: ring of 3 intervals, clock to 8 | ring and answers agree with the reference |
| | `nand`: 2 LUNs, clock to 3 | busy-until times only advance |
| | `units`: 3 units, commands of one unit | flush after every earlier command |
| `zns` | `zones`: 2 zones of 3 LBAs, shared buffer, host may err | counters, write pointers, buffer space, each one-shot page programmed once |
| | `data`: 2 zones, 4 commands, 2 at once | acknowledged data stays; appends in their zone |
| | `zrwa`: 1 zone of 5, window of 2 | write pointer and counters with random writes |
| | `units`: write units of a one-shot page, with fairness | no fault, each row programmed once, the waiting command is taken |
| `kv` | `refine`: 4 keys, 5 slots, 5 sub-commands | implements `KvStore` |
| | `bitmap`: 3 keys, small and large values | last value is read back, values disjoint |
| | `deletes`, `chains`: 4 keys in 4 slots, 7 commands; 3 in 3, 8 commands | what is found is current; chains end |
| | `iterators`: 4 keys, pages of 1 key | iterators return every key that stays |

Bounds. A TLC line has three times the pages of an SLC line, as in the code. Thresholds are the
code's (2). Two SLC lines are the least with which a line can be open while
another is migrated; with three or five, `foreground_gc()` is also called above the
threshold. Two logical pages suffice to make lines full, partly and wholly
invalid and TLC lines mixed. Age levels 1 and 250 are the extremes of
`age_levelize()`. Credits are 3 bits wide so that a wrap would be seen. In the
queue, four entries (three usable, the last free entry is never handed out) and
five ops make the queue full and entries be reused; three ops reach all four kinds of insertion.
Six lines are the
least with which a node that fills a hole in the heap must move up.
`MaxTime` bounds the clock and `MaxOps` the behaviour. The rings of `ring` and
`shared` are as small as the commands outstanding allow, so that they wrap with
stale entries in every slot; a completion queue of six is the smallest that is
`Roomy` for two queues of two. Four admin commands wrap a ring of two twice and
five one of three once, with a new ring after each reset. The buffer of `MCDataPath`, the largest request plus one
page less than a wordline for each partition, is the smallest that works: with
less, TLC finds a write that waits for ever. A zone of three LBAs with one-shot
pages of two ends in a partial page; a shared buffer of four is exhausted by two
writes. Four keys in four slots fill the table; home slots are chosen so that
chains collide, join and wrap round the end. The credit ring of three is
wrapped, overrun and left idle; `MaxBusy` bounds how far ahead a LUN is booked.

Fairness. `ConvFtl`: weak fairness of `Dispatch`, the steps of one call that no
other thread can interrupt; none for the host. `IoQueue`: weak fairness of the
dispatcher's steps inside a call, of the worker and of the clock; both threads
are bound to cpus and loop without blocking. `HostQueues`: the same, the host
answers its interrupts, strong fairness of `Dispatch` (the FTL refuses only for
want of buffer space, which `data_path` and `zns` show to come back) and
of taking the spin lock. `Controller`: the dispatcher, and a driver that goes on
with what it began; not that it sends commands or resets. `WriteBuffer`, `Zns`:
the dispatcher's retry and each scheduled release; not the host.

`WorkerMayStall = FALSE` is an assumption on scheduling: the dispatcher does not
hand out an entry on which the worker stands. In the code it takes 16384 entries
(`NR_MAX_PARALLEL_IO`) for the free list to come round while the worker is
between two instructions. `ioq_stall` lifts it.

## Findings

- `ftl_exhaustion`: `foreground_gc()` collects at most one TLC line per
  migration and goes on without a victim, and the namespace exports every
  physical page; the copies of a migration can find no free TLC line, and
  `NVMEV_ASSERT` stops the kernel. A comment there says there must be one.
- `ftl_greedy`: `#define CB` in front of `select_victim_line()` makes
  cost-benefit selection the default; the README says plain `make` is greedy.
- `ioq_stall`: the comment "IO worker shall see the updated w at once" does not
  hold for a worker that kept the index of a reclaimed entry.

Each is quoted with its lines in `PROJECT.json`.

## Conditions the properties rest on

The other instances fix constants or leave out host behaviour where the code
relies on it. Each of these can be changed in a configuration, and TLC then
shows how the property fails:

- `WriteBuffer`: `HostAligned = FALSE` (writes below a page). A write is charged
  its sectors and gives back whole pages; `BufferConserved` fails, the buffer
  grows.
- `ChannelModel`: a small `Wrap`. The distance in intervals is kept in 32 bits;
  after a multiple of 2^32 intervals without a request old bookings are still
  there, and `RingIsTimeline` fails.
- `IoUnits`: `MaxUnits > 1`. A command over several units may move the time of
  the later ones back; `FlushAfterWrites` fails.
- `Controller`: `HostSlow = FALSE`. CC written during a pass over the registers
  is consumed before the admin queue (`EnableCompletes`) or its pages (`NoFault`)
  are known. `SameAddr = TRUE`: a reset that keeps AQA, ASQ and ACQ is not
  noticed (`AdminAnswered`). With `"abort"` among `AdminOps`, abort is never
  answered.
- `HostQueues`: `MaxOvertake = 2` with a ring of three entries or more
  (`CopiesItsCommand`): two later commands are answered, their tags are free, and
  the host comes round to the slot of the one not copied. One queue of five
  entries, a completion queue of six and seven commands show it. A completion
  queue that is not `Roomy` is lapped between two rounds of the dispatcher
  (`InFlightExact`).
- `Zns`: `HostMayErr` with data tracked. A refused write is still copied
  (`KeepsAckedData`), an append to a full zone that is run again goes to the next
  zone (`AppendsStayInZone`). Write units smaller than a page program it
  repeatedly (`ProgramsOnce`); resets of zones with unfinished one-shot pages
  drain the write buffer (`CommandAnswered`). With a random write area, window
  space or the window resource is not always given back (`ZrwaExact`), and an
  explicit flush with window size zero divides by zero (`NoFault`). A short
  partial report counts all zones.
- `KvFtl`: deletes cut the chain behind the deleted key (`StoredIsFound`);
  `Resize = "any"` lets a longer value overwrite its neighbour; `PrefixPairs` not
  empty, a prefix of a stored key is found; two `Workers` take the same space;
  a `StorageSize` that runs out is not noticed by either allocator; more open
  iterators than `NrIter` share a handle.

## Proofs

All theorems are for arbitrary constants under the named assumptions of the
module they are about, which only say what kind of number a constant is and
what the code requires of it.

**ConvFtl** (`ConvFtlProofs`). Assumed: at least two SLC lines
and one TLC line, lines of at least one page, natural thresholds, positive age
levels and scaler, credit counters wide enough for one line, `NULL` different
from everything else. The number of lines and pages, the thresholds, the set of
logical pages and every choice of victim are free.

- `Invariance`: `Spec => []IInv`. The properties are not inductive on their
  own. `IInv` adds that the pages of an open line are erased exactly from the
  write pointer on and free lines wholly (`OpenLines`, `FreeLines`), that lists
  have no duplicates, exact counters, and with the open and the cleaned line
  hold every line (`ListsExact`), and what the program counter implies
  (`ControlSound`). Disjointness of the holders is not assumed: it follows,
  since each holder constrains the page states of its lines in a different way.
- `TypeCorrect`, `MappingCorrect`, `CountsCorrect`, `ClosedLinesCorrect`,
  `LinesCorrect`: the invariants of the runs, from `IInv`.
- `FlowInvariance`, `CreditsCorrect`, `HostNeverStarves`: credits and the write
  pointer move together, so `foreground_gc()` runs at the first page of a new
  SLC line; the line just closed is then a victim or full, so the migration has
  a line to clean and the next SLC line exists. This holds without any
  assumption on the thresholds.
- `Refinement`: `Spec => ImplementsStore`, the initial states and every step
  mapped to `NandStore`.

**IoQueue** (`IoQueueProofs`), for any number of entries, ops and latencies and
any interleaving of the two threads.

- `QueueListsSound`: `Spec => []ListsSound`, whatever `WorkerMayStall` is. The
  property follows `next` from the list heads; the inductive invariant names the
  sequences that the links thread together (a free one, one in use), says that
  with the entry being inserted they hold every entry once, where in the list the
  dispatcher's search or walk stands (`Searching`, `Walking`), and that the list
  is sorted from the first target after `latest_nsecs` on. The worker writes
  neither links nor targets and only raises `latest_nsecs`.
- `QueueKeepsOps`, `QueueCopiesFirst`: with `WorkerMayStall = FALSE`, `Spec =>
  []OpsKept` and `Spec => []CopiedBeforePosted`. `Contents` ties each accepted op
  that is not posted to one entry in use; the worker's own entry is in use or
  completed; the completed entries of the free list are a suffix of it, so that
  a worker that walks on from a reclaimed entry meets completed ones only.

**HostQueues** (`HostQueuesProofs`), for any number of submission queues and
workers, rings of any size and any interleaving. Assumed: a completion queue with
more entries than all its submission queues may have commands outstanding, which
is how the driver sizes it.

- `Typed`, `AnswersOnce`: `Spec => []TypeOK` and `Spec => []AnsweredOnce`. Each
  outstanding command is in exactly one place: in its ring beyond the
  dispatcher's doorbell (`Rings`), with a worker (`AtWorker`), or in a pending
  slot of the completion queue (`Posted`). The host knows a pending slot by its
  phase only; `Phases` says that those are the slots the workers have filled and
  the host has not passed. A worker that posts could break it by lapping the
  host; it cannot, since then all slots would be pending, each with an
  outstanding command of its own, and there are fewer of them (`NeverFull`).
- `RightCommand`: with `MaxOvertake <= 1`, `Spec => []EachAnsweredOnce`. A slot is
  reused `QSize` commands later; with at most `QSize - 1` outstanding, two later
  commands must have been answered by then.
- `InterruptKept`: `Spec => []NoLostInterrupt`. The owner clears
  `interrupt_ready` before it signals and a worker sets it under the lock after
  its entry, so one of the two is always ahead of the host.
- `InFlightCounted`: with `Roomy`, `Spec => []InFlightExact`. The released entries
  that the dispatcher has not walked over keep the queue ids of the commands they
  answered, because the workers do not lap the walk (`NotLapped`): a lap takes
  more entries than two rounds of all submission queues.

**Controller** (`ControllerProofs`), for admin queues of any depth, any number of
I/O queues, and any number of commands, resets and shutdowns. Assumed: `HostSlow`,
`~SameAddr` and no abort among the commands, without which the properties fail
(see above).

- `Invariant`: `Spec => [](Base /\ Up)`. `Base` says what the dispatcher's copies
  of the registers have to do with the registers. The pass over them is not
  atomic; what makes it safe is `fresh`: in a pass that began after the last
  write of an address, the registers it is past are equal to their copies
  (`Registers`). So CC is acted on with all addresses known, doorbells do not
  move unless the driver is up (`Idle`), and a driver that comes up and the device
  begin at the start of empty rings (`Begins`). `Up` says that there are numbers
  `r` and `t`, of commands reaped and taken, from which all positions and phases
  of both rings follow (`Counts`, `Taking`), what each slot of both rings holds
  (`Rings`), and by how much the driver's picture of the I/O queues differs from
  the device's: by the oldest command at most (`QueuesAgree`).
- `AnswersAreExpected`, `QueuesAreServed`: `Spec => []AnswersExpected` and `Spec =>
  []HostQueuesServed`.

**WriteBuffer** (`WriteBufferProofs`).

- `BufferStaysBalanced`: with `HostAligned`, for any buffer, page and wordline
  size, any number of partitions and any requests, `Spec => []BufferBalanced`.
  The invariant is inductive with the types; the work is in the sum over the
  partitions, which a write changes in every partition at once.

**Zns** (`ZnsProofs`), for any number and size of zones, pages, one-shot pages,
buffers, windows and flush granules, shared buffer or one per zone, and whatever
the host sends. Assumed: sizes are positive, a zone is a whole number of pages
(`zns_init_params()` asserts it), and a window, if there is one, is at least one
granule long. The bounds on commands, releases and `work` play no part.

- `Inductive`: `Spec => []IInv`. A command is a function of the FTL's state, so
  the invariant is a predicate of that state, `Sound(f)`, and each operator of
  `Zns` is shown to keep it. Beyond the four properties it says that the ZRWA
  counter is at least the number of zones with a window and at most `NrZones`,
  that a zone without window ends at a page boundary (`PageSound`), and that the
  programmed one-shot pages lie before the write pointer until the zone is full
  (`RowsSound`). `ZoneMoves` and `StoreMoves` say of a step on one zone what
  keeps the counters and the sums over all zones; select_all is an induction over
  the zones. `Queued` says that the command in the queue slot may have been
  changed by its last run: its LBA is then only known to be a number, and the
  zone it names now need not be the one the host named, or exist.
- `ResourcesAreExact`, `WritePointersTrack`: `Spec => []ResourcesExact`, `Spec =>
  []WpTracksState`.
- `BuffersAccounted`, `ProgrammedOnce`: with `Aligned` (the write unit is a whole
  number of pages), `Spec => []BufferAccounted` and `Spec => []ProgramsOnce`. What
  a write is charged equals, with what the unfinished page held, the sizes of the
  one-shot pages it fills and what is left over; the last one-shot page of a zone
  may be short. `ZNS_PROTOTYPE` is `Aligned`. `WD_ZN540` takes single LBAs and
  is not: for it the theorems speak about hosts that write whole pages, and for
  other hosts the properties fail.
- `DataIsKept`, `AckedIsStored`, `AppendsLand`, `KernelGoesOn`: with `PoliteHost`
  (`~HostMayErr` and no `open_zrwa`), `Spec => [][KeepsAckedData]_vars`, and
  always: each acknowledged LBA holds what was acknowledged, appends that succeed
  lie in the zone they were sent to, no command runs into a BUG. The invariant is
  `DataSafe`: acknowledged LBAs are before the write pointer and hold their data;
  a write with the worker lies before it too, on LBAs of its own, of which the
  host knows nothing yet; a command in the queue is still polite when it is run
  again. It needs `Sound(f)`: since the open and active counters are exact, they
  are never full when such a host writes, and none of its writes is refused. A
  refused write would be copied all the same, and without `PoliteHost` the
  properties fail (see above). Windows may be overwritten in place: their data is
  not treated.

**IoUnits** (`IoUnitsProofs`).

- `SingleUnitFlush`: with `MaxUnits = 1`, for any number of units, any latencies
  and any clock, `Spec => []FlushAfterWrites`. The invariant is inductive with
  the types: a command raises the time of its own unit to at least its target and
  leaves the others.

Induction. The library's induction theorems take an operator as a parameter,
which the provers cannot instantiate. `SumLemmas` proves the same for a set (a
set of numbers that has 0 and with each number its successor is `Nat`), from the
well-foundedness of `<`. That is enough for what a recursive *function* computes
at its first `n` arguments, such as the entries met by following `next`, and for
sums over finite sets.

Only model-checked: every liveness property, since fairness and ENABLED are out
of the provers' reach; `PQueue`, `ChannelModel` and `NandTiming`, whose recursive
operators the provers cannot use; `Geometry` (products of its parameters);
`ConvRead` and `KvFtl`.

## Not modelled

Data movement (PRP lists, memcpy, DMA), statistics, logging, module parameters,
identify data, log pages and PCI capability tables: data or I/O without a
protocol of their own. The DMA engine client behaves as the hardware does. The
build without the SLC cache is left out: it reads fields that only the cache
build initialises. Which latency a NAND command has is a choice in `NandTiming`,
since no property depends on the figures. `conv_flush()` returns the largest
busy-until time of the LUNs and changes no state.

## Plan

1. done: `ConvFtl`, `NandStore`, their proofs; `PQueue`; `IoQueue`.
2. done: `HostQueues`, `Controller`, `WriteBuffer`, `Geometry`, `ConvRead`, the
   timing models, `Zns`, `KvFtl` with `KvStore`.
3. done: proofs of the list invariants of `IoQueue`, of conservation in
   `WriteBuffer`, and of zone resources, write pointers and buffers in `Zns`.
4. done: proofs of the rings, phases and counts of `HostQueues`, of reset, admin
   ring and I/O queues of `Controller`, and of the data of `Zns`.
5. Composition of `ConvFtl` with `WriteBuffer` and `IoQueue`: releases that the
   work queue drops when it is full.
