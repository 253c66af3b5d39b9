--------------------------------- MODULE Zns ---------------------------------
(***************************************************************************)
(* The zoned-namespace FTL (src/zns_ftl.[ch], src/zns_read_write.c,        *)
(* src/zns_mgmt_send.c, src/zns_mgmt_recv.c): zones with their state, write *)
(* pointer and random write area (ZRWA), the counters of open, active and  *)
(* ZRWA zones, and the buffers that writes are charged to.                 *)
(*                                                                         *)
(* The dispatcher runs the command at the head of the submission queue;    *)
(* one that returns false stays there and is run again (io.c).  A worker   *)
(* later moves the data, posts the completion, and gives buffer space back *)
(* for each one-shot page that has been programmed.  Sizes are in LBAs.    *)
(***************************************************************************)
EXTENDS Integers, FiniteSets, Functions

CONSTANTS
    NrZones, ZoneSize,
    SecsPerPg, PgsPerOneshot,   \* LBAs of a page, pages of a one-shot page
    WriteUnit,
    ZoneWbSize, GlobalWbSize,   \* ZoneWbSize = 0: all zones share one buffer
    ZrwaSize, ZrwafgSize, ZrwaBufferSize,
    Commands,                   \* the kinds of command the host sends
    HostMayErr,                 \* does it send commands that must be refused?
    TrackData,                  \* are the data of different writes told apart?
    MaxNr,                      \* bound: LBAs of one command
    MaxWork,                    \* bound: commands with the worker
    MaxReleases,                \* bound: releases of one kind on their way
    MaxCmds                     \* bound: commands of a behaviour if TrackData

ASSUME Geometry ==
    /\ NrZones \in Nat \ {0} /\ ZoneSize \in Nat \ {0}
    /\ SecsPerPg \in Nat \ {0} /\ PgsPerOneshot \in Nat \ {0}
    /\ ZoneSize % SecsPerPg = 0                \* asserted by zns_init_params()
    /\ WriteUnit \in Nat \ {0}
ASSUME Buffers ==
    /\ ZoneWbSize \in Nat /\ GlobalWbSize \in Nat
    /\ ZrwaSize \in Nat /\ ZrwafgSize \in Nat /\ ZrwaBufferSize \in Nat
    /\ MaxNr <= IF ZoneWbSize > 0 THEN ZoneWbSize ELSE GlobalWbSize
ASSUME Window ==                \* a window is some flush granules long, if there is one
    ZrwaSize > 0 => ZrwafgSize \in 1 .. ZrwaSize
ASSUME HostBounds == /\ HostMayErr \in BOOLEAN /\ TrackData \in BOOLEAN
                     /\ MaxNr \in Nat \ {0} /\ MaxWork \in Nat
                     /\ MaxReleases \in Nat /\ MaxCmds \in Nat

Zones == 0 .. NrZones - 1
LBAs == 0 .. NrZones * ZoneSize - 1
Oneshot == SecsPerPg * PgsPerOneshot
Unaligned == ZoneSize % Oneshot
Rows == 0 .. (ZoneSize + Oneshot - 1) \div Oneshot - 1  \* one-shot pages of a zone
Tags == 0 .. MaxCmds
States == {"EMPTY", "OPENED_IMPL", "OPENED_EXPL", "CLOSED", "FULL"}
Unopened == {"EMPTY", "CLOSED"}
Opened == {"OPENED_IMPL", "OPENED_EXPL"}
Active == Opened \cup {"CLOSED"}
NoCmd == [op |-> "none"]

lba_to_zone(lba) == lba \div ZoneSize
zone_to_slba(z) == z * ZoneSize
zone_to_elba(z) == zone_to_slba(z + 1) - 1
lba_to_lpn(lba) == lba \div SecsPerPg
zone_to_elpn(z) == lba_to_lpn(zone_to_elba(z))

(* The buffer a zone's writes are charged to.                              *)
WriteBuffer(z) == IF ZoneWbSize > 0 THEN z ELSE 0
WbSize == IF ZoneWbSize > 0 THEN ZoneWbSize ELSE GlobalWbSize
BufferNames == {"wb", "zrwa"} \X Zones
ReleaseSizes == {Oneshot, Unaligned} \ {0}

VARIABLES
    ftl,        \* struct zns_ftl: see InitFtl
    cmd,        \* the command at the head of the submission queue
    work,       \* commands handed to the worker
    data,       \* LBA -> command that wrote it last, 0 if none
    acked,      \* LBA -> last successful write of it the host knows of
    sent        \* number of commands so far

vars == <<ftl, cmd, work, data, acked, sent>>

(* __init_descriptor(), __init_resource(): each resource has one unit per  *)
(* zone.  programs counts NAND programs of a one-shot page since the zone  *)
(* was reset; lost counts charged space that nothing will give back.       *)
InitFtl ==
    [zone |-> [z \in Zones |-> [state |-> "EMPTY", wp |-> zone_to_slba(z),
                                zrwav |-> FALSE]],
     acquired |-> [r \in {"ACTIVE", "OPEN", "ZRWA"} |-> 0],
     remaining |-> [b \in BufferNames |-> IF b[1] = "wb" THEN WbSize ELSE ZrwaBufferSize],
     inflight |-> [b \in BufferNames |-> [s \in ReleaseSizes |-> 0]],
     programs |-> [z \in Zones |-> [r \in Rows |-> 0]],
     lost |-> [b \in BufferNames |-> 0],
     status |-> "SUCCESS", again |-> FALSE, fault |-> "none"]

Init ==
    /\ ftl = InitFtl
    /\ cmd = NoCmd /\ work = {}
    /\ data = [l \in LBAs |-> 0] /\ acked = [l \in LBAs |-> 0]
    /\ sent = 0
-----------------------------------------------------------------------------
(* Resources and buffers.  Each operator maps the FTL state f to the next. *)

is_zone_resource_full(f, r) == f.acquired[r] = NrZones

acquire_zone_resource(f, r) == [f EXCEPT !.acquired[r] = @ + 1]

(* ASSERT() is empty in this build (nvmev.h:82).                           *)
release_zone_resource(f, r) == [f EXCEPT !.acquired[r] = @ - 1]

Refuse(f, status) == [f EXCEPT !.status = status]

buffer_allocate(f, b, size) == [f EXCEPT !.remaining[b] = @ - size]

Full(f, z) == [f EXCEPT !.zone[z].state = "FULL"]

(* The write pointer reaches the end: the zone gives up OPEN and ACTIVE.   *)
__increase_write_ptr(f, z, nr) ==
    LET wp == f.zone[z].wp + nr
        g  == [f EXCEPT !.zone[z].wp = wp]
    IN  IF wp = zone_to_slba(z) + ZoneSize
        THEN Full(release_zone_resource(release_zone_resource(g, "OPEN"), "ACTIVE"), z)
        ELSE g

(* Positive if [slba, slba + nr) stays in one zone.                        *)
SameZone(slba, nr) == lba_to_zone(slba) = lba_to_zone(slba + nr - 1)
-----------------------------------------------------------------------------
(* Writes and appends outside a ZRWA: __zns_write().                       *)

OneshotOf(z, lpn) == (lpn - lba_to_lpn(zone_to_slba(z))) \div PgsPerOneshot
LastPgOf(z, row) == lba_to_lpn(zone_to_slba(z)) + (row + 1) * PgsPerOneshot - 1

(* Mutant: a write that ends on a one-shot boundary does not fill the page. *)
RowsBefore(z, slpn, elpn) ==
    {r \in OneshotOf(z, slpn) .. OneshotOf(z, elpn) :
        LastPgOf(z, r) < elpn \/ elpn = zone_to_elpn(z)}

(* Mutant: an incomplete one-shot page is programmed too.                  *)
RowsTouched(z, slpn, elpn) == OneshotOf(z, slpn) .. OneshotOf(z, elpn)

(* The one-shot pages that a write of the pages slpn .. elpn programs: the *)
(* ones whose last page it reaches, and the last one of the zone.          *)
FilledRows(z, slpn, elpn) ==
    {r \in OneshotOf(z, slpn) .. OneshotOf(z, elpn) :
        LastPgOf(z, r) <= elpn \/ elpn = zone_to_elpn(z)}

(* Mutant: the short one-shot page at the end of a zone counts as a whole. *)
WholeOneshot(z, row) == Oneshot

BytesToRelease(z, row) ==
    IF LastPgOf(z, row) >= zone_to_elpn(z) /\ Unaligned > 0 THEN Unaligned ELSE Oneshot

(* Program the rows; the worker gives their buffer space back later.       *)
ProgramRows(f, z, b, rows, size) ==
    [f EXCEPT !.programs[z] = [r \in Rows |-> @[r] + IF r \in rows THEN 1 ELSE 0],
              !.inflight[b] = [s \in ReleaseSizes |->
                                 @[s] + Cardinality({r \in rows : size[r] = s})]]

WriteError(f, z, slba, nr) ==
    LET zone == f.zone[z] IN
    IF nr % WriteUnit # 0 THEN "INVALID_WRITE"
    ELSE IF ~SameZone(slba, nr) THEN "BOUNDARY"
    ELSE IF slba # zone.wp THEN "INVALID_WRITE"
    ELSE IF zone.state = "EMPTY" /\ slba # zone_to_slba(z) THEN "INVALID_WRITE"
    ELSE IF zone.state = "EMPTY" /\ is_zone_resource_full(f, "ACTIVE") THEN "NO_ACTIVE_ZONE"
    ELSE IF zone.state \in Unopened /\ is_zone_resource_full(f, "OPEN") THEN "NO_OPEN_ZONE"
    ELSE IF zone.state = "FULL" THEN "ERR_FULL"
    ELSE "SUCCESS"

(* An EMPTY zone takes ACTIVE and OPEN, a CLOSED one OPEN.                 *)
OpenForWrite(f, z) ==
    LET g == IF f.zone[z].state = "EMPTY" THEN acquire_zone_resource(f, "ACTIVE") ELSE f
    IN  IF f.zone[z].state \in Unopened
        THEN [acquire_zone_resource(g, "OPEN") EXCEPT !.zone[z].state = "OPENED_IMPL"]
        ELSE g

(* The buffer is charged before anything is checked; a refused write keeps *)
(* what it was charged.                                                    *)
__zns_write(f, z, slba, nr) ==
    LET b    == <<"wb", WriteBuffer(z)>>
        g    == buffer_allocate(f, b, nr)
        err  == WriteError(g, z, slba, nr)
        rows == FilledRows(z, lba_to_lpn(slba), lba_to_lpn(slba + nr - 1))
    IN  IF f.remaining[b] < nr THEN [f EXCEPT !.again = TRUE]
        ELSE IF err # "SUCCESS" THEN [Refuse(g, err) EXCEPT !.lost[b] = @ + nr]
        ELSE ProgramRows(__increase_write_ptr(OpenForWrite(g, z), z, nr), z, b, rows,
                         [r \in rows |-> BytesToRelease(z, r)])
-----------------------------------------------------------------------------
(* Writes to a zone with a ZRWA: __zns_write_zrwa().                       *)

ZrwaWriteError(f, z, slba, nr) ==
    LET zone == f.zone[z] IN
    IF nr % WriteUnit # 0 THEN "INVALID_WRITE"
    ELSE IF ~SameZone(slba, nr) THEN "BOUNDARY"
    ELSE IF slba < zone.wp \/ slba + nr - 1 > zone.wp + 2 * ZrwaSize - 1 THEN "INVALID_WRITE"
    ELSE IF zone.state \in Unopened /\ is_zone_resource_full(f, "OPEN") THEN "NO_OPEN_ZONE"
    ELSE IF zone.state = "FULL" THEN "ERR_FULL"
    ELSE "SUCCESS"

(* Mutant: one LBA too many at the end of the zone.                        *)
ZrwaFlushBeyond(z, wp, elba) ==
    IF elba >= wp + ZrwaSize
    THEN ((elba - (wp + ZrwaSize) + ZrwafgSize) \div ZrwafgSize) * ZrwafgSize
    ELSE IF elba = zone_to_elba(z) THEN elba - wp + 2 ELSE 0

(* How far a write that ends at elba moves the window.                     *)
ZrwaFlush(z, wp, elba) ==
    IF elba >= wp + ZrwaSize
    THEN ((elba - (wp + ZrwaSize) + ZrwafgSize) \div ZrwafgSize) * ZrwafgSize
    ELSE IF elba = zone_to_elba(z) THEN elba - wp + 1 ELSE 0

(* A closed zone is charged for its window again; running out is a BUG.    *)
OpenForZrwaWrite(f, z) ==
    LET b == <<"zrwa", z>> IN
    IF f.zone[z].state \notin Unopened THEN f
    ELSE IF f.remaining[b] < ZrwaSize THEN [f EXCEPT !.fault = "zrwa_buffer"]
    ELSE [acquire_zone_resource(buffer_allocate(f, b, ZrwaSize), "OPEN")
             EXCEPT !.zone[z].state = "OPENED_IMPL"]

__zns_write_zrwa(f, z, slba, nr) ==
    LET b     == <<"zrwa", z>>
        wp    == f.zone[z].wp
        err   == ZrwaWriteError(f, z, slba, nr)
        g     == OpenForZrwaWrite(f, z)
        flush == ZrwaFlush(z, wp, slba + nr - 1)
        slpn  == lba_to_lpn(wp)
        rows  == {r \in Rows : LastPgOf(z, r) \in slpn .. slpn + flush \div SecsPerPg - 1}
    IN  IF err # "SUCCESS" THEN Refuse(f, err)
        ELSE IF g.fault # "none" \/ flush = 0 THEN g
        ELSE IF flush > ZrwaBufferSize THEN [g EXCEPT !.fault = "buffer_allocate"]
        ELSE IF g.remaining[b] < flush THEN [g EXCEPT !.again = TRUE]
        ELSE ProgramRows(__increase_write_ptr(buffer_allocate(g, b, flush), z, flush),
                         z, b, rows, [r \in rows |-> Oneshot])

zns_write(f, z, slba, nr) ==
    IF f.zone[z].zrwav THEN __zns_write_zrwa(f, z, slba, nr) ELSE __zns_write(f, z, slba, nr)

(* zns_read() has a status and a latency.                                  *)
zns_read(f, slba, nr) == IF SameZone(slba, nr) THEN f ELSE Refuse(f, "BOUNDARY")
-----------------------------------------------------------------------------
(* Zone management: src/zns_mgmt_send.c.                                   *)

close_zone(f, z) ==
    CASE f.zone[z].state \in Opened ->
            release_zone_resource([f EXCEPT !.zone[z].state = "CLOSED"], "OPEN")
      [] f.zone[z].state = "CLOSED" -> f
      [] OTHER -> Refuse(f, "INVALID_TRANSITION")

(* Mutant: gives OPEN back for a closed zone too.                          *)
ReleaseOpenOfClosed(f, z) ==
    LET g == release_zone_resource(release_zone_resource(f, "OPEN"), "ACTIVE")
    IN  IF f.zone[z].state \notin Active THEN f
        ELSE IF f.zone[z].zrwav THEN release_zone_resource(g, "ZRWA") ELSE g

(* What an active zone gives back when it stops being active.              *)
ReleaseAll(f, z) ==
    LET g == IF f.zone[z].state \in Opened THEN release_zone_resource(f, "OPEN") ELSE f
        h == release_zone_resource(g, "ACTIVE")
    IN  IF f.zone[z].state \notin Active THEN f
        ELSE IF f.zone[z].zrwav THEN release_zone_resource(h, "ZRWA") ELSE h

finish_zone(f, z) == Full(ReleaseAll(f, z), z)

open_zone(f, z, zrwa) ==
    LET state == f.zone[z].state
        g     == IF zrwa THEN acquire_zone_resource([f EXCEPT !.zone[z].zrwav = TRUE], "ZRWA")
                 ELSE f
        h     == IF state = "EMPTY" THEN acquire_zone_resource(g, "ACTIVE") ELSE f
        i     == IF state \in Unopened THEN acquire_zone_resource(h, "OPEN") ELSE h
    IN  IF state = "EMPTY" /\ is_zone_resource_full(f, "ACTIVE") THEN Refuse(f, "NO_ACTIVE_ZONE")
        ELSE IF state \in Unopened /\ is_zone_resource_full(f, "OPEN")
             THEN Refuse(f, "NO_OPEN_ZONE")
        ELSE IF state = "EMPTY" /\ zrwa /\ is_zone_resource_full(f, "ZRWA")
             THEN Refuse(f, "ZRWA_RSRC_UNAVAIL")
        ELSE IF state = "FULL" THEN Refuse(f, "INVALID_TRANSITION")
        ELSE [i EXCEPT !.zone[z].state = "OPENED_EXPL"]

(* Space a zone's unfinished one-shot page holds in the write buffer.      *)
Partial(f, z) ==
    IF f.zone[z].wp = zone_to_slba(z) + ZoneSize \/ f.zone[z].zrwav THEN 0
    ELSE (f.zone[z].wp - zone_to_slba(z)) % Oneshot

(* Mutant: the write pointer goes back to the start of the device.         *)
ResetToDeviceStart(f, z) ==
    [ReleaseAll(f, z) EXCEPT
        !.zone[z] = [state |-> "EMPTY", wp |-> 0, zrwav |-> FALSE],
        !.programs[z] = [r \in Rows |-> 0]]

(* __reset_zone() refills the ZRWA buffer only.                            *)
reset_zone(f, z) ==
    LET zbuf == <<"zrwa", z>>
        wb   == <<"wb", WriteBuffer(z)>>
    IN  [ReleaseAll(f, z) EXCEPT
            !.zone[z] = [state |-> "EMPTY", wp |-> zone_to_slba(z), zrwav |-> FALSE],
            !.remaining[zbuf] = IF ZrwaBufferSize > 0 THEN ZrwaBufferSize ELSE @,
            !.programs[z] = [r \in Rows |-> 0],
            !.lost[wb] = @ + Partial(f, z)]

(* No zone is ever READ_ONLY or OFFLINE.                                   *)
offline_zone(f, z) == Refuse(f, "INVALID_TRANSITION")

(* The window's end is computed in 64 bits: with ZrwaSize = 0 it wraps for *)
(* wp = 0, and the remainder that follows divides by zero.                 *)
flush_explicit_zrwa(f, slba) ==
    LET z    == lba_to_zone(slba)
        zone == f.zone[z]
        wend == zone.wp + ZrwaSize - 1
        end  == IF wend = -1 \/ wend > zone_to_elba(z) THEN zone_to_elba(z) ELSE wend
        g    == [f EXCEPT !.zone[z].wp = slba + 1]
    IN  IF ~zone.zrwav \/ slba \notin zone.wp .. end THEN Refuse(f, "INVALID_ZONE_OPERATION")
        ELSE IF ZrwafgSize = 0 THEN [f EXCEPT !.fault = "divide"]
        ELSE IF (slba - zone.wp + 1) % ZrwafgSize # 0 THEN Refuse(f, "INVALID_FIELD")
        ELSE IF zone.state \notin Active THEN Refuse(f, "INVALID_ZONE_OPERATION")
        ELSE IF slba = zone_to_elba(z) THEN Full(ReleaseAll(g, z), z)
        ELSE g

Mgmt == {"close", "finish", "open", "open_zrwa", "reset", "offline", "flush_zrwa"}

__zmgmt_send(f, op, slba) ==
    LET z == lba_to_zone(slba) IN
    CASE op = "close" -> close_zone(f, z)
      [] op = "finish" -> finish_zone(f, z)
      [] op = "open" -> open_zone(f, z, FALSE)
      [] op = "open_zrwa" -> open_zone(f, z, TRUE)
      [] op = "reset" -> reset_zone(f, z)
      [] op = "offline" -> offline_zone(f, z)
      [] op = "flush_zrwa" -> flush_explicit_zrwa(f, slba)

(* select_all runs the action on every zone and forgets the statuses.      *)
SelectAll(f, op) ==
    LET after[n \in 0 .. NrZones] ==
            IF n = 0 THEN f ELSE __zmgmt_send(after[n - 1], op, zone_to_slba(n - 1))
    IN  [after[NrZones] EXCEPT !.status = "SUCCESS"]

zns_zmgmt_send(f, op, slba, all) ==
    IF all THEN SelectAll(f, op) ELSE __zmgmt_send(f, op, slba)
-----------------------------------------------------------------------------
(* __fill_zone_report(): the number of zones in a report of which descs    *)
(* descriptors, header included, fit into the host's buffer.  The count is *)
(* unsigned: a buffer without room for the header makes it wrap.           *)
nr_zone_to_report(slba, descs, partial) ==
    LET left == NrZones - lba_to_zone(slba)
        want == IF partial THEN descs - 1 ELSE left
    IN  IF want \in 0 .. left THEN want ELSE left
-----------------------------------------------------------------------------
(* The host.  It does not touch a zone on which it has a command under way *)
(* (several appends excepted).  A host that makes no errors stays within   *)
(* the zone, writes at its write pointer or in its window, in write units, *)
(* and leaves full zones alone.                                            *)

DataOps == {"write", "append"}
Targets(c) == IF c.all THEN Zones ELSE {lba_to_zone(c.slba)}

CommandSet ==
    [op : Commands \cap (DataOps \cup {"read"}), slba : LBAs, nr : 1 .. MaxNr, all : {FALSE}]
    \cup [op : Commands \cap Mgmt, slba : LBAs, nr : {1}, all : BOOLEAN]
    \cup [op : Commands \cap {"report", "report_partial"}, slba : {zone_to_slba(z) : z \in Zones},
          nr : 0 .. NrZones + 1, all : {FALSE}]

Polite(c) ==
    LET zone == ftl.zone[lba_to_zone(c.slba)]
        slba == IF c.op = "append" THEN zone.wp ELSE c.slba
    IN  c.op \in DataOps =>
            /\ zone.state # "FULL" /\ SameZone(slba, c.nr) /\ c.nr % WriteUnit = 0
            /\ IF zone.zrwav THEN /\ c.op = "write"
                                 /\ slba >= zone.wp /\ slba + c.nr <= zone.wp + 2 * ZrwaSize
               ELSE slba = zone.wp

(* Zone management takes a zone's first LBA, the flush of a window any.    *)
WellFormed(c) ==
    /\ (c.op \in Mgmt \ {"flush_zrwa"} \/ c.op = "append") =>
            c.slba = zone_to_slba(lba_to_zone(c.slba))
    /\ c.all => c.slba = 0

Submit(c) ==
    /\ cmd = NoCmd
    /\ WellFormed(c)
    /\ HostMayErr \/ Polite(c)
    /\ \A w \in work : \/ w.zone \notin Targets(c)
                       \/ w.op = "append" /\ c.op = "append"
    /\ Cardinality(work) < MaxWork
    /\ \A b \in BufferNames, s \in ReleaseSizes : ftl.inflight[b][s] <= MaxReleases
    /\ TrackData => sent < MaxCmds
    /\ sent' = IF TrackData THEN sent + 1 ELSE sent
    /\ cmd' = [op |-> c.op, slba |-> c.slba, nr |-> c.nr, all |-> c.all,
                zone |-> lba_to_zone(c.slba), tag |-> sent']
    /\ UNCHANGED <<ftl, work, data, acked>>
-----------------------------------------------------------------------------
(* zns_proc_nvme_io_cmd() on the command at the head of the queue.  An     *)
(* append has its LBA replaced by the write pointer in the queue slot,     *)
(* unless the zone has a ZRWA.                                             *)
(* Management commands carry no data and are answered at once.             *)
proc_io_cmd(f, z, slba) ==
    CASE cmd.op \in DataOps -> zns_write(f, z, slba, cmd.nr)
      [] cmd.op = "read" -> zns_read(f, slba, cmd.nr)
      [] cmd.op \in Mgmt -> zns_zmgmt_send(f, cmd.op, slba, cmd.all)
      [] cmd.op \in {"report", "report_partial"} -> f

(* Mutant: the append's LBA is not stored in the queue slot.               *)
AnswerWithOldLba(f, slba) ==
    [op |-> cmd.op, slba |-> cmd.slba, nr |-> cmd.nr, zone |-> cmd.zone, tag |-> cmd.tag,
     status |-> f.status, nr_zones |-> 0]

Answer(f, slba) ==
    [op |-> cmd.op, slba |-> slba, nr |-> cmd.nr, zone |-> cmd.zone, tag |-> cmd.tag,
     status |-> f.status,
     nr_zones |-> IF cmd.op \in {"report", "report_partial"}
                  THEN nr_zone_to_report(slba, cmd.nr, cmd.op = "report_partial") ELSE 0]

Dispatch ==
    LET f    == [ftl EXCEPT !.status = "SUCCESS", !.again = FALSE]
        z    == lba_to_zone(cmd.slba)
        slba == IF cmd.op = "append" /\ z \in Zones /\ ~ftl.zone[z].zrwav
                THEN ftl.zone[z].wp ELSE cmd.slba
        g    == IF z \in Zones THEN proc_io_cmd(f, z, slba)
                ELSE [f EXCEPT !.fault = "zone_number"]
    IN  /\ cmd # NoCmd
        /\ ftl' = [g EXCEPT !.status = "SUCCESS", !.again = FALSE]
        /\ cmd' = IF g.again THEN [cmd EXCEPT !.slba = slba] ELSE NoCmd
        /\ work' = IF g.again \/ g.fault # "none" \/ cmd.op \in Mgmt THEN work
                   ELSE work \cup {Answer(g, slba)}
        /\ data' = [l \in LBAs |-> IF cmd.op = "reset" /\ lba_to_zone(l) \in Targets(cmd)
                                   THEN 0 ELSE data[l]]
        /\ acked' = [l \in LBAs |-> IF cmd.op = "reset" /\ lba_to_zone(l) \in Targets(cmd)
                                    THEN 0 ELSE acked[l]]
        /\ UNCHANGED sent

(* The worker moves the data of a command, whatever its status, and posts  *)
(* the completion.                                                         *)
Complete(w) ==
    LET written == IF w.op \in DataOps THEN w.slba .. w.slba + w.nr - 1 ELSE {}
    IN  /\ work' = work \ {w}
        /\ data' = [l \in LBAs |-> IF l \in written THEN w.tag ELSE data[l]]
        /\ acked' = [l \in LBAs |-> IF l \in written /\ w.status = "SUCCESS"
                                    THEN w.tag ELSE acked[l]]
        /\ UNCHANGED <<ftl, cmd, sent>>

(* An internal operation of the worker: buffer_release().                  *)
BufferRelease(b, size) ==
    /\ ftl.inflight[b][size] > 0
    /\ ftl' = [ftl EXCEPT !.inflight[b][size] = @ - 1, !.remaining[b] = @ + size]
    /\ UNCHANGED <<cmd, work, data, acked, sent>>

Next ==
    /\ ftl.fault = "none"
    /\ \/ \E c \in CommandSet : Submit(c)
       \/ Dispatch
       \/ \E w \in work : Complete(w)
       \/ \E b \in BufferNames, size \in ReleaseSizes : BufferRelease(b, size)

Spec == Init /\ [][Next]_vars

(* The dispatcher loops over the doorbells for ever, and each worker over  *)
(* its list; whether the host sends anything is up to the host.            *)
Fairness ==
    /\ WF_vars(Dispatch)
    /\ \A b \in BufferNames, size \in ReleaseSizes : WF_vars(BufferRelease(b, size))

FairSpec == Spec /\ Fairness
-----------------------------------------------------------------------------
(* Properties.                                                             *)

Count(S) == Cardinality(S)
ZonesIn(S) == {z \in Zones : ftl.zone[z].state \in S}

(* Types of the FTL's fields; a resource counter never goes below zero.    *)
TypeOK ==
    /\ ftl.zone \in [Zones -> [state : States, wp : 0 .. NrZones * ZoneSize, zrwav : BOOLEAN]]
    /\ ftl.acquired \in [{"ACTIVE", "OPEN", "ZRWA"} -> 0 .. NrZones]
    /\ ftl.remaining \in [BufferNames -> Nat]
    /\ data \in [LBAs -> Tags] /\ acked \in [LBAs -> Tags]

(* The counters that decide whether a zone may be opened are the numbers   *)
(* of open and of active zones, whatever sequence of writes, closes,       *)
(* finishes and resets led there (acquire/release_zone_resource()).        *)
OpenActiveExact ==
    /\ ftl.acquired["OPEN"] = Count(ZonesIn(Opened))
    /\ ftl.acquired["ACTIVE"] = Count(ZonesIn(Active))

(* Each ZRWA resource taken by open_zone() is held by an active zone with  *)
(* a window: it is given back when the zone stops being active.            *)
ZrwaExact == ftl.acquired["ZRWA"] = Count({z \in ZonesIn(Active) : ftl.zone[z].zrwav})

(* Both, with the types; without ZRWA support (ZrwaSize = 0) the number of *)
(* ZRWA resources is exact too, although open_zone() hands them out.       *)
ResourcesExact == TypeOK /\ OpenActiveExact /\ (ZrwaSize = 0 => ZrwaExact)

(* The write pointer stays in its zone; an EMPTY zone's is at the start,   *)
(* and one at the end belongs to a FULL zone (__increase_write_ptr()).     *)
WpTracksState ==
    \A z \in Zones :
        LET zone == ftl.zone[z] IN
        /\ zone.wp \in zone_to_slba(z) .. zone_to_slba(z + 1)
        /\ zone.state = "EMPTY" => zone.wp = zone_to_slba(z) /\ ~zone.zrwav
        /\ zone.wp = zone_to_slba(z + 1) => zone.state = "FULL"

(* Space of a write buffer is free, on its way back, held by unfinished    *)
(* one-shot pages, or lost to a refused write or a reset of an unfinished  *)
(* page; in particular it never grows beyond the buffer (__zns_write()).   *)
BufferAccounted ==
    \A b \in {"wb"} \X {WriteBuffer(z) : z \in Zones} :
        ftl.remaining[b] + ftl.lost[b]
        + SumFunctionOnSet([s \in ReleaseSizes |-> s * ftl.inflight[b][s]], ReleaseSizes)
        + SumFunctionOnSet([z \in Zones |-> IF WriteBuffer(z) = b[2] THEN Partial(ftl, z) ELSE 0],
                           Zones)
        = WbSize

(* Writes are collected until a one-shot page is complete: it is           *)
(* programmed once between two resets of its zone (__zns_write()).         *)
ProgramsOnce == \A z \in Zones, r \in Rows : ftl.programs[z][r] <= 1

(* No BUG, division by zero or access to a zone that does not exist stops  *)
(* the dispatcher.                                                         *)
NoFault == ftl.fault = "none"

(* Zones are written sequentially: what a successful write stored stays    *)
(* until its zone is reset: so of each step, whatever the host sends.       *)
KeepsAckedData ==
    \A l \in LBAs : acked[l] # 0 /\ acked'[l] # 0 => data'[l] = data[l]

(* An append that succeeds went to the zone the host named, however often  *)
(* the dispatcher had to run it.                                           *)
AppendsStayInZone ==
    \A w \in work : w.op = "append" /\ w.status = "SUCCESS" => lba_to_zone(w.slba) = w.zone

(* The command at the head of the queue is run again until it is taken:    *)
(* buffer space it waits for comes back.                                   *)
CommandAnswered == cmd # NoCmd ~> cmd = NoCmd
=============================================================================
