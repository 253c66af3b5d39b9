----------------------------- MODULE ZnsProofs ------------------------------
(***************************************************************************)
(* Zone resources, write pointers, buffer space and NAND programs of the   *)
(* zoned FTL, for every geometry and buffer size and whatever the host     *)
(* sends; and, at the end, the data of a host that makes no errors.        *)
(*                                                                         *)
(* A command is a function of the FTL's state, so most of the proof is     *)
(* about functions: Sound(f) implies Sound of the state after each         *)
(* operator, from the primitives over __zns_write(), __zns_write_zrwa()    *)
(* and the zone management up to proc_io_cmd(); the loop of select_all is  *)
(* followed by induction.  A step on a zone is split in two: ZoneMoves     *)
(* (states, write pointers, counters) and StoreMoves (buffers, programs).  *)
(*                                                                         *)
(* What is said of buffers and programs is said of Aligned devices, which  *)
(* take writes of whole pages only: so does the ZNS prototype, whose write *)
(* unit is a one-shot page.  The WD_ZN540 configuration takes single LBAs  *)
(* (WRITE_UNIT_SIZE 512); it behaves as an Aligned one does as long as the *)
(* host writes whole pages.                                                *)
(***************************************************************************)
EXTENDS Zns, SumLemmas

(* Types.                                                                  *)
Res == {"ACTIVE", "OPEN", "ZRWA"}
Statuses == {"SUCCESS", "INVALID_WRITE", "BOUNDARY", "NO_ACTIVE_ZONE", "NO_OPEN_ZONE", "ERR_FULL",
             "INVALID_TRANSITION", "ZRWA_RSRC_UNAVAIL", "INVALID_ZONE_OPERATION", "INVALID_FIELD"}
FaultKinds == {"none", "zrwa_buffer", "buffer_allocate", "divide", "zone_number"}
Zone == [state : States, wp : Nat, zrwav : BOOLEAN]
Ftl == [zone : [Zones -> Zone], acquired : [Res -> Int], remaining : [BufferNames -> Nat],
        inflight : [BufferNames -> [ReleaseSizes -> Nat]],
        programs : [Zones -> [Rows -> Nat]], lost : [BufferNames -> Nat],
        status : Statuses, again : BOOLEAN, fault : FaultKinds]

(* The constants are numbers, and so is what is computed from them.        *)
LEMMA Sizes ==
    /\ NrZones \in Nat \ {0} /\ ZoneSize \in Nat \ {0}
    /\ SecsPerPg \in Nat \ {0} /\ PgsPerOneshot \in Nat \ {0} /\ WriteUnit \in Nat \ {0}
    /\ ZoneWbSize \in Nat /\ GlobalWbSize \in Nat /\ WbSize \in Nat
    /\ ZrwaSize \in Nat /\ ZrwafgSize \in Nat /\ ZrwaBufferSize \in Nat
    /\ MaxNr \in Nat \ {0} /\ MaxCmds \in Nat
    /\ Oneshot \in Nat \ {0} /\ Unaligned \in 0 .. Oneshot - 1
    /\ ReleaseSizes \subseteq Nat \ {0}
<1>1. /\ NrZones \in Nat \ {0} /\ ZoneSize \in Nat \ {0}
      /\ SecsPerPg \in Nat \ {0} /\ PgsPerOneshot \in Nat \ {0} /\ WriteUnit \in Nat \ {0}
      /\ ZoneWbSize \in Nat /\ GlobalWbSize \in Nat
      /\ ZrwaSize \in Nat /\ ZrwafgSize \in Nat /\ ZrwaBufferSize \in Nat
      /\ MaxNr \in Nat \ {0} /\ MaxCmds \in Nat
  BY Geometry, Buffers, HostBounds
<1>2. SecsPerPg * PgsPerOneshot \in Nat \ {0}
  BY <1>1
<1>3. Oneshot \in Nat \ {0}
  BY <1>2 DEF Oneshot
<1>4. Unaligned \in 0 .. Oneshot - 1
  BY <1>1, <1>3 DEF Unaligned
<1>5. ReleaseSizes \subseteq Nat \ {0}
  BY <1>3, <1>4 DEF ReleaseSizes
<1> QED
  BY <1>1, <1>3, <1>4, <1>5 DEF WbSize

(* There are NrZones zones.                                                *)
LEMMA ZonesFinite == IsFiniteSet(Zones) /\ Cardinality(Zones) = NrZones /\ Zones \subseteq Nat
<1>1. NrZones - 1 \in Int /\ 0 <= NrZones - 1 /\ (NrZones - 1) - 0 + 1 = NrZones
  BY Sizes
<1>2. IsFiniteSet(0 .. NrZones - 1) /\ Cardinality(0 .. NrZones - 1) = NrZones
  BY <1>1, FS_Interval
<1> QED
  BY <1>1, <1>2 DEF Zones

(* Zone boundaries.                                                        *)
LEMMA Boundaries ==
    ASSUME NEW z \in Zones
    PROVE  /\ zone_to_slba(z) \in Nat /\ zone_to_slba(z + 1) = zone_to_slba(z) + ZoneSize
           /\ zone_to_elba(z) = zone_to_slba(z) + ZoneSize - 1
           /\ zone_to_slba(z) + ZoneSize <= NrZones * ZoneSize
           /\ NrZones * ZoneSize \in Nat
<1>1. z \in Nat /\ ZoneSize \in Nat \ {0} /\ NrZones \in Nat \ {0} /\ z + 1 <= NrZones
  BY Sizes DEF Zones
<1>2. z * ZoneSize \in Nat /\ (z + 1) * ZoneSize = z * ZoneSize + ZoneSize
  BY <1>1
<1>3. (z + 1) * ZoneSize <= NrZones * ZoneSize /\ NrZones * ZoneSize \in Nat
  <2>1. PICK k \in Nat : NrZones = (z + 1) + k
    <3>1. NrZones - (z + 1) \in Nat /\ NrZones = (z + 1) + (NrZones - (z + 1))
      BY <1>1
    <3> QED
      BY <3>1
  <2>2. NrZones * ZoneSize = (z + 1) * ZoneSize + k * ZoneSize /\ k * ZoneSize \in Nat
    BY <2>1, <1>1
  <2> QED
    BY <2>2, <1>1, <1>2
<1> QED
  BY <1>1, <1>2, <1>3 DEF zone_to_slba, zone_to_elba

(* An LBA belongs to the zone within whose boundaries it lies.             *)
LEMMA ZoneOfLba ==
    ASSUME NEW lba \in Nat, NEW z \in Zones
    PROVE  lba_to_zone(lba) = z <=> lba \in zone_to_slba(z) .. zone_to_slba(z) + ZoneSize - 1
<1>1. z \in Nat /\ ZoneSize \in Nat \ {0}
  BY Sizes DEF Zones
<1>2. PICK q \in Nat, r \in 0 .. ZoneSize - 1 : q = lba \div ZoneSize /\ lba = q * ZoneSize + r
  <2>1. /\ lba \div ZoneSize \in Nat /\ (lba % ZoneSize) \in 0 .. ZoneSize - 1
        /\ lba = (lba \div ZoneSize) * ZoneSize + (lba % ZoneSize)
    BY <1>1
  <2> QED
    BY <2>1
<1>3. z < q => z * ZoneSize + ZoneSize <= q * ZoneSize
  <2>1. SUFFICES ASSUME z < q
                 PROVE  z * ZoneSize + ZoneSize <= q * ZoneSize
    OBVIOUS
  <2>2. PICK k \in Nat : q = (z + 1) + k
    <3>1. q - (z + 1) \in Nat /\ q = (z + 1) + (q - (z + 1))
      BY <1>1, <2>1
    <3> QED
      BY <3>1
  <2>3. q * ZoneSize = z * ZoneSize + ZoneSize + k * ZoneSize /\ k * ZoneSize \in Nat /\ z * ZoneSize \in Nat
    BY <2>2, <1>1
  <2> QED
    BY <2>3, <1>1
<1>4. q < z => q * ZoneSize + ZoneSize <= z * ZoneSize
  <2>1. SUFFICES ASSUME q < z
                 PROVE  q * ZoneSize + ZoneSize <= z * ZoneSize
    OBVIOUS
  <2>2. PICK k \in Nat : z = (q + 1) + k
    <3>1. z - (q + 1) \in Nat /\ z = (q + 1) + (z - (q + 1))
      BY <1>1, <2>1
    <3> QED
      BY <3>1
  <2>3. z * ZoneSize = q * ZoneSize + ZoneSize + k * ZoneSize /\ k * ZoneSize \in Nat /\ q * ZoneSize \in Nat
    BY <2>2, <1>1
  <2> QED
    BY <2>3, <1>1
<1>5. q * ZoneSize \in Nat /\ z * ZoneSize \in Nat
  BY <1>1
<1>6. PICK a \in Nat, b \in Nat : a = q * ZoneSize /\ b = z * ZoneSize
  BY <1>5
<1>7. /\ lba = a + r /\ (z < q => b + ZoneSize <= a) /\ (q < z => a + ZoneSize <= b)
      /\ (q = z => a = b)
  BY <1>2, <1>3, <1>4, <1>6
<1>8. q = z <=> lba \in b .. b + ZoneSize - 1
  BY <1>7, <1>1
<1> QED
  BY <1>2, <1>6, <1>8 DEF lba_to_zone, zone_to_slba
-----------------------------------------------------------------------------
(* What the primitives change.                                             *)

Store(f) == <<f.remaining, f.inflight, f.programs, f.lost>>

(* acquire_zone_resource() raises one counter.                             *)
LEMMA Acquire ==
    ASSUME NEW f \in Ftl, NEW r \in Res, NEW g, g = acquire_zone_resource(f, r)
    PROVE  /\ g \in Ftl /\ g.zone = f.zone /\ Store(g) = Store(f)
           /\ g.acquired[r] = f.acquired[r] + 1
           /\ \A s \in Res : s # r => g.acquired[s] = f.acquired[s]
<1>1. PICK a : a = [f.acquired EXCEPT ![r] = f.acquired[r] + 1]
  OBVIOUS
<1>2. f.acquired \in [Res -> Int]
  BY DEF Ftl
<1>3. /\ a \in [Res -> Int] /\ a[r] = f.acquired[r] + 1
      /\ \A s \in Res : s # r => a[s] = f.acquired[s]
  BY <1>1, <1>2
<1>4. g = [f EXCEPT !.acquired = a]
  BY <1>1 DEF acquire_zone_resource
<1>5. g \in Ftl /\ g.acquired = a /\ g.zone = f.zone /\ Store(g) = Store(f)
  BY <1>3, <1>4 DEF Ftl, Store
<1> QED
  BY <1>3, <1>5

(* release_zone_resource() lowers one counter.                             *)
LEMMA Release ==
    ASSUME NEW f \in Ftl, NEW r \in Res, NEW g, g = release_zone_resource(f, r)
    PROVE  /\ g \in Ftl /\ g.zone = f.zone /\ Store(g) = Store(f)
           /\ g.acquired[r] = f.acquired[r] - 1
           /\ \A s \in Res : s # r => g.acquired[s] = f.acquired[s]
<1>1. PICK a : a = [f.acquired EXCEPT ![r] = f.acquired[r] - 1]
  OBVIOUS
<1>2. f.acquired \in [Res -> Int]
  BY DEF Ftl
<1>3. /\ a \in [Res -> Int] /\ a[r] = f.acquired[r] - 1
      /\ \A s \in Res : s # r => a[s] = f.acquired[s]
  BY <1>1, <1>2
<1>4. g = [f EXCEPT !.acquired = a]
  BY <1>1 DEF release_zone_resource
<1>5. g \in Ftl /\ g.acquired = a /\ g.zone = f.zone /\ Store(g) = Store(f)
  BY <1>3, <1>4 DEF Ftl, Store
<1> QED
  BY <1>3, <1>5

WithZone(f, z, zn) == [f EXCEPT !.zone[z] = zn]

(* A store to a zone's descriptor.                                         *)
LEMMA SetZone ==
    ASSUME NEW f \in Ftl, NEW z \in Zones, NEW zn \in Zone, NEW g, g = WithZone(f, z, zn)
    PROVE  /\ g \in Ftl /\ g.acquired = f.acquired /\ Store(g) = Store(f)
           /\ g.zone[z] = zn /\ \A y \in Zones : y # z => g.zone[y] = f.zone[y]
<1>1. PICK zs : zs = [f.zone EXCEPT ![z] = zn]
  OBVIOUS
<1>2. /\ zs \in [Zones -> Zone] /\ zs[z] = zn
      /\ \A y \in Zones : y # z => zs[y] = f.zone[y]
  BY <1>1 DEF Ftl
<1>3. g = [f EXCEPT !.zone = zs]
  BY <1>1 DEF WithZone
<1>4. g \in Ftl /\ g.acquired = f.acquired /\ g.zone = zs
  BY <1>2, <1>3 DEF Ftl
<1>5. Store(g) = Store(f)
  BY <1>3 DEF Ftl, Store
<1> QED
  BY <1>2, <1>4, <1>5

WithState(f, z, st) == [f EXCEPT !.zone[z].state = st]
WithWp(f, z, w) == [f EXCEPT !.zone[z].wp = w]

(* change_zone_state() changes one zone's state.                           *)
LEMMA SetState ==
    ASSUME NEW f \in Ftl, NEW z \in Zones, NEW st \in States, NEW g, g = WithState(f, z, st)
    PROVE  /\ g \in Ftl /\ g.acquired = f.acquired /\ Store(g) = Store(f)
           /\ g.zone[z].state = st /\ g.zone[z].wp = f.zone[z].wp
           /\ g.zone[z].zrwav = f.zone[z].zrwav
           /\ \A y \in Zones : y # z => g.zone[y] = f.zone[y]
<1>0. f.zone[z] \in Zone
  BY DEF Ftl
<1>1. PICK zn : zn = [f.zone[z] EXCEPT !.state = st]
  OBVIOUS
<1>2. /\ zn \in Zone /\ zn.state = st /\ zn.wp = f.zone[z].wp /\ zn.zrwav = f.zone[z].zrwav
  BY <1>0, <1>1 DEF Zone
<1>3. g = WithZone(f, z, zn)
  BY <1>1 DEF WithState, WithZone
<1>z. zn \in Zone
  BY <1>2
<1>4. /\ g \in Ftl /\ g.acquired = f.acquired /\ Store(g) = Store(f)
      /\ g.zone[z] = zn /\ \A y \in Zones : y # z => g.zone[y] = f.zone[y]
  BY <1>z, <1>3, SetZone
<1> QED
  BY <1>2, <1>4

(* A store to a zone's write pointer.                                      *)
LEMMA SetWp ==
    ASSUME NEW f \in Ftl, NEW z \in Zones, NEW w \in Nat, NEW g, g = WithWp(f, z, w)
    PROVE  /\ g \in Ftl /\ g.acquired = f.acquired /\ Store(g) = Store(f)
           /\ g.zone[z].state = f.zone[z].state /\ g.zone[z].wp = w
           /\ g.zone[z].zrwav = f.zone[z].zrwav
           /\ \A y \in Zones : y # z => g.zone[y] = f.zone[y]
<1>0. f.zone[z] \in Zone
  BY DEF Ftl
<1>1. PICK zn : zn = [f.zone[z] EXCEPT !.wp = w]
  OBVIOUS
<1>2. /\ zn \in Zone /\ zn.state = f.zone[z].state /\ zn.wp = w /\ zn.zrwav = f.zone[z].zrwav
  BY <1>0, <1>1 DEF Zone
<1>3. g = WithZone(f, z, zn)
  BY <1>1 DEF WithWp, WithZone
<1>z. zn \in Zone
  BY <1>2
<1>4. /\ g \in Ftl /\ g.acquired = f.acquired /\ Store(g) = Store(f)
      /\ g.zone[z] = zn /\ \A y \in Zones : y # z => g.zone[y] = f.zone[y]
  BY <1>z, <1>3, SetZone
<1> QED
  BY <1>2, <1>4

WithWindow(f, z) == [f EXCEPT !.zone[z].zrwav = TRUE]

(* open_zone() gives a zone its window.                                    *)
LEMMA SetWindow ==
    ASSUME NEW f \in Ftl, NEW z \in Zones, NEW g, g = WithWindow(f, z)
    PROVE  /\ g \in Ftl /\ g.acquired = f.acquired /\ Store(g) = Store(f)
           /\ g.zone[z].state = f.zone[z].state /\ g.zone[z].wp = f.zone[z].wp
           /\ g.zone[z].zrwav
           /\ \A y \in Zones : y # z => g.zone[y] = f.zone[y]
<1>0. f.zone[z] \in Zone
  BY DEF Ftl
<1>1. PICK zn : zn = [f.zone[z] EXCEPT !.zrwav = TRUE]
  OBVIOUS
<1>2. /\ zn \in Zone /\ zn.state = f.zone[z].state /\ zn.wp = f.zone[z].wp /\ zn.zrwav = TRUE
  BY <1>0, <1>1 DEF Zone
<1>3. g = WithZone(f, z, zn)
  BY <1>1 DEF WithWindow, WithZone
<1>z. zn \in Zone
  BY <1>2
<1>4. /\ g \in Ftl /\ g.acquired = f.acquired /\ Store(g) = Store(f)
      /\ g.zone[z] = zn /\ \A y \in Zones : y # z => g.zone[y] = f.zone[y]
  BY <1>z, <1>3, SetZone
<1> QED
  BY <1>2, <1>4

(* buffer_allocate() takes space that is there.                            *)
LEMMA Allocate ==
    ASSUME NEW f \in Ftl, NEW b \in BufferNames, NEW size \in Nat, size <= f.remaining[b],
           NEW g, g = buffer_allocate(f, b, size)
    PROVE  /\ g \in Ftl /\ g.zone = f.zone /\ g.acquired = f.acquired
           /\ g.inflight = f.inflight /\ g.programs = f.programs /\ g.lost = f.lost
           /\ g.remaining[b] = f.remaining[b] - size
           /\ \A c \in BufferNames : c # b => g.remaining[c] = f.remaining[c]
<1>1. PICK a : a = [f.remaining EXCEPT ![b] = f.remaining[b] - size]
  OBVIOUS
<1>2. f.remaining \in [BufferNames -> Nat]
  BY DEF Ftl
<1>3. /\ a \in [BufferNames -> Nat] /\ a[b] = f.remaining[b] - size
      /\ \A c \in BufferNames : c # b => a[c] = f.remaining[c]
  BY <1>1, <1>2
<1>4. g = [f EXCEPT !.remaining = a]
  BY <1>1 DEF buffer_allocate
<1>5. /\ g \in Ftl /\ g.zone = f.zone /\ g.acquired = f.acquired
      /\ g.inflight = f.inflight /\ g.programs = f.programs /\ g.lost = f.lost
      /\ g.remaining = a
  BY <1>3, <1>4 DEF Ftl
<1> QED
  BY <1>3, <1>5

(* Status, retry and fault are all that changes.                           *)
Quiet(f, g) == g \in Ftl /\ g.zone = f.zone /\ g.acquired = f.acquired /\ Store(g) = Store(f)

Retry(f) == [f EXCEPT !.again = TRUE]
Faulty(f, what) == [f EXCEPT !.fault = what]
Marked(f, status, again) == [f EXCEPT !.status = status, !.again = again]

(* A refused command leaves nothing but its status.                        *)
LEMMA Refused ==
    ASSUME NEW f \in Ftl, NEW s \in Statuses
    PROVE  Quiet(f, Refuse(f, s))
  BY DEF Ftl, Store, Quiet, Refuse

(* A fault changes nothing else.                                           *)
LEMMA Faults ==
    ASSUME NEW f \in Ftl, NEW s \in FaultKinds
    PROVE  Quiet(f, Faulty(f, s))
  BY DEF Ftl, Store, Quiet, Faulty

(* A command that must wait changes nothing else.                          *)
LEMMA Waits ==
    ASSUME NEW f \in Ftl
    PROVE  Quiet(f, Retry(f)) /\ Quiet(f, f)
  BY DEF Ftl, Store, Quiet, Retry

(* The dispatcher clears the answer of the last command.                   *)
LEMMA Marks ==
    ASSUME NEW f \in Ftl, NEW s \in Statuses, NEW x \in BOOLEAN
    PROVE  Quiet(f, Marked(f, s, x))
  BY DEF Ftl, Store, Quiet, Marked

(* NAND programs.                                                          *)
LEMMA Programming ==
    ASSUME NEW f \in Ftl, NEW z \in Zones, NEW b \in BufferNames, NEW rows, IsFiniteSet(rows),
           NEW size, NEW g, g = ProgramRows(f, z, b, rows, size)
    PROVE  /\ g \in Ftl /\ g.zone = f.zone /\ g.acquired = f.acquired
           /\ g.remaining = f.remaining /\ g.lost = f.lost
           /\ \A r \in Rows : g.programs[z][r] = f.programs[z][r] + IF r \in rows THEN 1 ELSE 0
           /\ \A y \in Zones : y # z => g.programs[y] = f.programs[y]
           /\ \A s \in ReleaseSizes :
                 /\ Cardinality({r \in rows : size[r] = s}) \in Nat
                 /\ g.inflight[b][s] = f.inflight[b][s] + Cardinality({r \in rows : size[r] = s})
           /\ \A c \in BufferNames : c # b => g.inflight[c] = f.inflight[c]
<1>1. PICK n : n = [s \in ReleaseSizes |-> Cardinality({r \in rows : size[r] = s})]
  OBVIOUS
<1>2. n \in [ReleaseSizes -> Nat]
  <2>1. \A s \in ReleaseSizes : IsFiniteSet({r \in rows : size[r] = s})
    BY FS_Subset
  <2> QED
    BY <2>1, <1>1, FS_CardinalityType
<1>3. PICK p : p = [r \in Rows |-> f.programs[z][r] + IF r \in rows THEN 1 ELSE 0]
  OBVIOUS
<1>4. PICK i : i = [s \in ReleaseSizes |-> f.inflight[b][s] + n[s]]
  OBVIOUS
<1>5. f.programs[z] \in [Rows -> Nat] /\ f.inflight[b] \in [ReleaseSizes -> Nat]
  BY DEF Ftl
<1>6. p \in [Rows -> Nat] /\ i \in [ReleaseSizes -> Nat]
  BY <1>2, <1>3, <1>4, <1>5
<1>7. PICK ps : ps = [f.programs EXCEPT ![z] = p]
  OBVIOUS
<1>8. PICK is : is = [f.inflight EXCEPT ![b] = i]
  OBVIOUS
<1>9. /\ ps \in [Zones -> [Rows -> Nat]] /\ is \in [BufferNames -> [ReleaseSizes -> Nat]]
      /\ ps[z] = p /\ is[b] = i
      /\ \A y \in Zones : y # z => ps[y] = f.programs[y]
      /\ \A c \in BufferNames : c # b => is[c] = f.inflight[c]
  BY <1>6, <1>7, <1>8 DEF Ftl
<1>10. g = [f EXCEPT !.programs = ps, !.inflight = is]
  <2>1. i = [s \in ReleaseSizes |->
                f.inflight[b][s] + Cardinality({r \in rows : size[r] = s})]
    BY <1>1, <1>4
  <2> QED
    BY <2>1, <1>3, <1>7, <1>8 DEF ProgramRows
<1>11. /\ g \in Ftl /\ g.zone = f.zone /\ g.acquired = f.acquired
       /\ g.remaining = f.remaining /\ g.lost = f.lost
       /\ g.programs = ps /\ g.inflight = is
  BY <1>9, <1>10 DEF Ftl
<1>12. /\ \A r \in Rows : g.programs[z][r] = f.programs[z][r] + IF r \in rows THEN 1 ELSE 0
       /\ \A s \in ReleaseSizes : g.inflight[b][s] = f.inflight[b][s] + n[s]
  BY <1>3, <1>4, <1>9, <1>11
<1> QED
  BY <1>1, <1>2, <1>9, <1>11, <1>12
-----------------------------------------------------------------------------
(* The invariant.                                                          *)

(* Writes are whole pages.                                                 *)
Aligned == (WriteUnit % SecsPerPg) = 0
One(x) == IF x THEN 1 ELSE 0

In(f, S) == {z \in Zones : f.zone[z].state \in S}
HasWindow(zn) == zn.state \in Active /\ zn.zrwav
Windows(f) == {z \in Zones : HasWindow(f.zone[z])}

(* OPEN and ACTIVE are exact; a write that fills a zone with a window      *)
(* keeps the zone's ZRWA resource.                                         *)
Counters(f) ==
    /\ f.acquired["OPEN"] = Cardinality(In(f, Opened))
    /\ f.acquired["ACTIVE"] = Cardinality(In(f, Active))
    /\ Cardinality(Windows(f)) <= f.acquired["ZRWA"] /\ f.acquired["ZRWA"] <= NrZones
    /\ ZrwaSize = 0 => f.acquired["ZRWA"] = Cardinality(Windows(f))

(* The write pointer is in the zone and agrees with its state.             *)
WpSound(zn, z) ==
    /\ zn.wp \in zone_to_slba(z) .. zone_to_slba(z) + ZoneSize
    /\ zn.state = "EMPTY" => zn.wp = zone_to_slba(z) /\ ~zn.zrwav
    /\ zn.wp = zone_to_slba(z) + ZoneSize => zn.state = "FULL"

(* A zone without window is written by whole pages.                        *)
PageSound(zn, z) == Aligned /\ ~zn.zrwav => \E k \in Nat : zn.wp = zone_to_slba(z) + SecsPerPg * k

(* What is programmed lies before the write pointer.                       *)
RowsSound(f, z) ==
    Aligned => \A r \in Rows :
        /\ f.programs[z][r] <= 1
        /\ f.programs[z][r] # 0 /\ f.zone[z].state # "FULL" =>
              zone_to_slba(z) + (r + 1) * Oneshot <= f.zone[z].wp

(* Space of a buffer: free, lost, on its way back, in unfinished pages.    *)
Returning(f, b) == SumFunctionOnSet([s \in ReleaseSizes |-> s * f.inflight[b][s]], ReleaseSizes)
Held(f, b) == [z \in Zones |-> IF WriteBuffer(z) = b[2] THEN Partial(f, z) ELSE 0]
WriteBuffers == {"wb"} \X {WriteBuffer(z) : z \in Zones}
Space(f, b) == f.remaining[b] + f.lost[b] + Returning(f, b)
Balanced(f) ==
    Aligned => \A b \in WriteBuffers : Space(f, b) + SumFunctionOnSet(Held(f, b), Zones) = WbSize

Sound(f) ==
    /\ f \in Ftl /\ Counters(f) /\ Balanced(f)
    /\ \A z \in Zones : WpSound(f.zone[z], z) /\ PageSound(f.zone[z], z) /\ RowsSound(f, z)

(* A command does one step on one zone at a time: the counters follow the  *)
(* zone's state, ...                                                       *)
ZoneMoves(f, g, z) ==
    /\ g \in Ftl
    /\ \A y \in Zones : y # z => g.zone[y] = f.zone[y]
    /\ WpSound(g.zone[z], z)
    /\ g.acquired["OPEN"] = f.acquired["OPEN"] + One(g.zone[z].state \in Opened)
                                               - One(f.zone[z].state \in Opened)
    /\ g.acquired["ACTIVE"] = f.acquired["ACTIVE"] + One(g.zone[z].state \in Active)
                                                   - One(f.zone[z].state \in Active)
    /\ f.acquired["ZRWA"] + One(HasWindow(g.zone[z]))
         <= g.acquired["ZRWA"] + One(HasWindow(f.zone[z]))
    /\ g.acquired["ZRWA"] <= NrZones
    /\ ZrwaSize = 0 => f.acquired["ZRWA"] + One(HasWindow(g.zone[z]))
                         = g.acquired["ZRWA"] + One(HasWindow(f.zone[z]))

(* ... and what it takes from or gives to the zone's buffer is in the      *)
(* zone's unfinished page, on its way back, or lost.                       *)
StoreMoves(f, g, z) ==
    /\ PageSound(g.zone[z], z) /\ RowsSound(g, z)
    /\ \A y \in Zones : y # z => g.programs[y] = f.programs[y]
    /\ Aligned => LET b == <<"wb", WriteBuffer(z)>> IN
                  Space(g, b) + Partial(g, z) = Space(f, b) + Partial(f, z)
    /\ \A b \in WriteBuffers : b # <<"wb", WriteBuffer(z)>> =>
          g.remaining[b] = f.remaining[b] /\ g.lost[b] = f.lost[b] /\ g.inflight[b] = f.inflight[b]

(* The size of a set of zones after a step on one zone.                    *)
LEMMA CountMoves ==
    ASSUME NEW S \in SUBSET Zones, NEW T \in SUBSET Zones, NEW z \in Zones,
           \A y \in Zones : y # z => (y \in S <=> y \in T)
    PROVE  /\ Cardinality(S) \in Nat /\ Cardinality(T) \in Nat /\ Cardinality(T) <= NrZones
           /\ Cardinality(T) = Cardinality(S) + One(z \in T) - One(z \in S)
<1>1. /\ IsFiniteSet(S) /\ IsFiniteSet(T) /\ Cardinality(S) \in Nat /\ Cardinality(T) \in Nat
      /\ Cardinality(T) <= NrZones
  BY ZonesFinite, FS_Subset, FS_CardinalityType
<1>2. CASE z \in S /\ z \notin T
  <2>1. T = S \ {z}
    BY <1>2
  <2> QED
    BY <2>1, <1>1, <1>2, FS_RemoveElement DEF One
<1>3. CASE z \notin S /\ z \in T
  <2>1. T = S \cup {z}
    BY <1>3
  <2> QED
    BY <2>1, <1>1, <1>3, FS_AddElement DEF One
<1>4. CASE z \in S <=> z \in T
  <2>1. S = T
    BY <1>4
  <2> QED
    BY <2>1, <1>1 DEF One
<1> QED
  BY <1>2, <1>3, <1>4

(* A step that moves the counters with its zone keeps them exact.          *)
LEMMA CountersMove ==
    ASSUME NEW f \in Ftl, NEW g, NEW z \in Zones, Counters(f), ZoneMoves(f, g, z)
    PROVE  Counters(g)
<1>0. f.acquired \in [Res -> Int] /\ g.acquired \in [Res -> Int] /\ NrZones \in Nat
  BY Sizes DEF Ftl, ZoneMoves
<1>1. /\ f.acquired["OPEN"] \in Int /\ f.acquired["ACTIVE"] \in Int /\ f.acquired["ZRWA"] \in Int
      /\ g.acquired["OPEN"] \in Int /\ g.acquired["ACTIVE"] \in Int /\ g.acquired["ZRWA"] \in Int
  BY <1>0 DEF Res
<1>2. ASSUME NEW Q
      PROVE  /\ Cardinality(In(f, Q)) \in Nat /\ Cardinality(In(g, Q)) \in Nat
             /\ Cardinality(In(g, Q)) = Cardinality(In(f, Q)) + One(g.zone[z].state \in Q)
                                          - One(f.zone[z].state \in Q)
  <2>1. /\ In(f, Q) \in SUBSET Zones /\ In(g, Q) \in SUBSET Zones
        /\ \A y \in Zones : y # z => (y \in In(f, Q) <=> y \in In(g, Q))
        /\ z \in In(f, Q) <=> f.zone[z].state \in Q
        /\ z \in In(g, Q) <=> g.zone[z].state \in Q
    BY DEF In, ZoneMoves
  <2>2. /\ Cardinality(In(f, Q)) \in Nat /\ Cardinality(In(g, Q)) \in Nat
        /\ Cardinality(In(g, Q)) = Cardinality(In(f, Q)) + One(z \in In(g, Q)) - One(z \in In(f, Q))
    BY <2>1, CountMoves
  <2> QED
    BY <2>1, <2>2 DEF One
<1>3. /\ Cardinality(Windows(f)) \in Nat /\ Cardinality(Windows(g)) \in Nat
      /\ Cardinality(Windows(g)) = Cardinality(Windows(f)) + One(HasWindow(g.zone[z]))
                                     - One(HasWindow(f.zone[z]))
  <2>1. /\ Windows(f) \in SUBSET Zones /\ Windows(g) \in SUBSET Zones
        /\ \A y \in Zones : y # z => (y \in Windows(f) <=> y \in Windows(g))
        /\ z \in Windows(f) <=> HasWindow(f.zone[z])
        /\ z \in Windows(g) <=> HasWindow(g.zone[z])
    BY DEF Windows, ZoneMoves
  <2>2. /\ Cardinality(Windows(f)) \in Nat /\ Cardinality(Windows(g)) \in Nat
        /\ Cardinality(Windows(g)) = Cardinality(Windows(f)) + One(z \in Windows(g))
                                       - One(z \in Windows(f))
    BY <2>1, CountMoves
  <2> QED
    BY <2>1, <2>2 DEF One
<1>4. g.acquired["OPEN"] = Cardinality(In(g, Opened)) /\ g.acquired["ACTIVE"] = Cardinality(In(g, Active))
  BY <1>2 DEF Counters, ZoneMoves
<1>5. One(HasWindow(g.zone[z])) \in Int /\ One(HasWindow(f.zone[z])) \in Int
  BY DEF One
<1>6. /\ Cardinality(Windows(g)) <= g.acquired["ZRWA"] /\ g.acquired["ZRWA"] <= NrZones
      /\ ZrwaSize = 0 => g.acquired["ZRWA"] = Cardinality(Windows(g))
  BY <1>0, <1>1, <1>3, <1>5 DEF Counters, ZoneMoves
<1> QED
  BY <1>4, <1>6 DEF Counters

(* The buffers of writes and of windows are different ones.                *)
LEMMA BufferFacts ==
    /\ IsFiniteSet(ReleaseSizes)
    /\ \A z \in Zones : WriteBuffer(z) \in Zones /\ <<"wb", WriteBuffer(z)>> \in WriteBuffers
                        /\ <<"zrwa", z>> \in BufferNames
    /\ WriteBuffers \subseteq BufferNames
    /\ \A b \in WriteBuffers : b = <<"wb", b[2]>> /\ \A z \in Zones : b # <<"zrwa", z>>
<1>1. IsFiniteSet(ReleaseSizes)
  <2>1. IsFiniteSet({Oneshot, Unaligned})
    <3>1. IsFiniteSet({Oneshot})
      BY FS_Singleton
    <3>2. IsFiniteSet({Oneshot} \cup {Unaligned})
      BY <3>1, FS_AddElement
    <3>3. {Oneshot, Unaligned} = {Oneshot} \cup {Unaligned}
      OBVIOUS
    <3> QED
      BY <3>2, <3>3
  <2> QED
    BY <2>1, FS_Subset DEF ReleaseSizes
<1>2. \A z \in Zones : WriteBuffer(z) \in Zones
  BY Sizes DEF WriteBuffer, Zones
<1> QED
  BY <1>1, <1>2 DEF WriteBuffers, BufferNames

(* Space is counted in numbers.                                            *)
LEMMA SpaceType ==
    ASSUME NEW f \in Ftl, NEW b \in BufferNames
    PROVE  /\ f.remaining[b] \in Nat /\ f.lost[b] \in Nat /\ Returning(f, b) \in Int
           /\ Space(f, b) \in Int
           /\ \A s \in ReleaseSizes : s * f.inflight[b][s] \in Nat /\ f.inflight[b][s] \in Nat
<1>1. f.remaining[b] \in Nat /\ f.lost[b] \in Nat /\ f.inflight[b] \in [ReleaseSizes -> Nat]
  BY DEF Ftl
<1>2. ASSUME NEW s \in ReleaseSizes
      PROVE  s * f.inflight[b][s] \in Nat /\ f.inflight[b][s] \in Nat
  <2>1. PICK n \in Nat : n = f.inflight[b][s]
    BY <1>1
  <2>2. s \in Nat
    BY Sizes
  <2>3. s * n \in Nat
    BY <2>2
  <2> QED
    BY <2>1, <2>3
<1>3. Returning(f, b) \in Int
  <2> DEFINE a == [s \in ReleaseSizes |-> s * f.inflight[b][s]]
  <2>1. \A s \in ReleaseSizes : a[s] \in Int
    BY <1>2
  <2> HIDE DEF a
  <2>2. SumFunctionOnSet(a, ReleaseSizes) \in Int
    BY <2>1, BufferFacts, SumRemove
  <2> QED
    BY <2>2 DEF a, Returning
<1> QED
  BY <1>1, <1>2, <1>3 DEF Space

(* An unfinished one-shot page holds less than a whole one.                *)
LEMMA PartialType ==
    ASSUME NEW f, NEW z \in Zones, WpSound(f.zone[z], z)
    PROVE  Partial(f, z) \in Nat /\ Partial(f, z) < Oneshot
<1>1. PICK s \in Nat : s = zone_to_slba(z)
  BY Boundaries
<1>2. f.zone[z].wp - s \in Nat
  BY <1>1, Sizes DEF WpSound
<1> QED
  BY <1>1, <1>2, Sizes DEF Partial

(* A step that conserves its zone's space conserves the buffer's: zones    *)
(* that share the buffer hold what they held.                              *)
LEMMA BalanceMoves ==
    ASSUME NEW f \in Ftl, NEW g, NEW z \in Zones, Sound(f), ZoneMoves(f, g, z), StoreMoves(f, g, z),
           Aligned, NEW b \in WriteBuffers
    PROVE  Space(g, b) + SumFunctionOnSet(Held(g, b), Zones) = WbSize
<1>0. \A y \in Zones : WpSound(f.zone[y], y) /\ WpSound(g.zone[y], y)
  BY DEF Sound, ZoneMoves
<1>1. \A y \in Zones : Partial(f, y) \in Nat /\ Partial(g, y) \in Nat
  BY <1>0, PartialType
<1>2. \A y \in Zones : y # z => Partial(g, y) = Partial(f, y)
  BY DEF Partial, ZoneMoves
<1>3. PICK h : h = Held(f, b)
  OBVIOUS
<1>4. PICK i : i = Held(g, b)
  OBVIOUS
<1>5. /\ \A y \in Zones : h[y] \in Int /\ i[y] \in Int
      /\ \A y \in Zones : y # z => i[y] = h[y]
      /\ h[z] = IF WriteBuffer(z) = b[2] THEN Partial(f, z) ELSE 0
      /\ i[z] = IF WriteBuffer(z) = b[2] THEN Partial(g, z) ELSE 0
  BY <1>1, <1>2, <1>3, <1>4 DEF Held
<1>6. SumFunctionOnSet(i, Zones) = SumFunctionOnSet(h, Zones) - h[z] + i[z]
  <2>1. \A y \in Zones \ {z} : i[y] = h[y]
    BY <1>5
  <2>2. i[z] \in Int /\ \A y \in Zones : h[y] \in Int
    BY <1>5
  <2>3. IsFiniteSet(Zones)
    BY ZonesFinite
  <2> QED
    BY <2>1, <2>2, <2>3, SumUpdate
<1>7. SumFunctionOnSet(h, Zones) \in Int
  BY <1>5, ZonesFinite, SumRemove
<1>8. b \in BufferNames /\ g \in Ftl
  BY BufferFacts DEF ZoneMoves
<1>9. Space(f, b) \in Int /\ Space(g, b) \in Int /\ WbSize \in Nat
  BY <1>8, SpaceType, Sizes
<1>10. Space(f, b) + SumFunctionOnSet(h, Zones) = WbSize
  BY <1>3 DEF Sound, Balanced
<1>11. CASE b = <<"wb", WriteBuffer(z)>>
  <2>1. Space(g, b) + Partial(g, z) = Space(f, b) + Partial(f, z)
    BY <1>11 DEF StoreMoves
  <2>2. b[2] = WriteBuffer(z)
    BY <1>11
  <2> QED
    BY <2>1, <2>2, <1>1, <1>4, <1>5, <1>6, <1>7, <1>9, <1>10
<1>12. CASE b # <<"wb", WriteBuffer(z)>>
  <2>1. b[2] # WriteBuffer(z)
    BY <1>12, BufferFacts
  <2>2. g.remaining[b] = f.remaining[b] /\ g.lost[b] = f.lost[b] /\ g.inflight[b] = f.inflight[b]
    BY <1>12 DEF StoreMoves
  <2>3. Space(g, b) = Space(f, b)
    BY <2>2 DEF Space, Returning
  <2> QED
    BY <2>1, <2>3, <1>4, <1>5, <1>6, <1>7, <1>9, <1>10
<1> QED
  BY <1>11, <1>12

(* Both together: a step on one zone keeps the invariant.                  *)
LEMMA StepSound ==
    ASSUME NEW f, NEW g, NEW z \in Zones, Sound(f), ZoneMoves(f, g, z), StoreMoves(f, g, z)
    PROVE  Sound(g)
<1>1. f \in Ftl /\ g \in Ftl /\ Counters(f)
  BY DEF Sound, ZoneMoves
<1>2. Counters(g)
  BY <1>1, CountersMove
<1>3. Balanced(g)
  BY <1>1, BalanceMoves DEF Balanced
<1>4. ASSUME NEW y \in Zones, y # z
      PROVE  WpSound(g.zone[y], y) /\ PageSound(g.zone[y], y) /\ RowsSound(g, y)
  <2>1. g.zone[y] = f.zone[y] /\ g.programs[y] = f.programs[y]
    BY <1>4 DEF ZoneMoves, StoreMoves
  <2>2. WpSound(f.zone[y], y) /\ PageSound(f.zone[y], y) /\ RowsSound(f, y)
    BY DEF Sound
  <2> QED
    BY <2>1, <2>2 DEF RowsSound
<1>5. WpSound(g.zone[z], z) /\ PageSound(g.zone[z], z) /\ RowsSound(g, z)
  BY DEF ZoneMoves, StoreMoves
<1> QED
  BY <1>1, <1>2, <1>3, <1>4, <1>5 DEF Sound

(* A quiet step keeps everything.                                          *)
LEMMA QuietSound ==
    ASSUME NEW f, NEW g, Sound(f), Quiet(f, g)
    PROVE  Sound(g)
<1>1. /\ g \in Ftl /\ g.zone = f.zone /\ g.acquired = f.acquired
      /\ g.remaining = f.remaining /\ g.inflight = f.inflight
      /\ g.programs = f.programs /\ g.lost = f.lost
  BY DEF Quiet, Store
<1>2. Counters(g)
  BY <1>1 DEF Sound, Counters, In, Windows
<1>3. \A z \in Zones : WpSound(g.zone[z], z) /\ PageSound(g.zone[z], z) /\ RowsSound(g, z)
  BY <1>1 DEF Sound, RowsSound
<1>4. Balanced(g)
  BY <1>1 DEF Sound, Balanced, Space, Returning, Held, Partial
<1> QED
  BY <1>1, <1>2, <1>3, <1>4 DEF Sound
-----------------------------------------------------------------------------
(* Zone management.                                                        *)

(* What the invariant says of one zone.                                    *)
LEMMA ZoneFacts ==
    ASSUME NEW f, NEW z \in Zones, Sound(f)
    PROVE  /\ f \in Ftl /\ f.zone[z] \in Zone /\ f.zone[z].state \in States
           /\ f.zone[z].wp \in Nat /\ f.zone[z].zrwav \in BOOLEAN
           /\ WpSound(f.zone[z], z) /\ PageSound(f.zone[z], z) /\ RowsSound(f, z)
           /\ f.acquired["OPEN"] \in Int /\ f.acquired["ACTIVE"] \in Int
           /\ f.acquired["ZRWA"] \in Int /\ f.acquired["ZRWA"] <= NrZones
<1>1. f \in Ftl
  BY DEF Sound
<1>2. f.zone[z] \in Zone /\ f.acquired \in [Res -> Int]
  BY <1>1 DEF Ftl
<1>3. f.zone[z].state \in States /\ f.zone[z].wp \in Nat /\ f.zone[z].zrwav \in BOOLEAN
  BY <1>2 DEF Zone
<1> QED
  BY <1>1, <1>2, <1>3 DEF Res, Sound, Counters

(* Nothing is written or given back: the zone keeps its write pointer, or  *)
(* has a window.                                                           *)
LEMMA StoreStays ==
    ASSUME NEW f, NEW g, NEW z \in Zones, Sound(f), g \in Ftl, Store(g) = Store(f),
           g.zone[z].state # "FULL" => f.zone[z].state # "FULL",
           f.zone[z].wp <= g.zone[z].wp,
           \/ g.zone[z].wp = f.zone[z].wp /\ g.zone[z].zrwav = f.zone[z].zrwav
           \/ g.zone[z].zrwav /\ (f.zone[z].zrwav \/ f.zone[z].wp = zone_to_slba(z))
    PROVE  StoreMoves(f, g, z)
<1>1. /\ g.remaining = f.remaining /\ g.inflight = f.inflight
      /\ g.programs = f.programs /\ g.lost = f.lost
  BY DEF Store
<1>2. PageSound(g.zone[z], z)
  BY ZoneFacts DEF PageSound
<1>3. RowsSound(g, z)
  <2>1. SUFFICES ASSUME Aligned, NEW r \in Rows
                 PROVE  /\ g.programs[z][r] <= 1
                        /\ g.programs[z][r] # 0 /\ g.zone[z].state # "FULL" =>
                              zone_to_slba(z) + (r + 1) * Oneshot <= g.zone[z].wp
    BY DEF RowsSound
  <2>2. PICK e \in Int : e = zone_to_slba(z) + (r + 1) * Oneshot
    <3>1. r \in Int
      BY DEF Rows
    <3>2. (r + 1) * Oneshot \in Int
      BY <3>1, Sizes
    <3> QED
      BY <3>2, Boundaries
  <2>3. f.zone[z].wp \in Nat /\ g.zone[z].wp \in Nat
    <3>1. g.zone[z] \in Zone
      BY DEF Ftl
    <3> QED
      BY <3>1, ZoneFacts DEF Zone
  <2>4. /\ f.programs[z][r] <= 1
        /\ f.programs[z][r] # 0 /\ f.zone[z].state # "FULL" => e <= f.zone[z].wp
    BY <2>1, <2>2, ZoneFacts DEF RowsSound
  <2> QED
    BY <1>1, <2>2, <2>3, <2>4
<1>4. Partial(g, z) = Partial(f, z)
  <2>1. CASE g.zone[z].wp = f.zone[z].wp /\ g.zone[z].zrwav = f.zone[z].zrwav
    BY <2>1 DEF Partial
  <2>2. CASE g.zone[z].zrwav /\ f.zone[z].zrwav
    BY <2>2 DEF Partial
  <2>3. CASE g.zone[z].zrwav /\ f.zone[z].wp = zone_to_slba(z)
    <3>1. zone_to_slba(z) \in Nat /\ f.zone[z].wp - zone_to_slba(z) = 0
      BY <2>3, Boundaries
    <3>2. 0 % Oneshot = 0
      BY Sizes
    <3> QED
      BY <2>3, <3>1, <3>2 DEF Partial
  <2> QED
    BY <2>1, <2>2, <2>3
<1>5. \A b : Space(g, b) = Space(f, b)
  BY <1>1 DEF Space, Returning
<1> QED
  BY <1>1, <1>2, <1>3, <1>4, <1>5 DEF StoreMoves

(* ReleaseAll gives back what the zone counts for.                         *)
LEMMA ReleasedAll ==
    ASSUME NEW f, NEW z \in Zones, f \in Ftl, NEW h, h = ReleaseAll(f, z)
    PROVE  /\ h \in Ftl /\ h.zone = f.zone /\ Store(h) = Store(f)
           /\ h.acquired["OPEN"] = f.acquired["OPEN"] - One(f.zone[z].state \in Opened)
           /\ h.acquired["ACTIVE"] = f.acquired["ACTIVE"] - One(f.zone[z].state \in Active)
           /\ h.acquired["ZRWA"] = f.acquired["ZRWA"] - One(HasWindow(f.zone[z]))
<1>0. /\ f.acquired["OPEN"] \in Int /\ f.acquired["ACTIVE"] \in Int /\ f.acquired["ZRWA"] \in Int
  <2>1. f.acquired \in [Res -> Int]
    BY DEF Ftl
  <2> QED
    BY <2>1 DEF Res
<1>o. "OPEN" \in Res
  BY DEF Res
<1>a. "ACTIVE" \in Res
  BY DEF Res
<1>w. "ZRWA" \in Res
  BY DEF Res
<1>1. CASE f.zone[z].state \notin Active
  <2>1. h = f /\ f.zone[z].state \notin Opened
    BY <1>1 DEF ReleaseAll, Active
  <2> QED
    BY <2>1, <1>0, <1>1 DEF One, HasWindow
<1>2. CASE f.zone[z].state \in Active
  <2>1. PICK o : o = IF f.zone[z].state \in Opened THEN release_zone_resource(f, "OPEN") ELSE f
    OBVIOUS
  <2>2. /\ o \in Ftl /\ o.zone = f.zone /\ Store(o) = Store(f)
        /\ o.acquired["OPEN"] = f.acquired["OPEN"] - One(f.zone[z].state \in Opened)
        /\ o.acquired["ACTIVE"] = f.acquired["ACTIVE"] /\ o.acquired["ZRWA"] = f.acquired["ZRWA"]
    <3>1. CASE f.zone[z].state \in Opened
      <4>1. o = release_zone_resource(f, "OPEN")
        BY <3>1, <2>1
      <4>2. /\ o \in Ftl /\ o.zone = f.zone /\ Store(o) = Store(f)
            /\ o.acquired["OPEN"] = f.acquired["OPEN"] - 1
            /\ \A s \in Res : s # "OPEN" => o.acquired[s] = f.acquired[s]
        BY <4>1, <1>o, Release
      <4> QED
        BY <4>2, <3>1, <1>a, <1>w DEF One
    <3>2. CASE f.zone[z].state \notin Opened
      BY <3>2, <2>1, <1>0 DEF One
    <3> QED
      BY <3>1, <3>2
  <2>3. PICK a : a = release_zone_resource(o, "ACTIVE")
    OBVIOUS
  <2>4. /\ a \in Ftl /\ a.zone = f.zone /\ Store(a) = Store(f)
        /\ a.acquired["ACTIVE"] = f.acquired["ACTIVE"] - 1
        /\ a.acquired["OPEN"] = o.acquired["OPEN"] /\ a.acquired["ZRWA"] = f.acquired["ZRWA"]
    <3>1. /\ a \in Ftl /\ a.zone = o.zone /\ Store(a) = Store(o)
          /\ a.acquired["ACTIVE"] = o.acquired["ACTIVE"] - 1
          /\ \A s \in Res : s # "ACTIVE" => a.acquired[s] = o.acquired[s]
      BY <2>2, <2>3, <1>a, Release
    <3> QED
      BY <3>1, <2>2, <1>o, <1>w
  <2>5. CASE f.zone[z].zrwav
    <3>1. h = release_zone_resource(a, "ZRWA")
      BY <2>1, <2>3, <2>5, <1>2 DEF ReleaseAll
    <3>2. /\ h \in Ftl /\ h.zone = f.zone /\ Store(h) = Store(f)
          /\ h.acquired["ZRWA"] = f.acquired["ZRWA"] - 1
          /\ h.acquired["OPEN"] = o.acquired["OPEN"]
          /\ h.acquired["ACTIVE"] = f.acquired["ACTIVE"] - 1
      <4>1. /\ h \in Ftl /\ h.zone = a.zone /\ Store(h) = Store(a)
            /\ h.acquired["ZRWA"] = a.acquired["ZRWA"] - 1
            /\ \A s \in Res : s # "ZRWA" => h.acquired[s] = a.acquired[s]
        BY <3>1, <2>4, <1>w, Release
      <4> QED
        BY <4>1, <2>4, <1>o, <1>a
    <3> QED
      BY <3>2, <2>2, <2>5, <1>2 DEF One, HasWindow
  <2>6. CASE ~f.zone[z].zrwav
    <3>1. h = a
      BY <2>1, <2>3, <2>6, <1>2 DEF ReleaseAll
    <3> QED
      BY <3>1, <2>2, <2>4, <2>6, <1>0, <1>2 DEF One, HasWindow
  <2> QED
    BY <2>5, <2>6
<1> QED
  BY <1>1, <1>2

(* A zone becomes FULL once it has given back what it held.                *)
LEMMA FullSound ==
    ASSUME NEW f, NEW h, NEW z \in Zones, Sound(f), h \in Ftl, Store(h) = Store(f),
           \A y \in Zones : y # z => h.zone[y] = f.zone[y],
           h.zone[z].wp \in f.zone[z].wp .. zone_to_slba(z) + ZoneSize,
           h.zone[z].wp = f.zone[z].wp \/ f.zone[z].zrwav,
           h.zone[z].zrwav = f.zone[z].zrwav,
           h.acquired["OPEN"] = f.acquired["OPEN"] - One(f.zone[z].state \in Opened),
           h.acquired["ACTIVE"] = f.acquired["ACTIVE"] - One(f.zone[z].state \in Active),
           h.acquired["ZRWA"] = f.acquired["ZRWA"] - One(HasWindow(f.zone[z]))
    PROVE  Sound(Full(h, z))
<1>1. PICK g : g = WithState(h, z, "FULL")
  OBVIOUS
<1>2. g = Full(h, z)
  BY <1>1 DEF Full, WithState
<1>3. "FULL" \in States
  BY DEF States
<1>4. /\ g \in Ftl /\ g.acquired = h.acquired /\ Store(g) = Store(f)
      /\ g.zone[z].state = "FULL" /\ g.zone[z].wp = h.zone[z].wp
      /\ g.zone[z].zrwav = f.zone[z].zrwav
      /\ \A y \in Zones : y # z => g.zone[y] = f.zone[y]
  <2>1. /\ g \in Ftl /\ g.acquired = h.acquired /\ Store(g) = Store(h)
        /\ g.zone[z].state = "FULL" /\ g.zone[z].wp = h.zone[z].wp
        /\ g.zone[z].zrwav = h.zone[z].zrwav
        /\ \A y \in Zones : y # z => g.zone[y] = h.zone[y]
    BY <1>1, <1>3, SetState
  <2> QED
    BY <2>1
<1>5. ZoneMoves(f, g, z)
  <2>1. WpSound(g.zone[z], z)
    <3>1. f.zone[z].wp \in Nat /\ zone_to_slba(z) <= f.zone[z].wp /\ zone_to_slba(z) \in Nat
      BY ZoneFacts, Boundaries, Sizes DEF WpSound
    <3> QED
      BY <3>1, <1>4, Sizes DEF WpSound
  <2>2. g.zone[z].state \notin Opened /\ g.zone[z].state \notin Active /\ ~HasWindow(g.zone[z])
    BY <1>4 DEF Opened, Active, HasWindow
  <2>3. NrZones \in Nat
    BY Sizes
  <2> QED
    BY <1>4, <2>1, <2>2, <2>3, ZoneFacts DEF ZoneMoves, One
<1>6. StoreMoves(f, g, z)
  <2>1. f.zone[z].wp <= g.zone[z].wp
    BY <1>4
  <2> QED
    BY <1>4, <2>1, StoreStays
<1> QED
  BY <1>2, <1>5, <1>6, StepSound

(* Finish: __zmgmt_send_finish_zone().                                     *)
LEMMA FinishSound ==
    ASSUME NEW f, NEW z \in Zones, Sound(f)
    PROVE  Sound(finish_zone(f, z))
<1>1. PICK h : h = ReleaseAll(f, z)
  OBVIOUS
<1>2. /\ h \in Ftl /\ h.zone = f.zone /\ Store(h) = Store(f)
      /\ h.acquired["OPEN"] = f.acquired["OPEN"] - One(f.zone[z].state \in Opened)
      /\ h.acquired["ACTIVE"] = f.acquired["ACTIVE"] - One(f.zone[z].state \in Active)
      /\ h.acquired["ZRWA"] = f.acquired["ZRWA"] - One(HasWindow(f.zone[z]))
  BY <1>1, ZoneFacts, ReleasedAll
<1>3. h.zone[z].wp \in f.zone[z].wp .. zone_to_slba(z) + ZoneSize
  <2>1. f.zone[z].wp \in Nat /\ f.zone[z].wp <= zone_to_slba(z) + ZoneSize /\ zone_to_slba(z) \in Nat
    BY ZoneFacts, Boundaries, Sizes DEF WpSound
  <2> QED
    BY <2>1, <1>2, Sizes
<1>4. Sound(Full(h, z))
  BY <1>2, <1>3, FullSound
<1> QED
  BY <1>1, <1>4 DEF finish_zone

(* Close: __zmgmt_send_close_zone().                                       *)
LEMMA CloseSound ==
    ASSUME NEW f, NEW z \in Zones, Sound(f)
    PROVE  Sound(close_zone(f, z))
<1>1. CASE f.zone[z].state \in Opened
  <2>1. PICK h : h = WithState(f, z, "CLOSED")
    OBVIOUS
  <2>2. "CLOSED" \in States
    BY DEF States
  <2>3. f \in Ftl
    BY DEF Sound
  <2>4. /\ h \in Ftl /\ h.acquired = f.acquired /\ Store(h) = Store(f)
        /\ h.zone[z].state = "CLOSED" /\ h.zone[z].wp = f.zone[z].wp
        /\ h.zone[z].zrwav = f.zone[z].zrwav
        /\ \A y \in Zones : y # z => h.zone[y] = f.zone[y]
    BY <2>1, <2>2, <2>3, SetState
  <2>5. PICK g : g = release_zone_resource(h, "OPEN")
    OBVIOUS
  <2>6. g = close_zone(f, z)
    BY <1>1, <2>1, <2>5 DEF close_zone, WithState, Opened
  <2>7. /\ g \in Ftl /\ g.zone = h.zone /\ Store(g) = Store(h)
        /\ g.acquired["OPEN"] = h.acquired["OPEN"] - 1
        /\ \A s \in Res : s # "OPEN" => g.acquired[s] = h.acquired[s]
    <3>1. "OPEN" \in Res
      BY DEF Res
    <3> QED
      BY <2>4, <2>5, <3>1, Release
  <2>8. g.acquired["ACTIVE"] = f.acquired["ACTIVE"] /\ g.acquired["ZRWA"] = f.acquired["ZRWA"]
    BY <2>4, <2>7 DEF Res
  <2>9. ZoneMoves(f, g, z)
    <3>1. WpSound(g.zone[z], z)
      <4>1. WpSound(f.zone[z], z) /\ f.zone[z].state # "FULL"
        BY <1>1, ZoneFacts DEF Opened
      <4> QED
        BY <4>1, <2>4, <2>7 DEF WpSound
    <3>2. /\ g.zone[z].state \notin Opened /\ g.zone[z].state \in Active
          /\ f.zone[z].state \in Active /\ (HasWindow(g.zone[z]) <=> HasWindow(f.zone[z]))
      BY <1>1, <2>4, <2>7 DEF Opened, Active, HasWindow
    <3>3. NrZones \in Nat
      BY Sizes
    <3> QED
      BY <1>1, <2>4, <2>7, <2>8, <3>1, <3>2, <3>3, ZoneFacts DEF ZoneMoves, One
  <2>10. StoreMoves(f, g, z)
    <3>1. f.zone[z].wp <= g.zone[z].wp /\ Store(g) = Store(f)
      BY <2>4, <2>7, ZoneFacts
    <3>2. f.zone[z].state # "FULL"
      BY <1>1 DEF Opened
    <3> QED
      BY <2>4, <2>7, <3>1, <3>2, StoreStays
  <2> QED
    BY <2>6, <2>9, <2>10, StepSound
<1>2. CASE f.zone[z].state \notin Opened
  <2>1. f \in Ftl
    BY DEF Sound
  <2>2. Quiet(f, Refuse(f, "INVALID_TRANSITION")) /\ Quiet(f, f)
    <3>1. "INVALID_TRANSITION" \in Statuses
      BY DEF Statuses
    <3> QED
      BY <2>1, <3>1, Refused, Waits
  <2>3. close_zone(f, z) = f \/ close_zone(f, z) = Refuse(f, "INVALID_TRANSITION")
    BY <1>2 DEF close_zone
  <2>4. Quiet(f, close_zone(f, z))
    BY <2>2, <2>3
  <2> QED
    BY <2>4, QuietSound
<1> QED
  BY <1>1, <1>2

(* Refusing a command keeps the invariant.                                 *)
LEMMA RefuseSound ==
    ASSUME NEW f, Sound(f), NEW s \in Statuses
    PROVE  Sound(Refuse(f, s))
<1>1. f \in Ftl
  BY DEF Sound
<1>2. Quiet(f, Refuse(f, s))
  BY <1>1, Refused
<1> QED
  BY <1>2, QuietSound

(* So does a fault.                                                        *)
LEMMA FaultSound ==
    ASSUME NEW f, Sound(f), NEW s \in FaultKinds
    PROVE  Sound(Faulty(f, s))
<1>1. f \in Ftl
  BY DEF Sound
<1>2. Quiet(f, Faulty(f, s))
  BY <1>1, Faults
<1> QED
  BY <1>2, QuietSound

(* What open_zone() does first for a zone with a window.                   *)
LEMMA TakesWindow ==
    ASSUME NEW f \in Ftl, NEW z \in Zones, NEW k,
           k = acquire_zone_resource(WithWindow(f, z), "ZRWA")
    PROVE  /\ k \in Ftl /\ Store(k) = Store(f)
           /\ k.zone[z].state = f.zone[z].state /\ k.zone[z].wp = f.zone[z].wp
           /\ k.zone[z].zrwav
           /\ \A y \in Zones : y # z => k.zone[y] = f.zone[y]
           /\ k.acquired["ZRWA"] = f.acquired["ZRWA"] + 1
           /\ k.acquired["OPEN"] = f.acquired["OPEN"] /\ k.acquired["ACTIVE"] = f.acquired["ACTIVE"]
<1>1. PICK j : j = WithWindow(f, z)
  OBVIOUS
<1>2. /\ j \in Ftl /\ j.acquired = f.acquired /\ Store(j) = Store(f)
      /\ j.zone[z].state = f.zone[z].state /\ j.zone[z].wp = f.zone[z].wp
      /\ j.zone[z].zrwav
      /\ \A y \in Zones : y # z => j.zone[y] = f.zone[y]
  BY <1>1, SetWindow
<1>3. k = acquire_zone_resource(j, "ZRWA")
  BY <1>1
<1>4. "ZRWA" \in Res
  BY DEF Res
<1>5. /\ k \in Ftl /\ k.zone = j.zone /\ Store(k) = Store(j)
      /\ k.acquired["ZRWA"] = j.acquired["ZRWA"] + 1
      /\ \A s \in Res : s # "ZRWA" => k.acquired[s] = j.acquired[s]
  BY <1>2, <1>3, <1>4, Acquire
<1>6. k.acquired["OPEN"] = j.acquired["OPEN"] /\ k.acquired["ACTIVE"] = j.acquired["ACTIVE"]
  BY <1>5 DEF Res
<1> QED
  BY <1>2, <1>5, <1>6

(* A zone that takes ACTIVE, OPEN and perhaps a window.                    *)
LEMMA TakesActive ==
    ASSUME NEW f, NEW z \in Zones, Sound(f), f.zone[z].state = "EMPTY", NEW zrwa \in BOOLEAN,
           zrwa => f.acquired["ZRWA"] # NrZones, NEW st \in Opened, NEW k,
           k = IF zrwa THEN acquire_zone_resource(WithWindow(f, z), "ZRWA") ELSE f,
           NEW g, g = WithState(acquire_zone_resource(acquire_zone_resource(k, "ACTIVE"), "OPEN"), z, st)
    PROVE  Sound(g)
<1>o. "OPEN" \in Res
  BY DEF Res
<1>a. "ACTIVE" \in Res
  BY DEF Res
<1>w. "ZRWA" \in Res
  BY DEF Res
<1>s. st \in States
  BY DEF Opened, States
<1>0. f \in Ftl /\ ~f.zone[z].zrwav /\ f.zone[z].wp = zone_to_slba(z)
  BY ZoneFacts DEF WpSound
<1>1. /\ k \in Ftl /\ Store(k) = Store(f) /\ k.zone[z].state = "EMPTY"
      /\ k.zone[z].wp = f.zone[z].wp /\ k.zone[z].zrwav = zrwa
      /\ \A y \in Zones : y # z => k.zone[y] = f.zone[y]
      /\ k.acquired["OPEN"] = f.acquired["OPEN"] /\ k.acquired["ACTIVE"] = f.acquired["ACTIVE"]
      /\ k.acquired["ZRWA"] = f.acquired["ZRWA"] + One(zrwa)
  <2>1. CASE ~zrwa
    <3>1. k = f /\ k.zone[z].zrwav = FALSE
      BY <2>1, <1>0, ZoneFacts
    <3> QED
      BY <2>1, <3>1, <1>0, ZoneFacts DEF One
  <2>2. CASE zrwa
    <3>1. k = acquire_zone_resource(WithWindow(f, z), "ZRWA")
      BY <2>2
    <3>2. /\ k \in Ftl /\ Store(k) = Store(f)
          /\ k.zone[z].state = f.zone[z].state /\ k.zone[z].wp = f.zone[z].wp
          /\ k.zone[z].zrwav
          /\ \A y \in Zones : y # z => k.zone[y] = f.zone[y]
          /\ k.acquired["ZRWA"] = f.acquired["ZRWA"] + 1
          /\ k.acquired["OPEN"] = f.acquired["OPEN"] /\ k.acquired["ACTIVE"] = f.acquired["ACTIVE"]
      BY <3>1, <1>0, TakesWindow
    <3>3. k.zone[z] \in Zone
      BY <3>2 DEF Ftl
    <3>4. k.zone[z].zrwav = zrwa
      BY <2>2, <3>2, <3>3 DEF Zone
    <3> QED
      BY <2>2, <3>2, <3>4 DEF One
  <2> QED
    BY <2>1, <2>2
<1>2. PICK i : i = acquire_zone_resource(k, "ACTIVE")
  OBVIOUS
<1>3. /\ i \in Ftl /\ i.zone = k.zone /\ Store(i) = Store(k)
      /\ i.acquired["ACTIVE"] = k.acquired["ACTIVE"] + 1
      /\ \A s \in Res : s # "ACTIVE" => i.acquired[s] = k.acquired[s]
  BY <1>1, <1>2, <1>a, Acquire
<1>4. PICK h : h = acquire_zone_resource(i, "OPEN")
  OBVIOUS
<1>5. /\ h \in Ftl /\ h.zone = i.zone /\ Store(h) = Store(i)
      /\ h.acquired["OPEN"] = i.acquired["OPEN"] + 1
      /\ \A s \in Res : s # "OPEN" => h.acquired[s] = i.acquired[s]
  BY <1>3, <1>4, <1>o, Acquire
<1>6. /\ h.acquired["OPEN"] = f.acquired["OPEN"] + 1 /\ h.acquired["ACTIVE"] = f.acquired["ACTIVE"] + 1
      /\ h.acquired["ZRWA"] = f.acquired["ZRWA"] + One(zrwa)
  BY <1>1, <1>3, <1>5, <1>o, <1>a, <1>w
<1>7. /\ g \in Ftl /\ g.acquired = h.acquired /\ Store(g) = Store(h)
      /\ g.zone[z].state = st /\ g.zone[z].wp = h.zone[z].wp
      /\ g.zone[z].zrwav = h.zone[z].zrwav
      /\ \A y \in Zones : y # z => g.zone[y] = h.zone[y]
  <2>1. g = WithState(h, z, st)
    BY <1>2, <1>4
  <2>2. h \in Ftl
    BY <1>5
  <2> QED
    BY <2>1, <2>2, <1>s, SetState
<1>8. /\ Store(g) = Store(f) /\ g.zone[z].wp = f.zone[z].wp /\ g.zone[z].zrwav = zrwa
      /\ \A y \in Zones : y # z => g.zone[y] = f.zone[y]
  BY <1>1, <1>3, <1>5, <1>7
<1>9. ZoneMoves(f, g, z)
  <2>1. WpSound(g.zone[z], z)
    <3>1. WpSound(f.zone[z], z) /\ st # "FULL" /\ st # "EMPTY"
      BY ZoneFacts DEF Opened
    <3> QED
      BY <3>1, <1>7, <1>8 DEF WpSound
  <2>2. /\ g.zone[z].state \in Opened /\ g.zone[z].state \in Active
        /\ f.zone[z].state \notin Opened /\ f.zone[z].state \notin Active
    BY <1>7 DEF Opened, Active
  <2>3. (HasWindow(g.zone[z]) <=> zrwa) /\ ~HasWindow(f.zone[z])
    BY <2>2, <1>8 DEF HasWindow
  <2>4. NrZones \in Nat
    BY Sizes
  <2>5. One(zrwa) \in {0, 1} /\ (~zrwa => One(zrwa) = 0) /\ f.acquired["ZRWA"] + One(zrwa) <= NrZones
    BY <2>4, ZoneFacts DEF One
  <2>6. One(HasWindow(g.zone[z])) = One(zrwa) /\ One(HasWindow(f.zone[z])) = 0
    BY <2>3 DEF One
  <2>7. /\ One(g.zone[z].state \in Opened) = 1 /\ One(g.zone[z].state \in Active) = 1
        /\ One(f.zone[z].state \in Opened) = 0 /\ One(f.zone[z].state \in Active) = 0
    BY <2>2 DEF One
  <2> QED
    BY <1>6, <1>7, <1>8, <2>1, <2>4, <2>5, <2>6, <2>7, ZoneFacts DEF ZoneMoves
<1>10. StoreMoves(f, g, z)
  <2>1. f.zone[z].wp <= g.zone[z].wp /\ f.zone[z].state # "FULL"
    BY <1>8, ZoneFacts
  <2>2. \/ g.zone[z].wp = f.zone[z].wp /\ g.zone[z].zrwav = f.zone[z].zrwav
        \/ g.zone[z].zrwav /\ (f.zone[z].zrwav \/ f.zone[z].wp = zone_to_slba(z))
    BY <1>0, <1>8, ZoneFacts
  <2> QED
    BY <1>7, <1>8, <2>1, <2>2, StoreStays
<1> QED
  BY <1>9, <1>10, StepSound

(* An active zone that is opened, and takes OPEN if it was closed.         *)
LEMMA TakesOpen ==
    ASSUME NEW f, NEW z \in Zones, Sound(f), f.zone[z].state \in Active, NEW st \in Opened, NEW k,
           k = IF f.zone[z].state = "CLOSED" THEN acquire_zone_resource(f, "OPEN") ELSE f,
           NEW g, g = WithState(k, z, st)
    PROVE  Sound(g) /\ g.zone[z].state = st /\ g.zone[z].wp = f.zone[z].wp
           /\ g.zone[z].zrwav = f.zone[z].zrwav /\ Store(g) = Store(f)
<1>o. "OPEN" \in Res
  BY DEF Res
<1>a. "ACTIVE" \in Res /\ "ZRWA" \in Res
  BY DEF Res
<1>s. st \in States
  BY DEF Opened, States
<1>0. f \in Ftl
  BY ZoneFacts
<1>1. /\ k \in Ftl /\ k.zone = f.zone /\ Store(k) = Store(f)
      /\ k.acquired["OPEN"] = f.acquired["OPEN"] + One(f.zone[z].state = "CLOSED")
      /\ k.acquired["ACTIVE"] = f.acquired["ACTIVE"] /\ k.acquired["ZRWA"] = f.acquired["ZRWA"]
  <2>1. CASE f.zone[z].state = "CLOSED"
    <3>1. /\ k \in Ftl /\ k.zone = f.zone /\ Store(k) = Store(f)
          /\ k.acquired["OPEN"] = f.acquired["OPEN"] + 1
          /\ \A s \in Res : s # "OPEN" => k.acquired[s] = f.acquired[s]
      <4>1. k = acquire_zone_resource(f, "OPEN")
        BY <2>1
      <4> QED
        BY <4>1, <1>0, <1>o, Acquire
    <3> QED
      BY <2>1, <3>1, <1>a DEF One
  <2>2. CASE f.zone[z].state # "CLOSED"
    BY <2>2, <1>0, ZoneFacts DEF One
  <2> QED
    BY <2>1, <2>2
<1>2. /\ g \in Ftl /\ g.acquired = k.acquired /\ Store(g) = Store(k)
      /\ g.zone[z].state = st /\ g.zone[z].wp = k.zone[z].wp
      /\ g.zone[z].zrwav = k.zone[z].zrwav
      /\ \A y \in Zones : y # z => g.zone[y] = k.zone[y]
  <2>1. k \in Ftl
    BY <1>1
  <2> QED
    BY <2>1, <1>s, SetState
<1>3. /\ Store(g) = Store(f) /\ g.zone[z].wp = f.zone[z].wp /\ g.zone[z].zrwav = f.zone[z].zrwav
      /\ \A y \in Zones : y # z => g.zone[y] = f.zone[y]
  BY <1>1, <1>2
<1>4. ZoneMoves(f, g, z)
  <2>1. WpSound(g.zone[z], z)
    <3>1. WpSound(f.zone[z], z) /\ st # "FULL" /\ st # "EMPTY" /\ f.zone[z].state # "FULL"
      BY ZoneFacts DEF Opened, Active
    <3> QED
      BY <3>1, <1>2, <1>3 DEF WpSound
  <2>2. /\ One(g.zone[z].state \in Opened) = 1 /\ One(g.zone[z].state \in Active) = 1
        /\ One(f.zone[z].state \in Opened) = 1 - One(f.zone[z].state = "CLOSED")
        /\ One(f.zone[z].state \in Active) = 1
    BY <1>2 DEF One, Opened, Active
  <2>3. One(HasWindow(g.zone[z])) = One(HasWindow(f.zone[z])) /\ One(HasWindow(f.zone[z])) \in Int
    <3>1. g.zone[z].state \in Active /\ f.zone[z].state \in Active
      BY <1>2 DEF Opened, Active
    <3>2. HasWindow(g.zone[z]) <=> HasWindow(f.zone[z])
      BY <1>3, <3>1 DEF HasWindow
    <3> QED
      BY <3>2 DEF One
  <2>4. NrZones \in Nat /\ One(f.zone[z].state = "CLOSED") \in Int
    BY Sizes DEF One
  <2>5. /\ f.acquired["OPEN"] \in Int /\ f.acquired["ACTIVE"] \in Int
        /\ f.acquired["ZRWA"] \in Int /\ f.acquired["ZRWA"] <= NrZones
    BY ZoneFacts
  <2>6. /\ g.acquired["OPEN"] = f.acquired["OPEN"] + One(g.zone[z].state \in Opened)
                                                  - One(f.zone[z].state \in Opened)
        /\ g.acquired["ACTIVE"] = f.acquired["ACTIVE"] + One(g.zone[z].state \in Active)
                                                      - One(f.zone[z].state \in Active)
        /\ g.acquired["ZRWA"] = f.acquired["ZRWA"]
    BY <1>1, <1>2, <2>2, <2>4, <2>5
  <2>7. /\ f.acquired["ZRWA"] + One(HasWindow(g.zone[z]))
             <= g.acquired["ZRWA"] + One(HasWindow(f.zone[z]))
        /\ g.acquired["ZRWA"] <= NrZones
        /\ f.acquired["ZRWA"] + One(HasWindow(g.zone[z]))
             = g.acquired["ZRWA"] + One(HasWindow(f.zone[z]))
    <3>1. PICK w \in Int : w = One(HasWindow(g.zone[z])) /\ w = One(HasWindow(f.zone[z]))
      BY <2>3
    <3>2. PICK c \in Int : c = f.acquired["ZRWA"] /\ c <= NrZones
      BY <2>5
    <3>3. g.acquired["ZRWA"] = c
      BY <2>6, <3>2
    <3> QED
      BY <3>1, <3>2, <3>3
  <2>8. g \in Ftl /\ \A y \in Zones : y # z => g.zone[y] = f.zone[y]
    BY <1>2, <1>3
  <2> QED
    BY <2>1, <2>6, <2>7, <2>8 DEF ZoneMoves
<1>5. StoreMoves(f, g, z)
  <2>1. f.zone[z].wp <= g.zone[z].wp /\ f.zone[z].state # "FULL"
    BY <1>3, ZoneFacts DEF Opened, Active
  <2> QED
    BY <1>2, <1>3, <2>1, StoreStays
<1>6. Sound(g)
  BY <1>4, <1>5, StepSound
<1> QED
  BY <1>2, <1>3, <1>6

(* Open: __zmgmt_send_open_zone().                                         *)
LEMMA OpenSound ==
    ASSUME NEW f, NEW z \in Zones, Sound(f), NEW zrwa \in BOOLEAN
    PROVE  Sound(open_zone(f, z, zrwa))
<1>1. PICK g : g = open_zone(f, z, zrwa)
  OBVIOUS
<1>2. f.zone[z].state \in States
  BY ZoneFacts
<1>3. CASE \E s \in Statuses : g = Refuse(f, s)
  BY <1>1, <1>3, RefuseSound
<1>4. CASE ~\E s \in Statuses : g = Refuse(f, s)
  <2>1. /\ f.zone[z].state # "FULL"
        /\ f.zone[z].state = "EMPTY" /\ zrwa => f.acquired["ZRWA"] # NrZones
    BY <1>1, <1>4 DEF open_zone, Statuses, is_zone_resource_full
  <2>s. "OPENED_EXPL" \in Opened
    BY DEF Opened
  <2>2. CASE f.zone[z].state = "EMPTY"
    <3>1. PICK k : k = IF zrwa THEN acquire_zone_resource(WithWindow(f, z), "ZRWA") ELSE f
      OBVIOUS
    <3>2. g = WithState(acquire_zone_resource(acquire_zone_resource(k, "ACTIVE"), "OPEN"), z,
                        "OPENED_EXPL")
      BY <1>1, <1>4, <2>2, <3>1 DEF open_zone, WithWindow, WithState, Unopened, Statuses
    <3> QED
      BY <1>1, <2>1, <2>2, <2>s, <3>1, <3>2, TakesActive
  <2>3. CASE f.zone[z].state # "EMPTY"
    <3>1. f.zone[z].state \in Active
      BY <1>2, <2>1, <2>3 DEF States, Active, Opened
    <3>2. PICK k : k = IF f.zone[z].state = "CLOSED" THEN acquire_zone_resource(f, "OPEN") ELSE f
      OBVIOUS
    <3>3. f.zone[z].state \in Unopened <=> f.zone[z].state = "CLOSED"
      BY <2>3 DEF Unopened
    <3>4. g = WithState(k, z, "OPENED_EXPL")
      BY <1>1, <1>4, <2>3, <3>2, <3>3 DEF open_zone, WithState, Statuses
    <3> QED
      BY <1>1, <2>s, <3>1, <3>2, <3>4, TakesOpen
  <2> QED
    BY <2>2, <2>3
<1> QED
  BY <1>3, <1>4

(* What a reset changes: an unfinished one-shot page of the zone is lost.  *)
LEMMA ResetEffect ==
    ASSUME NEW f \in Ftl, NEW z \in Zones, NEW h \in Ftl, h = ReleaseAll(f, z), NEW g, g = reset_zone(f, z),
           Partial(f, z) \in Nat
    PROVE  /\ g \in Ftl /\ g.acquired = h.acquired /\ g.inflight = h.inflight
           /\ g.zone[z] = [state |-> "EMPTY", wp |-> zone_to_slba(z), zrwav |-> FALSE]
           /\ \A y \in Zones : y # z => g.zone[y] = h.zone[y] /\ g.programs[y] = h.programs[y]
           /\ \A r \in Rows : g.programs[z][r] = 0
           /\ \A b \in WriteBuffers : g.remaining[b] = h.remaining[b]
           /\ g.lost[<<"wb", WriteBuffer(z)>>] = h.lost[<<"wb", WriteBuffer(z)>>] + Partial(f, z)
           /\ \A b \in WriteBuffers : b # <<"wb", WriteBuffer(z)>> => g.lost[b] = h.lost[b]
<1>1. PICK zn : zn = [state |-> "EMPTY", wp |-> zone_to_slba(z), zrwav |-> FALSE]
  OBVIOUS
<1>2. zn \in Zone
  BY <1>1, Boundaries DEF Zone, States
<1>3. PICK zb : zb = <<"zrwa", z>>
  OBVIOUS
<1>4. PICK wb : wb = <<"wb", WriteBuffer(z)>>
  OBVIOUS
<1>5. zb \in BufferNames /\ wb \in BufferNames /\ zb \notin WriteBuffers /\ WriteBuffers \subseteq BufferNames
  BY <1>3, <1>4, BufferFacts
<1>6. PICK rem : rem = [h.remaining EXCEPT ![zb] = IF ZrwaBufferSize > 0 THEN ZrwaBufferSize ELSE @]
  OBVIOUS
<1>7. PICK ls : ls = [h.lost EXCEPT ![wb] = @ + Partial(f, z)]
  OBVIOUS
<1>8. PICK zero : zero = [r \in Rows |-> 0]
  OBVIOUS
<1>9. PICK ps : ps = [h.programs EXCEPT ![z] = zero]
  OBVIOUS
<1>10. PICK zs : zs = [h.zone EXCEPT ![z] = zn]
  OBVIOUS
<1>11. /\ h.remaining \in [BufferNames -> Nat] /\ h.lost \in [BufferNames -> Nat]
       /\ h.programs \in [Zones -> [Rows -> Nat]] /\ h.zone \in [Zones -> Zone]
  BY DEF Ftl
<1>12. /\ rem \in [BufferNames -> Nat]
       /\ \A b \in WriteBuffers : rem[b] = h.remaining[b]
  BY <1>5, <1>6, <1>11, Sizes
<1>13. /\ ls \in [BufferNames -> Nat] /\ ls[wb] = h.lost[wb] + Partial(f, z)
       /\ \A b \in BufferNames : b # wb => ls[b] = h.lost[b]
  BY <1>5, <1>7, <1>11
<1>14. /\ ps \in [Zones -> [Rows -> Nat]] /\ ps[z] = zero
       /\ \A y \in Zones : y # z => ps[y] = h.programs[y]
  BY <1>8, <1>9, <1>11
<1>15. zs \in [Zones -> Zone] /\ zs[z] = zn /\ \A y \in Zones : y # z => zs[y] = h.zone[y]
  BY <1>2, <1>10, <1>11
<1>16. g = [h EXCEPT !.zone = zs, !.remaining = rem, !.programs = ps, !.lost = ls]
  BY <1>1, <1>3, <1>4, <1>6, <1>7, <1>8, <1>9, <1>10 DEF reset_zone
<1>17. /\ g \in Ftl /\ g.acquired = h.acquired /\ g.inflight = h.inflight
       /\ g.zone = zs /\ g.remaining = rem /\ g.programs = ps /\ g.lost = ls
  <2>1. /\ zs \in [Zones -> Zone] /\ ps \in [Zones -> [Rows -> Nat]]
        /\ ls \in [BufferNames -> Nat] /\ rem \in [BufferNames -> Nat]
    BY <1>12, <1>13, <1>14, <1>15
  <2> QED
    BY <1>16, <2>1 DEF Ftl
<1>18. \A r \in Rows : g.programs[z][r] = 0
  BY <1>8, <1>14, <1>17
<1> QED
  BY <1>1, <1>4, <1>5, <1>12, <1>13, <1>14, <1>15, <1>17, <1>18

(* Reset: __zmgmt_send_reset_zone().                                       *)
LEMMA ResetSound ==
    ASSUME NEW f, NEW z \in Zones, Sound(f)
    PROVE  Sound(reset_zone(f, z))
<1>1. PICK g : g = reset_zone(f, z)
  OBVIOUS
<1>2. PICK h : h = ReleaseAll(f, z)
  OBVIOUS
<1>3. /\ h \in Ftl /\ h.zone = f.zone /\ Store(h) = Store(f)
      /\ h.acquired["OPEN"] = f.acquired["OPEN"] - One(f.zone[z].state \in Opened)
      /\ h.acquired["ACTIVE"] = f.acquired["ACTIVE"] - One(f.zone[z].state \in Active)
      /\ h.acquired["ZRWA"] = f.acquired["ZRWA"] - One(HasWindow(f.zone[z]))
  BY <1>2, ZoneFacts, ReleasedAll
<1>4. h.remaining = f.remaining /\ h.inflight = f.inflight /\ h.programs = f.programs /\ h.lost = f.lost
  BY <1>3 DEF Store
<1>5. f \in Ftl /\ Partial(f, z) \in Nat
  BY ZoneFacts, PartialType
<1>6. /\ g \in Ftl /\ g.acquired = h.acquired /\ g.inflight = h.inflight
      /\ g.zone[z] = [state |-> "EMPTY", wp |-> zone_to_slba(z), zrwav |-> FALSE]
      /\ \A y \in Zones : y # z => g.zone[y] = h.zone[y] /\ g.programs[y] = h.programs[y]
      /\ \A r \in Rows : g.programs[z][r] = 0
      /\ \A b \in WriteBuffers : g.remaining[b] = h.remaining[b]
      /\ g.lost[<<"wb", WriteBuffer(z)>>] = h.lost[<<"wb", WriteBuffer(z)>>] + Partial(f, z)
      /\ \A b \in WriteBuffers : b # <<"wb", WriteBuffer(z)>> => g.lost[b] = h.lost[b]
  <2>1. h \in Ftl
    BY <1>3
  <2> QED
    BY <1>1, <1>2, <1>5, <2>1, ResetEffect
<1>7. g.zone[z].state = "EMPTY" /\ g.zone[z].wp = zone_to_slba(z) /\ ~g.zone[z].zrwav
  BY <1>6
<1>8. ZoneMoves(f, g, z)
  <2>1. WpSound(g.zone[z], z)
    BY <1>7, Boundaries, Sizes DEF WpSound
  <2>2. g.zone[z].state \notin Opened /\ g.zone[z].state \notin Active /\ ~HasWindow(g.zone[z])
    BY <1>7 DEF Opened, Active, HasWindow
  <2>3. NrZones \in Nat
    BY Sizes
  <2>4. g \in Ftl /\ \A y \in Zones : y # z => g.zone[y] = f.zone[y]
    BY <1>3, <1>6
  <2>5. /\ g.acquired["OPEN"] = f.acquired["OPEN"] - One(f.zone[z].state \in Opened)
        /\ g.acquired["ACTIVE"] = f.acquired["ACTIVE"] - One(f.zone[z].state \in Active)
        /\ g.acquired["ZRWA"] = f.acquired["ZRWA"] - One(HasWindow(f.zone[z]))
    BY <1>3, <1>6
  <2> QED
    BY <2>1, <2>2, <2>3, <2>4, <2>5, ZoneFacts DEF ZoneMoves, One
<1>9. StoreMoves(f, g, z)
  <2>1. PageSound(g.zone[z], z)
    <3>1. zone_to_slba(z) = zone_to_slba(z) + SecsPerPg * 0
      BY Boundaries, Sizes
    <3> QED
      BY <1>7, <3>1 DEF PageSound
  <2>2. RowsSound(g, z)
    BY <1>6 DEF RowsSound
  <2>3. PICK b : b = <<"wb", WriteBuffer(z)>>
    OBVIOUS
  <2>4. b \in WriteBuffers /\ b \in BufferNames
    BY <2>3, BufferFacts
  <2>5. Partial(g, z) = 0
    <3>1. zone_to_slba(z) \in Nat /\ zone_to_slba(z) - zone_to_slba(z) = 0 /\ 0 % Oneshot = 0
      BY Boundaries, Sizes
    <3> QED
      BY <3>1, <1>7 DEF Partial
  <2>6. /\ g.remaining[b] = f.remaining[b] /\ g.inflight[b] = f.inflight[b]
        /\ g.lost[b] = f.lost[b] + Partial(f, z)
    BY <1>4, <1>6, <2>3, <2>4
  <2>7. Returning(g, b) = Returning(f, b)
    BY <2>6 DEF Returning
  <2>8. Space(g, b) + Partial(g, z) = Space(f, b) + Partial(f, z)
    BY <1>5, <2>4, <2>5, <2>6, <2>7, SpaceType DEF Space
  <2> QED
    BY <1>4, <1>6, <2>1, <2>2, <2>3, <2>8 DEF StoreMoves
<1> QED
  BY <1>1, <1>8, <1>9, StepSound

(* Flush of a window: __zmgmt_send_flush_explicit_zrwa().                  *)
LEMMA FlushSound ==
    ASSUME NEW f, NEW slba \in Nat, lba_to_zone(slba) \in Zones, Sound(f)
    PROVE  Sound(flush_explicit_zrwa(f, slba))
<1>1. PICK z \in Zones : z = lba_to_zone(slba)
  OBVIOUS
<1>2. PICK q : q = flush_explicit_zrwa(f, slba)
  OBVIOUS
<1>3. PICK g : g = WithWp(f, z, slba + 1)
  OBVIOUS
<1>4. CASE \E s \in Statuses : q = Refuse(f, s)
  BY <1>2, <1>4, RefuseSound
<1>5. CASE \E s \in FaultKinds : q = Faulty(f, s)
  BY <1>2, <1>5, FaultSound
<1>6. CASE (~\E s \in Statuses : q = Refuse(f, s)) /\ (~\E s \in FaultKinds : q = Faulty(f, s))
  <2>1. f \in Ftl /\ slba + 1 \in Nat
    BY DEF Sound
  <2>2. /\ g \in Ftl /\ g.acquired = f.acquired /\ Store(g) = Store(f)
        /\ g.zone[z].state = f.zone[z].state /\ g.zone[z].wp = slba + 1
        /\ g.zone[z].zrwav = f.zone[z].zrwav
        /\ \A y \in Zones : y # z => g.zone[y] = f.zone[y]
    BY <1>3, <2>1, SetWp
  <2>3. /\ f.zone[z].zrwav /\ f.zone[z].wp <= slba /\ f.zone[z].state \in Active
        /\ q = IF slba = zone_to_elba(z) THEN Full(ReleaseAll(g, z), z) ELSE g
    <3>1. "INVALID_ZONE_OPERATION" \in Statuses /\ "INVALID_FIELD" \in Statuses /\ "divide" \in FaultKinds
      BY DEF Statuses, FaultKinds
    <3>2. f.zone[z].zrwav /\ ZrwafgSize # 0 /\ f.zone[z].state \in Active
      BY <1>1, <1>2, <1>6, <3>1 DEF flush_explicit_zrwa, Faulty
    <3>3. \E e : slba \in f.zone[z].wp .. e
      BY <1>1, <1>2, <1>6, <3>1 DEF flush_explicit_zrwa, Faulty
    <3>4. q = IF slba = zone_to_elba(z) THEN Full(ReleaseAll(g, z), z) ELSE g
      BY <1>1, <1>2, <1>3, <1>6, <3>1 DEF flush_explicit_zrwa, Faulty, WithWp
    <3> QED
      BY <3>2, <3>3, <3>4
  <2>4. PICK a \in Nat : /\ a = zone_to_slba(z) /\ zone_to_elba(z) = a + ZoneSize - 1
                         /\ slba \in a .. a + ZoneSize - 1
    BY <1>1, ZoneOfLba, Boundaries
  <2>5. f.zone[z].wp \in Nat /\ f.zone[z].state # "FULL"
    BY <2>3, ZoneFacts DEF Active, Opened
  <2>6. HasWindow(g.zone[z]) /\ HasWindow(f.zone[z])
    BY <2>2, <2>3 DEF HasWindow
  <2>7. CASE slba = zone_to_elba(z)
    <3>1. PICK h : h = ReleaseAll(g, z)
      OBVIOUS
    <3>2. /\ h \in Ftl /\ h.zone = g.zone /\ Store(h) = Store(g)
          /\ h.acquired["OPEN"] = g.acquired["OPEN"] - One(g.zone[z].state \in Opened)
          /\ h.acquired["ACTIVE"] = g.acquired["ACTIVE"] - One(g.zone[z].state \in Active)
          /\ h.acquired["ZRWA"] = g.acquired["ZRWA"] - One(HasWindow(g.zone[z]))
      <4>1. g \in Ftl
        BY <2>2
      <4> QED
        BY <3>1, <4>1, ReleasedAll
    <3>3. h.zone[z].wp \in f.zone[z].wp .. zone_to_slba(z) + ZoneSize
      BY <2>2, <2>3, <2>4, <2>5, <2>7, <3>2, Sizes
    <3>4. /\ h.acquired["OPEN"] = f.acquired["OPEN"] - One(f.zone[z].state \in Opened)
          /\ h.acquired["ACTIVE"] = f.acquired["ACTIVE"] - One(f.zone[z].state \in Active)
          /\ h.acquired["ZRWA"] = f.acquired["ZRWA"] - One(HasWindow(f.zone[z]))
      BY <2>2, <2>6, <3>2 DEF One
    <3>5. /\ h \in Ftl /\ Store(h) = Store(f) /\ h.zone[z].zrwav = f.zone[z].zrwav
          /\ \A y \in Zones : y # z => h.zone[y] = f.zone[y]
      BY <2>2, <3>2
    <3>6. h.zone[z].wp = f.zone[z].wp \/ f.zone[z].zrwav
      BY <2>3
    <3>7. Sound(Full(h, z))
      BY <3>3, <3>4, <3>5, <3>6, FullSound
    <3> QED
      BY <1>2, <2>3, <2>7, <3>1, <3>7
  <2>8. CASE slba # zone_to_elba(z)
    <3>1. ZoneMoves(f, g, z)
      <4>1. WpSound(g.zone[z], z)
        <5>1. slba + 1 \in a .. a + ZoneSize /\ slba + 1 # a + ZoneSize
          BY <2>4, <2>8, Sizes
        <5>2. f.zone[z].state # "EMPTY"
          BY <2>3 DEF Active, Opened
        <5> QED
          BY <5>1, <5>2, <2>2, <2>4 DEF WpSound
      <4>2. /\ One(HasWindow(g.zone[z])) = 1 /\ One(HasWindow(f.zone[z])) = 1
            /\ One(g.zone[z].state \in Opened) = One(f.zone[z].state \in Opened)
            /\ One(g.zone[z].state \in Active) = One(f.zone[z].state \in Active)
            /\ One(f.zone[z].state \in Opened) \in Int /\ One(f.zone[z].state \in Active) \in Int
        BY <2>2, <2>6 DEF One
      <4>3. NrZones \in Nat
        BY Sizes
      <4> QED
        BY <2>2, <4>1, <4>2, <4>3, ZoneFacts DEF ZoneMoves
    <3>2. StoreMoves(f, g, z)
      <4>1. f.zone[z].wp <= g.zone[z].wp
        BY <2>2, <2>3, <2>5
      <4>2. g.zone[z].zrwav /\ f.zone[z].zrwav
        BY <2>2, <2>3
      <4> QED
        BY <2>2, <2>5, <4>1, <4>2, StoreStays
    <3> QED
      BY <1>2, <2>3, <2>8, <3>1, <3>2, StepSound
  <2> QED
    BY <2>7, <2>8
<1> QED
  BY <1>4, <1>5, <1>6

(* __zmgmt_send(), whatever the action.                                    *)
LEMMA SendSound ==
    ASSUME NEW f, NEW op \in Mgmt, NEW slba \in Nat, lba_to_zone(slba) \in Zones, Sound(f)
    PROVE  Sound(__zmgmt_send(f, op, slba))
<1>1. PICK z \in Zones : z = lba_to_zone(slba)
  OBVIOUS
<1>2. CASE op = "close"
  <2>1. __zmgmt_send(f, op, slba) = close_zone(f, z)
    BY <1>1, <1>2 DEF __zmgmt_send
  <2> QED
    BY <2>1, CloseSound
<1>3. CASE op = "finish"
  <2>1. __zmgmt_send(f, op, slba) = finish_zone(f, z)
    BY <1>1, <1>3 DEF __zmgmt_send
  <2> QED
    BY <2>1, FinishSound
<1>4. CASE op = "open"
  <2>1. __zmgmt_send(f, op, slba) = open_zone(f, z, FALSE)
    BY <1>1, <1>4 DEF __zmgmt_send
  <2> QED
    BY <2>1, OpenSound
<1>5. CASE op = "open_zrwa"
  <2>1. __zmgmt_send(f, op, slba) = open_zone(f, z, TRUE)
    BY <1>1, <1>5 DEF __zmgmt_send
  <2> QED
    BY <2>1, OpenSound
<1>6. CASE op = "reset"
  <2>1. __zmgmt_send(f, op, slba) = reset_zone(f, z)
    BY <1>1, <1>6 DEF __zmgmt_send
  <2> QED
    BY <2>1, ResetSound
<1>7. CASE op = "offline"
  <2>1. __zmgmt_send(f, op, slba) = Refuse(f, "INVALID_TRANSITION")
    BY <1>1, <1>7 DEF __zmgmt_send, offline_zone
  <2>2. "INVALID_TRANSITION" \in Statuses
    BY DEF Statuses
  <2> QED
    BY <2>1, <2>2, RefuseSound
<1>8. CASE op = "flush_zrwa"
  <2>1. __zmgmt_send(f, op, slba) = flush_explicit_zrwa(f, slba)
    BY <1>1, <1>8 DEF __zmgmt_send
  <2> QED
    BY <2>1, FlushSound
<1> QED
  BY <1>2, <1>3, <1>4, <1>5, <1>6, <1>7, <1>8 DEF Mgmt

(* What select_all has reached after each of the first n zones.            *)
Reached(x, f, op, n) ==
    x = [j \in 0 .. n |-> IF j = 0 THEN f ELSE __zmgmt_send(x[j - 1], op, zone_to_slba(j - 1))]

(* Every state of the loop over the zones is sound.                        *)
LEMMA ReachedSound ==
    ASSUME NEW f, NEW op \in Mgmt, Sound(f), NEW x, NEW n \in 0 .. NrZones, Reached(x, f, op, n)
    PROVE  \A j \in 0 .. n : Sound(x[j])
<1> DEFINE P == {j \in Nat : j <= n => Sound(x[j])}
<1>0. n \in Nat /\ NrZones \in Nat
  BY Sizes
<1>1. 0 \in P
  BY <1>0 DEF Reached
<1>2. ASSUME NEW j \in Nat, j \in P
      PROVE  j + 1 \in P
  <2>1. SUFFICES ASSUME j + 1 <= n
                 PROVE  Sound(x[j + 1])
    OBVIOUS
  <2>2. Sound(x[j]) /\ j \in Zones /\ j + 1 \in 0 .. n /\ j + 1 # 0 /\ (j + 1) - 1 = j
    BY <1>0, <1>2, <2>1 DEF Zones
  <2>3. x[j + 1] = __zmgmt_send(x[j], op, zone_to_slba(j))
    BY <2>2 DEF Reached
  <2>4. zone_to_slba(j) \in Nat /\ zone_to_slba(j) \in zone_to_slba(j) .. zone_to_slba(j) + ZoneSize - 1
    BY <2>2, Boundaries, Sizes
  <2>5. lba_to_zone(zone_to_slba(j)) \in Zones
    BY <2>2, <2>4, ZoneOfLba
  <2> QED
    BY <2>2, <2>3, <2>4, <2>5, SendSound
<1> HIDE DEF P
<1>3. Nat \subseteq P
  BY <1>1, <1>2, SetInduction
<1> USE DEF P
<1> QED
  BY <1>0, <1>3

(* The recursive function of SelectAll exists: its values up to n do, for  *)
(* each n.                                                                 *)
LEMMA ReachedExists ==
    ASSUME NEW f, NEW op, NEW n \in Nat
    PROVE  \E x : Reached(x, f, op, n)
<1> DEFINE P == {m \in Nat : \E x : Reached(x, f, op, m)}
<1>1. 0 \in P
  <2>1. PICK x : x = [j \in 0 .. 0 |-> f]
    OBVIOUS
  <2>2. \A j \in 0 .. 0 : j = 0
    OBVIOUS
  <2>3. Reached(x, f, op, 0)
    BY <2>1, <2>2 DEF Reached
  <2> QED
    BY <2>3
<1>2. ASSUME NEW m \in Nat, m \in P
      PROVE  m + 1 \in P
  <2>1. PICK x : Reached(x, f, op, m)
    BY <1>2
  <2>2. PICK y : y = [j \in 0 .. m + 1 |-> IF j <= m THEN x[j]
                                           ELSE __zmgmt_send(x[m], op, zone_to_slba(m))]
    OBVIOUS
  <2>3. ASSUME NEW j \in 0 .. m + 1
        PROVE  y[j] = IF j = 0 THEN f ELSE __zmgmt_send(y[j - 1], op, zone_to_slba(j - 1))
    <3>1. CASE j <= m
      <4>1. j \in 0 .. m /\ y[j] = x[j]
        BY <3>1, <2>2
      <4>2. x[j] = IF j = 0 THEN f ELSE __zmgmt_send(x[j - 1], op, zone_to_slba(j - 1))
        BY <4>1, <2>1 DEF Reached
      <4>3. j # 0 => y[j - 1] = x[j - 1]
        BY <3>1, <2>2
      <4> QED
        BY <4>1, <4>2, <4>3
    <3>2. CASE ~(j <= m)
      <4>1. j - 1 = m /\ j # 0 /\ y[j] = __zmgmt_send(x[m], op, zone_to_slba(m)) /\ y[m] = x[m]
        BY <3>2, <2>2
      <4> QED
        BY <4>1
    <3> QED
      BY <3>1, <3>2
  <2>4. Reached(y, f, op, m + 1)
    BY <2>2, <2>3 DEF Reached
  <2> QED
    BY <2>4
<1> HIDE DEF P
<1>3. Nat \subseteq P
  BY <1>1, <1>2, SetInduction
<1> USE DEF P
<1> QED
  BY <1>3

(* The next command starts in a sound state.                               *)
LEMMA MarkSound ==
    ASSUME NEW f, Sound(f), NEW s \in Statuses, NEW x \in BOOLEAN
    PROVE  Sound(Marked(f, s, x))
<1>1. f \in Ftl
  BY DEF Sound
<1>2. Quiet(f, Marked(f, s, x))
  BY <1>1, Marks
<1> QED
  BY <1>2, QuietSound

(* zns_zmgmt_send() with select_all.                                       *)
LEMMA SelectAllSound ==
    ASSUME NEW f, NEW op \in Mgmt, Sound(f)
    PROVE  Sound(SelectAll(f, op))
<1> DEFINE after == CHOOSE x : Reached(x, f, op, NrZones)
<1>0. NrZones \in Nat /\ NrZones \in 0 .. NrZones
  BY Sizes
<1>1. SelectAll(f, op) = [after[NrZones] EXCEPT !.status = "SUCCESS"]
  BY DEF SelectAll, Reached
<1>2. Reached(after, f, op, NrZones)
  BY <1>0, ReachedExists
<1> HIDE DEF after
<1>3. Sound(after[NrZones])
  BY <1>0, <1>2, ReachedSound
<1>4. SelectAll(f, op) = Refuse(after[NrZones], "SUCCESS")
  BY <1>1 DEF Refuse
<1>5. "SUCCESS" \in Statuses
  BY DEF Statuses
<1> QED
  BY <1>3, <1>4, <1>5, RefuseSound
-----------------------------------------------------------------------------
(* Pages and one-shot pages of a zone.  Offsets within the zone are in     *)
(* pages: the zone begins with page L and has ZP of them.                  *)

Pages(z, L, ZP) ==
    /\ L \in Nat /\ ZP \in Nat \ {0}
    /\ zone_to_slba(z) = SecsPerPg * L /\ ZoneSize = SecsPerPg * ZP
    /\ lba_to_lpn(zone_to_slba(z)) = L

(* A zone is made of whole pages.                                          *)
LEMMA ZonePages ==
    ASSUME NEW z \in Zones
    PROVE  \E L, ZP : Pages(z, L, ZP)
<1>1. PICK ZP \in Nat : ZoneSize = SecsPerPg * ZP
  BY Sizes, Geometry, Multiple
<1>2. ZP # 0
  BY <1>1, Sizes
<1>3. z \in Nat /\ z * ZP \in Nat
  BY <1>1 DEF Zones
<1>4. PICK L \in Nat : L = z * ZP
  BY <1>3
<1>5. z * (SecsPerPg * ZP) = SecsPerPg * (z * ZP)
  BY <1>1, <1>3, Sizes
<1>6. zone_to_slba(z) = SecsPerPg * L
  BY <1>1, <1>4, <1>5 DEF zone_to_slba
<1>7. lba_to_lpn(zone_to_slba(z)) = L
  <2>1. zone_to_slba(z) = SecsPerPg * L + 0 /\ 0 \in 0 .. SecsPerPg - 1
    BY <1>6, Sizes
  <2> QED
    BY <2>1, Sizes, DivUnique DEF lba_to_lpn
<1> QED
  BY <1>1, <1>2, <1>4, <1>6, <1>7 DEF Pages

(* A zone's LBAs, pages and one-shot pages in each other's terms.          *)
LEMMA PageOf ==
    ASSUME NEW z \in Zones, NEW L, NEW ZP, Pages(z, L, ZP), NEW k \in Nat
    PROVE  /\ lba_to_lpn(zone_to_slba(z) + SecsPerPg * k) = L + k
           /\ k > 0 => lba_to_lpn(zone_to_slba(z) + SecsPerPg * k - 1) = L + k - 1
           /\ zone_to_elpn(z) = L + ZP - 1
           /\ OneshotOf(z, L + k) = k \div PgsPerOneshot
           /\ \A r \in Int : LastPgOf(z, r) = L + PgsPerOneshot * (r + 1) - 1
<1>0. /\ SecsPerPg \in Nat \ {0} /\ PgsPerOneshot \in Nat \ {0} /\ L \in Nat /\ ZP \in Nat \ {0}
      /\ SecsPerPg - 1 \in 0 .. SecsPerPg - 1 /\ 0 \in 0 .. SecsPerPg - 1
  BY Sizes DEF Pages
<1>1. ASSUME NEW j \in Nat \ {0}
      PROVE  lba_to_lpn(zone_to_slba(z) + SecsPerPg * j - 1) = L + j - 1
  <2>1. SecsPerPg * L + SecsPerPg * j - 1 = SecsPerPg * (L + j - 1) + (SecsPerPg - 1)
    BY <1>0
  <2>2. L + j - 1 \in Nat
    BY <1>0
  <2>3. (SecsPerPg * (L + j - 1) + (SecsPerPg - 1)) \div SecsPerPg = L + j - 1
    BY <1>0, <2>2, DivUnique
  <2>4. zone_to_slba(z) = SecsPerPg * L
    BY DEF Pages
  <2> QED
    BY <2>1, <2>3, <2>4 DEF lba_to_lpn
<1>2. lba_to_lpn(zone_to_slba(z) + SecsPerPg * k) = L + k
  <2>1. SecsPerPg * L + SecsPerPg * k = SecsPerPg * (L + k) + 0
    BY <1>0
  <2>2. L + k \in Nat
    BY <1>0
  <2>3. (SecsPerPg * (L + k) + 0) \div SecsPerPg = L + k
    BY <1>0, <2>2, DivUnique
  <2>4. zone_to_slba(z) = SecsPerPg * L
    BY DEF Pages
  <2> QED
    BY <2>1, <2>3, <2>4 DEF lba_to_lpn
<1>3. zone_to_elpn(z) = L + ZP - 1
  <2>1. zone_to_elba(z) = zone_to_slba(z) + SecsPerPg * ZP - 1
    BY Boundaries DEF Pages
  <2> QED
    BY <1>0, <1>1, <2>1 DEF zone_to_elpn
<1>4. OneshotOf(z, L + k) = k \div PgsPerOneshot
  <2>1. L + k - L = k
    BY <1>0
  <2> QED
    BY <2>1 DEF OneshotOf, Pages
<1>5. ASSUME NEW r \in Int
      PROVE  LastPgOf(z, r) = L + PgsPerOneshot * (r + 1) - 1
  <2>1. (r + 1) * PgsPerOneshot = PgsPerOneshot * (r + 1)
    BY <1>0
  <2> QED
    BY <2>1 DEF LastPgOf, Pages
<1> QED
  BY <1>1, <1>2, <1>3, <1>4, <1>5

(* The first LBA after a one-shot page.                                    *)
RowEnd(z, r) == zone_to_slba(z) + (r + 1) * Oneshot

(* The end of a one-shot page, as an LBA and as a page.                    *)
LEMMA RowEnds ==
    ASSUME NEW z \in Zones, NEW L, NEW ZP, Pages(z, L, ZP), NEW r \in Int
    PROVE  /\ RowEnd(z, r) = SecsPerPg * (LastPgOf(z, r) + 1)
           /\ RowEnd(z, r) \in Int /\ LastPgOf(z, r) \in Int
<1>0. /\ SecsPerPg \in Nat \ {0} /\ PgsPerOneshot \in Nat \ {0} /\ L \in Nat
  BY Sizes DEF Pages
<1>1. LastPgOf(z, r) = L + PgsPerOneshot * (r + 1) - 1
  <2>1. 0 \in Nat
    OBVIOUS
  <2> QED
    BY <2>1, PageOf
<1>2. PICK x \in Int : x = PgsPerOneshot * (r + 1)
  BY <1>0
<1>3. (r + 1) * (SecsPerPg * PgsPerOneshot) = SecsPerPg * (PgsPerOneshot * (r + 1))
  BY <1>0
<1>4. LastPgOf(z, r) + 1 = L + x /\ LastPgOf(z, r) \in Int
  BY <1>0, <1>1, <1>2
<1>5. SecsPerPg * (L + x) = SecsPerPg * L + SecsPerPg * x /\ SecsPerPg * x \in Int /\ SecsPerPg * L \in Int
  BY <1>0
<1>6. RowEnd(z, r) = SecsPerPg * L + SecsPerPg * x
  BY <1>2, <1>3 DEF RowEnd, Oneshot, Pages
<1> QED
  BY <1>4, <1>5, <1>6

(* A one-shot page that ends on or after the page of lba ends behind lba.  *)
LEMMA RowAfter ==
    ASSUME NEW z \in Zones, NEW r \in Int, NEW lba \in Nat, LastPgOf(z, r) >= lba_to_lpn(lba)
    PROVE  RowEnd(z, r) > lba
<1>1. PICK L, ZP : Pages(z, L, ZP)
  BY ZonePages
<1>2. RowEnd(z, r) = SecsPerPg * (LastPgOf(z, r) + 1) /\ RowEnd(z, r) \in Int /\ LastPgOf(z, r) \in Int
  BY <1>1, RowEnds
<1>3. PICK n \in Int : n = LastPgOf(z, r)
  BY <1>2
<1>4. lba \div SecsPerPg \in Nat
  BY Sizes, DivMod
<1>5. ~(n + 1 <= lba \div SecsPerPg)
  BY <1>3, <1>4 DEF lba_to_lpn
<1>6. ~(SecsPerPg * (n + 1) <= lba)
  BY <1>5, Sizes, QuotientBound
<1> QED
  BY <1>2, <1>3, <1>6
-----------------------------------------------------------------------------
(* Writes.                                                                 *)

(* The write pointer moves on; at the end of the zone, the zone is FULL    *)
(* and gives OPEN and ACTIVE back.                                         *)
AtEnd(f, z, nr) == f.zone[z].wp + nr = zone_to_slba(z) + ZoneSize

(* __increase_write_ptr(): at the end of the zone OPEN and ACTIVE are      *)
(* given up.                                                               *)
LEMMA Increased ==
    ASSUME NEW f \in Ftl, NEW z \in Zones, NEW nr \in Nat, NEW g, g = __increase_write_ptr(f, z, nr)
    PROVE  /\ g \in Ftl /\ Store(g) = Store(f)
           /\ g.zone[z].wp = f.zone[z].wp + nr /\ g.zone[z].zrwav = f.zone[z].zrwav
           /\ \A y \in Zones : y # z => g.zone[y] = f.zone[y]
           /\ g.zone[z].state = IF AtEnd(f, z, nr) THEN "FULL" ELSE f.zone[z].state
           /\ g.acquired["OPEN"] = f.acquired["OPEN"] - One(AtEnd(f, z, nr))
           /\ g.acquired["ACTIVE"] = f.acquired["ACTIVE"] - One(AtEnd(f, z, nr))
           /\ g.acquired["ZRWA"] = f.acquired["ZRWA"]
<1>o. "OPEN" \in Res
  BY DEF Res
<1>a. "ACTIVE" \in Res
  BY DEF Res
<1>w. "ZRWA" \in Res
  BY DEF Res
<1>s. "FULL" \in States
  BY DEF States
<1>0. f.zone[z] \in Zone /\ f.acquired \in [Res -> Int]
  BY DEF Ftl
<1>1. PICK wp \in Nat : wp = f.zone[z].wp + nr
  BY <1>0 DEF Zone
<1>t. wp \in Nat /\ f \in Ftl
  BY <1>1
<1>2. PICK h : h = WithWp(f, z, wp)
  OBVIOUS
<1>3. /\ h \in Ftl /\ h.acquired = f.acquired /\ Store(h) = Store(f)
      /\ h.zone[z].state = f.zone[z].state /\ h.zone[z].wp = wp
      /\ h.zone[z].zrwav = f.zone[z].zrwav
      /\ \A y \in Zones : y # z => h.zone[y] = f.zone[y]
  <2>1. ASSUME NEW w \in Nat, NEW k, k = WithWp(f, z, w)
        PROVE  /\ k \in Ftl /\ k.acquired = f.acquired /\ Store(k) = Store(f)
               /\ k.zone[z].state = f.zone[z].state /\ k.zone[z].wp = w
               /\ k.zone[z].zrwav = f.zone[z].zrwav
               /\ \A y \in Zones : y # z => k.zone[y] = f.zone[y]
    BY <2>1, SetWp
  <2> QED
    BY <1>t, <1>2, <2>1
<1>4. CASE ~AtEnd(f, z, nr)
  <2>1. g = h
    BY <1>1, <1>2, <1>4 DEF __increase_write_ptr, WithWp, AtEnd
  <2>2. f.acquired["OPEN"] \in Int /\ f.acquired["ACTIVE"] \in Int
    BY <1>0, <1>o, <1>a
  <2> QED
    BY <2>1, <2>2, <1>1, <1>3, <1>4 DEF One
<1>5. CASE AtEnd(f, z, nr)
  <2>1. PICK i : i = release_zone_resource(h, "OPEN")
    OBVIOUS
  <2>2. /\ i \in Ftl /\ i.zone = h.zone /\ Store(i) = Store(h)
        /\ i.acquired["OPEN"] = h.acquired["OPEN"] - 1
        /\ \A s \in Res : s # "OPEN" => i.acquired[s] = h.acquired[s]
    BY <2>1, <1>3, <1>o, Release
  <2>3. PICK j : j = release_zone_resource(i, "ACTIVE")
    OBVIOUS
  <2>4. /\ j \in Ftl /\ j.zone = i.zone /\ Store(j) = Store(i)
        /\ j.acquired["ACTIVE"] = i.acquired["ACTIVE"] - 1
        /\ \A s \in Res : s # "ACTIVE" => j.acquired[s] = i.acquired[s]
    <3>1. i \in Ftl
      BY <2>2
    <3> QED
      BY <2>3, <3>1, <1>a, Release
  <2>5. g = WithState(j, z, "FULL")
    BY <1>1, <1>2, <1>5, <2>1, <2>3 DEF __increase_write_ptr, WithWp, WithState, Full, AtEnd
  <2>6. /\ g \in Ftl /\ g.acquired = j.acquired /\ Store(g) = Store(j)
        /\ g.zone[z].state = "FULL" /\ g.zone[z].wp = j.zone[z].wp
        /\ g.zone[z].zrwav = j.zone[z].zrwav
        /\ \A y \in Zones : y # z => g.zone[y] = j.zone[y]
    <3>1. j \in Ftl
      BY <2>4
    <3> QED
      BY <2>5, <3>1, <1>s, SetState
  <2>7. /\ i.acquired["ACTIVE"] = h.acquired["ACTIVE"] /\ i.acquired["ZRWA"] = h.acquired["ZRWA"]
        /\ j.acquired["OPEN"] = i.acquired["OPEN"] /\ j.acquired["ZRWA"] = i.acquired["ZRWA"]
    BY <2>2, <2>4, <1>o, <1>a, <1>w
  <2> QED
    BY <1>1, <1>3, <1>5, <2>2, <2>4, <2>6, <2>7 DEF One
<1> QED
  BY <1>4, <1>5

(* What a write that was accepted leaves behind.                           *)
Wrote(h, j, z, nr, b, rows, size) ==
    /\ j \in Ftl /\ \A y \in Zones : y # z => j.zone[y] = h.zone[y]
    /\ j.zone[z].wp = h.zone[z].wp + nr /\ j.zone[z].zrwav = h.zone[z].zrwav
    /\ j.zone[z].state = IF AtEnd(h, z, nr) THEN "FULL" ELSE h.zone[z].state
    /\ j.acquired["OPEN"] = h.acquired["OPEN"] - One(AtEnd(h, z, nr))
    /\ j.acquired["ACTIVE"] = h.acquired["ACTIVE"] - One(AtEnd(h, z, nr))
    /\ j.acquired["ZRWA"] = h.acquired["ZRWA"]
    /\ j.remaining = h.remaining /\ j.lost = h.lost
    /\ \A r \in Rows : j.programs[z][r] = h.programs[z][r] + IF r \in rows THEN 1 ELSE 0
    /\ \A y \in Zones : y # z => j.programs[y] = h.programs[y]
    /\ \A s \in ReleaseSizes :
          /\ Cardinality({r \in rows : size[r] = s}) \in Nat
          /\ j.inflight[b][s] = h.inflight[b][s] + Cardinality({r \in rows : size[r] = s})
    /\ \A c \in BufferNames : c # b => j.inflight[c] = h.inflight[c]

(* What an accepted write changes once its zone is open.                   *)
LEMMA Writes ==
    ASSUME NEW h \in Ftl, NEW z \in Zones, NEW nr \in Nat, NEW b \in BufferNames,
           NEW rows, IsFiniteSet(rows), NEW size
    PROVE  Wrote(h, ProgramRows(__increase_write_ptr(h, z, nr), z, b, rows, size),
                 z, nr, b, rows, size)
<1>1. PICK i : i = __increase_write_ptr(h, z, nr)
  OBVIOUS
<1>2. /\ i \in Ftl /\ Store(i) = Store(h)
      /\ i.zone[z].wp = h.zone[z].wp + nr /\ i.zone[z].zrwav = h.zone[z].zrwav
      /\ \A y \in Zones : y # z => i.zone[y] = h.zone[y]
      /\ i.zone[z].state = IF AtEnd(h, z, nr) THEN "FULL" ELSE h.zone[z].state
      /\ i.acquired["OPEN"] = h.acquired["OPEN"] - One(AtEnd(h, z, nr))
      /\ i.acquired["ACTIVE"] = h.acquired["ACTIVE"] - One(AtEnd(h, z, nr))
      /\ i.acquired["ZRWA"] = h.acquired["ZRWA"]
  BY <1>1, Increased
<1>3. i \in Ftl
  BY <1>2
<1>4. PICK j : j = ProgramRows(i, z, b, rows, size)
  OBVIOUS
<1>5. /\ j \in Ftl /\ j.zone = i.zone /\ j.acquired = i.acquired
      /\ j.remaining = i.remaining /\ j.lost = i.lost
      /\ \A r \in Rows : j.programs[z][r] = i.programs[z][r] + IF r \in rows THEN 1 ELSE 0
      /\ \A y \in Zones : y # z => j.programs[y] = i.programs[y]
      /\ \A s \in ReleaseSizes :
            /\ Cardinality({r \in rows : size[r] = s}) \in Nat
            /\ j.inflight[b][s] = i.inflight[b][s] + Cardinality({r \in rows : size[r] = s})
      /\ \A c \in BufferNames : c # b => j.inflight[c] = i.inflight[c]
  BY <1>3, <1>4, Programming
<1>6. /\ i.remaining = h.remaining /\ i.inflight = h.inflight
      /\ i.programs = h.programs /\ i.lost = h.lost
  BY <1>2 DEF Store
<1>7. Wrote(h, j, z, nr, b, rows, size)
  BY <1>2, <1>5, <1>6 DEF Wrote
<1> QED
  BY <1>1, <1>4, <1>7

(* Zone z has been opened for a write.                                     *)
OpenedFor(f, h, z) ==
    /\ h \in Ftl /\ \A y \in Zones : y # z => h.zone[y] = f.zone[y]
    /\ h.zone[z].state \in Opened /\ h.zone[z].wp = f.zone[z].wp
    /\ h.zone[z].zrwav = f.zone[z].zrwav
    /\ h.acquired["OPEN"] = f.acquired["OPEN"] + 1 - One(f.zone[z].state \in Opened)
    /\ h.acquired["ACTIVE"] = f.acquired["ACTIVE"] + 1 - One(f.zone[z].state \in Active)
    /\ h.acquired["ZRWA"] = f.acquired["ZRWA"]
    /\ f.zone[z].zrwav => ZrwaSize # 0 /\ f.zone[z].state \in Active

(* The zone and the counters after the write.                              *)
LEMMA AdvanceMoves ==
    ASSUME NEW f, NEW z \in Zones, Sound(f), NEW h, OpenedFor(f, h, z), NEW nr \in Nat,
           f.zone[z].wp + nr <= zone_to_slba(z) + ZoneSize, NEW j, NEW b, NEW rows, NEW size,
           Wrote(h, j, z, nr, b, rows, size)
    PROVE  ZoneMoves(f, j, z)
<1>2. /\ j \in Ftl
      /\ j.zone[z].wp = f.zone[z].wp + nr /\ j.zone[z].zrwav = f.zone[z].zrwav
      /\ \A y \in Zones : y # z => j.zone[y] = f.zone[y]
      /\ h.zone[z].state \in Opened
      /\ j.zone[z].state = IF AtEnd(h, z, nr) THEN "FULL" ELSE h.zone[z].state
  BY DEF Wrote, OpenedFor
<1>3. WpSound(j.zone[z], z)
  <2>1. PICK a \in Nat, w \in Nat : /\ a = zone_to_slba(z) /\ w = f.zone[z].wp /\ a <= w
                                    /\ w + nr <= a + ZoneSize
    BY ZoneFacts, Boundaries, Sizes DEF WpSound
  <2>2. /\ j.zone[z].wp = w + nr
        /\ j.zone[z].state # "EMPTY" /\ (w + nr = a + ZoneSize => j.zone[z].state = "FULL")
    BY <1>2, <2>1 DEF Opened, AtEnd, OpenedFor
  <2> QED
    BY <2>1, <2>2, Sizes DEF WpSound
<1>4. PICK l \in Int, o \in Int, a \in Int :
          /\ l = One(AtEnd(h, z, nr)) /\ o = One(f.zone[z].state \in Opened)
          /\ a = One(f.zone[z].state \in Active)
          /\ One(j.zone[z].state \in Opened) = 1 - l /\ One(j.zone[z].state \in Active) = 1 - l
  BY <1>2 DEF One, Opened, Active
<1>5. /\ f.acquired["OPEN"] \in Int /\ f.acquired["ACTIVE"] \in Int
      /\ f.acquired["ZRWA"] \in Int /\ f.acquired["ZRWA"] <= NrZones /\ NrZones \in Nat
  BY ZoneFacts, Sizes
<1>6. /\ j.acquired["OPEN"] = f.acquired["OPEN"] + 1 - o - l
      /\ j.acquired["ACTIVE"] = f.acquired["ACTIVE"] + 1 - a - l
      /\ j.acquired["ZRWA"] = f.acquired["ZRWA"]
  BY <1>4, <1>5 DEF OpenedFor, Wrote
<1>7. /\ One(HasWindow(j.zone[z])) \in Int /\ One(HasWindow(f.zone[z])) \in Int
      /\ One(HasWindow(j.zone[z])) <= One(HasWindow(f.zone[z]))
      /\ ZrwaSize = 0 => One(HasWindow(j.zone[z])) = One(HasWindow(f.zone[z]))
  BY <1>2 DEF One, HasWindow, OpenedFor
<1>8. /\ j.acquired["OPEN"] = f.acquired["OPEN"] + One(j.zone[z].state \in Opened)
                                                - One(f.zone[z].state \in Opened)
      /\ j.acquired["ACTIVE"] = f.acquired["ACTIVE"] + One(j.zone[z].state \in Active)
                                                    - One(f.zone[z].state \in Active)
  BY <1>4, <1>5, <1>6
<1> QED
  BY <1>2, <1>3, <1>5, <1>6, <1>7, <1>8 DEF ZoneMoves

(* A zone has finitely many one-shot pages.                                *)
LEMMA RowsFinite == IsFiniteSet(Rows) /\ Rows \subseteq Nat
<1>1. ZoneSize + Oneshot - 1 \in Nat
  BY Sizes
<1>2. PICK x \in Nat : x = (ZoneSize + Oneshot - 1) \div Oneshot
  BY <1>1, Sizes, DivMod
<1>3. IsFiniteSet(0 .. x - 1)
  BY <1>2, FS_Interval
<1> QED
  BY <1>2, <1>3 DEF Rows

(* Space of a ZRWA buffer is taken.                                        *)
LEMMA ZrwaCharged ==
    ASSUME NEW f, NEW z \in Zones, Sound(f), NEW b, b = <<"zrwa", z>>,
           NEW size \in Nat, size <= f.remaining[b], NEW g, g = buffer_allocate(f, b, size)
    PROVE  /\ Sound(g) /\ g.zone = f.zone /\ g.acquired = f.acquired
           /\ g.inflight = f.inflight /\ g.programs = f.programs /\ g.lost = f.lost
           /\ \A c \in WriteBuffers : g.remaining[c] = f.remaining[c]
<1>1. f \in Ftl /\ b \in BufferNames
  BY BufferFacts DEF Sound
<1>2. /\ g \in Ftl /\ g.zone = f.zone /\ g.acquired = f.acquired
      /\ g.inflight = f.inflight /\ g.programs = f.programs /\ g.lost = f.lost
      /\ g.remaining[b] = f.remaining[b] - size
      /\ \A c \in BufferNames : c # b => g.remaining[c] = f.remaining[c]
  BY <1>1, Allocate
<1>3. \A c \in WriteBuffers : g.remaining[c] = f.remaining[c]
  BY <1>2, BufferFacts
<1>4. ZoneMoves(f, g, z)
  <2>1. /\ One(f.zone[z].state \in Opened) \in Int /\ One(f.zone[z].state \in Active) \in Int
        /\ One(HasWindow(f.zone[z])) \in Int
    BY DEF One
  <2> QED
    BY <1>2, <2>1, ZoneFacts DEF ZoneMoves
<1>5. StoreMoves(f, g, z)
  <2>1. PageSound(g.zone[z], z) /\ RowsSound(g, z) /\ Partial(g, z) = Partial(f, z)
    BY <1>2, ZoneFacts DEF RowsSound, Partial
  <2>2. \A c \in WriteBuffers : Space(g, c) = Space(f, c)
    BY <1>2, <1>3 DEF Space, Returning
  <2>3. <<"wb", WriteBuffer(z)>> \in WriteBuffers
    BY BufferFacts
  <2> QED
    BY <1>2, <1>3, <2>1, <2>2, <2>3 DEF StoreMoves
<1>6. Sound(g)
  BY <1>4, <1>5, StepSound
<1> QED
  BY <1>2, <1>3, <1>6

(* A closed zone with a window is opened again.                            *)
LEMMA ZrwaOpened ==
    ASSUME NEW f, NEW z \in Zones, Sound(f), f.zone[z].zrwav, f.zone[z].state # "FULL",
           NEW g, g = OpenForZrwaWrite(f, z)
    PROVE  \/ Sound(g) /\ g.fault # "none"
           \/ /\ Sound(g) /\ g.zone[z].state \in Opened
              /\ g.zone[z].wp = f.zone[z].wp /\ g.zone[z].zrwav
<1>0. f.zone[z].state \in Active /\ f \in Ftl
  <2>1. f.zone[z].state \in States /\ f.zone[z].state # "EMPTY"
    BY ZoneFacts DEF WpSound
  <2> QED
    BY <2>1, ZoneFacts DEF States, Active, Opened
<1>1. CASE f.zone[z].state \notin Unopened
  <2>1. g = f /\ f.zone[z].state \in Opened
    BY <1>0, <1>1 DEF OpenForZrwaWrite, Active, Unopened
  <2> QED
    BY <2>1
<1>2. CASE f.zone[z].state \in Unopened /\ f.remaining[<<"zrwa", z>>] < ZrwaSize
  <2>1. g = Faulty(f, "zrwa_buffer")
    BY <1>2 DEF OpenForZrwaWrite, Faulty
  <2>2. "zrwa_buffer" \in FaultKinds
    BY DEF FaultKinds
  <2>3. Sound(g)
    BY <2>1, <2>2, FaultSound
  <2>4. g.fault = "zrwa_buffer"
    BY <1>0, <2>1 DEF Faulty, Ftl
  <2> QED
    BY <2>3, <2>4
<1>3. CASE f.zone[z].state \in Unopened /\ ~(f.remaining[<<"zrwa", z>>] < ZrwaSize)
  <2>1. PICK b : b = <<"zrwa", z>>
    OBVIOUS
  <2>2. PICK h : h = buffer_allocate(f, b, ZrwaSize)
    OBVIOUS
  <2>3. ZrwaSize \in Nat /\ ZrwaSize <= f.remaining[b]
    <3>1. b \in BufferNames
      BY <2>1, BufferFacts
    <3> QED
      BY <1>0, <1>3, <2>1, <3>1, Sizes, SpaceType
  <2>4. /\ Sound(h) /\ h.zone = f.zone /\ h.acquired = f.acquired
        /\ h.inflight = f.inflight /\ h.programs = f.programs /\ h.lost = f.lost
        /\ \A c \in WriteBuffers : h.remaining[c] = f.remaining[c]
    BY <2>1, <2>2, <2>3, ZrwaCharged
  <2>5. PICK k : k = acquire_zone_resource(h, "OPEN")
    OBVIOUS
  <2>6. f.zone[z].state = "CLOSED" /\ h.zone[z].state = "CLOSED"
    BY <1>0, <1>3, <2>4 DEF Unopened, Active, Opened
  <2>7. g = WithState(k, z, "OPENED_IMPL")
    BY <1>3, <2>1, <2>2, <2>5 DEF OpenForZrwaWrite, WithState
  <2>8. k = IF h.zone[z].state = "CLOSED" THEN acquire_zone_resource(h, "OPEN") ELSE h
    BY <2>5, <2>6
  <2>9. "OPENED_IMPL" \in Opened
    BY DEF Opened
  <2>10. h.zone[z].state \in Active
    BY <1>0, <2>4
  <2>11. Sound(h)
    BY <2>4
  <2>12. Sound(g) /\ g.zone[z].state = "OPENED_IMPL" /\ g.zone[z].wp = h.zone[z].wp
         /\ g.zone[z].zrwav = h.zone[z].zrwav /\ Store(g) = Store(h)
    BY <2>7, <2>8, <2>9, <2>10, <2>11, TakesOpen
  <2> QED
    BY <2>4, <2>9, <2>12
<1> QED
  BY <1>1, <1>2, <1>3

(* A window does not move beyond the end of its zone.                      *)
LEMMA FlushBound ==
    ASSUME NEW z \in Zones, NEW wp \in Nat, NEW elba \in Nat, wp <= elba, elba <= zone_to_elba(z),
           ZrwaSize > 0
    PROVE  /\ ZrwaFlush(z, wp, elba) \in Nat
           /\ wp + ZrwaFlush(z, wp, elba) <= zone_to_slba(z) + ZoneSize
<1>1. PICK e \in Nat : e + 1 = zone_to_slba(z) + ZoneSize /\ zone_to_elba(z) = e
  BY Boundaries, Sizes
<1>2. ZrwaSize \in Nat /\ ZrwafgSize \in 1 .. ZrwaSize
  BY Sizes, Window
<1>3. CASE elba >= wp + ZrwaSize
  <2>1. PICK n \in Nat : n = elba - (wp + ZrwaSize) + ZrwafgSize /\ n <= elba - wp
    BY <1>2, <1>3
  <2>2. PICK q \in Nat, r \in Nat : q = n \div ZrwafgSize /\ n = ZrwafgSize * q + r
    <3>1. ZrwafgSize \in Nat \ {0}
      BY <1>2
    <3>2. n \div ZrwafgSize \in Nat /\ (n % ZrwafgSize) \in 0 .. ZrwafgSize - 1
          /\ n = ZrwafgSize * (n \div ZrwafgSize) + (n % ZrwafgSize)
      BY <3>1, DivMod
    <3> QED
      BY <3>2
  <2>3. ZrwaFlush(z, wp, elba) = q * ZrwafgSize
    BY <1>3, <2>1, <2>2 DEF ZrwaFlush
  <2>4. PICK m \in Nat : m = q * ZrwafgSize /\ m <= n
    <3>1. q * ZrwafgSize \in Nat /\ q * ZrwafgSize = ZrwafgSize * q
      BY <1>2
    <3> QED
      BY <2>2, <3>1
  <2> QED
    BY <1>1, <2>1, <2>3, <2>4
<1>4. CASE ~(elba >= wp + ZrwaSize)
  <2>1. ZrwaFlush(z, wp, elba) = IF elba = zone_to_elba(z) THEN elba - wp + 1 ELSE 0
    BY <1>4 DEF ZrwaFlush
  <2> QED
    BY <1>1, <2>1
<1> QED
  BY <1>3, <1>4

(* The one-shot pages that a window leaves behind.                         *)
WindowRows(z, wp, flush) ==
    {r \in Rows : LastPgOf(z, r) \in lba_to_lpn(wp) .. lba_to_lpn(wp) + flush \div SecsPerPg - 1}

(* A window that moves on programs pages between its old and its new       *)
(* start.                                                                  *)
LEMMA WindowRowsLie ==
    ASSUME NEW z \in Zones, NEW wp \in Nat, NEW flush \in Nat, NEW r \in WindowRows(z, wp, flush)
    PROVE  RowEnd(z, r) > wp /\ RowEnd(z, r) <= wp + flush
<1>1. r \in Rows /\ r \in Int
  BY RowsFinite DEF WindowRows
<1>2. PICK L, ZP : Pages(z, L, ZP)
  BY ZonePages
<1>3. RowEnd(z, r) = SecsPerPg * (LastPgOf(z, r) + 1) /\ RowEnd(z, r) \in Int /\ LastPgOf(z, r) \in Int
  BY <1>1, <1>2, RowEnds
<1>4. /\ wp \div SecsPerPg \in Nat /\ (wp % SecsPerPg) \in 0 .. SecsPerPg - 1
      /\ wp = SecsPerPg * (wp \div SecsPerPg) + (wp % SecsPerPg)
      /\ flush \div SecsPerPg \in Nat /\ (flush % SecsPerPg) \in 0 .. SecsPerPg - 1
      /\ flush = SecsPerPg * (flush \div SecsPerPg) + (flush % SecsPerPg)
  BY Sizes, DivMod
<1>5. PICK p \in Nat, q \in Nat, x \in Nat, y \in Nat :
         /\ p = wp \div SecsPerPg /\ q = flush \div SecsPerPg
         /\ wp = SecsPerPg * p + x /\ flush = SecsPerPg * q + y
  BY <1>4
<1>6. PICK m \in Int : m = LastPgOf(z, r) + 1 /\ m - 1 = LastPgOf(z, r)
  BY <1>3
<1>7. p <= m - 1 /\ m <= p + q
  BY <1>5, <1>6 DEF WindowRows, lba_to_lpn
<1>8. RowEnd(z, r) > wp
  <2>1. LastPgOf(z, r) >= lba_to_lpn(wp)
    BY <1>5, <1>6, <1>7 DEF lba_to_lpn
  <2> QED
    BY <1>1, <2>1, RowAfter
<1>9. SecsPerPg * m <= SecsPerPg * (p + q) /\ SecsPerPg * m \in Int
  BY <1>7, Sizes, TimesMonotone
<1>10. SecsPerPg * (p + q) = SecsPerPg * p + SecsPerPg * q
       /\ SecsPerPg * p \in Nat /\ SecsPerPg * q \in Nat
  BY Sizes
<1>11. SecsPerPg * m <= wp + flush
  BY <1>5, <1>9, <1>10
<1> QED
  BY <1>3, <1>6, <1>8, <1>11

(* The window moves on, and the one-shot pages it leaves are programmed.   *)
LEMMA WindowMoves ==
    ASSUME NEW h, NEW z \in Zones, Sound(h), OpenedFor(h, h, z), h.zone[z].zrwav, NEW flush \in Nat,
           h.zone[z].wp + flush <= zone_to_slba(z) + ZoneSize, NEW size, NEW j,
           Wrote(h, j, z, flush, <<"zrwa", z>>, WindowRows(z, h.zone[z].wp, flush), size)
    PROVE  Sound(j)
<1>1. ZoneMoves(h, j, z)
  BY AdvanceMoves
<1>2. PICK wp \in Nat : wp = h.zone[z].wp
  BY ZoneFacts
<1>3. j.zone[z].zrwav /\ j.zone[z].wp = wp + flush /\ h.zone[z].state # "FULL"
  BY <1>2 DEF Wrote, OpenedFor, Opened
<1>4. PageSound(j.zone[z], z) /\ Partial(j, z) = 0 /\ Partial(h, z) = 0
  BY <1>3 DEF PageSound, Partial
<1>5. \A c \in WriteBuffers : /\ j.remaining[c] = h.remaining[c] /\ j.lost[c] = h.lost[c]
                              /\ j.inflight[c] = h.inflight[c]
  BY BufferFacts DEF Wrote
<1>6. \A c \in WriteBuffers : Space(j, c) = Space(h, c)
  BY <1>5 DEF Space, Returning
<1>7. <<"wb", WriteBuffer(z)>> \in WriteBuffers
  BY BufferFacts
<1>8. RowsSound(j, z)
  <2>1. SUFFICES ASSUME Aligned, NEW r \in Rows
                 PROVE  /\ j.programs[z][r] <= 1
                        /\ j.programs[z][r] # 0 => RowEnd(z, r) <= wp + flush
    BY <1>3 DEF RowsSound, RowEnd
  <2>2. RowEnd(z, r) \in Int
    <3>1. PICK L, ZP : Pages(z, L, ZP)
      BY ZonePages
    <3> QED
      BY <3>1, RowEnds, RowsFinite
  <2>3. /\ h.programs[z][r] \in Nat /\ h.programs[z][r] <= 1
        /\ (h.programs[z][r] # 0 => RowEnd(z, r) <= wp)
    <3>1. RowsSound(h, z) /\ h \in Ftl
      BY ZoneFacts
    <3>2. h.programs[z] \in [Rows -> Nat]
      BY <3>1 DEF Ftl
    <3> QED
      BY <1>2, <1>3, <2>1, <3>1, <3>2 DEF RowsSound, RowEnd
  <2>4. CASE r \notin WindowRows(z, wp, flush)
    <3>1. j.programs[z][r] = h.programs[z][r] + 0
      BY <1>2, <2>4 DEF Wrote
    <3> QED
      BY <2>2, <2>3, <3>1
  <2>5. CASE r \in WindowRows(z, wp, flush)
    <3>1. j.programs[z][r] = h.programs[z][r] + 1
      BY <1>2, <2>5 DEF Wrote
    <3>2. RowEnd(z, r) > wp /\ RowEnd(z, r) <= wp + flush
      BY <2>5, WindowRowsLie
    <3> QED
      BY <2>2, <2>3, <3>1, <3>2
  <2> QED
    BY <2>4, <2>5
<1>9. \A y \in Zones : y # z => j.programs[y] = h.programs[y]
  BY DEF Wrote
<1>10. StoreMoves(h, j, z)
  BY <1>4, <1>5, <1>6, <1>7, <1>8, <1>9 DEF StoreMoves
<1> QED
  BY <1>1, <1>10, StepSound

(* A write without buffer space keeps the invariant.                       *)
LEMMA RetrySound ==
    ASSUME NEW f, Sound(f)
    PROVE  Sound(Retry(f))
<1>1. f \in Ftl
  BY DEF Sound
<1>2. Quiet(f, Retry(f))
  BY <1>1, Waits
<1> QED
  BY <1>2, QuietSound

(* What a write in the window of a zone needs in order to be accepted.     *)
LEMMA ZrwaAccepted ==
    ASSUME NEW f, NEW z \in Zones, Sound(f), NEW slba \in Nat, lba_to_zone(slba) = z,
           NEW nr \in Nat \ {0}
    PROVE  /\ ZrwaWriteError(f, z, slba, nr) \in Statuses
           /\ ZrwaWriteError(f, z, slba, nr) = "SUCCESS" =>
                 /\ f.zone[z].state # "FULL" /\ ZrwaSize > 0 /\ slba + nr - 1 \in Nat
                 /\ f.zone[z].wp <= slba + nr - 1 /\ slba + nr - 1 <= zone_to_elba(z)
<1>1. ZrwaWriteError(f, z, slba, nr) \in Statuses
  BY DEF ZrwaWriteError, Statuses
<1>2. ASSUME ZrwaWriteError(f, z, slba, nr) = "SUCCESS"
      PROVE  /\ SameZone(slba, nr) /\ f.zone[z].state # "FULL"
             /\ ~(slba < f.zone[z].wp) /\ ~(slba + nr - 1 > f.zone[z].wp + 2 * ZrwaSize - 1)
  BY <1>2 DEF ZrwaWriteError
<1>3. PICK e \in Nat : e = slba + nr - 1
  OBVIOUS
<1>4. SameZone(slba, nr) => e <= zone_to_elba(z)
  <2>1. SUFFICES ASSUME SameZone(slba, nr)
                 PROVE  e <= zone_to_elba(z)
    OBVIOUS
  <2>2. lba_to_zone(e) = z
    BY <1>3, <2>1 DEF SameZone
  <2>3. e \in zone_to_slba(z) .. zone_to_slba(z) + ZoneSize - 1
    BY <2>2, ZoneOfLba
  <2> QED
    BY <2>3, Boundaries
<1>5. f.zone[z].wp \in Nat /\ ZrwaSize \in Nat
  BY ZoneFacts, Sizes
<1> QED
  BY <1>1, <1>2, <1>3, <1>4, <1>5

(* Writes to a zone with a window: __zns_write_zrwa().                     *)
LEMMA ZrwaWriteSound ==
    ASSUME NEW f, NEW z \in Zones, Sound(f), f.zone[z].zrwav, NEW slba \in Nat,
           lba_to_zone(slba) = z, NEW nr \in Nat \ {0}
    PROVE  Sound(__zns_write_zrwa(f, z, slba, nr))
<1>0. PICK q : q = __zns_write_zrwa(f, z, slba, nr)
  OBVIOUS
<1>1. PICK err \in Statuses : err = ZrwaWriteError(f, z, slba, nr)
  BY ZrwaAccepted
<1>2. CASE err # "SUCCESS"
  <2>1. q = Refuse(f, err)
    BY <1>0, <1>1, <1>2 DEF __zns_write_zrwa
  <2> QED
    BY <1>0, <2>1, RefuseSound
<1>3. CASE err = "SUCCESS"
  <2>1. PICK wp \in Nat, elba \in Nat :
           /\ wp = f.zone[z].wp /\ elba = slba + nr - 1 /\ wp <= elba /\ elba <= zone_to_elba(z)
           /\ f.zone[z].state # "FULL" /\ ZrwaSize > 0
    BY <1>1, <1>3, ZrwaAccepted, ZoneFacts
  <2>2. PICK flush \in Nat : /\ flush = ZrwaFlush(z, wp, elba)
                             /\ wp + flush <= zone_to_slba(z) + ZoneSize
    BY <2>1, FlushBound
  <2>3. PICK g : g = OpenForZrwaWrite(f, z)
    OBVIOUS
  <2>4. \/ Sound(g) /\ g.fault # "none"
        \/ /\ Sound(g) /\ g.zone[z].state \in Opened
           /\ g.zone[z].wp = f.zone[z].wp /\ g.zone[z].zrwav
    BY <2>1, <2>3, ZrwaOpened
  <2>5. PICK b : b = <<"zrwa", z>>
    OBVIOUS
  <2>6. PICK h : h = buffer_allocate(g, b, flush)
    OBVIOUS
  <2>7. PICK rows : rows = WindowRows(z, wp, flush)
    OBVIOUS
  <2>8. PICK size : size = [r \in rows |-> Oneshot]
    OBVIOUS
  <2>9. q = IF g.fault # "none" \/ flush = 0 THEN g
            ELSE IF flush > ZrwaBufferSize THEN Faulty(g, "buffer_allocate")
            ELSE IF g.remaining[b] < flush THEN Retry(g)
            ELSE ProgramRows(__increase_write_ptr(h, z, flush), z, b, rows, size)
    BY <1>0, <1>1, <1>3, <2>1, <2>2, <2>3, <2>5, <2>6, <2>7, <2>8
    DEF __zns_write_zrwa, WindowRows, Faulty, Retry
  <2>10. CASE q = g
    BY <1>0, <2>4, <2>10
  <2>11. CASE q = Faulty(g, "buffer_allocate")
    <3>1. "buffer_allocate" \in FaultKinds
      BY DEF FaultKinds
    <3> QED
      BY <1>0, <2>4, <2>11, <3>1, FaultSound
  <2>12. CASE q = Retry(g)
    BY <1>0, <2>4, <2>12, RetrySound
  <2>13. CASE /\ g.fault = "none" /\ ~(g.remaining[b] < flush)
              /\ q = ProgramRows(__increase_write_ptr(h, z, flush), z, b, rows, size)
    <3>1. Sound(g) /\ g \in Ftl /\ g.zone[z].state \in Opened /\ g.zone[z].wp = wp /\ g.zone[z].zrwav
      BY <2>1, <2>4, <2>13 DEF Sound
    <3>2. b \in BufferNames
      BY <2>5, BufferFacts
    <3>3. flush <= g.remaining[b]
      BY <2>13, <3>1, <3>2, SpaceType
    <3>4. /\ Sound(h) /\ h.zone = g.zone /\ h.acquired = g.acquired
          /\ h.inflight = g.inflight /\ h.programs = g.programs /\ h.lost = g.lost
          /\ \A c \in WriteBuffers : h.remaining[c] = g.remaining[c]
      BY <2>5, <2>6, <3>1, <3>3, ZrwaCharged
    <3>5. Sound(h) /\ h \in Ftl /\ h.zone[z].zrwav /\ h.zone[z].wp = wp
      BY <3>1, <3>4 DEF Sound
    <3>6. OpenedFor(h, h, z)
      <4>1. h.zone[z].state \in Opened /\ h.zone[z].state \in Active
        BY <3>1, <3>4 DEF Active
      <4> QED
        BY <2>1, <3>5, <4>1, ZoneFacts, Sizes DEF OpenedFor, One
    <3>7. IsFiniteSet(rows)
      BY <2>7, RowsFinite, FS_Subset DEF WindowRows
    <3>8. Wrote(h, q, z, flush, b, rows, size)
      BY <2>13, <3>2, <3>5, <3>7, Writes
    <3>9. Wrote(h, q, z, flush, <<"zrwa", z>>, WindowRows(z, h.zone[z].wp, flush), size)
      BY <2>5, <2>7, <3>5, <3>8
    <3>10. h.zone[z].wp + flush <= zone_to_slba(z) + ZoneSize
      BY <2>2, <3>5
    <3>11. Sound(q)
      BY <3>5, <3>6, <3>9, <3>10, WindowMoves
    <3> QED
      BY <1>0, <3>11
  <2> QED
    BY <2>9, <2>10, <2>11, <2>12, <2>13
<1> QED
  BY <1>2, <1>3
-----------------------------------------------------------------------------
(* Writes outside a window, counted in pages.                              *)

(* n pages are some one-shot pages and a rest.                             *)
LEMMA ScaledMod ==
    ASSUME NEW n \in Nat
    PROVE  /\ (SecsPerPg * n) % Oneshot = SecsPerPg * (n % PgsPerOneshot)
           /\ SecsPerPg * n = Oneshot * (n \div PgsPerOneshot) + SecsPerPg * (n % PgsPerOneshot)
           /\ n \div PgsPerOneshot \in Nat /\ SecsPerPg * (n % PgsPerOneshot) \in 0 .. Oneshot - 1
           /\ (n % PgsPerOneshot) \in 0 .. PgsPerOneshot - 1
           /\ n = PgsPerOneshot * (n \div PgsPerOneshot) + (n % PgsPerOneshot)
<1>0. SecsPerPg \in Nat \ {0} /\ PgsPerOneshot \in Nat \ {0} /\ Oneshot \in Nat \ {0}
  BY Sizes
<1>1. /\ n \div PgsPerOneshot \in Nat /\ (n % PgsPerOneshot) \in 0 .. PgsPerOneshot - 1
      /\ n = PgsPerOneshot * (n \div PgsPerOneshot) + (n % PgsPerOneshot)
  BY <1>0, DivMod
<1>2. PICK q \in Nat, e \in 0 .. PgsPerOneshot - 1 :
         q = n \div PgsPerOneshot /\ e = n % PgsPerOneshot /\ n = PgsPerOneshot * q + e
  BY <1>1
<1>3. SecsPerPg * (PgsPerOneshot * q + e) = (SecsPerPg * PgsPerOneshot) * q + SecsPerPg * e
  BY <1>0
<1>4. SecsPerPg * n = Oneshot * q + SecsPerPg * e
  BY <1>2, <1>3 DEF Oneshot
<1>5. SecsPerPg * e \in 0 .. Oneshot - 1
  <2>1. SecsPerPg * e <= SecsPerPg * (PgsPerOneshot - 1) /\ SecsPerPg * e \in Nat
    <3>1. e \in Nat /\ PgsPerOneshot - 1 \in Int /\ e <= PgsPerOneshot - 1
      BY <1>0
    <3>2. SecsPerPg * e <= SecsPerPg * (PgsPerOneshot - 1)
      BY <1>0, <3>1, TimesMonotone
    <3> QED
      BY <1>0, <3>1, <3>2
  <2>2. SecsPerPg * (PgsPerOneshot - 1) = SecsPerPg * PgsPerOneshot - SecsPerPg
        /\ SecsPerPg * PgsPerOneshot \in Nat
    BY <1>0
  <2> QED
    BY <1>0, <2>1, <2>2 DEF Oneshot
<1>6. (Oneshot * q + SecsPerPg * e) % Oneshot = SecsPerPg * e
  BY <1>0, <1>5, ModUnique
<1> QED
  BY <1>1, <1>2, <1>4, <1>5, <1>6

(* The releases on their way to a buffer, by size.                         *)
LEMMA ReturningValue ==
    ASSUME NEW f \in Ftl, NEW b \in BufferNames
    PROVE  Returning(f, b) = Oneshot * f.inflight[b][Oneshot]
                             + IF Unaligned > 0 THEN Unaligned * f.inflight[b][Unaligned] ELSE 0
<1>1. PICK a : a = [s \in ReleaseSizes |-> s * f.inflight[b][s]]
  OBVIOUS
<1>2. \A s \in ReleaseSizes : a[s] = s * f.inflight[b][s] /\ a[s] \in Int
  BY <1>1, SpaceType
<1>3. Oneshot \in Nat \ {0} /\ Unaligned \in 0 .. Oneshot - 1
  BY Sizes
<1>4. Oneshot \in ReleaseSizes /\ (Unaligned > 0 => Unaligned \in ReleaseSizes)
  BY <1>3 DEF ReleaseSizes
<1>5. SumFunctionOnSet(a, ReleaseSizes) = a[Oneshot] + SumFunctionOnSet(a, ReleaseSizes \ {Oneshot})
  BY <1>2, <1>4, BufferFacts, SumRemove
<1>6. Returning(f, b) = SumFunctionOnSet(a, ReleaseSizes)
  BY <1>1 DEF Returning
<1>7. CASE Unaligned = 0
  <2>1. ReleaseSizes \ {Oneshot} = {}
    BY <1>3, <1>7 DEF ReleaseSizes
  <2>2. SumFunctionOnSet(a, ReleaseSizes \ {Oneshot}) = 0
    BY <2>1, SumEmpty
  <2> QED
    BY <1>2, <1>4, <1>5, <1>6, <1>7, <2>2
<1>8. CASE Unaligned > 0
  <2>1. PICK T : T = ReleaseSizes \ {Oneshot} /\ T \ {Unaligned} = {} /\ Unaligned \in T
    <3>1. Unaligned # Oneshot /\ Unaligned # 0
      BY <1>3, <1>8
    <3>2. \A s \in ReleaseSizes \ {Oneshot} : s = Unaligned
      BY DEF ReleaseSizes
    <3>3. (ReleaseSizes \ {Oneshot}) \ {Unaligned} = {} /\ Unaligned \in ReleaseSizes \ {Oneshot}
      BY <3>1, <3>2, <1>4, <1>8
    <3> QED
      BY <3>3
  <2>2. IsFiniteSet(T) /\ \A s \in T : a[s] \in Int
    BY <1>2, <2>1, BufferFacts, FS_Subset
  <2>3. SumFunctionOnSet(a, T) = a[Unaligned] + SumFunctionOnSet(a, T \ {Unaligned})
    BY <2>1, <2>2, SumRemove
  <2>4. SumFunctionOnSet(a, T \ {Unaligned}) = 0
    BY <2>1, SumEmpty
  <2> QED
    BY <1>2, <1>4, <1>5, <1>6, <1>8, <2>1, <2>3, <2>4
<1> QED
  BY <1>3, <1>7, <1>8

(* Space on its way back after releases of each size are added.            *)
LEMMA ReturningMoves ==
    ASSUME NEW f \in Ftl, NEW g \in Ftl, NEW b \in BufferNames, NEW n,
           \A s \in ReleaseSizes : n[s] \in Int /\ g.inflight[b][s] = f.inflight[b][s] + n[s]
    PROVE  Returning(g, b) = Returning(f, b) + Oneshot * n[Oneshot]
                             + IF Unaligned > 0 THEN Unaligned * n[Unaligned] ELSE 0
<1>1. Oneshot \in Nat \ {0} /\ Unaligned \in 0 .. Oneshot - 1
  BY Sizes
<1>2. Oneshot \in ReleaseSizes /\ (Unaligned > 0 => Unaligned \in ReleaseSizes)
  BY <1>1 DEF ReleaseSizes
<1>3. PICK x \in Nat, m \in Int :
         x = f.inflight[b][Oneshot] /\ m = n[Oneshot] /\ g.inflight[b][Oneshot] = x + m
  BY <1>2, SpaceType
<1>4. Oneshot * (x + m) = Oneshot * x + Oneshot * m /\ Oneshot * x \in Int /\ Oneshot * m \in Int
  BY <1>1
<1>5. /\ Returning(f, b) = Oneshot * x
                             + IF Unaligned > 0 THEN Unaligned * f.inflight[b][Unaligned] ELSE 0
      /\ Returning(g, b) = Oneshot * (x + m)
                             + IF Unaligned > 0 THEN Unaligned * g.inflight[b][Unaligned] ELSE 0
  BY <1>3, ReturningValue
<1>6. CASE Unaligned = 0
  BY <1>3, <1>4, <1>5, <1>6
<1>7. CASE Unaligned > 0
  <2>1. PICK y \in Nat, l \in Int :
           y = f.inflight[b][Unaligned] /\ l = n[Unaligned] /\ g.inflight[b][Unaligned] = y + l
    BY <1>2, <1>7, SpaceType
  <2>2. Unaligned * (y + l) = Unaligned * y + Unaligned * l
        /\ Unaligned * y \in Int /\ Unaligned * l \in Int
    BY <1>1
  <2>3. Returning(f, b) = Oneshot * x + Unaligned * y
        /\ Returning(g, b) = Oneshot * (x + m) + Unaligned * (y + l)
    BY <1>5, <1>7, <2>1
  <2> QED
    BY <1>3, <1>4, <1>7, <2>1, <2>2, <2>3
<1> QED
  BY <1>1, <1>6, <1>7

(* The one-shot pages that a write of the zone's pages k .. e programs.    *)
LEMMA FilledInPages ==
    ASSUME NEW z \in Zones, NEW L, NEW ZP, Pages(z, L, ZP), NEW k \in Nat, NEW e \in Nat, NEW r
    PROVE  r \in FilledRows(z, L + k, L + e) <=>
              /\ r \in Int /\ k \div PgsPerOneshot <= r /\ r <= e \div PgsPerOneshot
              /\ PgsPerOneshot * (r + 1) <= e + 1 \/ e + 1 = ZP
<1>1. /\ OneshotOf(z, L + k) = k \div PgsPerOneshot /\ OneshotOf(z, L + e) = e \div PgsPerOneshot
      /\ zone_to_elpn(z) = L + ZP - 1
      /\ \A i \in Int : LastPgOf(z, i) = L + PgsPerOneshot * (i + 1) - 1
  BY PageOf
<1>2. PICK p \in Nat, q \in Nat : p = k \div PgsPerOneshot /\ q = e \div PgsPerOneshot
  BY ScaledMod
<1>3. L \in Nat /\ ZP \in Nat \ {0} /\ PgsPerOneshot \in Nat \ {0}
  BY Sizes DEF Pages
<1>4. r \in FilledRows(z, L + k, L + e) <=>
         r \in p .. q /\ (LastPgOf(z, r) <= L + e \/ L + e = L + ZP - 1)
  BY <1>1, <1>2 DEF FilledRows
<1>5. ASSUME r \in Int
      PROVE  LastPgOf(z, r) <= L + e <=> PgsPerOneshot * (r + 1) <= e + 1
  <2>1. PICK x \in Int : x = PgsPerOneshot * (r + 1)
    BY <1>3, <1>5
  <2>2. LastPgOf(z, r) = L + x - 1
    BY <1>1, <1>5, <2>1
  <2> QED
    BY <1>3, <2>1, <2>2
<1>6. L + e = L + ZP - 1 <=> e + 1 = ZP
  BY <1>3
<1> QED
  BY <1>2, <1>4, <1>5, <1>6

(* What is given back for a one-shot page.                                 *)
LEMMA SizeInPages ==
    ASSUME NEW z \in Zones, NEW L, NEW ZP, Pages(z, L, ZP), NEW r \in Int
    PROVE  BytesToRelease(z, r) = IF PgsPerOneshot * (r + 1) >= ZP /\ Unaligned > 0
                                  THEN Unaligned ELSE Oneshot
<1>1. L \in Nat /\ ZP \in Nat \ {0} /\ PgsPerOneshot \in Nat \ {0} /\ 0 \in Nat
  BY Sizes DEF Pages
<1>2. /\ zone_to_elpn(z) = L + ZP - 1
      /\ \A i \in Int : LastPgOf(z, i) = L + PgsPerOneshot * (i + 1) - 1
  BY <1>1, PageOf
<1>3. PICK x \in Int : x = PgsPerOneshot * (r + 1)
  BY <1>1
<1>4. LastPgOf(z, r) >= zone_to_elpn(z) <=> x >= ZP
  BY <1>1, <1>2, <1>3
<1> QED
  BY <1>3, <1>4 DEF BytesToRelease

(* All of them are whole, unless the write ends the zone and the zone's    *)
(* last one-shot page is short.                                            *)
LEMMA WholeRows ==
    ASSUME NEW z \in Zones, NEW L, NEW ZP, Pages(z, L, ZP), NEW k \in Nat, NEW e \in Nat,
           e + 1 <= ZP, e + 1 < ZP \/ ZP % PgsPerOneshot = 0
    PROVE  FilledRows(z, L + k, L + e) = k \div PgsPerOneshot .. (e + 1) \div PgsPerOneshot - 1
<1>1. PICK P \in Nat \ {0} : P = PgsPerOneshot
  BY Sizes
<1>2. PICK p \in Nat, q \in Nat, d \in Nat :
         p = k \div P /\ q = e \div P /\ d = (e + 1) \div P
  <2>1. e + 1 \in Nat
    OBVIOUS
  <2> QED
    BY <1>1, <2>1, ScaledMod
<1>3. SUFFICES ASSUME NEW r \in Int
               PROVE  r <= q /\ (P * (r + 1) <= e + 1 \/ e + 1 = ZP) <=> r <= d - 1
  <2>1. PICK R : R = FilledRows(z, L + k, L + e)
    OBVIOUS
  <2>2. ASSUME NEW r
        PROVE  r \in R <=> /\ r \in Int /\ p <= r /\ r <= q
                           /\ P * (r + 1) <= e + 1 \/ e + 1 = ZP
    BY <1>1, <1>2, <2>1, FilledInPages
  <2>3. ASSUME \A r \in Int : r <= q /\ (P * (r + 1) <= e + 1 \/ e + 1 = ZP) <=> r <= d - 1
        PROVE  \A r : r \in R <=> r \in p .. d - 1
    BY <1>2, <2>2, <2>3
  <2> QED
    BY <1>1, <1>2, <2>1, <2>3
<1>4. P * (r + 1) <= e + 1 <=> r + 1 <= d
  BY <1>1, <1>2, QuotientBound
<1>5. P * r <= e <=> r <= q
  BY <1>1, <1>2, QuotientBound
<1>6. P * (r + 1) = P * r + P /\ P * r \in Int
  BY <1>1
<1>7. r <= d - 1 => r <= q
  BY <1>1, <1>2, <1>4, <1>5, <1>6
<1>8. CASE e + 1 < ZP
  <2>1. e + 1 # ZP
    BY <1>8 DEF Pages
  <2> QED
    BY <1>2, <1>4, <1>7, <2>1
<1>9. CASE e + 1 = ZP /\ ZP % PgsPerOneshot = 0
  <2>1. PICK c \in Nat : e + 1 = P * c
    <3>1. e + 1 \in Nat /\ (e + 1) % P = 0
      BY <1>1, <1>9
    <3> QED
      BY <1>1, <3>1, Multiple
  <2>2. d = c
    <3>1. (P * c + 0) \div P = c
      BY <1>1, DivUnique
    <3>2. P * c + 0 = e + 1
      BY <2>1
    <3> QED
      BY <1>2, <3>1, <3>2
  <2>3. r <= q => r <= d - 1
    <3>1. SUFFICES ASSUME r <= q, ~(r + 1 <= d)
                   PROVE  FALSE
      BY <1>2
    <3>2. d <= r
      BY <1>2, <3>1
    <3>3. P * d <= P * r
      BY <1>1, <1>2, <3>2, TimesMonotone
    <3> QED
      BY <1>5, <1>6, <2>1, <2>2, <3>1, <3>3
  <2> QED
    BY <1>7, <1>9, <2>3
<1> QED
  BY <1>8, <1>9 DEF Pages

(* A write to the end of a zone whose last one-shot page is short programs *)
(* that one too.                                                           *)
LEMMA ShortRow ==
    ASSUME NEW z \in Zones, NEW L, NEW ZP, Pages(z, L, ZP), NEW k \in Nat, NEW e \in Nat,
           e + 1 = ZP, ZP % PgsPerOneshot # 0
    PROVE  FilledRows(z, L + k, L + e) = k \div PgsPerOneshot .. (e + 1) \div PgsPerOneshot
<1>1. PICK P \in Nat \ {0} : P = PgsPerOneshot
  BY Sizes
<1>2. PICK p \in Nat, q \in Nat : p = k \div P /\ q = e \div P
  BY <1>1, ScaledMod
<1>3. PICK d \in Nat, s \in 1 .. P - 1 : d = (e + 1) \div P /\ e + 1 = P * d + s
  <2>1. e + 1 \in Nat /\ (e + 1) % P # 0
    BY <1>1
  <2>2. /\ (e + 1) \div P \in Nat /\ ((e + 1) % P) \in 0 .. P - 1
        /\ e + 1 = P * ((e + 1) \div P) + ((e + 1) % P)
    BY <1>1, <2>1, DivMod
  <2> QED
    BY <1>1, <2>1, <2>2
<1>4. q = d
  <2>1. s - 1 \in 0 .. P - 1 /\ P * d \in Nat
    BY <1>1
  <2>2. e = P * d + (s - 1)
    BY <1>3, <2>1
  <2>3. (P * d + (s - 1)) \div P = d
    BY <1>1, <2>1, DivUnique
  <2> QED
    BY <1>2, <2>2, <2>3
<1>5. PICK R : R = FilledRows(z, L + k, L + e)
  OBVIOUS
<1>6. ASSUME NEW r
      PROVE  r \in R <=> r \in Int /\ p <= r /\ r <= q
  BY <1>1, <1>2, <1>5, FilledInPages
<1>7. \A r : r \in R <=> r \in p .. d
  BY <1>2, <1>3, <1>4, <1>6
<1> QED
  BY <1>1, <1>2, <1>3, <1>5, <1>7

(* The size of an interval, which may be empty.                            *)
LEMMA IntervalSize ==
    ASSUME NEW a \in Int, NEW b \in Int, a <= b + 1
    PROVE  IsFiniteSet(a .. b) /\ Cardinality(a .. b) = b + 1 - a
<1>1. CASE a <= b
  BY <1>1, FS_Interval
<1>2. CASE a = b + 1
  <2>1. a .. b = {}
    BY <1>2
  <2> QED
    BY <1>2, <2>1, FS_EmptySet
<1> QED
  BY <1>1, <1>2

Fills(z, L, ZP, k, e, rows, n) ==
    /\ Pages(z, L, ZP) /\ k \in Nat /\ e \in Nat /\ k <= e /\ e + 1 <= ZP
    /\ rows = FilledRows(z, L + k, L + e)
    /\ \A s \in ReleaseSizes : n[s] = Cardinality({r \in rows : BytesToRelease(z, r) = s})
GivesWritten(n, ZP, k, e) ==
    Oneshot * n[Oneshot] + (IF Unaligned > 0 THEN Unaligned * n[Unaligned] ELSE 0)
      = SecsPerPg * (e + 1) - SecsPerPg * k + SecsPerPg * (k % PgsPerOneshot)
        - IF e + 1 = ZP THEN 0 ELSE SecsPerPg * ((e + 1) % PgsPerOneshot)

(* What those one-shot pages give back: the pages written, and what the    *)
(* unfinished page held before, without what it holds now.                 *)
LEMMA FilledValue ==
    ASSUME NEW z \in Zones, NEW L, NEW ZP, NEW k, NEW e, NEW rows, NEW n,
           Fills(z, L, ZP, k, e, rows, n)
    PROVE  IsFiniteSet(rows) /\ GivesWritten(n, ZP, k, e)
<1>f. /\ Pages(z, L, ZP) /\ k \in Nat /\ e \in Nat /\ k <= e /\ e + 1 <= ZP
      /\ rows = FilledRows(z, L + k, L + e)
      /\ \A s \in ReleaseSizes : n[s] = Cardinality({r \in rows : BytesToRelease(z, r) = s})
  BY DEF Fills
<1> USE <1>f
<1>g. SUFFICES /\ IsFiniteSet(rows)
               /\ Oneshot * n[Oneshot] + (IF Unaligned > 0 THEN Unaligned * n[Unaligned] ELSE 0)
                    = SecsPerPg * (e + 1) - SecsPerPg * k + SecsPerPg * (k % PgsPerOneshot)
                      - IF e + 1 = ZP THEN 0 ELSE SecsPerPg * ((e + 1) % PgsPerOneshot)
  BY DEF GivesWritten
<1>0. /\ e + 1 \in Nat /\ ZP \in Nat /\ Oneshot \in Nat \ {0} /\ Unaligned \in 0 .. Oneshot - 1
      /\ SecsPerPg \in Nat \ {0}
  BY Sizes DEF Pages
<1>a. e + 1 \in Nat
  BY <1>0
<1>b. ZP \in Nat
  BY <1>0
<1>1. PICK P \in Nat \ {0} : P = PgsPerOneshot
  BY Sizes
<1>2. PICK d1 \in Nat, v1 \in Int : /\ d1 = k \div P /\ v1 = SecsPerPg * (k % P)
                                    /\ SecsPerPg * k = Oneshot * d1 + v1
  <2>1. /\ SecsPerPg * k = Oneshot * (k \div P) + SecsPerPg * (k % P)
        /\ k \div P \in Nat /\ SecsPerPg * (k % P) \in 0 .. Oneshot - 1
    BY <1>1, ScaledMod
  <2> QED
    BY <2>1
<1>3. PICK d2 \in Nat, v2 \in Int : /\ d2 = (e + 1) \div P /\ v2 = SecsPerPg * ((e + 1) % P)
                                    /\ SecsPerPg * (e + 1) = Oneshot * d2 + v2
  <2>1. /\ SecsPerPg * (e + 1) = Oneshot * ((e + 1) \div P) + SecsPerPg * ((e + 1) % P)
        /\ (e + 1) \div P \in Nat /\ SecsPerPg * ((e + 1) % P) \in 0 .. Oneshot - 1
    BY <1>0, <1>1, ScaledMod
  <2> QED
    BY <2>1
<1>4. d1 <= d2
  <2>1. P * d1 <= k
    BY <1>1, <1>2, QuotientBound
  <2>2. P * d1 \in Int
    BY <1>1
  <2>3. P * d1 <= e + 1
    BY <2>1, <2>2
  <2> QED
    <3>1. P * d1 <= e + 1 <=> d1 <= (e + 1) \div P
      BY <1>a, <1>1, QuotientBound
    <3> QED
      BY <1>3, <2>3, <3>1
<1>5. PICK x \in Int, y \in Int, w \in Int : /\ x = Oneshot * d1 /\ y = Oneshot * d2
                                             /\ w = Oneshot * (d2 - d1) /\ w = y - x
  <2>1. Oneshot * (d2 - d1) = Oneshot * d2 - Oneshot * d1 /\ Oneshot * d1 \in Int /\ Oneshot * d2 \in Int
    BY <1>0
  <2> QED
    BY <2>1
<1>6. Unaligned = SecsPerPg * (ZP % P)
  <2>1. (SecsPerPg * ZP) % Oneshot = SecsPerPg * (ZP % PgsPerOneshot)
    BY <1>0, ScaledMod
  <2> QED
    BY <1>1, <2>1 DEF Unaligned, Pages
<1>7. Oneshot \in ReleaseSizes /\ (Unaligned > 0 => Unaligned \in ReleaseSizes) /\ Unaligned # Oneshot
  BY <1>0 DEF ReleaseSizes
<1>8. (ZP % P = 0 <=> Unaligned = 0) /\ (ZP % P) \in Nat
  <2>0. (ZP % P) \in 0 .. P - 1
    BY <1>b, <1>1, DivMod
  <2>1. PICK c \in Nat : c = ZP % P
    BY <2>0
  <2>2. Unaligned = SecsPerPg * c
    BY <1>6, <2>1
  <2>3. SecsPerPg * c = 0 <=> c = 0
    BY <1>0
  <2> QED
    BY <2>1, <2>2, <2>3
<1>9. CASE e + 1 < ZP \/ ZP % P = 0
  <2>1. rows = d1 .. d2 - 1
    <3>1. e + 1 < ZP \/ ZP % PgsPerOneshot = 0
      BY <1>1, <1>9
    <3>2. FilledRows(z, L + k, L + e)
            = k \div PgsPerOneshot .. (e + 1) \div PgsPerOneshot - 1
      BY <3>1, WholeRows
    <3>3. d1 = k \div PgsPerOneshot /\ d2 = (e + 1) \div PgsPerOneshot
      BY <1>1, <1>2, <1>3
    <3> QED
      BY <3>2, <3>3
  <2>2. IsFiniteSet(rows) /\ Cardinality(rows) = d2 - d1
    <3>1. d2 - 1 \in Int /\ d1 <= (d2 - 1) + 1 /\ (d2 - 1) + 1 - d1 = d2 - d1
      BY <1>4
    <3> QED
      BY <2>1, <3>1, IntervalSize
  <2>3. ASSUME NEW r \in rows
        PROVE  BytesToRelease(z, r) = Oneshot
    <3>1. r \in Int /\ r + 1 <= d2
      BY <2>1
    <3>a. P * (r + 1) \in Int /\ r + 1 \in Int
      BY <1>1, <3>1
    <3>b. P * (r + 1) <= e + 1 <=> r + 1 <= (e + 1) \div P
      BY <1>a, <1>1, <3>a, QuotientBound
    <3>2. P * (r + 1) <= e + 1 /\ P * (r + 1) \in Int
      BY <1>3, <3>1, <3>a, <3>b
    <3>3. ~(P * (r + 1) >= ZP /\ Unaligned > 0)
      BY <1>0, <1>8, <1>9, <3>2
    <3> QED
      BY <1>1, <3>1, <3>3, SizeInPages
  <2>4. n[Oneshot] = d2 - d1
    <3>1. {r \in rows : BytesToRelease(z, r) = Oneshot} = rows
      BY <2>3
    <3> QED
      BY <1>7, <2>2, <3>1
  <2>5. Unaligned > 0 => n[Unaligned] = 0
    <3>1. {r \in rows : BytesToRelease(z, r) = Unaligned} = {}
      BY <1>7, <2>3
    <3> QED
      BY <1>7, <3>1, FS_EmptySet
  <2>6. Oneshot * n[Oneshot] + (IF Unaligned > 0 THEN Unaligned * n[Unaligned] ELSE 0) = w
    <3>1. Unaligned > 0 => Unaligned * n[Unaligned] = 0
      BY <1>0, <2>5
    <3> QED
      BY <1>5, <2>4, <3>1
  <2>7. e + 1 = ZP => v2 = 0
    <3>1. e + 1 = ZP => (e + 1) % P = 0
      BY <1>0, <1>9
    <3>2. SecsPerPg * 0 = 0
      BY <1>0
    <3> QED
      BY <1>3, <3>1, <3>2
  <2>8. w = SecsPerPg * (e + 1) - SecsPerPg * k + v1 - IF e + 1 = ZP THEN 0 ELSE v2
    BY <1>2, <1>3, <1>5, <2>7
  <2> QED
    BY <1>1, <1>2, <1>3, <2>2, <2>6, <2>8
<1>10. CASE e + 1 = ZP /\ ZP % P # 0
  <2>1. rows = d1 .. d2
    <3>1. e + 1 = ZP /\ ZP % PgsPerOneshot # 0
      BY <1>1, <1>10
    <3>2. FilledRows(z, L + k, L + e) = k \div PgsPerOneshot .. (e + 1) \div PgsPerOneshot
      BY <3>1, ShortRow
    <3>3. d1 = k \div PgsPerOneshot /\ d2 = (e + 1) \div PgsPerOneshot
      BY <1>1, <1>2, <1>3
    <3> QED
      BY <3>2, <3>3
  <2>2. IsFiniteSet(rows)
    <3>1. d1 <= d2 + 1
      BY <1>4
    <3> QED
      BY <2>1, <3>1, IntervalSize
  <2>3. Unaligned > 0
    BY <1>0, <1>8, <1>10
  <2>4. ASSUME NEW r \in rows
        PROVE  r \in Int /\ BytesToRelease(z, r) = IF r = d2 THEN Unaligned ELSE Oneshot
    <3>1. r \in Int /\ r <= d2
      BY <2>1
    <3>a. r + 1 \in Int
      BY <3>1
    <3>b. P * (r + 1) <= e + 1 <=> r + 1 <= (e + 1) \div P
      BY <1>a, <1>1, <3>a, QuotientBound
    <3>2. P * (r + 1) <= e + 1 <=> r + 1 <= d2
      BY <1>3, <3>b
    <3>3. P * (r + 1) \in Int
      BY <1>1, <3>1
    <3>4. P * (r + 1) # ZP
      <4>1. SUFFICES ASSUME P * (r + 1) = ZP
                     PROVE  FALSE
        OBVIOUS
      <4>2. r + 1 \in Nat
        BY <2>1
      <4>3. (P * (r + 1) + 0) % P = 0
        BY <1>1, <4>2, ModUnique
      <4> QED
        BY <1>0, <1>10, <4>1, <4>3
    <3>5. P * (r + 1) >= ZP <=> r = d2
      BY <1>0, <1>10, <3>1, <3>2, <3>3, <3>4
    <3> QED
      BY <1>1, <2>3, <3>1, <3>5, SizeInPages
  <2>5. {r \in rows : BytesToRelease(z, r) = Oneshot} = d1 .. d2 - 1
    BY <1>7, <2>1, <2>4
  <2>6. {r \in rows : BytesToRelease(z, r) = Unaligned} = {d2}
    <3>1. d2 \in rows
      BY <1>4, <2>1
    <3> QED
      BY <1>7, <2>4, <3>1
  <2>7. n[Oneshot] = d2 - d1
    <3>1. d2 - 1 \in Int /\ d1 <= (d2 - 1) + 1 /\ (d2 - 1) + 1 - d1 = d2 - d1
      BY <1>4
    <3>2. Cardinality(d1 .. d2 - 1) = d2 - d1
      BY <3>1, IntervalSize
    <3> QED
      BY <1>7, <2>5, <3>2
  <2>8. n[Unaligned] = 1
    BY <1>7, <2>3, <2>6, FS_Singleton
  <2>9. Unaligned = v2
    BY <1>0, <1>3, <1>6, <1>10
  <2>10. Oneshot * n[Oneshot] + (IF Unaligned > 0 THEN Unaligned * n[Unaligned] ELSE 0) = w + v2
    BY <1>0, <1>5, <2>3, <2>7, <2>8, <2>9
  <2>11. w + v2 = SecsPerPg * (e + 1) - SecsPerPg * k + v1
    BY <1>2, <1>3, <1>5
  <2> QED
    BY <1>1, <1>2, <1>10, <2>2, <2>10, <2>11
<1> QED
  BY <1>0, <1>1, <1>9, <1>10

(* What a write needs in order to be accepted.                             *)
LEMMA WriteAccepted ==
    ASSUME NEW g \in Ftl, NEW z \in Zones, WpSound(g.zone[z], z), NEW slba \in Nat,
           NEW nr \in Nat \ {0}
    PROVE  /\ WriteError(g, z, slba, nr) \in Statuses
           /\ WriteError(g, z, slba, nr) = "SUCCESS" =>
                 /\ nr % WriteUnit = 0 /\ slba = g.zone[z].wp /\ g.zone[z].state # "FULL"
                 /\ slba + nr <= zone_to_slba(z) + ZoneSize
<1>1. WriteError(g, z, slba, nr) \in Statuses
  BY DEF WriteError, Statuses
<1>2. ASSUME WriteError(g, z, slba, nr) = "SUCCESS"
      PROVE  /\ nr % WriteUnit = 0 /\ SameZone(slba, nr) /\ slba = g.zone[z].wp
             /\ g.zone[z].state # "FULL"
  BY <1>2 DEF WriteError
<1>3. PICK e \in Nat : e = slba + nr - 1
  OBVIOUS
<1>4. ASSUME SameZone(slba, nr), slba = g.zone[z].wp, g.zone[z].state # "FULL"
      PROVE  e <= zone_to_slba(z) + ZoneSize - 1
  <2>1. slba \in zone_to_slba(z) .. zone_to_slba(z) + ZoneSize - 1
    BY <1>4, Boundaries, Sizes DEF WpSound
  <2>2. lba_to_zone(slba) = z
    BY <2>1, ZoneOfLba
  <2>3. lba_to_zone(e) = z
    BY <1>3, <1>4, <2>2 DEF SameZone
  <2>4. e \in zone_to_slba(z) .. zone_to_slba(z) + ZoneSize - 1
    BY <2>3, ZoneOfLba
  <2> QED
    BY <2>4
<1>5. zone_to_slba(z) \in Nat /\ ZoneSize \in Nat
  BY Boundaries, Sizes
<1> QED
  BY <1>1, <1>2, <1>3, <1>4, <1>5

(* An EMPTY zone takes ACTIVE and OPEN, a CLOSED one OPEN.                 *)
LEMMA WriteOpened ==
    ASSUME NEW f, NEW z \in Zones, Sound(f), ~f.zone[z].zrwav, f.zone[z].state # "FULL",
           NEW g \in Ftl, g.zone = f.zone, g.acquired = f.acquired, NEW h, h = OpenForWrite(g, z)
    PROVE  OpenedFor(f, h, z) /\ Store(h) = Store(g)
<1>o. "OPEN" \in Res
  BY DEF Res
<1>a. "ACTIVE" \in Res
  BY DEF Res
<1>w. "ZRWA" \in Res
  BY DEF Res
<1>s. "OPENED_IMPL" \in States
  BY DEF States
<1>0. /\ f.acquired["OPEN"] \in Int /\ f.acquired["ACTIVE"] \in Int /\ f.acquired["ZRWA"] \in Int
      /\ f.zone[z].state \in States
  BY ZoneFacts
<1>1. CASE g.zone[z].state \notin Unopened
  <2>1. h = g /\ g.zone[z].state \in Opened /\ g.zone[z].state \in Active
    BY <1>0, <1>1 DEF OpenForWrite, Unopened, States, Opened, Active
  <2> QED
    BY <1>0, <2>1 DEF OpenedFor, One
<1>2. CASE g.zone[z].state \in Unopened
  <2>1. PICK k : k = IF g.zone[z].state = "EMPTY" THEN acquire_zone_resource(g, "ACTIVE") ELSE g
    OBVIOUS
  <2>2. /\ k \in Ftl /\ k.zone = g.zone /\ Store(k) = Store(g)
        /\ k.acquired["ACTIVE"] = g.acquired["ACTIVE"] + One(g.zone[z].state = "EMPTY")
        /\ k.acquired["OPEN"] = g.acquired["OPEN"] /\ k.acquired["ZRWA"] = g.acquired["ZRWA"]
    <3>1. CASE g.zone[z].state = "EMPTY"
      <4>1. k = acquire_zone_resource(g, "ACTIVE")
        BY <2>1, <3>1
      <4>2. /\ k \in Ftl /\ k.zone = g.zone /\ Store(k) = Store(g)
            /\ k.acquired["ACTIVE"] = g.acquired["ACTIVE"] + 1
            /\ \A s \in Res : s # "ACTIVE" => k.acquired[s] = g.acquired[s]
        BY <4>1, <1>a, Acquire
      <4> QED
        BY <3>1, <4>2, <1>o, <1>w DEF One
    <3>2. CASE g.zone[z].state # "EMPTY"
      <4>1. k = g
        BY <2>1, <3>2
      <4> QED
        BY <1>0, <3>2, <4>1 DEF One
    <3> QED
      BY <3>1, <3>2
  <2>3. PICK i : i = acquire_zone_resource(k, "OPEN")
    OBVIOUS
  <2>4. /\ i \in Ftl /\ i.zone = k.zone /\ Store(i) = Store(k)
        /\ i.acquired["OPEN"] = k.acquired["OPEN"] + 1
        /\ \A s \in Res : s # "OPEN" => i.acquired[s] = k.acquired[s]
    <3>1. k \in Ftl
      BY <2>2
    <3> QED
      BY <2>3, <3>1, <1>o, Acquire
  <2>5. i.acquired["ACTIVE"] = k.acquired["ACTIVE"] /\ i.acquired["ZRWA"] = k.acquired["ZRWA"]
    BY <2>4, <1>a, <1>w
  <2>6. h = WithState(i, z, "OPENED_IMPL")
    BY <1>2, <2>1, <2>3 DEF OpenForWrite, WithState
  <2>7. /\ h \in Ftl /\ h.acquired = i.acquired /\ Store(h) = Store(i)
        /\ h.zone[z].state = "OPENED_IMPL" /\ h.zone[z].wp = i.zone[z].wp
        /\ h.zone[z].zrwav = i.zone[z].zrwav
        /\ \A y \in Zones : y # z => h.zone[y] = i.zone[y]
    <3>1. i \in Ftl
      BY <2>4
    <3> QED
      BY <2>6, <3>1, <1>s, SetState
  <2>8. /\ h.acquired["OPEN"] = f.acquired["OPEN"] + 1
        /\ h.acquired["ACTIVE"] = f.acquired["ACTIVE"] + One(f.zone[z].state = "EMPTY")
        /\ h.acquired["ZRWA"] = f.acquired["ZRWA"]
    BY <2>2, <2>4, <2>5, <2>7
  <2>9. /\ One(f.zone[z].state \in Opened) = 0 /\ h.zone[z].state \in Opened
        /\ One(f.zone[z].state \in Active) = 1 - One(f.zone[z].state = "EMPTY")
        /\ One(f.zone[z].state = "EMPTY") \in Int
    BY <1>2, <2>7 DEF Unopened, Opened, Active, One
  <2>10. /\ h.acquired["OPEN"] = f.acquired["OPEN"] + 1 - One(f.zone[z].state \in Opened)
         /\ h.acquired["ACTIVE"] = f.acquired["ACTIVE"] + 1 - One(f.zone[z].state \in Active)
    BY <1>0, <2>8, <2>9
  <2> QED
    BY <2>2, <2>4, <2>7, <2>8, <2>9, <2>10 DEF OpenedFor
<1> QED
  BY <1>1, <1>2

(* A refused write: what it was charged is lost.                           *)
WithLoss(f, b, nr) == [f EXCEPT !.lost[b] = @ + nr]

(* A write that is refused after it was charged: the space is lost, and    *)
(* counted.                                                                *)
LEMMA ChargeLost ==
    ASSUME NEW f, NEW z \in Zones, Sound(f), NEW b, b = <<"wb", WriteBuffer(z)>>,
           NEW nr \in Nat, nr <= f.remaining[b], NEW s \in Statuses, NEW q,
           q = WithLoss(Refuse(buffer_allocate(f, b, nr), s), b, nr)
    PROVE  Sound(q)
<1>0. f \in Ftl /\ b \in BufferNames /\ b \in WriteBuffers
  BY BufferFacts DEF Sound
<1>1. PICK g : g = buffer_allocate(f, b, nr)
  OBVIOUS
<1>2. /\ g \in Ftl /\ g.zone = f.zone /\ g.acquired = f.acquired
      /\ g.inflight = f.inflight /\ g.programs = f.programs /\ g.lost = f.lost
      /\ g.remaining[b] = f.remaining[b] - nr
      /\ \A c \in BufferNames : c # b => g.remaining[c] = f.remaining[c]
  BY <1>0, <1>1, Allocate
<1>3. PICK h : h = Refuse(g, s)
  OBVIOUS
<1>4. Quiet(g, h)
  BY <1>2, <1>3, Refused
<1>5. /\ h \in Ftl /\ h.zone = f.zone /\ h.acquired = f.acquired
      /\ h.inflight = f.inflight /\ h.programs = f.programs /\ h.lost = f.lost
      /\ h.remaining = g.remaining
  BY <1>2, <1>4 DEF Quiet, Store
<1>6. PICK l : l = [h.lost EXCEPT ![b] = h.lost[b] + nr]
  OBVIOUS
<1>7. h.lost \in [BufferNames -> Nat]
  BY <1>5 DEF Ftl
<1>8. /\ l \in [BufferNames -> Nat] /\ l[b] = f.lost[b] + nr
      /\ \A c \in BufferNames : c # b => l[c] = f.lost[c]
  BY <1>0, <1>5, <1>6, <1>7
<1>9. q = [h EXCEPT !.lost = l]
  BY <1>1, <1>3, <1>6 DEF WithLoss
<1>10. /\ q \in Ftl /\ q.zone = f.zone /\ q.acquired = f.acquired
       /\ q.inflight = f.inflight /\ q.programs = f.programs /\ q.lost = l
       /\ q.remaining = g.remaining
  BY <1>5, <1>8, <1>9 DEF Ftl
<1>11. ZoneMoves(f, q, z)
  <2>1. /\ One(f.zone[z].state \in Opened) \in Int /\ One(f.zone[z].state \in Active) \in Int
        /\ One(HasWindow(f.zone[z])) \in Int
    BY DEF One
  <2> QED
    BY <1>10, <2>1, ZoneFacts DEF ZoneMoves
<1>12. StoreMoves(f, q, z)
  <2>1. PageSound(q.zone[z], z) /\ RowsSound(q, z) /\ Partial(q, z) = Partial(f, z)
    BY <1>10, ZoneFacts DEF RowsSound, Partial
  <2>2. Returning(q, b) = Returning(f, b)
    BY <1>10 DEF Returning
  <2>3. Space(q, b) = Space(f, b)
    BY <1>0, <1>2, <1>8, <1>10, <2>2, SpaceType DEF Space
  <2>4. \A c \in WriteBuffers : c # b =>
           q.remaining[c] = f.remaining[c] /\ q.lost[c] = f.lost[c] /\ q.inflight[c] = f.inflight[c]
    BY <1>2, <1>8, <1>10, BufferFacts
  <2> QED
    BY <1>10, <2>1, <2>3, <2>4 DEF StoreMoves
<1> QED
  BY <1>11, <1>12, StepSound

(* A write in whole pages: it starts with the zone's page k and ends with  *)
(* page e.                                                                 *)
InPages(z, wp, nr, L, ZP, k, e) ==
    /\ Pages(z, L, ZP) /\ k \in Nat /\ e \in Nat /\ k <= e /\ e + 1 <= ZP
    /\ wp = zone_to_slba(z) + SecsPerPg * k /\ wp + nr = zone_to_slba(z) + SecsPerPg * (e + 1)
    /\ lba_to_lpn(wp) = L + k /\ lba_to_lpn(wp + nr - 1) = L + e
    /\ e + 1 = ZP <=> wp + nr = zone_to_slba(z) + ZoneSize

(* The page of the LBA before a page boundary.                             *)
LEMMA LastPage ==
    ASSUME NEW z \in Zones, NEW L, NEW ZP, Pages(z, L, ZP), NEW e \in Nat, NEW c \in Int,
           c + 1 = zone_to_slba(z) + SecsPerPg * (e + 1)
    PROVE  lba_to_lpn(c) = L + e
<1>1. PICK S \in Nat \ {0} : S = SecsPerPg
  BY Sizes
<1>2. L \in Nat /\ zone_to_slba(z) = S * L /\ L + e \in Nat /\ S - 1 \in 0 .. S - 1
  BY <1>1 DEF Pages
<1>3. S * L + S * (e + 1) - 1 = S * (L + e) + (S - 1) /\ S * L + S * (e + 1) \in Int
  BY <1>1, <1>2
<1>4. c = S * (L + e) + (S - 1)
  BY <1>1, <1>2, <1>3
<1>5. (S * (L + e) + (S - 1)) \div S = L + e
  BY <1>1, <1>2, DivUnique
<1> QED
  BY <1>1, <1>4, <1>5 DEF lba_to_lpn

(* An aligned write begins and ends at page boundaries.                    *)
LEMMA WritesPages ==
    ASSUME NEW z \in Zones, NEW zn, PageSound(zn, z), ~zn.zrwav, Aligned, NEW nr \in Nat \ {0},
           nr % WriteUnit = 0, zn.wp + nr <= zone_to_slba(z) + ZoneSize
    PROVE  \E L, ZP, k, e : InPages(z, zn.wp, nr, L, ZP, k, e)
<1>0. SecsPerPg \in Nat \ {0} /\ WriteUnit \in Nat \ {0}
  BY Sizes
<1>1. PICK L, ZP : Pages(z, L, ZP)
  BY ZonePages
<1>2. PICK k \in Nat : zn.wp = zone_to_slba(z) + SecsPerPg * k
  BY DEF PageSound
<1>3. PICK m \in Nat : nr = SecsPerPg * m
  <2>1. PICK v \in Nat : nr = WriteUnit * v
    BY <1>0, Multiple
  <2>2. PICK u \in Nat : WriteUnit = SecsPerPg * u
    BY <1>0, Multiple DEF Aligned
  <2>3. (SecsPerPg * u) * v = SecsPerPg * (u * v) /\ u * v \in Nat
    BY <1>0
  <2> QED
    BY <2>1, <2>2, <2>3
<1>4. m # 0
  BY <1>0, <1>3
<1>5. PICK e \in Nat : e + 1 = k + m
  <2>1. k + m - 1 \in Nat /\ (k + m - 1) + 1 = k + m
    BY <1>4
  <2> QED
    BY <2>1
<1>6. PICK s \in Nat, x \in Nat, y \in Nat, w \in Nat, t \in Nat :
         /\ s = zone_to_slba(z) /\ x = SecsPerPg * k /\ y = SecsPerPg * m
         /\ w = SecsPerPg * (e + 1) /\ w = x + y /\ t = SecsPerPg * ZP /\ ZoneSize = t
         /\ ZP \in Nat \ {0} /\ L \in Nat
  <2>1. SecsPerPg * k \in Nat /\ SecsPerPg * m \in Nat /\ SecsPerPg * (k + m) = SecsPerPg * k + SecsPerPg * m
    BY <1>0
  <2>2. ZP \in Nat \ {0} /\ L \in Nat /\ ZoneSize = SecsPerPg * ZP
    BY <1>1 DEF Pages
  <2>3. SecsPerPg * ZP \in Nat
    BY <1>0, <2>2
  <2>4. PICK s \in Nat, x \in Nat, y \in Nat, t \in Nat :
           s = zone_to_slba(z) /\ x = SecsPerPg * k /\ y = SecsPerPg * m /\ t = SecsPerPg * ZP
    BY <2>1, <2>3, Boundaries
  <2>5. SecsPerPg * (e + 1) = x + y /\ x + y \in Nat
    BY <1>5, <2>1, <2>4
  <2> QED
    BY <2>2, <2>4, <2>5
<1>7. zn.wp = s + x /\ zn.wp + nr = s + w /\ w <= t
  BY <1>2, <1>3, <1>6
<1>8. e + 1 <= ZP
  <2>1. SUFFICES ASSUME ZP + 1 <= e + 1
                 PROVE  FALSE
    BY <1>6
  <2>2. SecsPerPg * (ZP + 1) <= SecsPerPg * (e + 1)
    BY <1>0, <1>6, <2>1, TimesMonotone
  <2>3. SecsPerPg * (ZP + 1) = SecsPerPg * ZP + SecsPerPg
    BY <1>0, <1>6
  <2> QED
    BY <1>0, <1>6, <1>7, <2>2, <2>3
<1>9. e + 1 = ZP <=> zn.wp + nr = s + ZoneSize
  <2>1. CASE e + 1 = ZP
    BY <1>6, <1>7, <2>1
  <2>2. CASE e + 1 + 1 <= ZP
    <3>1. SecsPerPg * (e + 1 + 1) <= SecsPerPg * ZP
      BY <1>0, <1>6, <2>2, TimesMonotone
    <3>2. SecsPerPg * (e + 1 + 1) = SecsPerPg * (e + 1) + SecsPerPg
      BY <1>0
    <3> QED
      BY <1>0, <1>6, <1>7, <2>2, <3>1, <3>2
  <2> QED
    BY <1>6, <1>8, <2>1, <2>2
<1>10. lba_to_lpn(zn.wp) = L + k
  BY <1>1, <1>2, PageOf
<1>11. lba_to_lpn(zn.wp + nr - 1) = L + e
  <2>1. PICK c \in Int : c = zn.wp + nr - 1
    BY <1>6, <1>7
  <2>2. c + 1 = zone_to_slba(z) + SecsPerPg * (e + 1)
    BY <1>6, <1>7, <2>1
  <2> QED
    BY <1>1, <2>1, <2>2, LastPage
<1>12. k <= e
  BY <1>4, <1>5
<1>13. zn.wp = zone_to_slba(z) + SecsPerPg * k /\ zn.wp + nr = zone_to_slba(z) + SecsPerPg * (e + 1)
  BY <1>2, <1>6, <1>7
<1>14. e + 1 = ZP <=> zn.wp + nr = zone_to_slba(z) + ZoneSize
  BY <1>6, <1>9
<1>15. InPages(z, zn.wp, nr, L, ZP, k, e)
  BY <1>1, <1>8, <1>10, <1>11, <1>12, <1>13, <1>14 DEF InPages
<1> QED
  BY <1>15

(* The one-shot pages a write programs end behind its first page and, if   *)
(* it does not end the zone, before its last.                              *)
LEMMA FilledRowsLie ==
    ASSUME NEW z \in Zones, NEW wp, NEW nr, NEW L, NEW ZP, NEW k, NEW e, wp \in Nat,
           InPages(z, wp, nr, L, ZP, k, e), NEW r \in FilledRows(z, L + k, L + e)
    PROVE  RowEnd(z, r) > wp /\ (e + 1 # ZP => RowEnd(z, r) <= wp + nr)
<1>1. PICK P \in Nat \ {0} : P = PgsPerOneshot
  BY Sizes
<1>2. /\ Pages(z, L, ZP) /\ k \in Nat /\ e \in Nat /\ L \in Nat /\ lba_to_lpn(wp) = L + k
      /\ wp + nr = zone_to_slba(z) + SecsPerPg * (e + 1) /\ zone_to_slba(z) = SecsPerPg * L
  BY DEF InPages, Pages
<1>a. k \in Nat
  BY <1>2
<1>b. e \in Nat
  BY <1>2
<1>c. Pages(z, L, ZP)
  BY <1>2
<1>3. /\ r \in Int /\ k \div P <= r
      /\ P * (r + 1) <= e + 1 \/ e + 1 = ZP
  BY <1>1, <1>a, <1>b, <1>c, FilledInPages
<1>4. PICK x \in Int : x = P * (r + 1) /\ LastPgOf(z, r) = L + x - 1
  <2>1. P * (r + 1) \in Int
    BY <1>1, <1>3
  <2>2. LastPgOf(z, r) = L + PgsPerOneshot * (r + 1) - 1
    BY <1>2, <1>3, PageOf
  <2> QED
    BY <1>1, <2>1, <2>2
<1>5. x > k
  <2>1. r + 1 \in Int
    BY <1>3
  <2>2. P * (r + 1) <= k <=> r + 1 <= k \div P
    BY <1>1, <1>a, <2>1, QuotientBound
  <2>3. k \div P \in Nat
    BY <1>1, <1>a, DivMod
  <2> QED
    BY <1>3, <1>4, <1>a, <2>2, <2>3
<1>6. RowEnd(z, r) > wp
  <2>1. LastPgOf(z, r) >= lba_to_lpn(wp)
    BY <1>2, <1>4, <1>5
  <2> QED
    BY <1>3, <2>1, RowAfter
<1>7. ASSUME e + 1 # ZP
      PROVE  RowEnd(z, r) <= wp + nr
  <2>1. x <= e + 1
    BY <1>3, <1>4, <1>7
  <2>2. L + x - 1 + 1 = L + x /\ L + x \in Int /\ L + (e + 1) \in Int /\ L + x <= L + (e + 1)
    BY <1>2, <1>4, <2>1
  <2>3. SecsPerPg * (L + x) <= SecsPerPg * (L + (e + 1))
    BY <2>2, Sizes, TimesMonotone
  <2>4. SecsPerPg * (L + (e + 1)) = SecsPerPg * L + SecsPerPg * (e + 1)
    BY <1>2, Sizes
  <2>5. RowEnd(z, r) = SecsPerPg * (LastPgOf(z, r) + 1)
    BY <1>2, <1>3, RowEnds
  <2> QED
    BY <1>2, <1>4, <2>2, <2>3, <2>4, <2>5
<1> QED
  BY <1>6, <1>7

BufferOf(z) == <<"wb", WriteBuffer(z)>>

(* The buffer of zone z has been charged, and nothing else stored.         *)
Charged(f, h, z, nr) ==
    /\ h.remaining[BufferOf(z)] = f.remaining[BufferOf(z)] - nr
    /\ \A c \in WriteBuffers : c # BufferOf(z) => h.remaining[c] = f.remaining[c]
    /\ h.inflight = f.inflight /\ h.programs = f.programs /\ h.lost = f.lost

WrittenRows(z, wp, nr) == FilledRows(z, lba_to_lpn(wp), lba_to_lpn(wp + nr - 1))
ReleasedSizes(z, rows) == [r \in rows |-> BytesToRelease(z, r)]

(* A write programs finitely many one-shot pages.                          *)
LEMMA WrittenFinite ==
    ASSUME NEW z \in Zones, NEW wp \in Nat, NEW nr \in Nat \ {0}
    PROVE  IsFiniteSet(WrittenRows(z, wp, nr))
<1>1. PICK a \in Nat, b \in Nat, c \in Nat :
         /\ a = lba_to_lpn(wp) /\ b = lba_to_lpn(wp + nr - 1) /\ c = lba_to_lpn(zone_to_slba(z))
  <2>1. wp + nr - 1 \in Nat /\ zone_to_slba(z) \in Nat /\ SecsPerPg \in Nat \ {0}
    BY Boundaries, Sizes
  <2>2. PICK x \in Nat, y \in Nat : x = wp + nr - 1 /\ y = zone_to_slba(z)
    BY <2>1
  <2>3. wp \div SecsPerPg \in Nat /\ x \div SecsPerPg \in Nat /\ y \div SecsPerPg \in Nat
    BY <2>1, DivMod
  <2> QED
    BY <2>2, <2>3 DEF lba_to_lpn
<1>2. PICK d \in Int, e \in Int : d = (a - c) \div PgsPerOneshot /\ e = (b - c) \div PgsPerOneshot
  BY Sizes
<1>3. IsFiniteSet(d .. e)
  BY FS_Interval
<1>4. WrittenRows(z, wp, nr) \subseteq d .. e
  BY <1>1, <1>2 DEF WrittenRows, FilledRows, OneshotOf
<1> QED
  BY <1>3, <1>4, FS_Subset

(* The rows that an accepted write programs were not programmed before.    *)
LEMMA WriteRowsSound ==
    ASSUME NEW f, NEW z \in Zones, Sound(f), NEW h, OpenedFor(f, h, z), NEW nr \in Nat \ {0},
           f.zone[z].state # "FULL", Charged(f, h, z, nr), Aligned, NEW L, NEW ZP, NEW k, NEW e,
           InPages(z, f.zone[z].wp, nr, L, ZP, k, e), NEW b, NEW size, NEW j,
           Wrote(h, j, z, nr, b, FilledRows(z, L + k, L + e), size)
    PROVE  RowsSound(j, z)
<1>1. PICK wp \in Nat : wp = f.zone[z].wp
  BY ZoneFacts
<1>2. j.zone[z].wp = wp + nr /\ (j.zone[z].state # "FULL" => e + 1 # ZP)
  <2>1. j.zone[z].wp = wp + nr /\ (AtEnd(h, z, nr) => j.zone[z].state = "FULL")
    BY <1>1 DEF Wrote, OpenedFor
  <2>2. e + 1 = ZP => AtEnd(h, z, nr)
    BY <1>1 DEF InPages, AtEnd, OpenedFor
  <2> QED
    BY <2>1, <2>2
<1>3. SUFFICES ASSUME NEW r \in Rows
               PROVE  /\ j.programs[z][r] <= 1
                      /\ j.programs[z][r] # 0 /\ e + 1 # ZP => RowEnd(z, r) <= wp + nr
  BY <1>2 DEF RowsSound, RowEnd
<1>4. RowEnd(z, r) \in Int
  <2>1. Pages(z, L, ZP)
    BY DEF InPages
  <2>2. r \in Int
    BY RowsFinite
  <2> QED
    BY <2>1, <2>2, RowEnds
<1>5. /\ f.programs[z][r] \in Nat /\ f.programs[z][r] <= 1
      /\ (f.programs[z][r] # 0 => RowEnd(z, r) <= wp)
  <2>1. RowsSound(f, z) /\ f \in Ftl
    BY ZoneFacts
  <2>2. f.programs[z] \in [Rows -> Nat]
    BY <2>1 DEF Ftl
  <2> QED
    BY <1>1, <2>1, <2>2 DEF RowsSound, RowEnd
<1>6. j.programs[z][r] = f.programs[z][r] + IF r \in FilledRows(z, L + k, L + e) THEN 1 ELSE 0
  BY DEF Wrote, Charged
<1>7. CASE r \in FilledRows(z, L + k, L + e)
  <2>1. RowEnd(z, r) > wp /\ (e + 1 # ZP => RowEnd(z, r) <= wp + nr)
    BY <1>1, <1>7, FilledRowsLie
  <2> QED
    BY <1>4, <1>5, <1>6, <1>7, <2>1
<1>8. CASE r \notin FilledRows(z, L + k, L + e)
  <2>1. j.programs[z][r] = f.programs[z][r]
    BY <1>5, <1>6, <1>8
  <2> QED
    BY <1>4, <1>5, <2>1
<1> QED
  BY <1>7, <1>8

(* What it was charged is on its way back, or in the unfinished page.      *)
Conserved(f, g, b, z) == Space(g, b) + Partial(g, z) = Space(f, b) + Partial(f, z)

(* An accepted write conserves space: what it is charged is in the         *)
(* unfinished page or comes back with the one-shot pages it fills.         *)
LEMMA WriteBalanced ==
    ASSUME NEW f, NEW z \in Zones, Sound(f), NEW h, OpenedFor(f, h, z), NEW nr \in Nat \ {0},
           f.zone[z].state # "FULL", ~f.zone[z].zrwav, Charged(f, h, z, nr),
           NEW L, NEW ZP, NEW k, NEW e,
           InPages(z, f.zone[z].wp, nr, L, ZP, k, e), NEW b, b = BufferOf(z),
           NEW rows, rows = FilledRows(z, L + k, L + e), NEW j,
           Wrote(h, j, z, nr, b, rows, ReleasedSizes(z, rows))
    PROVE  Conserved(f, j, b, z)
<1>1. PICK wp \in Nat, s \in Nat : wp = f.zone[z].wp /\ s = zone_to_slba(z)
  BY ZoneFacts, Boundaries
<1>2. b \in BufferNames /\ f \in Ftl /\ j \in Ftl
  BY BufferFacts, ZoneFacts DEF Wrote, BufferOf
<1>3. k \in Nat /\ e \in Nat /\ k <= e /\ e + 1 <= ZP /\ Pages(z, L, ZP)
  BY DEF InPages
<1>4. PICK n : n = [c \in ReleaseSizes |-> Cardinality({r \in rows : BytesToRelease(z, r) = c})]
  OBVIOUS
<1>5. ASSUME NEW c \in ReleaseSizes
      PROVE  n[c] \in Int /\ j.inflight[b][c] = f.inflight[b][c] + n[c]
             /\ n[c] = Cardinality({r \in rows : BytesToRelease(z, r) = c})
  <2>1. {r \in rows : ReleasedSizes(z, rows)[r] = c} = {r \in rows : BytesToRelease(z, r) = c}
    BY DEF ReleasedSizes
  <2>2. /\ Cardinality({r \in rows : ReleasedSizes(z, rows)[r] = c}) \in Nat
        /\ j.inflight[b][c] = h.inflight[b][c]
                              + Cardinality({r \in rows : ReleasedSizes(z, rows)[r] = c})
    BY DEF Wrote
  <2>3. h.inflight = f.inflight
    BY DEF Charged
  <2> QED
    BY <1>4, <2>1, <2>2, <2>3
<1>6. Returning(j, b) = Returning(f, b) + Oneshot * n[Oneshot]
                        + IF Unaligned > 0 THEN Unaligned * n[Unaligned] ELSE 0
  <2>1. \A c \in ReleaseSizes : n[c] \in Int /\ j.inflight[b][c] = f.inflight[b][c] + n[c]
    BY <1>5
  <2>2. f \in Ftl
    BY <1>2
  <2>3. j \in Ftl
    BY <1>2
  <2>4. b \in BufferNames
    BY <1>2
  <2> QED
    BY <2>1, <2>2, <2>3, <2>4, ReturningMoves
<1>7. Oneshot * n[Oneshot] + (IF Unaligned > 0 THEN Unaligned * n[Unaligned] ELSE 0)
         = SecsPerPg * (e + 1) - SecsPerPg * k + SecsPerPg * (k % PgsPerOneshot)
           - IF e + 1 = ZP THEN 0 ELSE SecsPerPg * ((e + 1) % PgsPerOneshot)
  <2>1. Pages(z, L, ZP) /\ k <= e /\ e + 1 <= ZP
    BY <1>3
  <2>2. k \in Nat /\ e \in Nat
    BY <1>3
  <2>3. \A c \in ReleaseSizes : n[c] = Cardinality({r \in rows : BytesToRelease(z, r) = c})
    BY <1>5
  <2>4. Fills(z, L, ZP, k, e, rows, n)
    BY <2>1, <2>2, <2>3 DEF Fills
  <2>5. GivesWritten(n, ZP, k, e)
    BY <2>4, FilledValue
  <2> QED
    BY <2>5 DEF GivesWritten
<1>8. PICK x \in Int, y \in Int : /\ x = SecsPerPg * k /\ y = SecsPerPg * (e + 1)
                                  /\ wp = s + x /\ wp + nr = s + y
  <2>1. SecsPerPg * k \in Int /\ SecsPerPg * (e + 1) \in Int
    BY <1>3, Sizes
  <2>2. /\ wp = s + SecsPerPg * k /\ wp + nr = s + SecsPerPg * (e + 1)
    BY <1>1 DEF InPages
  <2> QED
    BY <2>1, <2>2
<1>9. Partial(f, z) = SecsPerPg * (k % PgsPerOneshot)
  <2>1. wp # s + ZoneSize
    BY <1>1, ZoneFacts DEF WpSound
  <2>2. Partial(f, z) = (wp - s) % Oneshot
    BY <1>1, <2>1 DEF Partial
  <2>3. wp - s = SecsPerPg * k
    BY <1>1, <1>8
  <2> QED
    BY <1>3, <2>2, <2>3, ScaledMod
<1>10. Partial(j, z) = IF e + 1 = ZP THEN 0 ELSE SecsPerPg * ((e + 1) % PgsPerOneshot)
  <2>1. j.zone[z].wp = wp + nr /\ ~j.zone[z].zrwav
    BY <1>1 DEF Wrote, OpenedFor
  <2>2. e + 1 = ZP <=> wp + nr = s + ZoneSize
    BY <1>1 DEF InPages
  <2>3. Partial(j, z) = IF e + 1 = ZP THEN 0 ELSE (wp + nr - s) % Oneshot
    BY <1>1, <2>1, <2>2 DEF Partial
  <2>4. wp + nr - s = SecsPerPg * (e + 1) /\ e + 1 \in Nat
    BY <1>1, <1>3, <1>8
  <2>5. (SecsPerPg * (e + 1)) % Oneshot = SecsPerPg * ((e + 1) % PgsPerOneshot)
    BY <2>4, ScaledMod
  <2> QED
    BY <2>3, <2>4, <2>5
<1>11. PICK p \in Nat, q \in Nat : p = Partial(f, z) /\ q = Partial(j, z)
  <2>1. Partial(f, z) \in Nat
    BY ZoneFacts, PartialType
  <2>2. SecsPerPg * ((e + 1) % PgsPerOneshot) \in 0 .. Oneshot - 1
    <3>1. e + 1 \in Nat
      BY <1>3
    <3> QED
      BY <3>1, ScaledMod
  <2>3. Partial(j, z) \in Nat
    BY <1>10, <2>2, Sizes
  <2> QED
    BY <2>1, <2>3
<1>12. PICK v \in Int : /\ v = Oneshot * n[Oneshot] + IF Unaligned > 0 THEN Unaligned * n[Unaligned] ELSE 0
                        /\ v = y - x + p - q
  <2>1. Oneshot * n[Oneshot] + (IF Unaligned > 0 THEN Unaligned * n[Unaligned] ELSE 0) = y - x + p - q
    BY <1>7, <1>8, <1>9, <1>10, <1>11
  <2> QED
    BY <1>8, <1>11, <2>1
<1>13. Returning(f, b) \in Int /\ Returning(j, b) \in Int /\ f.remaining[b] \in Nat /\ f.lost[b] \in Nat
  BY <1>2, SpaceType
<1>14. Returning(j, b) = Returning(f, b) + v
  <2>1. PICK o \in Int, u \in Int : /\ o = Oneshot * n[Oneshot]
                                    /\ u = IF Unaligned > 0 THEN Unaligned * n[Unaligned] ELSE 0
    <3>1. Oneshot \in Nat /\ Unaligned \in Nat /\ Oneshot \in ReleaseSizes
          /\ (Unaligned > 0 => Unaligned \in ReleaseSizes)
      BY Sizes DEF ReleaseSizes
    <3>2. Oneshot * n[Oneshot] \in Int /\ (Unaligned > 0 => Unaligned * n[Unaligned] \in Int)
      <4>1. PICK i \in Int : i = n[Oneshot]
        BY <1>5, <3>1
      <4>2. Oneshot * i \in Int
        BY <3>1
      <4>3. ASSUME Unaligned > 0
            PROVE  Unaligned * n[Unaligned] \in Int
        <5>1. PICK l \in Int : l = n[Unaligned]
          BY <1>5, <3>1, <4>3
        <5>2. Unaligned * l \in Int
          BY <3>1
        <5> QED
          BY <5>1, <5>2
      <4> QED
        BY <4>1, <4>2, <4>3
    <3> QED
      BY <3>2
  <2> QED
    BY <1>6, <1>12, <1>13, <2>1
<1>15. j.remaining[b] = f.remaining[b] - nr /\ j.lost[b] = f.lost[b]
  BY DEF Wrote, Charged
<1> QED
  BY <1>8, <1>11, <1>12, <1>13, <1>14, <1>15 DEF Space, Conserved

(* An accepted write keeps the invariant.                                  *)
LEMMA WriteMoves ==
    ASSUME NEW f, NEW z \in Zones, Sound(f), NEW h, OpenedFor(f, h, z), NEW nr \in Nat \ {0},
           f.zone[z].state # "FULL", ~f.zone[z].zrwav, Charged(f, h, z, nr), nr % WriteUnit = 0,
           f.zone[z].wp + nr <= zone_to_slba(z) + ZoneSize, NEW b, b = BufferOf(z),
           NEW rows, rows = WrittenRows(z, f.zone[z].wp, nr), NEW j,
           Wrote(h, j, z, nr, b, rows, ReleasedSizes(z, rows))
    PROVE  Sound(j)
<1>1. ZoneMoves(f, j, z)
  BY AdvanceMoves
<1>2. \A y \in Zones : y # z => j.programs[y] = f.programs[y]
  BY DEF Wrote, Charged
<1>3. \A c \in WriteBuffers : c # b =>
         j.remaining[c] = f.remaining[c] /\ j.lost[c] = f.lost[c] /\ j.inflight[c] = f.inflight[c]
  BY BufferFacts DEF Wrote, Charged
<1>4. ASSUME Aligned
      PROVE  /\ PageSound(j.zone[z], z) /\ RowsSound(j, z)
             /\ Space(j, b) + Partial(j, z) = Space(f, b) + Partial(f, z)
  <2>1. PICK L, ZP, k, e : InPages(z, f.zone[z].wp, nr, L, ZP, k, e)
    BY <1>4, ZoneFacts, WritesPages
  <2>2. rows = FilledRows(z, L + k, L + e)
    BY <2>1 DEF WrittenRows, InPages
  <2>3. Wrote(h, j, z, nr, b, FilledRows(z, L + k, L + e), ReleasedSizes(z, rows))
    BY <2>2
  <2>4. RowsSound(j, z)
    BY <1>4, <2>1, <2>3, WriteRowsSound
  <2>5. Space(j, b) + Partial(j, z) = Space(f, b) + Partial(f, z)
    <3>1. Conserved(f, j, b, z)
      BY <2>1, <2>2, WriteBalanced
    <3> QED
      BY <3>1 DEF Conserved
  <2>6. PageSound(j.zone[z], z)
    <3>1. j.zone[z].wp = f.zone[z].wp + nr
      BY DEF Wrote, OpenedFor
    <3>2. f.zone[z].wp + nr = zone_to_slba(z) + SecsPerPg * (e + 1) /\ e + 1 \in Nat
      BY <2>1 DEF InPages
    <3> QED
      BY <3>1, <3>2 DEF PageSound
  <2> QED
    BY <2>4, <2>5, <2>6
<1>5. StoreMoves(f, j, z)
  <2>1. PageSound(j.zone[z], z)
    BY <1>4 DEF PageSound
  <2>2. RowsSound(j, z)
    BY <1>4 DEF RowsSound
  <2> QED
    BY <1>2, <1>3, <1>4, <2>1, <2>2 DEF StoreMoves, BufferOf
<1> QED
  BY <1>1, <1>5, StepSound

(* Writes and appends outside a window: __zns_write().                     *)
LEMMA PlainWriteSound ==
    ASSUME NEW f, NEW z \in Zones, Sound(f), ~f.zone[z].zrwav, NEW slba \in Nat,
           NEW nr \in Nat \ {0}
    PROVE  Sound(__zns_write(f, z, slba, nr))
<1>0. PICK q : q = __zns_write(f, z, slba, nr)
  OBVIOUS
<1>1. PICK b : b = BufferOf(z)
  OBVIOUS
<1>2. f \in Ftl /\ b \in BufferNames /\ b \in WriteBuffers
  BY <1>1, BufferFacts DEF Sound, BufferOf
<1>3. CASE f.remaining[b] < nr
  <2>1. q = Retry(f)
    BY <1>0, <1>1, <1>3 DEF __zns_write, Retry, BufferOf
  <2> QED
    BY <1>0, <2>1, RetrySound
<1>4. CASE ~(f.remaining[b] < nr)
  <2>1. nr <= f.remaining[b]
    BY <1>2, <1>4, SpaceType
  <2>2. PICK g : g = buffer_allocate(f, b, nr)
    OBVIOUS
  <2>3. /\ g \in Ftl /\ g.zone = f.zone /\ g.acquired = f.acquired
        /\ g.inflight = f.inflight /\ g.programs = f.programs /\ g.lost = f.lost
        /\ g.remaining[b] = f.remaining[b] - nr
        /\ \A c \in BufferNames : c # b => g.remaining[c] = f.remaining[c]
    BY <1>2, <2>1, <2>2, Allocate
  <2>4. g \in Ftl
    BY <2>3
  <2>a. WpSound(g.zone[z], z)
    BY <2>3, ZoneFacts
  <2>5. PICK err \in Statuses : err = WriteError(g, z, slba, nr)
    BY <2>4, <2>a, WriteAccepted
  <2>6. CASE err # "SUCCESS"
    <3>1. q = WithLoss(Refuse(g, err), b, nr)
      BY <1>0, <1>1, <1>4, <2>2, <2>5, <2>6 DEF __zns_write, WithLoss, BufferOf
    <3>2. q = WithLoss(Refuse(buffer_allocate(f, b, nr), err), b, nr)
      BY <2>2, <3>1
    <3>3. Sound(q)
      BY <1>1, <2>1, <3>2, ChargeLost DEF BufferOf
    <3> QED
      BY <1>0, <3>3
  <2>7. CASE err = "SUCCESS"
    <3>1. /\ nr % WriteUnit = 0 /\ slba = f.zone[z].wp /\ f.zone[z].state # "FULL"
          /\ f.zone[z].wp + nr <= zone_to_slba(z) + ZoneSize
      <4>1. /\ nr % WriteUnit = 0 /\ slba = g.zone[z].wp /\ g.zone[z].state # "FULL"
            /\ slba + nr <= zone_to_slba(z) + ZoneSize
        BY <2>4, <2>a, <2>5, <2>7, WriteAccepted
      <4> QED
        BY <2>3, <4>1
    <3>2. PICK h : h = OpenForWrite(g, z)
      OBVIOUS
    <3>3. OpenedFor(f, h, z) /\ Store(h) = Store(g)
      BY <2>3, <2>4, <3>1, <3>2, WriteOpened
    <3>4. Charged(f, h, z, nr)
      BY <1>1, <2>3, <3>3, BufferFacts DEF Charged, Store
    <3>5. PICK rows : rows = WrittenRows(z, f.zone[z].wp, nr)
      OBVIOUS
    <3>6. IsFiniteSet(rows)
      BY <3>1, <3>5, WrittenFinite
    <3>7. PICK size : size = ReleasedSizes(z, rows)
      OBVIOUS
    <3>8. q = ProgramRows(__increase_write_ptr(h, z, nr), z, b, rows, size)
      BY <1>0, <1>1, <1>4, <2>2, <2>5, <2>7, <3>1, <3>2, <3>5, <3>7
      DEF __zns_write, WrittenRows, ReleasedSizes, BufferOf
    <3>9. h \in Ftl /\ nr \in Nat
      BY <3>3 DEF OpenedFor
    <3>10. Wrote(h, q, z, nr, b, rows, size)
      BY <1>2, <3>6, <3>8, <3>9, Writes
    <3>11. Wrote(h, q, z, nr, b, rows, ReleasedSizes(z, rows))
      BY <3>7, <3>10
    <3>12. Sound(q)
      BY <1>1, <3>1, <3>3, <3>4, <3>5, <3>11, WriteMoves
    <3> QED
      BY <1>0, <3>12
  <2> QED
    BY <2>6, <2>7
<1> QED
  BY <1>3, <1>4

(* Every write keeps the invariant.                                        *)
LEMMA WriteSound ==
    ASSUME NEW f, NEW z \in Zones, Sound(f), NEW slba \in Nat,
           f.zone[z].zrwav => lba_to_zone(slba) = z, NEW nr \in Nat \ {0}
    PROVE  Sound(zns_write(f, z, slba, nr))
<1>1. CASE f.zone[z].zrwav
  <2>1. Sound(__zns_write_zrwa(f, z, slba, nr))
    BY <1>1, ZrwaWriteSound
  <2> QED
    BY <1>1, <2>1 DEF zns_write
<1>2. CASE ~f.zone[z].zrwav
  <2>1. Sound(__zns_write(f, z, slba, nr))
    BY <1>2, PlainWriteSound
  <2> QED
    BY <1>2, <2>1 DEF zns_write
<1> QED
  BY <1>1, <1>2
-----------------------------------------------------------------------------
(* The start, and the worker's releases.                                   *)

(* A sum of zeros.                                                         *)
LEMMA SumZero ==
    ASSUME NEW S, IsFiniteSet(S), NEW a, \A x \in S : a[x] = 0
    PROVE  SumFunctionOnSet(a, S) = 0
<1>1. \A x \in S : /\ a[x] \in Int /\ a[x] \in Int /\ a[x] \in Int /\ a[x] \in Int
                   /\ a[x] + a[x] = 0 * a[x] + a[x]
  OBVIOUS
<1>2. SumFunctionOnSet(a, S) + SumFunctionOnSet(a, S)
         = 0 * SumFunctionOnSet(a, S) + SumFunctionOnSet(a, S)
  BY <1>1, SumCombine
<1>3. PICK x \in Int : x = SumFunctionOnSet(a, S)
  BY <1>1, SumRemove
<1>4. x + x = 0 * x + x
  BY <1>2, <1>3
<1>5. ASSUME NEW y \in Int, y + y = 0 * y + y
      PROVE  y = 0
  BY <1>5
<1> QED
  BY <1>3, <1>4, <1>5

(* The FTL after __init_descriptor() and __init_resource().                *)
LEMMA StartSound == Sound(InitFtl)
<1>0. PICK f : f = InitFtl
  OBVIOUS
<1>1. /\ f.zone = [z \in Zones |-> [state |-> "EMPTY", wp |-> zone_to_slba(z), zrwav |-> FALSE]]
      /\ f.acquired = [r \in Res |-> 0]
      /\ f.remaining = [b \in BufferNames |-> IF b[1] = "wb" THEN WbSize ELSE ZrwaBufferSize]
      /\ f.inflight = [b \in BufferNames |-> [s \in ReleaseSizes |-> 0]]
      /\ f.programs = [z \in Zones |-> [r \in Rows |-> 0]]
      /\ f.lost = [b \in BufferNames |-> 0]
  BY <1>0 DEF InitFtl, Res
<1>2. f \in Ftl
  <2>1. \A z \in Zones : [state |-> "EMPTY", wp |-> zone_to_slba(z), zrwav |-> FALSE] \in Zone
    BY Boundaries DEF Zone, States
  <2>2. /\ f.zone \in [Zones -> Zone] /\ f.acquired \in [Res -> Int]
        /\ f.remaining \in [BufferNames -> Nat]
        /\ f.inflight \in [BufferNames -> [ReleaseSizes -> Nat]]
        /\ f.programs \in [Zones -> [Rows -> Nat]] /\ f.lost \in [BufferNames -> Nat]
    BY <1>1, <2>1, Sizes
  <2>3. PICK zs \in [Zones -> Zone], as \in [Res -> Int], rs \in [BufferNames -> Nat],
             is \in [BufferNames -> [ReleaseSizes -> Nat]], ps \in [Zones -> [Rows -> Nat]],
             ls \in [BufferNames -> Nat] :
           f = [zone |-> zs, acquired |-> as, remaining |-> rs, inflight |-> is, programs |-> ps,
                lost |-> ls, status |-> "SUCCESS", again |-> FALSE, fault |-> "none"]
    <3>1. f = [zone |-> f.zone, acquired |-> f.acquired, remaining |-> f.remaining,
               inflight |-> f.inflight, programs |-> f.programs, lost |-> f.lost,
               status |-> "SUCCESS", again |-> FALSE, fault |-> "none"]
      BY <1>0 DEF InitFtl
    <3> QED
      BY <2>2, <3>1
  <2>4. "SUCCESS" \in Statuses /\ "none" \in FaultKinds
    BY DEF Statuses, FaultKinds
  <2> QED
    BY <2>3, <2>4 DEF Ftl
<1>3. ASSUME NEW z \in Zones
      PROVE  /\ f.zone[z].state = "EMPTY" /\ f.zone[z].wp = zone_to_slba(z) /\ ~f.zone[z].zrwav
             /\ WpSound(f.zone[z], z) /\ PageSound(f.zone[z], z) /\ RowsSound(f, z)
             /\ Partial(f, z) = 0
  <2>1. f.zone[z].state = "EMPTY" /\ f.zone[z].wp = zone_to_slba(z) /\ ~f.zone[z].zrwav
    BY <1>1
  <2>2. PICK s \in Nat : s = zone_to_slba(z)
    BY Boundaries
  <2>3. WpSound(f.zone[z], z)
    BY <2>1, <2>2, Sizes DEF WpSound
  <2>4. PageSound(f.zone[z], z)
    <3>1. s = s + SecsPerPg * 0
      BY Sizes
    <3> QED
      BY <2>1, <2>2, <3>1 DEF PageSound
  <2>5. RowsSound(f, z)
    BY <1>1 DEF RowsSound
  <2>6. Partial(f, z) = 0
    <3>1. s - s = 0 /\ 0 % Oneshot = 0
      BY Sizes
    <3> QED
      BY <2>1, <2>2, <3>1 DEF Partial
  <2> QED
    BY <2>1, <2>3, <2>4, <2>5, <2>6
<1>4. Counters(f)
  <2>1. In(f, Opened) = {} /\ In(f, Active) = {} /\ Windows(f) = {}
    BY <1>3 DEF In, Windows, HasWindow, Opened, Active
  <2>2. f.acquired["OPEN"] = 0 /\ f.acquired["ACTIVE"] = 0 /\ f.acquired["ZRWA"] = 0
    BY <1>1 DEF Res
  <2>3. NrZones \in Nat
    BY Sizes
  <2> QED
    BY <2>1, <2>2, <2>3, FS_EmptySet DEF Counters
<1>5. ASSUME NEW b \in WriteBuffers
      PROVE  Space(f, b) + SumFunctionOnSet(Held(f, b), Zones) = WbSize
  <2>1. b \in BufferNames /\ b[1] = "wb"
    BY BufferFacts DEF WriteBuffers
  <2>2. f.remaining[b] = WbSize /\ f.lost[b] = 0
    BY <1>1, <2>1
  <2>3. Returning(f, b) = 0
    <3>1. PICK a : a = [s \in ReleaseSizes |-> s * f.inflight[b][s]]
      OBVIOUS
    <3>2. \A s \in ReleaseSizes : a[s] = 0
      <4>1. \A s \in ReleaseSizes : a[s] = s * 0 /\ s \in Nat
        BY <1>1, <2>1, <3>1, Sizes
      <4> QED
        BY <4>1
    <3>3. SumFunctionOnSet(a, ReleaseSizes) = 0
      BY <3>2, BufferFacts, SumZero
    <3> QED
      BY <3>1, <3>3 DEF Returning
  <2>4. SumFunctionOnSet(Held(f, b), Zones) = 0
    <3>1. PICK a : a = Held(f, b)
      OBVIOUS
    <3>2. \A z \in Zones : a[z] = 0
      BY <1>3, <3>1 DEF Held
    <3> QED
      BY <3>1, <3>2, ZonesFinite, SumZero
  <2> QED
    BY <2>2, <2>3, <2>4, Sizes DEF Space
<1> QED
  BY <1>0, <1>2, <1>3, <1>4, <1>5 DEF Sound, Balanced

(* BufferRelease on a state.                                               *)
GivenBack(f, b, size) ==
    [f EXCEPT !.inflight[b][size] = @ - 1, !.remaining[b] = @ + size]

(* What buffer_release() changes.                                          *)
LEMMA GivesBack ==
    ASSUME NEW f \in Ftl, NEW b \in BufferNames, NEW size \in ReleaseSizes,
           f.inflight[b][size] > 0, NEW g, g = GivenBack(f, b, size)
    PROVE  /\ g \in Ftl /\ g.zone = f.zone /\ g.acquired = f.acquired
           /\ g.programs = f.programs /\ g.lost = f.lost
           /\ g.remaining[b] = f.remaining[b] + size
           /\ \A s \in ReleaseSizes : g.inflight[b][s] = f.inflight[b][s] - One(s = size)
           /\ \A c \in BufferNames : c # b =>
                 g.remaining[c] = f.remaining[c] /\ g.inflight[c] = f.inflight[c]
<1>0. f.inflight[b] \in [ReleaseSizes -> Nat] /\ f.remaining \in [BufferNames -> Nat] /\ size \in Nat
  BY Sizes DEF Ftl
<1>1. PICK i : i = [f.inflight[b] EXCEPT ![size] = f.inflight[b][size] - 1]
  OBVIOUS
<1>2. i \in [ReleaseSizes -> Nat] /\ \A s \in ReleaseSizes : i[s] = f.inflight[b][s] - One(s = size)
  BY <1>0, <1>1 DEF One
<1>3. PICK is : is = [f.inflight EXCEPT ![b] = i]
  OBVIOUS
<1>4. PICK rs : rs = [f.remaining EXCEPT ![b] = f.remaining[b] + size]
  OBVIOUS
<1>5. /\ is \in [BufferNames -> [ReleaseSizes -> Nat]] /\ is[b] = i
      /\ \A c \in BufferNames : c # b => is[c] = f.inflight[c]
  BY <1>2, <1>3 DEF Ftl
<1>6. /\ rs \in [BufferNames -> Nat] /\ rs[b] = f.remaining[b] + size
      /\ \A c \in BufferNames : c # b => rs[c] = f.remaining[c]
  BY <1>0, <1>4
<1>7. g = [f EXCEPT !.inflight = is, !.remaining = rs]
  BY <1>1, <1>3, <1>4 DEF GivenBack
<1>8. /\ g \in Ftl /\ g.zone = f.zone /\ g.acquired = f.acquired
      /\ g.programs = f.programs /\ g.lost = f.lost /\ g.remaining = rs /\ g.inflight = is
  BY <1>5, <1>6, <1>7 DEF Ftl
<1> QED
  BY <1>2, <1>5, <1>6, <1>8

(* buffer_release() moves space on its way back into the buffer.           *)
LEMMA ReleaseSound ==
    ASSUME NEW f, Sound(f), NEW b \in BufferNames, NEW size \in ReleaseSizes,
           f.inflight[b][size] > 0
    PROVE  Sound(GivenBack(f, b, size))
<1>0. f \in Ftl
  BY DEF Sound
<1>1. PICK g : g = GivenBack(f, b, size)
  OBVIOUS
<1>2. /\ g \in Ftl /\ g.zone = f.zone /\ g.acquired = f.acquired
      /\ g.programs = f.programs /\ g.lost = f.lost
      /\ g.remaining[b] = f.remaining[b] + size
      /\ \A s \in ReleaseSizes : g.inflight[b][s] = f.inflight[b][s] - One(s = size)
      /\ \A c \in BufferNames : c # b =>
            g.remaining[c] = f.remaining[c] /\ g.inflight[c] = f.inflight[c]
  BY <1>0, <1>1, GivesBack
<1>3. Counters(g)
  BY <1>2 DEF Sound, Counters, In, Windows
<1>4. \A z \in Zones : WpSound(g.zone[z], z) /\ PageSound(g.zone[z], z) /\ RowsSound(g, z)
  BY <1>2 DEF Sound, RowsSound
<1>5. Returning(g, b) = Returning(f, b) - size
  <2>1. PICK n : n = [s \in ReleaseSizes |-> 0 - One(s = size)]
    OBVIOUS
  <2>2. \A s \in ReleaseSizes : n[s] = (IF s = size THEN -1 ELSE 0) /\ n[s] \in Int
    BY <2>1 DEF One
  <2>3. ASSUME NEW s \in ReleaseSizes
        PROVE  n[s] \in Int /\ g.inflight[b][s] = f.inflight[b][s] + n[s]
    <3>1. f.inflight[b][s] \in Nat
      BY <1>0, SpaceType
    <3> QED
      BY <1>2, <2>2, <3>1 DEF One
  <2>4. g \in Ftl
    BY <1>2
  <2>5. \A s \in ReleaseSizes : n[s] \in Int /\ g.inflight[b][s] = f.inflight[b][s] + n[s]
    BY <2>3
  <2>6. Returning(g, b) = Returning(f, b) + Oneshot * n[Oneshot]
                          + IF Unaligned > 0 THEN Unaligned * n[Unaligned] ELSE 0
    BY <1>0, <2>4, <2>5, ReturningMoves
  <2>7. Returning(f, b) \in Int
    BY <1>0, SpaceType
  <2>8. /\ Oneshot \in Nat \ {0} /\ Unaligned \in 0 .. Oneshot - 1 /\ Oneshot \in ReleaseSizes
        /\ (Unaligned > 0 => Unaligned \in ReleaseSizes)
        /\ size = Oneshot \/ (size = Unaligned /\ Unaligned > 0)
    BY Sizes DEF ReleaseSizes
  <2>9. CASE size = Oneshot
    <3>1. n[Oneshot] = -1 /\ (Unaligned > 0 => n[Unaligned] = 0)
      BY <2>2, <2>8, <2>9
    <3>2. Oneshot * (-1) = - Oneshot /\ Unaligned * 0 = 0
      BY <2>8
    <3> QED
      BY <2>6, <2>7, <2>8, <2>9, <3>1, <3>2
  <2>10. CASE size = Unaligned /\ Unaligned > 0
    <3>1. n[Oneshot] = 0 /\ n[Unaligned] = -1
      BY <2>2, <2>8, <2>10
    <3>2. Oneshot * 0 = 0 /\ Unaligned * (-1) = - Unaligned
      BY <2>8
    <3> QED
      BY <2>6, <2>7, <2>8, <2>10, <3>1, <3>2
  <2> QED
    BY <2>8, <2>9, <2>10
<1>6. Balanced(g)
  <2>1. ASSUME NEW c \in WriteBuffers
        PROVE  Space(g, c) = Space(f, c) /\ Held(g, c) = Held(f, c)
    <3>1. c \in BufferNames
      BY BufferFacts
    <3>2. Held(g, c) = Held(f, c)
      BY <1>2 DEF Held, Partial
    <3>3. CASE c = b
      BY <1>0, <1>2, <1>5, <3>2, <3>3, SpaceType, Sizes DEF Space
    <3>4. CASE c # b
      <4>1. g.remaining[c] = f.remaining[c] /\ g.inflight[c] = f.inflight[c] /\ g.lost = f.lost
        BY <1>2, <3>1, <3>4
      <4> QED
        BY <3>2, <4>1 DEF Space, Returning
    <3> QED
      BY <3>3, <3>4
  <2> QED
    BY <2>1 DEF Sound, Balanced
<1> QED
  BY <1>1, <1>2, <1>3, <1>4, <1>6 DEF Sound
-----------------------------------------------------------------------------
(* The specification.                                                      *)

Ops == DataOps \cup {"read"} \cup Mgmt \cup {"report", "report_partial"}
Command == [op : Ops, slba : Nat, nr : Nat, all : BOOLEAN, zone : Nat, tag : Tags]

(* The command at the head of the queue, whose LBA an append may have      *)
(* moved to its zone's write pointer, and what the worker has.             *)
Queued(c) == c = NoCmd \/ (c \in Command /\ (c.op \in DataOps => c.nr # 0))
TagsSound ==
    /\ sent \in Tags /\ \A w \in work : w.tag \in Tags
    /\ data \in [LBAs -> Tags] /\ acked \in [LBAs -> Tags]

(* The inductive invariant.                                                *)
IInv == Sound(ftl) /\ Queued(cmd) /\ TagsSound

(* The host queues a command.                                              *)
LEMMA SubmitQueues ==
    ASSUME IInv, NEW c \in CommandSet, Submit(c)
    PROVE  IInv'
<1>0. sent \in Nat /\ sent <= MaxCmds /\ MaxCmds \in Nat /\ TrackData \in BOOLEAN
  BY Sizes, HostBounds DEF IInv, TagsSound, Tags
<1>1. sent' \in Tags
  BY <1>0 DEF Submit, Tags
<1>2. \A l \in LBAs : l \in Nat
  BY DEF LBAs
<1>3. \A z \in Zones : zone_to_slba(z) \in Nat
  BY Boundaries
<1>4. /\ c.op \in Ops /\ c.slba \in Nat /\ c.nr \in Nat /\ c.all \in BOOLEAN
      /\ (c.op \in DataOps => c.nr # 0)
  <2>0. NrZones \in Nat /\ MaxNr \in Nat
    BY Sizes
  <2>1. CASE c \in [op : Commands \cap (DataOps \cup {"read"}), slba : LBAs, nr : 1 .. MaxNr,
                    all : {FALSE}]
    <3>1. c.op \in DataOps \cup {"read"} /\ c.slba \in LBAs /\ c.nr \in 1 .. MaxNr /\ c.all = FALSE
      BY <2>1
    <3>2. c.op \in Ops
      BY <3>1 DEF Ops
    <3>3. c.nr \in Nat /\ c.nr # 0
      BY <2>0, <3>1
    <3> QED
      BY <1>2, <3>1, <3>2, <3>3
  <2>2. CASE c \in [op : Commands \cap Mgmt, slba : LBAs, nr : {1}, all : BOOLEAN]
    <3>1. c.op \in Mgmt /\ c.slba \in LBAs /\ c.nr = 1 /\ c.all \in BOOLEAN
      BY <2>2
    <3> QED
      BY <1>2, <3>1 DEF Ops
  <2>3. CASE c \in [op : Commands \cap {"report", "report_partial"},
                    slba : {zone_to_slba(z) : z \in Zones}, nr : 0 .. NrZones + 1, all : {FALSE}]
    <3>1. /\ c.op \in {"report", "report_partial"} /\ c.slba \in {zone_to_slba(z) : z \in Zones}
          /\ c.nr \in 0 .. NrZones + 1 /\ c.all = FALSE
      BY <2>3
    <3>2. c.op \notin DataOps
      BY <3>1 DEF DataOps
    <3>3. c.op \in Ops
      BY <3>1 DEF Ops
    <3>4. c.nr \in Nat
      BY <2>0, <3>1
    <3>5. c.slba \in Nat
      BY <1>3, <3>1
    <3> QED
      BY <3>1, <3>2, <3>3, <3>4, <3>5
  <2> QED
    BY <2>1, <2>2, <2>3 DEF CommandSet
<1>5. lba_to_zone(c.slba) \in Nat
  BY <1>4, Sizes DEF lba_to_zone
<1>6. cmd' = [op |-> c.op, slba |-> c.slba, nr |-> c.nr, all |-> c.all,
              zone |-> lba_to_zone(c.slba), tag |-> sent']
  BY DEF Submit
<1>7. Queued(cmd')
  BY <1>1, <1>4, <1>5, <1>6 DEF Queued, Command
<1>8. ftl' = ftl /\ work' = work /\ data' = data /\ acked' = acked
  BY DEF Submit
<1> QED
  BY <1>1, <1>7, <1>8 DEF IInv, TagsSound

(* proc_io_cmd() on a zone that exists.                                    *)
LEMMA CommandSound ==
    ASSUME NEW f, NEW z \in Zones, NEW slba \in Nat, Sound(f), cmd \in Command,
           cmd.op \in DataOps => cmd.nr # 0,
           lba_to_zone(cmd.slba) = z,
           cmd.op # "append" \/ f.zone[z].zrwav => slba = cmd.slba
    PROVE  Sound(proc_io_cmd(f, z, slba))
<1>1. PICK op \in Ops, nr \in Nat, all \in BOOLEAN : op = cmd.op /\ nr = cmd.nr /\ all = cmd.all
  BY DEF Command
<1>2. CASE op \in DataOps
  <2>0. op # "read" /\ op \notin Mgmt /\ op \notin {"report", "report_partial"}
    BY <1>2 DEF DataOps, Mgmt
  <2>1. proc_io_cmd(f, z, slba) = zns_write(f, z, slba, nr)
    BY <1>1, <1>2, <2>0 DEF proc_io_cmd
  <2>2. f.zone[z].zrwav => lba_to_zone(slba) = z
    OBVIOUS
  <2>3. nr \in Nat \ {0}
    BY <1>1, <1>2
  <2> QED
    BY <2>1, <2>2, <2>3, WriteSound
<1>3. CASE op = "read"
  <2>1. op \notin DataOps
    BY <1>3 DEF DataOps
  <2>2. proc_io_cmd(f, z, slba) = zns_read(f, slba, nr)
    BY <1>1, <1>3, <2>1 DEF proc_io_cmd, Mgmt
  <2>3. "BOUNDARY" \in Statuses
    BY DEF Statuses
  <2>4. Sound(Refuse(f, "BOUNDARY"))
    BY <2>3, RefuseSound
  <2> QED
    BY <2>2, <2>4 DEF zns_read
<1>4. CASE op \in Mgmt
  <2>1. op \notin DataOps /\ op # "read" /\ op # "append"
    BY <1>4 DEF Mgmt, DataOps
  <2>2. proc_io_cmd(f, z, slba) = zns_zmgmt_send(f, op, slba, all)
    BY <1>1, <1>4, <2>1 DEF proc_io_cmd, Mgmt
  <2>3. slba = cmd.slba /\ lba_to_zone(slba) \in Zones
    BY <1>1, <2>1
  <2>4. Sound(__zmgmt_send(f, op, slba))
    BY <1>4, <2>3, SendSound
  <2>5. Sound(SelectAll(f, op))
    BY <1>4, SelectAllSound
  <2> QED
    BY <2>2, <2>4, <2>5 DEF zns_zmgmt_send
<1>5. CASE op \in {"report", "report_partial"}
  <2>1. op \notin DataOps /\ op # "read" /\ op \notin Mgmt
    BY <1>5 DEF DataOps, Mgmt
  <2>2. proc_io_cmd(f, z, slba) = f
    BY <1>1, <1>5, <2>1 DEF proc_io_cmd
  <2> QED
    BY <2>2
<1> QED
  BY <1>2, <1>3, <1>4, <1>5 DEF Ops

(* The dispatcher runs it, for the first time or again.                    *)
LEMMA DispatchSound ==
    ASSUME IInv, Dispatch
    PROVE  IInv'
<1>1. PICK f : f = Marked(ftl, "SUCCESS", FALSE)
  BY Zenon
<1>2. "SUCCESS" \in Statuses /\ "zone_number" \in FaultKinds /\ FALSE \in BOOLEAN
  BY DEF Statuses, FaultKinds
<1>3. Sound(f) /\ f.zone = ftl.zone
  <2>1. ftl \in Ftl /\ Sound(ftl)
    BY DEF IInv, Sound
  <2>2. Sound(Marked(ftl, "SUCCESS", FALSE))
    BY <1>2, <2>1, MarkSound
  <2>3. Quiet(ftl, Marked(ftl, "SUCCESS", FALSE))
    BY <1>2, <2>1, Marks
  <2> QED
    BY <1>1, <2>2, <2>3 DEF Quiet
<1>4. cmd \in Command /\ (cmd.op \in DataOps => cmd.nr # 0)
  BY DEF IInv, Queued, Dispatch
<1>5. PICK z : z = lba_to_zone(cmd.slba)
  OBVIOUS
<1>6. PICK slba : slba = IF cmd.op = "append" /\ z \in Zones /\ ~ftl.zone[z].zrwav
                         THEN ftl.zone[z].wp ELSE cmd.slba
  OBVIOUS
<1>7. PICK g : g = IF z \in Zones THEN proc_io_cmd(f, z, slba) ELSE Faulty(f, "zone_number")
  OBVIOUS
<1>8. slba \in Nat
  <2>1. cmd.slba \in Nat
    BY <1>4 DEF Command
  <2>2. \A y \in Zones : ftl.zone[y].wp \in Nat
    BY DEF IInv, Sound, Ftl, Zone
  <2> QED
    BY <1>6, <2>1, <2>2
<1>9. Sound(g)
  <2>1. CASE z \in Zones
    <3>1. cmd.op # "append" \/ f.zone[z].zrwav => slba = cmd.slba
      BY <1>3, <1>6
    <3>2. g = proc_io_cmd(f, z, slba)
      BY <1>7, <2>1
    <3> QED
      BY <1>3, <1>4, <1>5, <1>8, <2>1, <3>1, <3>2, CommandSound
  <2>2. CASE z \notin Zones
    <3>1. g = Faulty(f, "zone_number")
      BY <1>7, <2>2
    <3> QED
      BY <1>2, <1>3, <3>1, FaultSound
  <2> QED
    BY <2>1, <2>2
<1>10. /\ ftl' = Marked(g, "SUCCESS", FALSE)
       /\ cmd' = (IF g.again THEN [cmd EXCEPT !.slba = slba] ELSE NoCmd)
       /\ work' = (IF g.again \/ g.fault # "none" \/ cmd.op \in Mgmt THEN work
                   ELSE work \cup {Answer(g, slba)})
  BY <1>1, <1>5, <1>6, <1>7 DEF Dispatch, Marked, Faulty
<1>11. /\ data' = [l \in LBAs |-> IF cmd.op = "reset" /\ lba_to_zone(l) \in Targets(cmd)
                                  THEN 0 ELSE data[l]]
       /\ acked' = [l \in LBAs |-> IF cmd.op = "reset" /\ lba_to_zone(l) \in Targets(cmd)
                                   THEN 0 ELSE acked[l]]
       /\ sent' = sent
  BY DEF Dispatch
<1>12. Sound(ftl')
  BY <1>2, <1>9, <1>10, MarkSound
<1>13. Queued(cmd')
  BY <1>4, <1>8, <1>10 DEF Queued, Command
<1>14. TagsSound'
  <2>1. Answer(g, slba).tag = cmd.tag /\ cmd.tag \in Tags
    BY <1>4 DEF Answer, Command
  <2>2. \A w \in work' : w.tag \in Tags
    BY <1>10, <2>1 DEF IInv, TagsSound
  <2>3. 0 \in Tags
    BY Sizes DEF Tags
  <2>4. data' \in [LBAs -> Tags] /\ acked' \in [LBAs -> Tags]
    BY <1>11, <2>3 DEF IInv, TagsSound
  <2> QED
    BY <1>11, <2>2, <2>4 DEF IInv, TagsSound
<1> QED
  BY <1>12, <1>13, <1>14 DEF IInv

(* The worker completes one.                                               *)
LEMMA CompleteSound ==
    ASSUME IInv, NEW w \in work, Complete(w)
    PROVE  IInv'
<1>1. w.tag \in Tags
  BY DEF IInv, TagsSound
<1>2. data' \in [LBAs -> Tags] /\ acked' \in [LBAs -> Tags]
  BY <1>1 DEF Complete, IInv, TagsSound
<1>3. ftl' = ftl /\ cmd' = cmd /\ sent' = sent /\ work' \subseteq work
  BY DEF Complete
<1> QED
  BY <1>2, <1>3 DEF IInv, TagsSound

(* The worker gives buffer space back.                                     *)
LEMMA BufferReleaseSound ==
    ASSUME IInv, NEW b \in BufferNames, NEW size \in ReleaseSizes, BufferRelease(b, size)
    PROVE  IInv'
<1>1. ftl' = GivenBack(ftl, b, size) /\ ftl.inflight[b][size] > 0
  BY DEF BufferRelease, GivenBack
<1>2. Sound(ftl')
  BY <1>1, ReleaseSound DEF IInv
<1>3. cmd' = cmd /\ work' = work /\ data' = data /\ acked' = acked /\ sent' = sent
  BY DEF BufferRelease
<1> QED
  BY <1>2, <1>3 DEF IInv, TagsSound

(* IInv is an inductive invariant.                                         *)
THEOREM Inductive == Spec => []IInv
<1>1. Init => IInv
  <2>1. SUFFICES ASSUME Init PROVE IInv
    OBVIOUS
  <2>2. 0 \in Tags
    BY Sizes DEF Tags
  <2>3. Sound(ftl)
    BY <2>1, StartSound DEF Init
  <2>4. TagsSound
    BY <2>1, <2>2 DEF Init, TagsSound
  <2> QED
    BY <2>1, <2>3, <2>4 DEF Init, IInv, Queued
<1>2. IInv /\ [Next]_vars => IInv'
  <2>1. SUFFICES ASSUME IInv, [Next]_vars PROVE IInv'
    OBVIOUS
  <2>2. CASE \E c \in CommandSet : Submit(c)
    BY <2>1, <2>2, SubmitQueues
  <2>3. CASE Dispatch
    BY <2>1, <2>3, DispatchSound
  <2>4. CASE \E w \in work : Complete(w)
    BY <2>1, <2>4, CompleteSound
  <2>5. CASE \E b \in BufferNames, size \in ReleaseSizes : BufferRelease(b, size)
    BY <2>1, <2>5, BufferReleaseSound
  <2>6. CASE UNCHANGED vars
    BY <2>1, <2>6 DEF IInv, TagsSound, vars
  <2> QED
    BY <2>1, <2>2, <2>3, <2>4, <2>5, <2>6 DEF Next
<1> QED
  BY <1>1, <1>2, PTL DEF Spec

(* A set of zones has at most NrZones members.                             *)
LEMMA CountersInRange ==
    ASSUME NEW S \in SUBSET Zones
    PROVE  Cardinality(S) \in 0 .. NrZones
<1>1. Cardinality(S) \in Nat /\ Cardinality(S) <= NrZones
  BY ZonesFinite, FS_Subset, FS_CardinalityType
<1> QED
  BY <1>1, Sizes

(* The counters of open and active zones, and without ZRWA support that of *)
(* zones with a window, are the numbers of such zones: what                *)
(* is_zone_resource_full() decides is right after any commands.            *)
THEOREM ResourcesAreExact == Spec => []ResourcesExact
<1>1. IInv => ResourcesExact
  <2>1. SUFFICES ASSUME IInv PROVE ResourcesExact
    OBVIOUS
  <2>2. ftl \in Ftl /\ Counters(ftl)
    BY <2>1 DEF IInv, Sound
  <2>3. /\ In(ftl, Opened) = ZonesIn(Opened) /\ In(ftl, Active) = ZonesIn(Active)
        /\ Windows(ftl) = {z \in ZonesIn(Active) : ftl.zone[z].zrwav}
    BY DEF In, ZonesIn, Windows, HasWindow
  <2>4. OpenActiveExact /\ (ZrwaSize = 0 => ZrwaExact)
    BY <2>2, <2>3 DEF Counters, OpenActiveExact, ZrwaExact, Count
  <2>5. ftl.zone \in [Zones -> [state : States, wp : 0 .. NrZones * ZoneSize, zrwav : BOOLEAN]]
    <3>1. ASSUME NEW z \in Zones
          PROVE  ftl.zone[z] \in [state : States, wp : 0 .. NrZones * ZoneSize, zrwav : BOOLEAN]
      <4>1. ftl.zone[z] \in Zone /\ WpSound(ftl.zone[z], z)
        BY <2>1, <2>2 DEF IInv, Sound, Ftl
      <4>2. PICK w \in Nat, s \in Nat, e \in Nat :
               w = ftl.zone[z].wp /\ s = zone_to_slba(z) /\ e = NrZones * ZoneSize
        BY <4>1, Boundaries DEF Zone
      <4>3. w <= s + ZoneSize /\ s + ZoneSize <= e
        BY <4>1, <4>2, Boundaries, Sizes DEF WpSound
      <4>4. w \in 0 .. e
        BY <4>3, Sizes
      <4> QED
        BY <4>1, <4>2, <4>4 DEF Zone
    <3> QED
      BY <2>2, <3>1 DEF Ftl
  <2>6. ftl.acquired \in [{"ACTIVE", "OPEN", "ZRWA"} -> 0 .. NrZones]
    <3>1. In(ftl, Opened) \subseteq Zones /\ In(ftl, Active) \subseteq Zones /\ Windows(ftl) \subseteq Zones
      BY DEF In, Windows
    <3>2. /\ Cardinality(In(ftl, Opened)) \in 0 .. NrZones
          /\ Cardinality(In(ftl, Active)) \in 0 .. NrZones
          /\ Cardinality(Windows(ftl)) \in 0 .. NrZones
      BY <3>1, CountersInRange
    <3>3. ftl.acquired \in [Res -> Int]
      BY <2>2 DEF Ftl
    <3>4. ftl.acquired["ZRWA"] \in Int
      BY <3>3 DEF Res
    <3>5. ftl.acquired["ZRWA"] \in 0 .. NrZones
      BY <2>2, <3>2, <3>4, Sizes DEF Counters
    <3>6. \A r \in Res : ftl.acquired[r] \in 0 .. NrZones
      BY <2>2, <3>2, <3>5 DEF Counters, Res
    <3> QED
      BY <3>3, <3>6 DEF Res
  <2>7. ftl.remaining \in [BufferNames -> Nat]
    BY <2>2 DEF Ftl
  <2> QED
    BY <2>1, <2>4, <2>5, <2>6, <2>7 DEF ResourcesExact, TypeOK, IInv, TagsSound
<1> QED
  BY <1>1, Inductive, PTL

(* Write pointers stay in their zones and agree with the zones' states, in *)
(* zones with and without a window.                                        *)
THEOREM WritePointersTrack == Spec => []WpTracksState
<1>1. IInv => WpTracksState
  BY Boundaries DEF IInv, Sound, WpSound, WpTracksState
<1> QED
  BY <1>1, Inductive, PTL

(* On a device that takes writes of whole pages only, no space of a write  *)
(* buffer appears or disappears: what __zns_write() charges is held by an  *)
(* unfinished one-shot page, given back once, or counted as lost.          *)
THEOREM BuffersAccounted ==
    ASSUME Aligned
    PROVE  Spec => []BufferAccounted
<1>1. IInv => BufferAccounted
  BY DEF IInv, Sound, Balanced, BufferAccounted, Space, Returning, Held, WriteBuffers
<1> QED
  BY <1>1, Inductive, PTL

(* On such a device __zns_write() and __zns_write_zrwa() program no        *)
(* one-shot page twice before its zone is reset.                           *)
THEOREM ProgrammedOnce ==
    ASSUME Aligned
    PROVE  Spec => []ProgramsOnce
<1>1. IInv => ProgramsOnce
  BY DEF IInv, Sound, RowsSound, ProgramsOnce
<1> QED
  BY <1>1, Inductive, PTL
-----------------------------------------------------------------------------
(* Data.  A host that makes no errors and asks for no window writes each   *)
(* zone in order: what it was told is stored lies before the write         *)
(* pointer, what is still to be copied ends there too, and no two commands *)
(* write the same LBA.                                                     *)

PoliteHost == ~HostMayErr /\ "open_zrwa" \notin Commands

(* The status of the command, and whether it waits or stops the kernel.    *)
SameOutcome(f, g) == g.status = f.status /\ g.again = f.again /\ g.fault = f.fault

(* Counters, zones and buffers are apart from it.                          *)
LEMMA OutcomeStays ==
    ASSUME NEW f \in Ftl, NEW r, NEW z
    PROVE  /\ SameOutcome(f, acquire_zone_resource(f, r))
           /\ SameOutcome(f, release_zone_resource(f, r))
           /\ \A st : SameOutcome(f, WithState(f, z, st))
           /\ \A w : SameOutcome(f, WithWp(f, z, w))
           /\ \A n : SameOutcome(f, buffer_allocate(f, r, n))
           /\ \A rows, size : SameOutcome(f, ProgramRows(f, z, r, rows, size))
<1>1. /\ SameOutcome(f, acquire_zone_resource(f, r))
      /\ SameOutcome(f, release_zone_resource(f, r))
  BY DEF Ftl, SameOutcome, acquire_zone_resource, release_zone_resource
<1>2. /\ \A st : SameOutcome(f, WithState(f, z, st))
      /\ \A w : SameOutcome(f, WithWp(f, z, w))
  BY DEF Ftl, SameOutcome, WithState, WithWp
<1>3. \A n : SameOutcome(f, buffer_allocate(f, r, n))
  BY DEF Ftl, SameOutcome, buffer_allocate
<1>4. \A rows, size : SameOutcome(f, ProgramRows(f, z, r, rows, size))
  BY DEF Ftl, SameOutcome, ProgramRows
<1> QED
  BY <1>1, <1>2, <1>3, <1>4

(* A zone that is not open finds the OPEN counter below its limit, an      *)
(* EMPTY one the ACTIVE counter too.                                       *)
LEMMA RoomForZone ==
    ASSUME NEW f, NEW z \in Zones, Sound(f)
    PROVE  /\ f.zone[z].state \notin Opened => f.acquired["OPEN"] # NrZones
           /\ f.zone[z].state \notin Active => f.acquired["ACTIVE"] # NrZones
<1>1. ASSUME NEW S \in SUBSET Zones, z \notin S
      PROVE  Cardinality(S) # NrZones
  <2>1. S \subseteq Zones \ {z}
    BY <1>1
  <2>2. IsFiniteSet(Zones \ {z}) /\ Cardinality(Zones \ {z}) = NrZones - 1
    BY ZonesFinite, FS_RemoveElement
  <2>3. IsFiniteSet(S) /\ Cardinality(S) <= Cardinality(Zones \ {z})
    BY <2>1, <2>2, FS_Subset
  <2>4. Cardinality(S) \in Nat
    BY <2>3, FS_CardinalityType
  <2> QED
    BY <2>2, <2>3, <2>4, Sizes
<1>2. In(f, Opened) \in SUBSET Zones /\ In(f, Active) \in SUBSET Zones
  BY DEF In
<1>3. f.zone[z].state \notin Opened => z \notin In(f, Opened)
  BY DEF In
<1>4. f.zone[z].state \notin Active => z \notin In(f, Active)
  BY DEF In
<1> QED
  BY <1>1, <1>2, <1>3, <1>4 DEF Sound, Counters

(* A write of a host that makes no errors: at the write pointer, in whole  *)
(* write units, within a zone that is not full and has no window.          *)
Fits(f, z, slba, nr) ==
    /\ ~f.zone[z].zrwav /\ f.zone[z].state # "FULL" /\ slba = f.zone[z].wp
    /\ nr % WriteUnit = 0 /\ SameZone(slba, nr)

(* No check of __zns_write() refuses it.                                   *)
LEMMA NoWriteError ==
    ASSUME NEW f, NEW z \in Zones, Sound(f), NEW slba, NEW nr, Fits(f, z, slba, nr),
           NEW g, g.zone = f.zone, g.acquired = f.acquired
    PROVE  WriteError(g, z, slba, nr) = "SUCCESS"
<1>1. f.zone[z].state = "EMPTY" => slba = zone_to_slba(z)
  BY ZoneFacts DEF Fits, WpSound
<1>2. f.zone[z].state = "EMPTY" => f.acquired["ACTIVE"] # NrZones
  BY RoomForZone DEF Active, Opened
<1>3. f.zone[z].state \in Unopened => f.acquired["OPEN"] # NrZones
  BY RoomForZone DEF Unopened, Opened
<1> QED
  BY <1>1, <1>2, <1>3 DEF WriteError, Fits, is_zone_resource_full

(* What a command does to the zones' write pointers: zone z's becomes wp,  *)
(* no window is opened, and the kernel goes on.                            *)
Moves(f, g, z, wp) ==
    /\ \A y \in Zones : ~g.zone[y].zrwav
    /\ \A y \in Zones : g.zone[y].wp = IF y = z THEN wp ELSE f.zone[y].wp
    /\ g.fault = f.fault /\ g.again = f.again

NoWindow(f) == \A z \in Zones : ~f.zone[z].zrwav

(* It is taken, or waits for buffer space.                                 *)
LEMMA FittingWrite ==
    ASSUME NEW f, NEW z \in Zones, Sound(f), NoWindow(f), NEW slba \in Nat, NEW nr \in Nat \ {0},
           Fits(f, z, slba, nr), NEW q, q = zns_write(f, z, slba, nr)
    PROVE  \/ q = Retry(f)
           \/ Moves(f, q, z, slba + nr) /\ q.status = f.status
<1>0. q = __zns_write(f, z, slba, nr)
  BY DEF NoWindow, zns_write
<1>1. PICK b : b = BufferOf(z)
  OBVIOUS
<1>2. f \in Ftl /\ b \in BufferNames /\ b \in WriteBuffers
  BY <1>1, BufferFacts DEF Sound, BufferOf
<1>3. CASE f.remaining[b] < nr
  BY <1>0, <1>1, <1>3 DEF __zns_write, Retry, BufferOf
<1>4. CASE ~(f.remaining[b] < nr)
  <2>1. nr <= f.remaining[b]
    BY <1>2, <1>4, SpaceType
  <2>2. PICK g : g = buffer_allocate(f, b, nr)
    OBVIOUS
  <2>3. g \in Ftl /\ g.zone = f.zone /\ g.acquired = f.acquired
    BY <1>2, <2>1, <2>2, Allocate
  <2>4. SameOutcome(f, g)
    BY <1>2, <2>2, OutcomeStays
  <2>5. WriteError(g, z, slba, nr) = "SUCCESS"
    BY <2>3, NoWriteError
  <2>6. PICK h : h = OpenForWrite(g, z)
    OBVIOUS
  <2>7. OpenedFor(f, h, z)
    BY <2>3, <2>6, WriteOpened DEF Fits
  <2>8. SameOutcome(g, h)
    <3>1. PICK i : i = IF g.zone[z].state = "EMPTY" THEN acquire_zone_resource(g, "ACTIVE") ELSE g
      OBVIOUS
    <3>2. i \in Ftl /\ SameOutcome(g, i)
      <4>1. "ACTIVE" \in Res
        BY DEF Res
      <4>2. acquire_zone_resource(g, "ACTIVE") \in Ftl
        BY <2>3, <4>1, Acquire
      <4>3. SameOutcome(g, acquire_zone_resource(g, "ACTIVE")) /\ SameOutcome(g, g)
        BY <2>3, OutcomeStays DEF SameOutcome
      <4> QED
        BY <2>3, <3>1, <4>2, <4>3
    <3>3. PICK j : j = acquire_zone_resource(i, "OPEN")
      OBVIOUS
    <3>4. j \in Ftl /\ SameOutcome(i, j)
      <4>1. "OPEN" \in Res
        BY DEF Res
      <4> QED
        BY <3>2, <3>3, <4>1, Acquire, OutcomeStays
    <3>5. h = IF g.zone[z].state \in Unopened THEN WithState(j, z, "OPENED_IMPL") ELSE i
      BY <2>6, <3>1, <3>3 DEF OpenForWrite, WithState
    <3>6. SameOutcome(j, WithState(j, z, "OPENED_IMPL"))
      BY <3>4, OutcomeStays
    <3> QED
      BY <3>2, <3>4, <3>5, <3>6 DEF SameOutcome
  <2>9. PICK rows : rows = WrittenRows(z, f.zone[z].wp, nr)
    OBVIOUS
  <2>10. PICK size : size = ReleasedSizes(z, rows)
    OBVIOUS
  <2>11. PICK k : k = __increase_write_ptr(h, z, nr)
    OBVIOUS
  <2>12. q = ProgramRows(k, z, b, rows, size)
    BY <1>0, <1>1, <1>4, <2>2, <2>5, <2>6, <2>9, <2>10, <2>11
    DEF __zns_write, WrittenRows, ReleasedSizes, BufferOf, Fits
  <2>13. h \in Ftl /\ nr \in Nat
    BY <2>7 DEF OpenedFor
  <2>14. k \in Ftl /\ SameOutcome(h, k)
    <3>1. k \in Ftl
      BY <2>11, <2>13, Increased
    <3>2. PICK wp : wp = h.zone[z].wp + nr
      OBVIOUS
    <3>3. PICK l : l = WithWp(h, z, wp)
      OBVIOUS
    <3>4. l \in Ftl /\ SameOutcome(h, l)
      <4>1. h.zone[z].wp \in Nat
        BY <2>13 DEF Ftl, Zone
      <4>2. wp \in Nat
        BY <2>13, <3>2, <4>1
      <4> QED
        BY <2>13, <3>3, <4>2, SetWp, OutcomeStays
    <3>5. PICK m : m = release_zone_resource(l, "OPEN")
      OBVIOUS
    <3>6. m \in Ftl /\ SameOutcome(l, m)
      <4>1. "OPEN" \in Res
        BY DEF Res
      <4> QED
        BY <3>4, <3>5, <4>1, Release, OutcomeStays
    <3>7. PICK n : n = release_zone_resource(m, "ACTIVE")
      OBVIOUS
    <3>8. n \in Ftl /\ SameOutcome(m, n)
      <4>1. "ACTIVE" \in Res
        BY DEF Res
      <4> QED
        BY <3>6, <3>7, <4>1, Release, OutcomeStays
    <3>9. k = IF wp = zone_to_slba(z) + ZoneSize THEN WithState(n, z, "FULL") ELSE l
      BY <2>11, <3>2, <3>3, <3>5, <3>7 DEF __increase_write_ptr, WithWp, WithState, Full
    <3>10. SameOutcome(n, WithState(n, z, "FULL"))
      BY <3>8, OutcomeStays
    <3> QED
      BY <3>1, <3>4, <3>6, <3>8, <3>9, <3>10 DEF SameOutcome
  <2>15. SameOutcome(f, q)
    <3>1. SameOutcome(k, q)
      BY <2>12, <2>14, OutcomeStays
    <3> QED
      BY <2>4, <2>8, <2>14, <3>1 DEF SameOutcome
  <2>16. Wrote(h, q, z, nr, b, rows, size)
    <3>1. IsFiniteSet(rows)
      <4>1. f.zone[z].wp \in Nat
        BY ZoneFacts
      <4> QED
        BY <2>9, <4>1, WrittenFinite
    <3> QED
      BY <1>2, <2>11, <2>12, <2>13, <3>1, Writes
  <2>17. Moves(f, q, z, slba + nr)
    <3>1. ASSUME NEW y \in Zones
          PROVE  ~q.zone[y].zrwav /\ q.zone[y].wp = IF y = z THEN slba + nr ELSE f.zone[y].wp
      BY <2>7, <2>16 DEF OpenedFor, Wrote, NoWindow, Fits
    <3> QED
      BY <2>15, <3>1 DEF Moves, SameOutcome
  <2> QED
    BY <2>15, <2>17 DEF SameOutcome
<1> QED
  BY <1>3, <1>4

(* Taking or giving up a resource and changing a zone's state moves no     *)
(* write pointer.                                                          *)
LEMMA StateMoves ==
    ASSUME NEW f, NEW z \in Zones, NoWindow(f), NEW h \in Ftl, h.zone = f.zone, SameOutcome(f, h),
           NEW st \in States
    PROVE  Moves(f, WithState(h, z, st), z, f.zone[z].wp)
<1>1. PICK g : g = WithState(h, z, st)
  OBVIOUS
<1>2. /\ g.zone[z].wp = h.zone[z].wp /\ g.zone[z].zrwav = h.zone[z].zrwav
      /\ \A y \in Zones : y # z => g.zone[y] = h.zone[y]
  BY <1>1, SetState
<1>3. SameOutcome(h, g)
  BY <1>1, OutcomeStays
<1> QED
  BY <1>1, <1>2, <1>3 DEF Moves, NoWindow, SameOutcome

(* Neither does a refusal.                                                 *)
LEMMA RefusalMoves ==
    ASSUME NEW f \in Ftl, NEW z \in Zones, NoWindow(f), NEW s
    PROVE  Moves(f, Refuse(f, s), z, f.zone[z].wp) /\ Moves(f, f, z, f.zone[z].wp)
  BY DEF Moves, NoWindow, Refuse, Ftl

(* What a zone gives back when it stops being active.                      *)
LEMMA ReleasedOutcome ==
    ASSUME NEW f \in Ftl, NEW z \in Zones, NEW h, h = ReleaseAll(f, z)
    PROVE  SameOutcome(f, h)
<1>r. "OPEN" \in Res /\ "ACTIVE" \in Res /\ "ZRWA" \in Res
  BY DEF Res
<1>1. PICK g : g = IF f.zone[z].state \in Opened THEN release_zone_resource(f, "OPEN") ELSE f
  OBVIOUS
<1>2. g \in Ftl /\ SameOutcome(f, g)
  <2>1. release_zone_resource(f, "OPEN") \in Ftl /\ SameOutcome(f, release_zone_resource(f, "OPEN"))
    BY <1>r, Release, OutcomeStays
  <2>2. SameOutcome(f, f)
    BY DEF SameOutcome
  <2> QED
    BY <1>1, <2>1, <2>2
<1>3. PICK i : i = release_zone_resource(g, "ACTIVE")
  OBVIOUS
<1>4. i \in Ftl /\ SameOutcome(g, i)
  BY <1>r, <1>2, <1>3, Release, OutcomeStays
<1>5. SameOutcome(i, release_zone_resource(i, "ZRWA"))
  BY <1>4, OutcomeStays
<1>6. h = IF f.zone[z].state \notin Active THEN f
          ELSE IF f.zone[z].zrwav THEN release_zone_resource(i, "ZRWA") ELSE i
  BY <1>1, <1>3 DEF ReleaseAll
<1> QED
  BY <1>2, <1>4, <1>5, <1>6 DEF SameOutcome

(* Close, finish and open.                                                 *)
LEMMA CloseMoves ==
    ASSUME NEW f \in Ftl, NEW z \in Zones, NoWindow(f)
    PROVE  Moves(f, close_zone(f, z), z, f.zone[z].wp)
<1>1. CASE f.zone[z].state \in Opened
  <2>1. PICK g : g = WithState(f, z, "CLOSED")
    OBVIOUS
  <2>2. close_zone(f, z) = release_zone_resource(g, "OPEN")
    <3>1. f.zone[z].state # "CLOSED"
      BY <1>1 DEF Opened
    <3> QED
      BY <1>1, <2>1, <3>1 DEF close_zone, WithState
  <2>3. "CLOSED" \in States /\ "OPEN" \in Res /\ SameOutcome(f, f)
    BY DEF States, Res, SameOutcome
  <2>4. g \in Ftl
    BY <2>1, <2>3, SetState
  <2>5. Moves(f, g, z, f.zone[z].wp)
    BY <2>1, <2>3, StateMoves
  <2>6. close_zone(f, z).zone = g.zone
    BY <2>2, <2>3, <2>4, Release
  <2>7. SameOutcome(g, close_zone(f, z))
    BY <2>2, <2>4, OutcomeStays
  <2> QED
    BY <2>5, <2>6, <2>7 DEF Moves, SameOutcome
<1>2. CASE f.zone[z].state \notin Opened
  <2>1. close_zone(f, z) = f \/ close_zone(f, z) = Refuse(f, "INVALID_TRANSITION")
    BY <1>2 DEF close_zone
  <2> QED
    BY <2>1, RefusalMoves
<1> QED
  BY <1>1, <1>2

LEMMA FinishMoves ==
    ASSUME NEW f \in Ftl, NEW z \in Zones, NoWindow(f)
    PROVE  Moves(f, finish_zone(f, z), z, f.zone[z].wp)
<1>1. PICK h : h = ReleaseAll(f, z)
  OBVIOUS
<1>2. h \in Ftl /\ h.zone = f.zone
  BY <1>1, ReleasedAll
<1>3. SameOutcome(f, h)
  BY <1>1, ReleasedOutcome
<1>4. finish_zone(f, z) = WithState(h, z, "FULL") /\ "FULL" \in States
  BY <1>1 DEF finish_zone, Full, WithState, States
<1> QED
  BY <1>2, <1>3, <1>4, StateMoves

LEMMA OpenMoves ==
    ASSUME NEW f \in Ftl, NEW z \in Zones, NoWindow(f)
    PROVE  Moves(f, open_zone(f, z, FALSE), z, f.zone[z].wp)
<1>r. "OPEN" \in Res /\ "ACTIVE" \in Res /\ "OPENED_EXPL" \in States
  BY DEF Res, States
<1>1. PICK h : h = IF f.zone[z].state = "EMPTY" THEN acquire_zone_resource(f, "ACTIVE") ELSE f
  OBVIOUS
<1>2. h \in Ftl /\ h.zone = f.zone /\ SameOutcome(f, h)
  <2>1. /\ acquire_zone_resource(f, "ACTIVE") \in Ftl
        /\ acquire_zone_resource(f, "ACTIVE").zone = f.zone
        /\ SameOutcome(f, acquire_zone_resource(f, "ACTIVE"))
    BY <1>r, Acquire, OutcomeStays
  <2>2. SameOutcome(f, f)
    BY DEF SameOutcome
  <2> QED
    BY <1>1, <2>1, <2>2
<1>3. PICK i : i = IF f.zone[z].state \in Unopened THEN acquire_zone_resource(h, "OPEN") ELSE h
  OBVIOUS
<1>4. i \in Ftl /\ i.zone = f.zone /\ SameOutcome(f, i)
  <2>1. /\ acquire_zone_resource(h, "OPEN") \in Ftl
        /\ acquire_zone_resource(h, "OPEN").zone = h.zone
        /\ SameOutcome(h, acquire_zone_resource(h, "OPEN"))
    BY <1>r, <1>2, Acquire, OutcomeStays
  <2> QED
    BY <1>2, <1>3, <2>1 DEF SameOutcome
<1>5. \/ \E s : open_zone(f, z, FALSE) = Refuse(f, s)
      \/ open_zone(f, z, FALSE) = WithState(i, z, "OPENED_EXPL")
  BY <1>1, <1>3 DEF open_zone, WithState
<1> QED
  BY <1>r, <1>4, <1>5, StateMoves, RefusalMoves

(* Reset moves the zone's write pointer back to its start.                 *)
LEMMA ResetMoves ==
    ASSUME NEW f, Sound(f), NEW z \in Zones, NoWindow(f)
    PROVE  Moves(f, reset_zone(f, z), z, zone_to_slba(z))
<1>1. PICK h : h = ReleaseAll(f, z)
  OBVIOUS
<1>2. h \in Ftl /\ h.zone = f.zone
  BY <1>1, ZoneFacts, ReleasedAll
<1>3. SameOutcome(f, h)
  BY <1>1, ZoneFacts, ReleasedOutcome
<1>4. PICK g : g = reset_zone(f, z)
  OBVIOUS
<1>5. /\ g \in Ftl /\ g.acquired = h.acquired /\ g.inflight = h.inflight
      /\ g.zone[z] = [state |-> "EMPTY", wp |-> zone_to_slba(z), zrwav |-> FALSE]
      /\ \A y \in Zones : y # z => g.zone[y] = h.zone[y] /\ g.programs[y] = h.programs[y]
      /\ \A r \in Rows : g.programs[z][r] = 0
      /\ \A b \in WriteBuffers : g.remaining[b] = h.remaining[b]
      /\ g.lost[<<"wb", WriteBuffer(z)>>] = h.lost[<<"wb", WriteBuffer(z)>>] + Partial(f, z)
      /\ \A b \in WriteBuffers : b # <<"wb", WriteBuffer(z)>> => g.lost[b] = h.lost[b]
  <2>1. f \in Ftl /\ Partial(f, z) \in Nat
    BY ZoneFacts, PartialType
  <2> QED
    <3>1. f \in Ftl /\ h \in Ftl
      BY <1>2, <2>1
    <3> QED
      BY <1>1, <1>4, <2>1, <3>1, ResetEffect
<1>6. SameOutcome(h, g)
  BY <1>1, <1>2, <1>4 DEF SameOutcome, reset_zone, Ftl
<1> QED
  BY <1>2, <1>3, <1>4, <1>5, <1>6 DEF Moves, NoWindow, SameOutcome

Moved(op, f, z) == IF op = "reset" THEN zone_to_slba(z) ELSE f.zone[z].wp

(* __zmgmt_send(), without windows.                                        *)
LEMMA SendMoves ==
    ASSUME NEW f, Sound(f), NoWindow(f), NEW op \in Mgmt, op # "open_zrwa", NEW slba,
           NEW z \in Zones, lba_to_zone(slba) = z
    PROVE  Moves(f, __zmgmt_send(f, op, slba), z, Moved(op, f, z))
<1>0. f \in Ftl
  BY ZoneFacts
<1>1. CASE op = "close"
  BY <1>0, <1>1, CloseMoves DEF __zmgmt_send, Moved
<1>2. CASE op = "finish"
  BY <1>0, <1>2, FinishMoves DEF __zmgmt_send, Moved
<1>3. CASE op = "open"
  BY <1>0, <1>3, OpenMoves DEF __zmgmt_send, Moved
<1>4. CASE op = "reset"
  BY <1>0, <1>4, ResetMoves DEF __zmgmt_send, Moved
<1>5. CASE op = "offline"
  BY <1>0, <1>5, RefusalMoves DEF __zmgmt_send, Moved, offline_zone
<1>6. CASE op = "flush_zrwa"
  <2>1. __zmgmt_send(f, op, slba) = flush_explicit_zrwa(f, slba)
    BY <1>6 DEF __zmgmt_send
  <2>2. flush_explicit_zrwa(f, slba) = Refuse(f, "INVALID_ZONE_OPERATION")
    BY DEF flush_explicit_zrwa, NoWindow
  <2> QED
    BY <1>0, <1>6, <2>1, <2>2, RefusalMoves DEF Moved
<1> QED
  BY <1>1, <1>2, <1>3, <1>4, <1>5, <1>6 DEF Mgmt

(* What select_all has done to the first j zones, and to the others.       *)
MovesTo(op, f, g, j) ==
    /\ NoWindow(g) /\ g.fault = f.fault /\ g.again = f.again
    /\ \A y \in Zones : g.zone[y].wp = IF y < j THEN Moved(op, f, y) ELSE f.zone[y].wp

(* So after each zone of the loop.                                         *)
LEMMA ReachedMoves ==
    ASSUME NEW f, NEW op \in Mgmt, op # "open_zrwa", Sound(f), NoWindow(f),
           NEW x, NEW n \in 0 .. NrZones, Reached(x, f, op, n)
    PROVE  MovesTo(op, f, x[n], n)
<1> DEFINE P == {j \in Nat : j <= n => MovesTo(op, f, x[j], j)}
<1>0. n \in Nat /\ NrZones \in Nat
  BY Sizes
<1>1. 0 \in P
  <2>1. x[0] = f
    BY <1>0 DEF Reached
  <2>2. \A y \in Zones : ~(y < 0)
    BY DEF Zones
  <2> QED
    BY <2>1, <2>2 DEF MovesTo
<1>2. ASSUME NEW j \in Nat, j \in P
      PROVE  j + 1 \in P
  <2>1. SUFFICES ASSUME j + 1 <= n
                 PROVE  MovesTo(op, f, x[j + 1], j + 1)
    OBVIOUS
  <2>2. MovesTo(op, f, x[j], j) /\ j \in Zones /\ j + 1 \in 0 .. n /\ j + 1 # 0 /\ (j + 1) - 1 = j
    BY <1>0, <1>2, <2>1 DEF Zones
  <2>3. x[j + 1] = __zmgmt_send(x[j], op, zone_to_slba(j))
    BY <2>2 DEF Reached
  <2>4. zone_to_slba(j) \in Nat /\ zone_to_slba(j) \in zone_to_slba(j) .. zone_to_slba(j) + ZoneSize - 1
    BY <2>2, Boundaries, Sizes
  <2>5. lba_to_zone(zone_to_slba(j)) = j
    BY <2>2, <2>4, ZoneOfLba
  <2>6. Sound(x[j]) /\ NoWindow(x[j])
    BY <1>0, <2>1, <2>2, ReachedSound DEF MovesTo
  <2>7. Moves(x[j], x[j + 1], j, Moved(op, x[j], j))
    BY <2>2, <2>3, <2>5, <2>6, SendMoves
  <2>8. Moved(op, x[j], j) = Moved(op, f, j)
    BY <2>2 DEF Moved, MovesTo
  <2>9. ASSUME NEW y \in Zones
        PROVE  x[j + 1].zone[y].wp = IF y < j + 1 THEN Moved(op, f, y) ELSE f.zone[y].wp
    <3>1. (y < j + 1) <=> (y < j \/ y = j)
      BY <2>2 DEF Zones
    <3> QED
      BY <2>2, <2>7, <2>8, <3>1 DEF Moves, MovesTo
  <2> QED
    BY <2>2, <2>7, <2>9 DEF Moves, MovesTo, NoWindow
<1> HIDE DEF P
<1>3. Nat \subseteq P
  BY <1>1, <1>2, SetInduction
<1> USE DEF P
<1> QED
  BY <1>0, <1>3

(* A management command moves the write pointers of the zones it resets,   *)
(* and no other.                                                           *)
LEMMA MgmtMoves ==
    ASSUME NEW f, NEW op \in Mgmt, op # "open_zrwa", Sound(f), NoWindow(f), NEW slba,
           lba_to_zone(slba) \in Zones, NEW all \in BOOLEAN, NEW g,
           g = zns_zmgmt_send(f, op, slba, all)
    PROVE  /\ NoWindow(g) /\ g.fault = f.fault /\ g.again = f.again
           /\ \A y \in Zones :
                 g.zone[y].wp = IF op = "reset" /\ (all \/ y = lba_to_zone(slba))
                                THEN zone_to_slba(y) ELSE f.zone[y].wp
<1>1. CASE ~all
  <2>1. PICK z \in Zones : z = lba_to_zone(slba)
    OBVIOUS
  <2>2. Moves(f, g, z, Moved(op, f, z))
    BY <1>1, <2>1, SendMoves DEF zns_zmgmt_send
  <2> QED
    BY <1>1, <2>1, <2>2 DEF Moves, Moved, NoWindow
<1>2. CASE all
  <2> DEFINE after == CHOOSE x : Reached(x, f, op, NrZones)
  <2>0. NrZones \in Nat /\ NrZones \in 0 .. NrZones
    BY Sizes
  <2>1. g = [after[NrZones] EXCEPT !.status = "SUCCESS"]
    BY <1>2 DEF zns_zmgmt_send, SelectAll, Reached
  <2>2. Reached(after, f, op, NrZones)
    BY <2>0, ReachedExists
  <2> HIDE DEF after
  <2>3. MovesTo(op, f, after[NrZones], NrZones)
    BY <2>0, <2>2, ReachedMoves
  <2>4. after[NrZones] \in Ftl
    BY <2>0, <2>2, ReachedSound DEF Sound
  <2>5. g.zone = after[NrZones].zone /\ g.fault = after[NrZones].fault /\ g.again = after[NrZones].again
    BY <2>1, <2>4 DEF Ftl
  <2>6. \A y \in Zones : y < NrZones
    BY <2>0 DEF Zones
  <2> QED
    BY <1>2, <2>3, <2>5, <2>6 DEF MovesTo, Moved, NoWindow
<1> QED
  BY <1>1, <1>2

(* The LBAs that the worker copies data to for a command.                  *)
Written(w) == IF w.op \in DataOps THEN w.slba .. w.slba + w.nr - 1 ELSE {}

(* A command with the worker: a write was taken, and lies in its zone and  *)
(* before the write pointer.                                               *)
Landed(f, w) ==
    /\ w.op \in Ops /\ w.zone \in Zones
    /\ w.op \in DataOps =>
          /\ w.status = "SUCCESS" /\ w.slba \in Nat /\ w.nr \in Nat \ {0}
          /\ zone_to_slba(w.zone) <= w.slba /\ w.slba + w.nr <= f.zone[w.zone].wp

(* The commands W with the worker write different LBAs, of which the host  *)
(* was told nothing yet (a is acked).                                      *)
WorkSafe(f, W, a) ==
    /\ \A w \in W : Landed(f, w)
    /\ \A v, w \in W : v # w => Written(v) \cap Written(w) = {}
    /\ \A w \in W, l \in LBAs : l \in Written(w) => a[l] = 0

(* What the host was told is stored is stored (d is data), before the      *)
(* write pointer.                                                          *)
StoredSafe(f, a, d) ==
    \A l \in LBAs : a[l] # 0 => l < f.zone[lba_to_zone(l)].wp /\ d[l] = a[l]

(* The command at the head of the queue may be run again at any time: it   *)
(* is still polite, and its zones have no other command under way.         *)
Waiting(c) ==
    c # NoCmd =>
        /\ c.op # "open_zrwa" /\ Polite(c) /\ c.zone = lba_to_zone(c.slba) /\ c.zone \in Zones
        /\ \A w \in work : w.zone \in Targets(c) => w.op = "append" /\ c.op = "append"

DataSafe ==
    /\ NoWindow(ftl) /\ NoFault
    /\ WorkSafe(ftl, work, acked) /\ StoredSafe(ftl, acked, data)
    /\ Waiting(cmd)

(* An LBA of the device is in one of its zones.                            *)
LEMMA LbaZone ==
    ASSUME NEW l \in LBAs
    PROVE  l \in Nat /\ lba_to_zone(l) \in Zones
<1>1. l \in Nat /\ ZoneSize \in Nat \ {0} /\ NrZones \in Nat \ {0} /\ l < NrZones * ZoneSize
  <2>1. NrZones * ZoneSize \in Nat
    BY Sizes
  <2> QED
    BY <2>1, Sizes DEF LBAs
<1>2. PICK q \in Nat, r \in 0 .. ZoneSize - 1 : q = l \div ZoneSize /\ l = q * ZoneSize + r
  <2>1. /\ l \div ZoneSize \in Nat /\ (l % ZoneSize) \in 0 .. ZoneSize - 1
        /\ l = (l \div ZoneSize) * ZoneSize + (l % ZoneSize)
    BY <1>1
  <2> QED
    BY <2>1
<1>3. ASSUME NrZones <= q
      PROVE  FALSE
  <2>1. PICK k \in Nat : q = NrZones + k
    <3>1. q - NrZones \in Nat /\ q = NrZones + (q - NrZones)
      BY <1>1, <1>3
    <3> QED
      BY <3>1
  <2>2. q * ZoneSize = NrZones * ZoneSize + k * ZoneSize /\ k * ZoneSize \in Nat
    BY <2>1, <1>1
  <2>3. NrZones * ZoneSize \in Nat /\ q * ZoneSize \in Nat
    BY <1>1
  <2> QED
    BY <1>1, <1>2, <2>2, <2>3
<1>4. q < NrZones
  BY <1>1, <1>3
<1> QED
  BY <1>1, <1>2, <1>4 DEF lba_to_zone, Zones

(* The LBAs of a write lie in its zone.                                    *)
LEMMA WrittenZone ==
    ASSUME NEW f, Sound(f), NEW w, Landed(f, w), NEW l \in Written(w)
    PROVE  l \in Nat /\ lba_to_zone(l) = w.zone /\ l < f.zone[w.zone].wp
<1>1. w.op \in DataOps /\ l \in w.slba .. w.slba + w.nr - 1
  BY DEF Written
<1>2. PICK z \in Zones, s \in Nat, n \in Nat, a \in Nat, p \in Nat :
         /\ z = w.zone /\ s = w.slba /\ n = w.nr /\ a = zone_to_slba(z) /\ p = f.zone[z].wp
  BY <1>1, ZoneFacts, Boundaries DEF Landed
<1>3. p <= a + ZoneSize
  BY <1>2, ZoneFacts, Sizes DEF WpSound
<1>4. l \in Nat /\ a <= l /\ l < p
  BY <1>1, <1>2 DEF Landed
<1>5. l \in a .. a + ZoneSize - 1
  BY <1>3, <1>4, Sizes
<1>6. lba_to_zone(l) = z
  BY <1>2, <1>4, <1>5, ZoneOfLba
<1> QED
  BY <1>2, <1>4, <1>6

(* Write pointers only advance, and no command is added.                   *)
LEMMA AdvanceSafe ==
    ASSUME NEW f, Sound(f), NEW g, Sound(g), NEW W, NEW V, NEW a, NEW d,
           WorkSafe(f, W, a), StoredSafe(f, a, d), V \subseteq W,
           \A y \in Zones : f.zone[y].wp <= g.zone[y].wp
    PROVE  WorkSafe(g, V, a) /\ StoredSafe(g, a, d)
<1>1. \A y \in Zones : f.zone[y].wp \in Nat /\ g.zone[y].wp \in Nat
  BY ZoneFacts
<1>2. ASSUME NEW w \in V
      PROVE  Landed(g, w)
  <2>1. Landed(f, w)
    BY <1>2 DEF WorkSafe
  <2>2. ASSUME w.op \in DataOps
        PROVE  w.slba + w.nr <= g.zone[w.zone].wp
    <3>1. PICK e \in Nat, p \in Nat, q \in Nat :
             e = w.slba + w.nr /\ p = f.zone[w.zone].wp /\ q = g.zone[w.zone].wp
      BY <1>1, <2>1, <2>2 DEF Landed
    <3>2. e <= p /\ p <= q
      BY <2>1, <2>2, <3>1 DEF Landed
    <3> QED
      BY <3>1, <3>2
  <2> QED
    BY <2>1, <2>2 DEF Landed
<1>3. WorkSafe(g, V, a)
  BY <1>2 DEF WorkSafe
<1>4. ASSUME NEW l \in LBAs, a[l] # 0
      PROVE  l < g.zone[lba_to_zone(l)].wp /\ d[l] = a[l]
  <2>1. PICK y \in Zones : y = lba_to_zone(l)
    BY LbaZone
  <2>2. PICK p \in Nat, q \in Nat : p = f.zone[y].wp /\ q = g.zone[y].wp /\ p <= q
    BY <1>1
  <2>3. l \in Nat /\ l < p /\ d[l] = a[l]
    BY <1>4, <2>1, <2>2, LbaZone DEF StoredSafe
  <2> QED
    BY <2>1, <2>2, <2>3
<1> QED
  BY <1>3, <1>4 DEF StoredSafe

(* A command that writes nothing is added.                                 *)
LEMMA OtherAdded ==
    ASSUME NEW f, NEW W, NEW a, WorkSafe(f, W, a), NEW w, w.op \in Ops \ DataOps, w.zone \in Zones
    PROVE  WorkSafe(f, W \cup {w}, a)
<1>1. Landed(f, w) /\ Written(w) = {}
  BY DEF Landed, Written
<1> QED
  BY <1>1 DEF WorkSafe

(* A write is added: it begins where all the others of its zone end.       *)
LEMMA WriteAdded ==
    ASSUME NEW f, Sound(f), NEW g, Sound(g), NEW W, NEW a, NEW d, WorkSafe(f, W, a),
           StoredSafe(f, a, d), NEW w, w.op \in DataOps, w.zone \in Zones, w.status = "SUCCESS",
           w.slba = f.zone[w.zone].wp, w.nr \in Nat \ {0}, Moves(f, g, w.zone, w.slba + w.nr)
    PROVE  WorkSafe(g, W \cup {w}, a) /\ StoredSafe(g, a, d)
<1>1. PICK z \in Zones, s \in Nat, n \in Nat \ {0} :
         z = w.zone /\ s = w.slba /\ n = w.nr /\ s = f.zone[z].wp
  BY ZoneFacts
<1>2. \A y \in Zones : f.zone[y].wp <= g.zone[y].wp
  <2>1. \A y \in Zones : f.zone[y].wp \in Nat
    BY ZoneFacts
  <2>2. \A y \in Zones : g.zone[y].wp = IF y = z THEN s + n ELSE f.zone[y].wp
    BY <1>1 DEF Moves
  <2> QED
    BY <1>1, <2>1, <2>2
<1>3. WorkSafe(g, W, a) /\ StoredSafe(g, a, d)
  BY <1>2, AdvanceSafe
<1>4. Landed(g, w)
  <2>1. g.zone[z].wp = s + n
    BY <1>1 DEF Moves
  <2>2. zone_to_slba(z) <= s
    <3>1. PICK b \in Nat : b = zone_to_slba(z)
      BY Boundaries
    <3>2. s \in b .. b + ZoneSize
      BY <1>1, <3>1, ZoneFacts DEF WpSound
    <3> QED
      BY <3>1, <3>2, Sizes
  <2>3. w.op \in Ops
    BY DEF Ops
  <2>4. s + n <= s + n
    BY <1>1
  <2> QED
    BY <1>1, <2>1, <2>2, <2>3, <2>4 DEF Landed
<1>5. ASSUME NEW l \in Written(w)
      PROVE  l \in Nat /\ lba_to_zone(l) = z /\ ~(l < s)
  <2>1. l \in Nat /\ lba_to_zone(l) = z
    BY <1>1, <1>4, WrittenZone
  <2>2. l \in s .. s + n - 1
    BY <1>1 DEF Written
  <2> QED
    BY <1>1, <2>1, <2>2
<1>6. ASSUME NEW v \in W
      PROVE  Written(v) \cap Written(w) = {}
  <2>1. SUFFICES ASSUME NEW l \in Written(v), l \in Written(w)
                 PROVE  FALSE
    OBVIOUS
  <2>2. lba_to_zone(l) = v.zone /\ l < f.zone[v.zone].wp
    BY WrittenZone DEF WorkSafe
  <2> QED
    BY <1>1, <1>5, <2>1, <2>2
<1>7. ASSUME NEW l \in LBAs, l \in Written(w)
      PROVE  a[l] = 0
  BY <1>1, <1>5, <1>7 DEF StoredSafe
<1> QED
  BY <1>3, <1>4, <1>6, <1>7 DEF WorkSafe

(* What is written in the zones T is forgotten when they are reset.        *)
Cleared(T, a) == [l \in LBAs |-> IF lba_to_zone(l) \in T THEN 0 ELSE a[l]]

(* The zones T, on which no command is under way, are reset.               *)
LEMMA ResetSafe ==
    ASSUME NEW f, Sound(f), NEW g, NEW W, NEW a, NEW d, WorkSafe(f, W, a), StoredSafe(f, a, d),
           NEW T, \A w \in W : w.zone \notin T,
           \A y \in Zones : g.zone[y].wp = IF y \in T THEN zone_to_slba(y) ELSE f.zone[y].wp
    PROVE  WorkSafe(g, W, Cleared(T, a)) /\ StoredSafe(g, Cleared(T, a), Cleared(T, d))
<1>1. \A w \in W : Landed(g, w)
  BY DEF WorkSafe, Landed
<1>2. WorkSafe(g, W, Cleared(T, a))
  BY <1>1 DEF WorkSafe, Cleared
<1>3. StoredSafe(g, Cleared(T, a), Cleared(T, d))
  BY LbaZone DEF StoredSafe, Cleared
<1> QED
  BY <1>2, <1>3

(* The worker copies the data of w and posts its completion.               *)
Copied(w, x, tag) == [l \in LBAs |-> IF l \in Written(w) THEN tag ELSE x[l]]

LEMMA CompleteSafe ==
    ASSUME NEW f, Sound(f), NEW W, NEW a, NEW d, WorkSafe(f, W, a), StoredSafe(f, a, d),
           NEW w \in W
    PROVE  /\ WorkSafe(f, W \ {w}, Copied(w, a, w.tag))
           /\ StoredSafe(f, Copied(w, a, w.tag), Copied(w, d, w.tag))
<1>1. ASSUME NEW v \in W \ {w}, NEW l \in LBAs, l \in Written(v)
      PROVE  Copied(w, a, w.tag)[l] = 0
  <2>1. l \notin Written(w)
    BY <1>1 DEF WorkSafe
  <2> QED
    BY <1>1, <2>1 DEF WorkSafe, Copied
<1>2. WorkSafe(f, W \ {w}, Copied(w, a, w.tag))
  BY <1>1 DEF WorkSafe
<1>3. ASSUME NEW l \in LBAs, l \in Written(w)
      PROVE  l < f.zone[lba_to_zone(l)].wp
  BY <1>3, WrittenZone DEF WorkSafe
<1> QED
  BY <1>2, <1>3 DEF StoredSafe, Copied

(* The host sends a command.                                               *)
LEMMA SubmitSafe ==
    ASSUME PoliteHost, IInv, DataSafe, NEW c \in CommandSet, Submit(c)
    PROVE  DataSafe' /\ KeepsAckedData
<1>1. /\ ftl' = ftl /\ work' = work /\ data' = data /\ acked' = acked
      /\ cmd' = [op |-> c.op, slba |-> c.slba, nr |-> c.nr, all |-> c.all,
                 zone |-> lba_to_zone(c.slba), tag |-> sent']
  BY DEF Submit
<1>2. c.op \in Commands /\ c.slba \in LBAs
  <2>1. CASE c \in [op : Commands \cap (DataOps \cup {"read"}), slba : LBAs, nr : 1 .. MaxNr,
                    all : {FALSE}]
    BY <2>1
  <2>2. CASE c \in [op : Commands \cap Mgmt, slba : LBAs, nr : {1}, all : BOOLEAN]
    BY <2>2
  <2>3. CASE c \in [op : Commands \cap {"report", "report_partial"},
                    slba : {zone_to_slba(z) : z \in Zones}, nr : 0 .. NrZones + 1, all : {FALSE}]
    <3>1. c.op \in Commands /\ c.slba \in {zone_to_slba(z) : z \in Zones}
      BY <2>3
    <3>2. PICK z \in Zones : c.slba = zone_to_slba(z)
      BY <3>1
    <3>3. PICK a \in Nat, e \in Nat : a = zone_to_slba(z) /\ e = NrZones * ZoneSize /\ a + ZoneSize <= e
      BY Boundaries
    <3>4. a \in 0 .. e - 1
      BY <3>3, Sizes
    <3> QED
      BY <3>1, <3>2, <3>3, <3>4 DEF LBAs
  <2> QED
    BY <2>1, <2>2, <2>3 DEF CommandSet
<1>3. c.op # "open_zrwa" /\ lba_to_zone(c.slba) \in Zones
  BY <1>2, LbaZone DEF PoliteHost
<1>4. Polite(c)
  BY DEF Submit, PoliteHost
<1>5. Polite(cmd)'
  BY <1>1, <1>4 DEF Polite
<1>6. Targets(cmd') = Targets(c)
  BY <1>1 DEF Targets
<1>7. \A w \in work : w.zone \in Targets(c) => w.op = "append" /\ c.op = "append"
  BY DEF Submit
<1>8. Waiting(cmd)'
  BY <1>1, <1>3, <1>5, <1>6, <1>7 DEF Waiting
<1> QED
  BY <1>1, <1>8 DEF DataSafe, NoFault, KeepsAckedData

(* The worker completes one.                                               *)
LEMMA WorkerSafe ==
    ASSUME IInv, DataSafe, NEW w \in work, Complete(w)
    PROVE  DataSafe' /\ KeepsAckedData
<1>1. ftl' = ftl /\ cmd' = cmd /\ work' = work \ {w}
  BY DEF Complete
<1>2. Landed(ftl, w)
  BY DEF DataSafe, WorkSafe
<1>3. data' = Copied(w, data, w.tag)
  BY DEF Complete, Copied, Written
<1>4. acked' = Copied(w, acked, w.tag)
  BY <1>2 DEF Complete, Copied, Written, Landed
<1>5. WorkSafe(ftl', work', acked') /\ StoredSafe(ftl', acked', data')
  BY <1>1, <1>3, <1>4, CompleteSafe DEF DataSafe, IInv
<1>6. Waiting(cmd)'
  BY <1>1 DEF DataSafe, Waiting, Polite
<1>7. ASSUME NEW l \in LBAs, acked[l] # 0
      PROVE  data'[l] = data[l]
  <2>1. l \notin Written(w)
    BY <1>7 DEF DataSafe, WorkSafe
  <2> QED
    BY <1>3, <2>1 DEF Copied
<1> QED
  BY <1>1, <1>5, <1>6, <1>7 DEF DataSafe, NoFault, KeepsAckedData

(* The worker gives buffer space back.                                     *)
LEMMA SpaceSafe ==
    ASSUME IInv, DataSafe, NEW b \in BufferNames, NEW size \in ReleaseSizes, BufferRelease(b, size)
    PROVE  DataSafe' /\ KeepsAckedData
<1>1. cmd' = cmd /\ work' = work /\ data' = data /\ acked' = acked
  BY DEF BufferRelease
<1>2. ftl'.zone = ftl.zone /\ ftl'.fault = ftl.fault
  <2>1. ftl \in Ftl
    BY DEF IInv, Sound
  <2> QED
    BY <2>1 DEF BufferRelease, Ftl
<1>3. WorkSafe(ftl', work', acked') /\ StoredSafe(ftl', acked', data')
  BY <1>1, <1>2 DEF DataSafe, WorkSafe, StoredSafe, Landed
<1>4. Waiting(cmd)'
  BY <1>1, <1>2 DEF DataSafe, Waiting, Polite
<1> QED
  BY <1>1, <1>2, <1>3, <1>4 DEF DataSafe, NoWindow, NoFault, KeepsAckedData

(* The dispatcher runs the command f of which g is the outcome, at slba.   *)
Runs(f, g, z, slba) ==
    /\ f = Marked(ftl, "SUCCESS", FALSE) /\ z = cmd.zone
    /\ slba = IF cmd.op = "append" THEN f.zone[z].wp ELSE cmd.slba
    /\ g = proc_io_cmd(f, z, slba)

LEMMA Dispatched ==
    ASSUME IInv, DataSafe, Dispatch
    PROVE  \E f, g, z, slba :
               /\ Runs(f, g, z, slba)
               /\ cmd \in Command /\ (cmd.op \in DataOps => cmd.nr # 0) /\ cmd.op # "open_zrwa"
               /\ z \in Zones /\ z = lba_to_zone(cmd.slba) /\ slba \in Nat
               /\ Sound(f) /\ NoWindow(f) /\ f.zone = ftl.zone
               /\ f.fault = "none" /\ f.again = FALSE /\ f.status = "SUCCESS"
               /\ ftl' = Marked(g, "SUCCESS", FALSE)
               /\ cmd' = (IF g.again THEN [cmd EXCEPT !.slba = slba] ELSE NoCmd)
               /\ work' = (IF g.again \/ g.fault # "none" \/ cmd.op \in Mgmt THEN work
                          ELSE work \cup {Answer(g, slba)})
<1>1. PICK f : f = Marked(ftl, "SUCCESS", FALSE)
  OBVIOUS
<1>2. ftl \in Ftl /\ Sound(ftl)
  BY DEF IInv, Sound
<1>3. "SUCCESS" \in Statuses /\ FALSE \in BOOLEAN
  BY DEF Statuses
<1>4. Sound(f)
  BY <1>1, <1>2, <1>3, MarkSound
<1>5. f.zone = ftl.zone /\ f.fault = ftl.fault /\ f.again = FALSE /\ f.status = "SUCCESS"
  BY <1>1, <1>2 DEF Marked, Ftl
<1>6. NoWindow(f) /\ f.fault = "none" /\ f.again = FALSE /\ f.status = "SUCCESS"
  BY <1>5 DEF DataSafe, NoWindow, NoFault
<1>7. cmd \in Command /\ (cmd.op \in DataOps => cmd.nr # 0)
  BY DEF IInv, Queued, Dispatch
<1>8. PICK z \in Zones : z = cmd.zone /\ z = lba_to_zone(cmd.slba)
  BY DEF DataSafe, Waiting, Dispatch
<1>9. cmd.op # "open_zrwa"
  BY DEF DataSafe, Waiting, Dispatch
<1>10. PICK slba : slba = IF cmd.op = "append" THEN f.zone[z].wp ELSE cmd.slba
  OBVIOUS
<1>11. slba \in Nat
  BY <1>4, <1>7, <1>8, <1>10, ZoneFacts DEF Command
<1>12. PICK g : g = proc_io_cmd(f, z, slba)
  OBVIOUS
<1>13. slba = IF cmd.op = "append" /\ z \in Zones /\ ~ftl.zone[z].zrwav
              THEN ftl.zone[z].wp ELSE cmd.slba
  BY <1>5, <1>8, <1>10 DEF DataSafe, NoWindow
<1>14. /\ ftl' = Marked(g, "SUCCESS", FALSE)
       /\ cmd' = (IF g.again THEN [cmd EXCEPT !.slba = slba] ELSE NoCmd)
       /\ work' = (IF g.again \/ g.fault # "none" \/ cmd.op \in Mgmt THEN work
                  ELSE work \cup {Answer(g, slba)})
  BY <1>1, <1>8, <1>12, <1>13 DEF Dispatch, Marked
<1> QED
  BY <1>1, <1>4, <1>5, <1>6, <1>7, <1>8, <1>9, <1>10, <1>11, <1>12, <1>14 DEF Runs

(* Without a reset no data is forgotten.                                   *)
LEMMA NothingCleared ==
    ASSUME NEW a, a \in [LBAs -> Tags]
    PROVE  Cleared({}, a) = a
  BY DEF Cleared

(* A write or append: taken, or kept at the head of the queue.             *)
LEMMA WriteDispatched ==
    ASSUME IInv, IInv', DataSafe, NEW f, NEW g, NEW z \in Zones, NEW slba \in Nat,
           Runs(f, g, z, slba), cmd \in Command, cmd.op \in DataOps, cmd.nr # 0,
           z = lba_to_zone(cmd.slba), Sound(f), NoWindow(f), f.zone = ftl.zone, f.fault = "none",
           f.again = FALSE, f.status = "SUCCESS", ftl' = Marked(g, "SUCCESS", FALSE),
           cmd' = (IF g.again THEN [cmd EXCEPT !.slba = slba] ELSE NoCmd),
           work' = (IF g.again \/ g.fault # "none" \/ cmd.op \in Mgmt THEN work
                    ELSE work \cup {Answer(g, slba)}),
           acked' = acked, data' = data, cmd # NoCmd
    PROVE  DataSafe'
<1>1. PICK nr \in Nat \ {0} : nr = cmd.nr
  BY DEF Command
<1>2. cmd.op \notin Mgmt /\ cmd.op # "read" /\ cmd.op \in {"write", "append"}
  BY DEF DataOps, Mgmt
<1>3. g = zns_write(f, z, slba, nr)
  BY <1>1, <1>2 DEF Runs, proc_io_cmd
<1>4. Polite(cmd)
  BY DEF DataSafe, Waiting
<1>5. Fits(f, z, slba, nr) /\ slba = f.zone[z].wp
  BY <1>1, <1>2, <1>4 DEF Polite, Runs, Fits, NoWindow, DataOps
<1>6. lba_to_zone(slba) = z
  <2>1. PICK a \in Nat : a = zone_to_slba(z)
    BY Boundaries
  <2>2. slba \in a .. a + ZoneSize /\ slba # a + ZoneSize
    BY <1>5, <2>1, ZoneFacts DEF Fits, WpSound
  <2>3. slba \in a .. a + ZoneSize - 1
    BY <2>1, <2>2, Sizes
  <2> QED
    BY <2>1, <2>3, ZoneOfLba
<1>7. WorkSafe(f, work, acked) /\ StoredSafe(f, acked, data)
  BY DEF DataSafe, WorkSafe, StoredSafe, Landed
<1>8. CASE g = Retry(f)
  <2>1. f \in Ftl
    BY ZoneFacts
  <2>2. g.again /\ g.zone = f.zone /\ g.fault = f.fault /\ g \in Ftl
    BY <1>8, <2>1 DEF Retry, Ftl
  <2>3. ftl'.zone = ftl.zone /\ ftl'.fault = "none"
    BY <2>2 DEF Marked, Ftl
  <2>4. cmd' = [cmd EXCEPT !.slba = slba] /\ work' = work
    BY <2>2
  <2>5. /\ cmd'.op = cmd.op /\ cmd'.slba = slba /\ cmd'.nr = cmd.nr
        /\ cmd'.all = cmd.all /\ cmd'.zone = cmd.zone
    BY <2>4 DEF Command
  <2>6. Targets(cmd') = Targets(cmd)
    BY <1>6, <2>5 DEF Targets
  <2>7. Polite(cmd)'
    <3>1. ftl'.zone[lba_to_zone(cmd'.slba)] = f.zone[z]
      BY <1>6, <2>3, <2>5
    <3>2. (IF cmd'.op = "append" THEN f.zone[z].wp ELSE cmd'.slba) = slba
      BY <1>5, <2>5
    <3>3. cmd'.nr = nr
      BY <1>1, <2>5
    <3> QED
      BY <1>5, <3>1, <3>2, <3>3 DEF Polite, Fits
  <2>8. Waiting(cmd)'
    BY <1>6, <2>4, <2>5, <2>6, <2>7 DEF DataSafe, Waiting, Runs
  <2>9. WorkSafe(ftl', work', acked') /\ StoredSafe(ftl', acked', data')
    BY <1>7, <2>3, <2>4 DEF WorkSafe, StoredSafe, Landed
  <2> QED
    BY <2>3, <2>8, <2>9 DEF DataSafe, NoWindow, NoFault
<1>9. CASE Moves(f, g, z, slba + nr) /\ g.status = f.status
  <2>1. g.again = FALSE /\ g.fault = "none" /\ g.status = "SUCCESS"
    BY <1>9 DEF Moves
  <2>2. PICK w : w = Answer(g, slba)
    OBVIOUS
  <2>3. /\ w.op = cmd.op /\ w.slba = slba /\ w.nr = nr /\ w.zone = z /\ w.status = "SUCCESS"
    BY <1>1, <2>1, <2>2 DEF Answer, Runs
  <2>4. work' = work \cup {w} /\ cmd' = NoCmd
    BY <1>2, <2>1, <2>2
  <2>5. g \in Ftl
    <3>1. Sound(g)
      BY <1>1, <1>3, WriteSound DEF NoWindow
    <3> QED
      BY <3>1 DEF Sound
  <2>6. Sound(ftl') /\ Moves(f, ftl', z, slba + nr) /\ ftl'.fault = "none"
    <3>1. ftl'.zone = g.zone /\ ftl'.fault = g.fault /\ ftl'.again = FALSE
      BY <2>5 DEF Marked, Ftl
    <3>2. Moves(f, ftl', z, slba + nr)
      BY <1>9, <2>1, <3>1 DEF Moves
    <3>3. Sound(ftl')
      BY DEF IInv
    <3> QED
      BY <2>1, <3>1, <3>2, <3>3
  <2>7. WorkSafe(ftl', work \cup {w}, acked) /\ StoredSafe(ftl', acked, data)
    <3>1. /\ w.op \in DataOps /\ w.zone \in Zones /\ w.nr \in Nat \ {0}
          /\ w.slba = f.zone[w.zone].wp /\ Moves(f, ftl', w.zone, w.slba + w.nr)
      BY <1>5, <2>3, <2>6
    <3> QED
      BY <1>7, <2>3, <2>6, <3>1, WriteAdded
  <2> QED
    BY <2>4, <2>6, <2>7 DEF DataSafe, Moves, NoWindow, NoFault, Waiting
<1> QED
  BY <1>3, <1>5, <1>8, <1>9, FittingWrite

(* Reads and reports.                                                      *)
LEMMA ReadDispatched ==
    ASSUME DataSafe, NEW f, NEW g, NEW z \in Zones, NEW slba \in Nat,
           Runs(f, g, z, slba), cmd \in Command, cmd.op \notin DataOps, cmd.op \notin Mgmt,
           Sound(f), NoWindow(f), f.zone = ftl.zone, f.fault = "none", f.again = FALSE,
           ftl' = Marked(g, "SUCCESS", FALSE),
           cmd' = (IF g.again THEN [cmd EXCEPT !.slba = slba] ELSE NoCmd),
           work' = (IF g.again \/ g.fault # "none" \/ cmd.op \in Mgmt THEN work
                    ELSE work \cup {Answer(g, slba)}),
           acked' = acked, data' = data
    PROVE  DataSafe'
<1>1. \E s : g = f \/ g = Refuse(f, s)
  BY DEF Runs, proc_io_cmd, zns_read, Command, Ops
<1>2. g.zone = f.zone /\ g.fault = "none" /\ ~g.again /\ ftl'.zone = g.zone /\ ftl'.fault = g.fault
  <2>1. f \in Ftl
    BY ZoneFacts
  <2> QED
    BY <1>1, <2>1 DEF Refuse, Marked, Ftl
<1>3. PICK w : w = Answer(g, slba)
  OBVIOUS
<1>4. w.op \in Ops \ DataOps /\ w.zone \in Zones
  BY <1>3 DEF Answer, Command, Runs
<1>5. work' = work \cup {w} /\ cmd' = NoCmd
  BY <1>2, <1>3
<1>6. WorkSafe(ftl, work \cup {w}, acked)
  BY <1>4, OtherAdded DEF DataSafe
<1>7. WorkSafe(ftl', work', acked') /\ StoredSafe(ftl', acked', data')
  BY <1>2, <1>5, <1>6 DEF DataSafe, WorkSafe, StoredSafe, Landed
<1> QED
  BY <1>2, <1>5, <1>7 DEF DataSafe, NoWindow, NoFault, Waiting

(* Zone management, of the zones T if they are reset.                      *)
LEMMA MgmtDispatched ==
    ASSUME DataSafe, NEW f, NEW g, NEW z \in Zones, NEW slba \in Nat,
           Runs(f, g, z, slba), cmd \in Command, cmd.op \in Mgmt, cmd.op # "open_zrwa",
           z = lba_to_zone(cmd.slba), Sound(f), NoWindow(f), f.zone = ftl.zone, f.fault = "none",
           f.again = FALSE, cmd # NoCmd, ftl' = Marked(g, "SUCCESS", FALSE),
           cmd' = (IF g.again THEN [cmd EXCEPT !.slba = slba] ELSE NoCmd),
           work' = (IF g.again \/ g.fault # "none" \/ cmd.op \in Mgmt THEN work
                    ELSE work \cup {Answer(g, slba)}),
           NEW T, T = (IF cmd.op = "reset" THEN Targets(cmd) ELSE {}),
           acked' = Cleared(T, acked), data' = Cleared(T, data), g \in Ftl
    PROVE  DataSafe'
<1>1. PICK op \in Mgmt, all \in BOOLEAN : op = cmd.op /\ all = cmd.all /\ op # "open_zrwa"
  BY DEF Command
<1>2. op \notin DataOps /\ op # "read" /\ op # "append"
  BY DEF DataOps, Mgmt
<1>3. slba = cmd.slba /\ lba_to_zone(slba) = z
  BY <1>1, <1>2 DEF Runs
<1>4. g = zns_zmgmt_send(f, op, slba, all)
  BY <1>1, <1>2 DEF Runs, proc_io_cmd, Mgmt
<1>5. /\ NoWindow(g) /\ g.fault = f.fault /\ g.again = f.again
      /\ \A y \in Zones :
            g.zone[y].wp = IF op = "reset" /\ (all \/ y = lba_to_zone(slba))
                           THEN zone_to_slba(y) ELSE f.zone[y].wp
  BY <1>1, <1>3, <1>4, MgmtMoves
<1>6. ftl'.zone = g.zone /\ ftl'.fault = "none"
  BY <1>5 DEF Marked, Ftl
<1>7. \A y \in Zones : ftl'.zone[y].wp = IF y \in T THEN zone_to_slba(y) ELSE f.zone[y].wp
  BY <1>1, <1>3, <1>5, <1>6 DEF Targets
<1>8. \A w \in work : w.zone \notin T
  BY <1>1, <1>2 DEF DataSafe, Waiting
<1>9. work' = work /\ cmd' = NoCmd
  BY <1>5
<1>10. WorkSafe(f, work, acked) /\ StoredSafe(f, acked, data)
  BY DEF DataSafe, WorkSafe, StoredSafe, Landed
<1>11. WorkSafe(ftl', work, Cleared(T, acked))
       /\ StoredSafe(ftl', Cleared(T, acked), Cleared(T, data))
  BY <1>7, <1>8, <1>10, ResetSafe
<1> QED
  BY <1>5, <1>6, <1>9, <1>11 DEF DataSafe, NoWindow, NoFault, Waiting

(* The dispatcher runs the command at the head of the queue.               *)
LEMMA DispatchSafe ==
    ASSUME IInv, DataSafe, Dispatch
    PROVE  DataSafe' /\ KeepsAckedData
<1>1. PICK T : T = (IF cmd.op = "reset" THEN Targets(cmd) ELSE {})
  OBVIOUS
<1>2. acked' = Cleared(T, acked) /\ data' = Cleared(T, data)
  BY <1>1 DEF Dispatch, Cleared
<1>3. KeepsAckedData
  BY <1>2 DEF KeepsAckedData, Cleared
<1>4. cmd.op # "reset" => acked' = acked /\ data' = data
  BY <1>1, <1>2, NothingCleared DEF IInv, TagsSound
<1>5. cmd # NoCmd /\ IInv'
  BY DispatchSound DEF Dispatch
<1>6. PICK f, g, z, slba :
         /\ Runs(f, g, z, slba)
         /\ cmd \in Command /\ (cmd.op \in DataOps => cmd.nr # 0) /\ cmd.op # "open_zrwa"
         /\ z \in Zones /\ z = lba_to_zone(cmd.slba) /\ slba \in Nat
         /\ Sound(f) /\ NoWindow(f) /\ f.zone = ftl.zone
         /\ f.fault = "none" /\ f.again = FALSE /\ f.status = "SUCCESS"
         /\ ftl' = Marked(g, "SUCCESS", FALSE)
         /\ cmd' = (IF g.again THEN [cmd EXCEPT !.slba = slba] ELSE NoCmd)
         /\ work' = (IF g.again \/ g.fault # "none" \/ cmd.op \in Mgmt THEN work
                    ELSE work \cup {Answer(g, slba)})
  BY Dispatched
<1>7. CASE cmd.op \in DataOps
  <2>1. acked' = acked /\ data' = data
    BY <1>4, <1>7 DEF DataOps
  <2> QED
    BY <1>3, <1>5, <1>6, <1>7, <2>1, WriteDispatched
<1>8. CASE cmd.op \in Mgmt
  <2>1. g \in Ftl
    <3>1. f.zone[z].zrwav => slba = cmd.slba
      BY <1>6 DEF NoWindow
    <3>2. Sound(g)
      <4>1. cmd.op # "append" \/ f.zone[z].zrwav => slba = cmd.slba
        BY <1>6, <3>1 DEF Runs
      <4>2. g = proc_io_cmd(f, z, slba)
        BY <1>6 DEF Runs
      <4> QED
        BY <1>6, <4>1, <4>2, CommandSound
    <3> QED
      BY <3>2 DEF Sound
  <2> QED
    BY <1>1, <1>2, <1>3, <1>5, <1>6, <1>8, <2>1, MgmtDispatched
<1>9. CASE cmd.op \notin DataOps /\ cmd.op \notin Mgmt
  <2>1. acked' = acked /\ data' = data
    BY <1>4, <1>9 DEF Mgmt
  <2> QED
    BY <1>3, <1>6, <1>9, <2>1, ReadDispatched
<1> QED
  BY <1>7, <1>8, <1>9

(* The invariant, and what it says of each step.                           *)
LEMMA StepsSafe ==
    ASSUME PoliteHost
    PROVE  Spec => [](IInv /\ DataSafe) /\ [][KeepsAckedData]_vars
<1>1. Init => DataSafe
  <2>1. SUFFICES ASSUME Init PROVE DataSafe
    OBVIOUS
  <2>2. NoWindow(ftl) /\ NoFault
    BY <2>1 DEF Init, InitFtl, NoWindow, NoFault
  <2>3. WorkSafe(ftl, work, acked) /\ StoredSafe(ftl, acked, data)
    BY <2>1 DEF Init, WorkSafe, StoredSafe
  <2> QED
    BY <2>1, <2>2, <2>3 DEF Init, DataSafe, Waiting
<1>2. IInv /\ DataSafe /\ Next => DataSafe' /\ KeepsAckedData
  <2>1. SUFFICES ASSUME IInv, DataSafe, Next PROVE DataSafe' /\ KeepsAckedData
    OBVIOUS
  <2>2. CASE \E c \in CommandSet : Submit(c)
    BY <2>1, <2>2, SubmitSafe
  <2>3. CASE Dispatch
    BY <2>1, <2>3, DispatchSafe
  <2>4. CASE \E w \in work : Complete(w)
    BY <2>1, <2>4, WorkerSafe
  <2>5. CASE \E b \in BufferNames, size \in ReleaseSizes : BufferRelease(b, size)
    BY <2>1, <2>5, SpaceSafe
  <2> QED
    BY <2>1, <2>2, <2>3, <2>4, <2>5 DEF Next
<1>3. DataSafe /\ UNCHANGED vars => DataSafe'
  BY DEF DataSafe, Waiting, Polite, NoFault, vars
<1>4. IInv /\ DataSafe /\ [Next]_vars => DataSafe' /\ [KeepsAckedData]_vars
  BY <1>2, <1>3
<1> QED
  BY <1>1, <1>4, Inductive, PTL DEF Spec

(* A host that makes no errors and opens no zone with a window finds what  *)
(* it was told is stored: neither a later write or append nor the copying  *)
(* that the worker does late touches it before its zone is reset.          *)
THEOREM DataIsKept ==
    ASSUME PoliteHost
    PROVE  Spec => [][KeepsAckedData]_vars
  BY StepsSafe, PTL

(* An append goes to the zone the host named, also one that was run again  *)
(* with its LBA already replaced (zns_write()).                            *)
THEOREM AppendsLand ==
    ASSUME PoliteHost
    PROVE  Spec => []AppendsStayInZone
<1>1. IInv /\ DataSafe => AppendsStayInZone
  <2>1. SUFFICES ASSUME IInv, DataSafe, NEW w \in work, w.op = "append"
                 PROVE  lba_to_zone(w.slba) = w.zone
    BY DEF AppendsStayInZone
  <2>2. Landed(ftl, w) /\ w.op \in DataOps
    BY <2>1 DEF DataSafe, WorkSafe, DataOps
  <2>3. w.slba \in Written(w)
    BY <2>2 DEF Written, Landed
  <2> QED
    BY <2>1, <2>2, <2>3, WrittenZone DEF IInv
<1> QED
  BY <1>1, StepsSafe, PTL

(* Nor does such a host run into a BUG or a division by zero.              *)
THEOREM KernelGoesOn ==
    ASSUME PoliteHost
    PROVE  Spec => []NoFault
<1>1. DataSafe => NoFault
  BY DEF DataSafe
<1> QED
  BY <1>1, StepsSafe, PTL

(* What the host was told is what the device holds: whoever reads an LBA   *)
(* finds the write or append that was acknowledged last.                   *)
THEOREM AckedIsStored ==
    ASSUME PoliteHost
    PROVE  Spec => [](\A l \in LBAs : acked[l] # 0 => data[l] = acked[l])
<1>1. DataSafe => \A l \in LBAs : acked[l] # 0 => data[l] = acked[l]
  BY DEF DataSafe, StoredSafe
<1> QED
  BY <1>1, StepsSafe, PTL
=============================================================================
