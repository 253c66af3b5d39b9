------------------------------- MODULE MCZns -------------------------------
(***************************************************************************)
(* Four devices for TLC, one per initial value of device: what is worth    *)
(* checking of a zone needs different zone, buffer and ZRWA sizes.  The    *)
(* configuration file describes the device "zones", two zones that share   *)
(* one buffer; the others differ from it as their INSTANCE says, and keep  *)
(* their state in variables of their own.                                  *)
(***************************************************************************)
EXTENDS Zns

VARIABLES device, ftl2, cmd2, work2, data2, acked2, sent2
vars2 == <<ftl2, cmd2, work2, data2, acked2, sent2>>
mcvars == <<vars, vars2, device>>

\* Data of different writes told apart, a buffer per zone.
Data == INSTANCE Zns WITH
    ZoneWbSize <- 4, GlobalWbSize <- 0,
    Commands <- {"write", "append", "read", "reset"},
    HostMayErr <- FALSE, TrackData <- TRUE, MaxWork <- 2, MaxCmds <- 4,
    ftl <- ftl2, cmd <- cmd2, work <- work2, data <- data2, acked <- acked2, sent <- sent2

\* One zone with a random write area of two flush granules.
Zrwa == INSTANCE Zns WITH
    NrZones <- 1, ZoneSize <- 5, ZoneWbSize <- 4, GlobalWbSize <- 0,
    ZrwaSize <- 2, ZrwafgSize <- 2, ZrwaBufferSize <- 6,
    Commands <- {"write", "close", "finish", "open_zrwa", "reset", "flush_zrwa",
                 "report", "report_partial"},
    MaxNr <- 3, MaxReleases <- 1,
    ftl <- ftl2, cmd <- cmd2, work <- work2, data <- data2, acked <- acked2, sent <- sent2

\* Write units of whole one-shot pages, as the ZNS prototype configures them, and
\* flash pages of two LBAs.
Units == INSTANCE Zns WITH
    ZoneSize <- 4, SecsPerPg <- 2, PgsPerOneshot <- 1, WriteUnit <- 2,
    MaxNr <- 4, MaxWork <- 2, HostMayErr <- FALSE,
    Commands <- {"write", "append", "close", "finish", "open", "reset"},
    ftl <- ftl2, cmd <- cmd2, work <- work2, data <- data2, acked <- acked2, sent <- sent2

ASSUME DeviceAssumptions ==
    /\ Data!Geometry /\ Data!Buffers /\ Data!Window /\ Data!HostBounds
    /\ Zrwa!Geometry /\ Zrwa!Buffers /\ Zrwa!Window /\ Zrwa!HostBounds
    /\ Units!Geometry /\ Units!Buffers /\ Units!Window /\ Units!HostBounds

MCInit == /\ Init
          /\ \/ device = "data" /\ Data!Init
             \/ device = "zrwa" /\ Zrwa!Init
             \/ device \in {"units", "zones"} /\ Units!Init

MCNext == /\ UNCHANGED device
          /\ \/ device = "zones" /\ Next /\ UNCHANGED vars2
             \/ device = "data" /\ Data!Next /\ UNCHANGED vars
             \/ device = "zrwa" /\ Zrwa!Next /\ UNCHANGED vars
             \/ device = "units" /\ Units!Next /\ UNCHANGED vars

OnUnits(A) == device = "units" /\ A /\ UNCHANGED <<vars, device>>

\* The fairness of Zns for the device whose liveness is checked.
MCSpec ==
    /\ MCInit /\ [][MCNext]_mcvars
    /\ WF_mcvars(OnUnits(Units!Dispatch))
    /\ \A b \in BufferNames, size \in Units!ReleaseSizes :
           WF_mcvars(OnUnits(Units!BufferRelease(b, size)))

-----------------------------------------------------------------------------
\* What the devices other than "zones" are for.  AppendsStayInZone: appends that
\* the dispatcher may run several times go to the zone the host named.
\* OpenActiveExact and WpTracksState: counters and write pointers are right with
\* the window of a ZRWA too, which __zns_write_zrwa() moves by granules.
\* ProgramsOnce, NoFault: with write units of a one-shot page.
DevicesSound ==
    /\ device = "data" => Data!AppendsStayInZone
    /\ device = "zrwa" => Zrwa!OpenActiveExact /\ Zrwa!WpTracksState
    /\ device = "units" => Units!WpTracksState /\ Units!ProgramsOnce /\ Units!NoFault

\* KeepsAckedData: each step keeps what the host was told is stored.
AckedStable == [][device = "data" => Data!KeepsAckedData]_vars2

\* CommandAnswered: no command waits for buffer space for ever.
UnitsAnswered == device = "units" => Units!CommandAnswered
=============================================================================
