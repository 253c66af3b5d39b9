\* The system may stop: the model ends after a fault of the kernel, or once
\* MaxCmds commands have been sent.
\* The constants are those of the device "zones" (MCZns).
SPECIFICATION MCSpec
CONSTANTS
    NrZones = 2
    ZoneSize = 3
    SecsPerPg = 1
    PgsPerOneshot = 2
    WriteUnit = 1
    ZoneWbSize = 0
    GlobalWbSize = 4
    ZrwaSize = 0
    ZrwafgSize = 0
    ZrwaBufferSize = 0
    Commands = {"write", "append", "close", "finish", "open", "open_zrwa", "reset", "offline", "flush_zrwa"}
    HostMayErr = TRUE
    TrackData = FALSE
    MaxNr = 2
    MaxWork = 1
    MaxReleases = 2
    MaxCmds = 0
INVARIANTS
    
    WpTracksState
    
    ProgramsOnce
    
PROPERTIES
    AckedStable
    
CHECK_DEADLOCK FALSE
