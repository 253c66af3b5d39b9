\* The models end at MaxTime.
SPECIFICATION MCSpec
CONSTANTS
    Units = 3
    MaxUnits = 1
    WriteDelay = 1
    WriteTime = 2
    WriteTrailing = 1
    ReadDelay = 0
    ReadTime = 1
    ReadTrailing = 0
    MaxTime = 5
    MaxBusy = 8
INVARIANTS
    
    BandwidthExact
PROPERTIES
    LunsAdvance
CHECK_DEADLOCK FALSE
