\* A read ends; a write that waited for ever is excluded by WritesAccepted.
SPECIFICATION MCSpec
\* A buffer that is no multiple of the wordline, and two partitions.
CONSTANTS
    BufSize = 14
    SecsPerPg = 2
    PgsPerOneshot = 3
    Parts = 2
    TtPgs = 4
    MaxReq = 6
    HostAligned = TRUE
INVARIANTS
    HeapMatchesSet
    
    PointerCoversLine
    AddressesExact
    ReadsExact

    
CHECK_DEADLOCK FALSE
