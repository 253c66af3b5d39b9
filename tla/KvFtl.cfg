\* The system may stop: the host sends MaxCmds sub-commands, and a fault ends the run.
SPECIFICATION MCSpec
CONSTANTS
    Keys = {1, 2, 3, 4}
    HashSlots = 5
    Home <- MCHome
    PrefixPairs <- MCPairs
    Group <- MCGroup
    Lengths = {1, 2}
    SmallLength = 2
    LargeLength = 4
    StorageSize = 10
    Allocator = "append_only"
    Workers = {w1}
    Ops = {"store", "batch"}
    Resize = "fixed"
    NrIter = 2
    PageKeys = 2
    MaxCmds = 5
    MaxIters = 0
INVARIANTS
    LookupsSound
    
PROPERTIES
    RefinesStore
CHECK_DEADLOCK FALSE
