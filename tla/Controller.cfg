SPECIFICATION MCSpec
CONSTANTS
    Depth = 2
    Addrs = {1, 2}
    NrMaxQueue = 2
    Requests = {3}
    AdminOps = {"set_queues", "create_cq", "create_sq", "delete_sq", "delete_cq", "get_queues"}
    HostSlow = TRUE
    SameAddr = FALSE
    MaxCmds = 4
    MaxResets = 1
INVARIANTS
    AnswersExpected
    HostQueuesServed
PROPERTIES
    AllAnswered
