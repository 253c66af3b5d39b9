SPECIFICATION FairSpec
CONSTANTS
    tt_lines_slc = 5
    tt_lines_tlc = 4
    pgs_per_line_slc = 1
    pgs_per_line = 3
    mig_thres_lines_high = 2
    gc_thres_lines_high = 2
    Lpns = {l1, l2}
    l1 = l1
    l2 = l2
    AgeLevels = {1, 250}
    SCALER = 1000000
    UINT32_MAX = 7
    NULL = NULL
INVARIANTS
    HostFindsLine
PROPERTIES
    ImplementsStore
    
