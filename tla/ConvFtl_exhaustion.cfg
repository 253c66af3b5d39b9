SPECIFICATION Spec
CONSTANTS
    tt_lines_slc = 2
    tt_lines_tlc = 2
    pgs_per_line_slc = 1
    pgs_per_line = 3
    mig_thres_lines_high = 2
    gc_thres_lines_high = 2
    Lpns = {l1, l2, l3, l4, l5, l6}
    l1 = l1
    l2 = l2
    l3 = l3
    l4 = l4
    l5 = l5
    l6 = l6
    AgeLevels = {1, 250}
    SCALER = 1000000
    UINT32_MAX = 7
    NULL = NULL
SYMMETRY LpnSymmetry
INVARIANT NeverOutOfLines
