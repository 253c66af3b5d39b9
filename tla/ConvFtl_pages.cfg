SPECIFICATION Spec
CONSTANTS
    tt_lines_slc = 3
    tt_lines_tlc = 2
    pgs_per_line_slc = 2
    pgs_per_line = 6
    mig_thres_lines_high = 2
    gc_thres_lines_high = 2
    Lpns = {l1, l2}
    l1 = l1
    l2 = l2
    AgeLevels = {1, 250}
    SCALER = 1000000
    UINT32_MAX = 7
    NULL = NULL
SYMMETRY LpnSymmetry
INVARIANTS
    TypeOK
    MappingSound
    CountsExact
    CreditsTrackLine
    ClosedLinesUsedUp
    LinesConserved
