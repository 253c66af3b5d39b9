SPECIFICATION MCSpec
CONSTANTS
    NrSq = 2
    Owner = 1
    QSize = 2
    CQSize = 6
    MaxOvertake = 1
    MaxReap = 1
    MaxCmds = 3
INVARIANTS
    
    NoLostInterrupt
    InFlightExact
    
PROPERTIES
    SharedAnswered
