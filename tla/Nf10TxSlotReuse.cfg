CONSTANTS
    p1 = p1
    p2 = p2
    s1 = s1
    s2 = s2
    s3 = s3
    Ports <- MCPorts
    Skbs <- MCSkbs
    NoPort = NoPort
    NoSkb = NoSkb
    N = 2
    M = 3
    Sizes <- MCSizes
    StopLines = 2
    WakeSlots = 1
    WakeLines = 2
    MaxMapErrors = 1
    SlowCard = TRUE
SPECIFICATION Spec
SYMMETRY MCSymmetry
INVARIANTS
    SlotExclusive
CHECK_DEADLOCK FALSE
