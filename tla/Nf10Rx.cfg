CONSTANTS
    p1 = p1
    s1 = s1
    s2 = s2
    s3 = s3
    s4 = s4
    Ports <- MCPorts
    BadPacket = BadPacket
    Skbs <- MCSkbs
    NoSkb = NoSkb
    N = 3
    M = 5
    BufLines = 2
    Tries = 3
    MaxAllocFails = 1
SPECIFICATION Spec
SYMMETRY MCSymmetry
INVARIANTS
    RxSlotExclusive
    RxBuffersDisjoint
    RxCompletionMatches
    CardWritesHeldOnly
    SupplyKept
