\* A stopped system is what NoTransmitDeadlock is about; the run of
\* Nf10TxSafety.cfg checks the same system for deadlock.
CONSTANTS
    p1 = p1
    p2 = p2
    s1 = s1
    s2 = s2
    s3 = s3
    Ports <- MCPorts
    Skbs <- MCSkbs
    NoPort = NoPort
    NoSkb = NoSkb
    N = 2
    M = 2
    Sizes = {1}
    StopLines = 1
    WakeSlots = 2
    WakeLines = 1
    MaxMapErrors = 0
    SlowCard = TRUE
SPECIFICATION FairSpec
PROPERTIES
    NoTransmitDeadlock
    ImplementsFifo
CHECK_DEADLOCK FALSE
