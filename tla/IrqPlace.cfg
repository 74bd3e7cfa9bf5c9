CONSTANTS
    u = u
    n1 = n1
    n2 = n2
    n3 = n3
    p1 = p1
    p2 = p2
    d1 = d1
    d2 = d2
    c1 = c1
    c2 = c2
    c3 = c3
    NodeList <- TwoNodes
    PackageList <- TwoPackages
    CacheList <- TwoCaches
    CpuList <- TwoCpus
    Unspecified = u
    NoObj = NoObj
    Parent <- TwoParent
    Mask <- TwoMask
    NumaAvail = TRUE
    Banned = {4}
    CpuNumbers = {1, 2, 3, 4}
    Irqs <- Irqs4
    Rebalance = Rebalance
    Level <- HintLevel
    Class <- MCClass
    Address <- MCAddress
    Home <- HintHome
    Policy <- HintPolicy
    Hint <- HintHint
    PowerThresh = 2
    PowersaveOff = FALSE
    WarmUp = 1
    Ticks = {0, 8}
    Counts = {3}
    IoOutcomes = {"ok", "unreadable", "unwritable"}
SPECIFICATION Spec
INVARIANTS
    OneHome
    MappingDone
    SleepersEmpty
PROPERTIES
    ReachesLevel
    MasksAllowed
