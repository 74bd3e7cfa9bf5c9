CONSTANTS
    u = u
    n1 = n1
    n2 = n2
    n3 = n3
    p1 = p1
    p2 = p2
    d1 = d1
    d2 = d2
    c1 = c1
    c2 = c2
    c3 = c3
    NodeList <- FlatNodes
    PackageList <- FlatPackages
    CacheList <- FlatCaches
    CpuList <- FlatCpus
    Unspecified = u
    NoObj = NoObj
    Parent <- FlatParent
    Mask <- FlatMask
    NumaAvail = FALSE
    Banned = {}
    CpuNumbers = {1, 2}
    Irqs <- Irqs5
    Rebalance = Rebalance
    Level <- FlatLevel
    Class <- MCClass
    Address <- MCAddress
    Home <- FlatHome
    Policy <- FlatPolicy
    Hint <- FlatHint
    PowerThresh = 0
    PowersaveOff = TRUE
    WarmUp = 1
    Ticks = {1, 20}
    Counts = {1, 9}
    IoOutcomes = {"ok"}
SPECIFICATION Spec
INVARIANTS
    LoadsFit
PROPERTIES
    StaysAhead
