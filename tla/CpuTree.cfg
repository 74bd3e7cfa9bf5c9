CONSTANTS
    Cpus <- MCCpus
    BootCpu = 0
    Nodes = {0, 1}
    Unspecified = Unspecified
    PackageOf <- MCPackageOf
    CacheOf <- MCCacheOf
    NodeOf <- MCNodeOf
    Banned = {4}
    NumaAvail = TRUE
    MaxChanges = 2
SPECIFICATION Spec
INVARIANTS
    TypeOK
    LinksAgree
    TreeIsMachine
