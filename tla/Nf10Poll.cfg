CONSTANTS
    c1 = c1
    c2 = c2
    c3 = c3
    Cpus <- MCCpus
    NoCpu = NoCpu
    MaxTcnt = 3
    Cap = 2
SPECIFICATION FairSpec
INVARIANTS
    NothingLeft
    FlagMatchesCard
PROPERTIES
    HandlesCompletions
    LoopEnds
