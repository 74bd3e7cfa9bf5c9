CONSTANTS
    Cpus = {c1, c2, c3}
    Irqs = {i1}
    Foreground = FALSE
    PidOption = TRUE
    MaxChanges = 2
SPECIFICATION FairSpec
INVARIANTS
    MigratesOnMatch
PROPERTIES
    RescanServed
    CatchesUp
    Ends
CHECK_DEADLOCK FALSE
