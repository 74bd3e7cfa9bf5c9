CONSTANTS
    NB = 6
    W = 4
    CHUNK = 2
    D = 1
    Others <- MCOthers
    MaxText = 7
SPECIFICATION MaskSpec
INVARIANTS
    AgreesWithSets
    PrintParses
    ParseMeetsContract
