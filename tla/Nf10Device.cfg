\* A probe that fails after request_irq ends the model.
CONSTANTS
    NPorts = 3
    Files = {"file1", "file2"}
    Unbind = FALSE
    Depth = 4
    Almost = 2
SPECIFICATION DeviceSpec
INVARIANTS
    EntryPointsBacked
    GivenBackOnce
    CountCovers
CHECK_DEADLOCK FALSE
