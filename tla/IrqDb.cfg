\* The last rebuild ends the model.
CONSTANTS
    eth = eth
    disk = disk
    accel = accel
    Devices <- MCDevices
    Line <- MCLine
    Messages <- MCMessages
    ClassFile <- MCClassFile
    NodeFile <- MCNodeFile
    Local <- MCLocal
    Hinted = {3}
    Others = {0, 7}
    Events = {7}
    HasSysdev = TRUE
    Nodes = {0}
    ClBanned = {5}
    BanScript <- MCBanScript
    PolScript <- MCPolScript
    GlobalHint = "ignore"
    MaxChanges = 2
    MaxRebuilds = 2
SPECIFICATION Spec
INVARIANTS
    KnownOnce
    OwnerDecides
CHECK_DEADLOCK FALSE
