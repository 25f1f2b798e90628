SPECIFICATION FairSpec
CONSTANTS
    Port = {p1}
    Dev = {x1}
    Name = {n1, n2}
    DpdkDisable = FALSE
    MaxEvents = 2
    NONE = NONE
    BAD = BAD
INVARIANTS
    FilesOfOneConfig
    QuietFilesCoverRows
    StartupHasBootup
    DpdkOnlyWithDevices
PROPERTIES
    MergedStays
    PortsReachBootup
