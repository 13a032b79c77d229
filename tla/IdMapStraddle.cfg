SPECIFICATION Spec
CONSTANTS
    MaxNumRegions = 3
    PageSize = 2
    Fanout = 4
    NumL1 = 2
    MaxNumL3PageTables = 4
    RamInput <- StraddlingRam
    DevInput <- NoDevices
INVARIANT AllRamIsNormal
CHECK_DEADLOCK FALSE
