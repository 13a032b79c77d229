SPECIFICATION Spec
CONSTANTS
    MaxNumRegions = 3
    PageSize = 4
    Fanout = 2
    NumL1 = 2
    MaxNumL3PageTables = 4
    RamInput <- NoRam
    DevInput <- SharedPage
INVARIANT BlocksAndPagesDoNotMix
CHECK_DEADLOCK FALSE
