SPECIFICATION Spec
CONSTANTS
    MaxNumRegions = 3
    PageSize = 2
    Fanout = 4
    NumL1 = 2
    MaxNumL3PageTables = 4
    RamInput <- BoardRam
    DevInput <- Board
INVARIANTS IdentityMapIsExact TwoTablesPerRegion
PROPERTY DescriptorsAreStable
CHECK_DEADLOCK FALSE
