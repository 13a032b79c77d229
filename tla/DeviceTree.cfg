SPECIFICATION Spec
CONSTANTS
    Blobs <- MCBlobs
    MaxNodeDepth = 4
    MaxPropsPerNode = 8
    PhandleNodeMappingCapacity = 4
    MaxSupportedCpus = 2
    Capacity = 2
    CellBase = 16
    MaxNumRegions = 4
INVARIANTS
    TypeOK
    StackFollowsTree
    HandledAsItSays
    DevicesAreWhereTheTreeSays
    ReferencesResolve
    ValidTreesAreAccepted
PROPERTY
    ParseEnds
CHECK_DEADLOCK FALSE
