SPECIFICATION Spec
CONSTANTS
    Blobs <- DefaultBlobs
    MaxNodeDepth = 4
    MaxPropsPerNode = 8
    PhandleNodeMappingCapacity = 4
    MaxSupportedCpus = 2
    Capacity = 2
    CellBase = 16
    MaxNumRegions = 4
INVARIANT
    DevicesAreWhereTheTreeSays
CHECK_DEADLOCK FALSE
