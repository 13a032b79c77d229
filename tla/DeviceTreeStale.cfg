SPECIFICATION Spec
CONSTANTS
    Blobs <- StaleBlobs
    MaxNodeDepth = 4
    MaxPropsPerNode = 8
    PhandleNodeMappingCapacity = 4
    MaxSupportedCpus = 2
    Capacity = 2
    CellBase = 16
    MaxNumRegions = 4
INVARIANT
    OnlyMatchingNodesAreHandled
CHECK_DEADLOCK FALSE
