SPECIFICATION Spec
CONSTANTS
    MaxNumRegions = 4
    Input <- SmallRegions
    Kernel <- SmallKernel
    MaxNodes = 4
    MaxReserve = 2
CHECK_DEADLOCK FALSE
INVARIANT CoversWhatItWasGiven
INVARIANT DisjointStaysDisjoint
INVARIANT RamIsNotDevice
INVARIANT KernelIsReserved
