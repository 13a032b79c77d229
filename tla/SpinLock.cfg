SPECIFICATION Spec
CONSTANTS
    Core = {c0, c1, c2, c3}
    MaxIrqs = 3
INVARIANT LockInv
PROPERTY ImplementsMutex
PROPERTY SpinningGetsLock
