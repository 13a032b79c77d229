SPECIFICATION Spec
CONSTANTS
    Boards <- StackBoards
    NCPUS = 4
CHECK_DEADLOCK FALSE
INVARIANT StacksAreSeparate
