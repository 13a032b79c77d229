SPECIFICATION Spec
CONSTANTS
    Boards <- OrderBoards
    NCPUS = 4
CHECK_DEADLOCK FALSE
PROPERTY AllCoresBoot
