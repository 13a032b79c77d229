SPECIFICATION IrqSpec
CONSTANTS
    Boards <- V2Boards
    NCPUS = 4
    MaxEvents = 3
PROPERTY TimerReachesEveryCore
CHECK_DEADLOCK FALSE
