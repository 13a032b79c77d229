SPECIFICATION IrqSpec
CONSTANTS
    Boards <- OtherTimer
    NCPUS = 4
    MaxEvents = 3
PROPERTY TimerIsSetAgain
CHECK_DEADLOCK FALSE
