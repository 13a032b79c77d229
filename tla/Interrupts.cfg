SPECIFICATION IrqSpec
CONSTANTS
    Boards <- RealBoards
    NCPUS = 4
    MaxEvents = 5
INVARIANT ActiveIsHandled
PROPERTY UartIsServed
PROPERTY TimerIsSetAgain
PROPERTY AllCoresBoot
CHECK_DEADLOCK FALSE
