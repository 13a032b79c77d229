SPECIFICATION Spec
CONSTANTS
    Boards <- RealBoards
    NCPUS = 4
CHECK_DEADLOCK FALSE
INVARIANT RunsOnWhatIsSetUp
INVARIANT IrqsReadyIsTrue
PROPERTY AllCoresBoot
PROPERTY ReleasedCoresRun
