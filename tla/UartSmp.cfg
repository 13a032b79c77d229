SPECIFICATION Spec
CONSTANTS
    BufferSize = 2
    Secondary = {"core1"}
    BootMsg <- Nothing
    RunMsg <- OneChar
    Banner <- OneChar
    RxHeader <- Nothing
    Received = {"a"}
    MaxRx = 1
CHECK_DEADLOCK FALSE
INVARIANT TypeOK
INVARIANT RxStaysEnabled
