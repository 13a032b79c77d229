SPECIFICATION Spec
CONSTANTS
    BufferSize = 3
    Secondary = {}
    BootMsg <- Nothing
    RunMsg <- Nothing
    Banner <- IrqChar
    RxHeader <- Header
    Received = {"x"}
    MaxRx = 2
CHECK_DEADLOCK FALSE
PROPERTY InterruptsDieDown
