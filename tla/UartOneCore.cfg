SPECIFICATION ChannelSpec
CONSTANTS
    BufferSize = 3
    Secondary = {}
    BootMsg <- LineMsg
    RunMsg <- OneChar
    Banner <- IrqChar
    RxHeader <- Header
    Received = {"a"}
    MaxRx = 1
CHECK_DEADLOCK FALSE
INVARIANT SyncSendsDrain
INVARIANT PlainReadIsOK
PROPERTY TxChannelUntilOverlap
PROPERTY BootPrintReturns
PROPERTY HandlerReturns
