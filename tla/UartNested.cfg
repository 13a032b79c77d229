SPECIFICATION ChannelSpec
CONSTANTS
    BufferSize = 3
    Secondary = {}
    BootMsg <- Nothing
    RunMsg <- OneChar
    Banner <- IrqChar
    RxHeader <- Header
    Received = {"x"}
    MaxRx = 1
CHECK_DEADLOCK FALSE
PROPERTY ImplementsTxChannel
