SPECIFICATION DispatchSpec
CONSTANTS
    Frames = 4
    Sizes = {1, 3, 4}
    HeaderSize = 2
    MaxFrameSize = 3
    KCheapPrepend = 1
    KInitialSize = 4
    ExtraSize = 9
INVARIANTS ArrivedIsHandled NoneSkipped
PROPERTIES BufferIsQueue
CHECK_DEADLOCK FALSE
