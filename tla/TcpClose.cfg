SPECIFICATION TcpSpec
CONSTANTS
    KCheapPrepend = 1
    KInitialSize = 3
    ExtraSize = 2
    Sender = {"s"}
    MessageSize = 2
    MaxMessages = 3
    MayShutdown = TRUE
INVARIANTS OutputInOrder OutputIsWatched
PROPERTIES FlushedBeforeShutdown
CHECK_DEADLOCK FALSE
