SPECIFICATION TcpSpec
CONSTANTS
    KCheapPrepend = 1
    KInitialSize = 3
    ExtraSize = 2
    Sender = {"s"}
    MessageSize = 2
    MaxMessages = 2
    MayShutdown = TRUE
INVARIANTS ShutdownEndsWriting
CHECK_DEADLOCK FALSE
