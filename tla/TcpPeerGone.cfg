SPECIFICATION TcpSpec
CONSTANTS
    KCheapPrepend = 1
    KInitialSize = 3
    ExtraSize = 2
    Sender = {"s"}
    MessageSize = 2
    MaxMessages = 2
    MayShutdown = FALSE
INVARIANTS PeerErrorIsLocal
CHECK_DEADLOCK FALSE
