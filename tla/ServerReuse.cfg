SPECIFICATION ServerFairSpec
CONSTANTS
    Client = {1, 2, 3}
    Busy = {1, 3}
    Lingering = {2}
    Listener = Listener
    None = None
    NumThreads = 2
    MaxFds = 2
    InitEvents = 1
INVARIANTS PollerAgrees NothingDangles
PROPERTIES FdsComeBack WaitingAreAccepted
CHECK_DEADLOCK FALSE
