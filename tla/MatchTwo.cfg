SPECIFICATION FairSpec
CONSTANTS
    Loop = {"a", "b"}
    Matcher = Matcher
    c2 = c2
    Conn = {c1, c2}
    User = {u, v}
    HighTier = {}
    LoopOf <- MCLoopOf
    NoUser = NoUser
    NoConn = NoConn
    NoThread = NoThread
    Logins = "any"
    MaxLogins = 2
    InitialCounts = {1}
    CountWidth = 4
    MaxRooms = 2
    InitPoints <- MCInitPoints
    Strangers = {c1}
INVARIANTS PairIsOnline
PROPERTIES PairsAreTaken RequestsAnswered
CHECK_DEADLOCK FALSE
