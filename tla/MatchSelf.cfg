SPECIFICATION Spec
CONSTANTS
    Loop = {"a", "b"}
    Matcher = Matcher
    c2 = c2
    Conn = {c1, c2}
    User = {u}
    HighTier = {}
    LoopOf <- MCLoopOf
    NoUser = NoUser
    NoConn = NoConn
    NoThread = NoThread
    Logins = "exclusive"
    MaxLogins = 2
    InitialCounts = {1}
    CountWidth = 4
    MaxRooms = 2
    InitPoints <- MCInitPoints
    Strangers = {}
INVARIANTS OtherUserIsAnother
CHECK_DEADLOCK FALSE
