SPECIFICATION GameSpec
CONSTANTS
    Loop = {"a"}
    Matcher = Matcher
    c2 = c2
    Conn = {c1, c3, c4}
    User = {u, v, w}
    Points = 1990
    LoopOf <- MCLoopOf
    NoUser = NoUser
    NoConn = NoConn
    NoThread = NoThread
    Logins = "once"
    MaxLogins = 3
    InitialCounts = {0}
    CountWidth = 4
    MaxRooms = 2
    InitPoints <- MCInitPoints
    Strangers = {}
    PointWidth = 65536
    DbMay = {}
    RaceMay = {}
    GameAsks = {"chess", "exit"}
    MaxBacklog = 1
    MaxWins = 0
SYMMETRY Interchangeable
INVARIANTS MoveStaysInRoom
CHECK_DEADLOCK FALSE
