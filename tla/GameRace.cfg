SPECIFICATION GameSpec
CONSTANTS
    Loop = {"a", "b"}
    Matcher = Matcher
    c2 = c2
    Conn = {c1, c2}
    User = {u, v}
    Points = 1990
    LoopOf <- MCLoopOf
    NoUser = NoUser
    NoConn = NoConn
    NoThread = NoThread
    Logins = "once"
    MaxLogins = 2
    InitialCounts = {0}
    CountWidth = 4
    MaxRooms = 1
    InitPoints <- MCInitPoints
    Strangers = {}
    PointWidth = 65536
    DbMay = {}
    RaceMay = {}
    GameAsks = {"chess", "exit"}
    MaxBacklog = 1
    MaxWins = 1
SYMMETRY Interchangeable
INVARIANTS NoUnlockedSearch
CHECK_DEADLOCK FALSE
