SPECIFICATION SessionsSpec
CONSTANTS
    Loop = {"a", "b"}
    Conn = {1, 2}
    User = {"u", "v"}
    LoopOf <- MCLoopOf
    NoUser = NoUser
    NoConn = NoConn
    NoThread = NoThread
    Matcher = Matcher
    Logins = "any"
    MaxLogins = 3
INVARIANTS CloseRemovesPlayer
CHECK_DEADLOCK FALSE
