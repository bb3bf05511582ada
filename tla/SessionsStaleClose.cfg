SPECIFICATION SessionsSpec
CONSTANTS
    Loop = {"a", "b"}
    Conn = {1, 2}
    User = {"u", "v"}
    LoopOf <- MCLoopOf
    NoUser = NoUser
    NoConn = NoConn
    NoThread = NoThread
    Matcher = Matcher
    Logins = "any"
    MaxLogins = 3
PROPERTIES OnlyOwnCloseEndsSession
CHECK_DEADLOCK FALSE
