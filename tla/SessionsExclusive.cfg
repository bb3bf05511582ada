SPECIFICATION SessionsFairSpec
CONSTANTS
    Loop = {"a", "b"}
    Conn = {1, 2, 3}
    User = {"u", "v"}
    LoopOf <- MCLoopOf
    NoUser = NoUser
    NoConn = NoConn
    NoThread = NoThread
    Matcher = Matcher
    Logins = "exclusive"
    MaxLogins = 3
INVARIANTS SessionsTypeOK LocksHeld SessionWhole CloseRemovesPlayer
PROPERTIES CallbacksEnd
CHECK_DEADLOCK FALSE
