SPECIFICATION RoomsSpec
CONSTANTS
    Loop = {a, b}
    Matcher = Matcher
    User = {u, v}
    NoUser = NoUser
    NoThread = NoThread
    InitialCounts = {2}
    CountWidth = 4
    MaxRooms = 1
PROPERTIES EmptyRoomsGoAway
CHECK_DEADLOCK FALSE
