SPECIFICATION PoolFairSpec
CONSTANTS
    Consumer = {"c", "d", "e", "f"}
    InitSize = 2
    MaxSize = 3
    MaxIdleTime = 1
    MaxMade = 5
    MaxNow = 1
INVARIANTS ConnectionsAreExclusive ShortOnlyWhenInUse HeadIsOldest
PROPERTIES CallsReturn
CHECK_DEADLOCK FALSE
