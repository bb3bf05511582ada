SPECIFICATION PoolThreadSpec
CONSTANTS
    Consumer = {"c", "d"}
    InitSize = 1
    MaxSize = 1
    MaxIdleTime = 1
    MaxMade = 4
    MaxNow = 1
PROPERTIES TimeoutEndsCall
CHECK_DEADLOCK FALSE
