SPECIFICATION PoolSpec
CONSTANTS
    Consumer = {"c", "d"}
    InitSize = 1
    MaxSize = 3
    MaxIdleTime = 1
    MaxMade = 4
    MaxNow = 1
INVARIANTS WaitingProducerHasStock
CHECK_DEADLOCK FALSE
