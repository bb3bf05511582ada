SPECIFICATION WheelFairSpec
CONSTANTS
    Conn = {"c", "d"}
    Capacity = 3
    Timeout = 3
    MaxSeconds = 5
INVARIANTS TaskEndsOnTime
PROPERTIES NoShutdownAfterDestroy SilentIsShutDown
CHECK_DEADLOCK FALSE
