SPECIFICATION WheelSpec
CONSTANTS
    Conn = {"c", "d"}
    Capacity = 3
    Timeout = 4
    MaxSeconds = 5
INVARIANTS TaskEndsOnTime
CHECK_DEADLOCK FALSE
