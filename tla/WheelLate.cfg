SPECIFICATION WheelSpec
CONSTANTS
    Conn = {"c", "d"}
    Capacity = 3
    Timeout = 2
    MaxSeconds = 5
PROPERTIES NotShutDownEarly
CHECK_DEADLOCK FALSE
