CONSTANTS
    LastTime = 1
    Parts = 2
    Enough = 1
    MaxSent = 1
    MaxQueue = 2
SPECIFICATION StreamSpec
PROPERTY SessionTimesOut
CHECK_DEADLOCK FALSE
