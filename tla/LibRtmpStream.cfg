CONSTANTS
    LastTime = 2
    Parts = 2
    Enough = 1
    MaxSent = 4
    MaxQueue = 2
SPECIFICATION StreamSpec
INVARIANTS
    StreamTypeOK
    NoGap
    WrittenOnce
    SuccessIsWhole
PROPERTY StopEnds
CHECK_DEADLOCK FALSE
