CONSTANTS
    Callers = {a, b, c}
    NULL = NULL
    MayResume = TRUE
SPECIFICATION SerialFairSpec
INVARIANTS
    SerialSafe
    NoStreamLeft
PROPERTY StopEndsLoop
