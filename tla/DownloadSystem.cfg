CONSTANTS
    EnableRetry = FALSE
    MaxClicks = 3
    MaxInst = 2
    MaxRetries = 0
    MaxThreads = 3
    MaxKills = 1
    MaxQueue = 1
    Readings = {"other"}
    DurationNews = {FALSE}
SPECIFICATION SysFairSpec
INVARIANTS
    SysTypeOK
    SerialUntilStopped
    MisuseOnlyByOverlap
PROPERTIES
    ServiceSpec
    CancelledStreamEnds
CHECK_DEADLOCK FALSE
