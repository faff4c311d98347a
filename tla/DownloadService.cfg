CONSTANTS
    EnableRetry = TRUE
    MaxClicks = 3
    MaxInst = 3
    MaxRetries = 1
    MaxThreads = 4
    MaxKills = 1
    MaxQueue = 2
    Readings = {"part", "other"}
    DurationNews = {TRUE}
SPECIFICATION FairSpec
INVARIANTS
    TypeOK
    WakeLockOwned
    NotificationBacked
    RefusedOnlyWhileRunning
PROPERTIES
    WakeLockReleased
    StopReleasesLock
CHECK_DEADLOCK FALSE
