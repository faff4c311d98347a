CONSTANTS
    EnableRetry = FALSE
    MaxClicks = 3
    MaxInst = 3
    MaxRetries = 0
    MaxThreads = 3
    MaxKills = 0
    MaxQueue = 1
    Readings = {"other"}
    DurationNews = {FALSE}
SPECIFICATION SysSpec
INVARIANT OneNativeDownload
CHECK_DEADLOCK FALSE
