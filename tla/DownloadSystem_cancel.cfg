CONSTANTS
    EnableRetry = FALSE
    MaxClicks = 2
    MaxInst = 1
    MaxRetries = 0
    MaxThreads = 2
    MaxKills = 0
    MaxQueue = 1
    Readings = {"other"}
    DurationNews = {FALSE}
SPECIFICATION SysFairSpec
PROPERTY CancelledDownloadEnds
CHECK_DEADLOCK FALSE
