SPECIFICATION FairTimerSpec
CONSTANTS
    m = m
    g1 = g1
    g2 = g2
    t1 = t1
    Goroutine <- MCGoroutine
    Main = m
    NoGoroutine = NoGoroutine
    HasProcess = FALSE
    ParksAfterGoexit = FALSE
    UsesMakeFunc = TRUE
    CallbackReleases = FALSE
    MaxRuns = 2
    MaxExports = 0
    MaxTimers = 0
    MaxLeaks = 0
    Timer = {}
    NoTimeout = NoTimeout
    MaxIds = 0
PROPERTIES
    EveryQueuedRuns
    SleepersWake
CHECK_DEADLOCK FALSE
