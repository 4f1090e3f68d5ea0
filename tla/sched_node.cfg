SPECIFICATION TimerSpec
CONSTANTS
    m = m
    g1 = g1
    g2 = g2
    t1 = t1
    Goroutine <- MCGoroutine
    Main = m
    NoGoroutine = NoGoroutine
    HasProcess = TRUE
    ParksAfterGoexit = FALSE
    UsesMakeFunc = FALSE
    CallbackReleases = FALSE
    MaxRuns = 2
    MaxExports = 1
    MaxTimers = 1
    MaxLeaks = 2
    Timer = {t1}
    NoTimeout = NoTimeout
    MaxIds = 2
SYMMETRY Symmetry
INVARIANTS
    ActiveIsArmed
    RunnableOnce
    AwakeIsRunnable
    NoLostRun
    AwakeCount
    TotalCount
    NoFalseDeadlock
    DeadlockReported
PROPERTY
    RefinesRuntimeTimer
CHECK_DEADLOCK FALSE
