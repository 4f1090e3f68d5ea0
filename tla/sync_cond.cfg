SPECIFICATION CondSpec
CONSTANTS
    m = m
    g1 = g1
    g2 = g2
    g3 = g3
    Goroutine = {m, g1, g2, g3}
    Main = m
    NoGoroutine = NoGoroutine
    HasProcess = TRUE
    ParksAfterGoexit = FALSE
    UsesMakeFunc = FALSE
    CallbackReleases = FALSE
    MaxRuns = 2
    MaxExports = 0
    MaxTimers = 0
    MaxLeaks = 0
    Permits = 1
    MaxPermits = 2
    Width = 4
SYMMETRY Symmetry
INVARIANTS
    AwokenHavePermits
    NoIdlePermit
    SignalsMeetWaiters
    BroadcastReachesAll
PROPERTIES
    RefinesHandoff
CHECK_DEADLOCK FALSE
