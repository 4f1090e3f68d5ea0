SPECIFICATION WgSpec
CONSTANTS
    m = m
    g1 = g1
    g2 = g2
    g3 = g3
    Goroutine = {m, g1, g2, g3}
    Main = m
    NoGoroutine = NoGoroutine
    HasProcess = TRUE
    ParksAfterGoexit = FALSE
    UsesMakeFunc = FALSE
    CallbackReleases = FALSE
    MaxRuns = 2
    MaxExports = 0
    MaxTimers = 0
    MaxLeaks = 0
    MaxCount = 2
    MaxChans = 2
    CallbackAdds = TRUE
    ReusesEarly = FALSE
SYMMETRY Symmetry
INVARIANTS
    NoEarlyReturn
    NobodyStranded
CHECK_DEADLOCK FALSE
