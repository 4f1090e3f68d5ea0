SPECIFICATION ChanSpec
CONSTANTS
    m = m
    g1 = g1
    g2 = g2
    u = u
    b = b
    nil = nil
    Goroutine = {m, g1, g2}
    Main = m
    NoGoroutine = NoGoroutine
    HasProcess = FALSE
    ParksAfterGoexit = FALSE
    UsesMakeFunc = FALSE
    CallbackReleases = FALSE
    MaxRuns = 2
    MaxExports = 0
    MaxTimers = 0
    MaxLeaks = 0
    Chan = {u, b, nil}
    NilChan = nil
    Capacity <- MCCapacity
    SelectCases <- Selects
    Closable = {b}
    CallbackOps <- SendCloseB
    MaxStale = 1
    UndefinedSends = {}
    MaxSends = 2
SYMMETRY Symmetry
INVARIANTS
    SendsInOrder
    NoMissedMatch
    WaitersQueued
    WokenGoOn
PROPERTIES
    RefinesPipe
CHECK_DEADLOCK FALSE
