SPECIFICATION Spec
CONSTANTS
    main = main
    lib = lib
    ext = ext
    rt = rt
    xt = xt
    testmain = testmain
    p1 = p1
    p2 = p2
    None = None
    Process <- MCProcess
    Package <- MCPackage
    Version <- MCVersion
    Runtime = rt
    TestMain = testmain
    GoImports <- MCGoImports
    Overlay <- MCOverlays
    Broken <- MCBroken
    Scenarios <- MCScenarios
    MaxTime = 2
    MaxSessions = 1
INVARIANTS
    SourcesFit
    StaleOnlyByRace
    SourcesClosed
PROPERTY
    ChangesAreBuilt
CHECK_DEADLOCK FALSE
