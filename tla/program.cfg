CONSTANTS
    None = None
    T = T
    IntType = IntType
    Open = Open
    Runtime = "rt"
    Basic <- MCBasic
    Pkgs <- MCPkgs
    Programs <- MCPrograms
    Roots <- MCRoots
SPECIFICATION StartSpec
INVARIANTS
    NeverPanics
    WhatRunsIsWritten
    ReferencesResolve
    BlockingIsKnown
    StartFindsAll
CHECK_DEADLOCK FALSE
