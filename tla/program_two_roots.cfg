CONSTANTS
    None = None
    T = T
    IntType = IntType
    Open = Open
    Runtime = "rt"
    Basic <- MCBasic
    Pkgs <- MCPkgs
    Programs <- TwoRootPrograms
    Roots <- MCTwoRoots
SPECIFICATION StartSpec
INVARIANTS
    ReferencesResolve
CHECK_DEADLOCK FALSE
