SPECIFICATION DceSpec
CONSTANTS
    main = main
    one = one
    two = two
    nameA = nameA
    nameB = nameB
    nameM = nameM
    NoName = NoName
    Decl <- MCDecl
    Name <- MCName
    Programs <- MCPrograms
INVARIANTS
    NoDeadCode
    NothingMissing
PROPERTY
    Returns
CHECK_DEADLOCK FALSE
