CONSTANTS
    Panic = Panic
    Departures = {}
    Setups <- MCSetups
    MaxSteps = 2
SPECIFICATION Spec
INVARIANTS
    ValuesAgree
    PointersAgree
    NotShared
CHECK_DEADLOCK FALSE
