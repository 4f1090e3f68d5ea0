CONSTANTS
    Panic = Panic
    Departures = {"append"}
    Setups <- MCSetups
    MaxSteps = 2
SPECIFICATION Spec
INVARIANTS
    ValuesAgree
CHECK_DEADLOCK FALSE
