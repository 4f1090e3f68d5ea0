SPECIFICATION Spec
CONSTANTS
  Programs <- MCPrograms
  MaxReady = 1
INVARIANTS
  GoEquivalent
  ParkedIsResumable
CHECK_DEADLOCK FALSE
