SPECIFICATION Spec
CONSTANTS
  ApplyFails = FALSE
  MaxEdits = 0
INVARIANTS ReturnedMeansApplied
CHECK_DEADLOCK FALSE
