SPECIFICATION Spec
CONSTANTS
  Thread <- MCThread
  Rounds = 2
  Serialised = FALSE
  Faults = TRUE
INVARIANTS TypeOK RoundStartsClean CaughtExplained
CHECK_DEADLOCK FALSE
