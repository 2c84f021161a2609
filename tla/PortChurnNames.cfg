SPECIFICATION Spec
CONSTANTS
  Run <- MCRun
  Worker <- MCWorker
  Repeats = 2
INVARIANTS TypeOK SubnetInOwnNetwork CleanExit
CHECK_DEADLOCK FALSE
