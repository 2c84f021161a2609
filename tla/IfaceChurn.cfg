SPECIFICATION FairSpec
CONSTANTS
  Worker <- MCWorker
  Repeats = 2
  MaxPolls = 2
INVARIANTS TypeOK OneTapPerWorker NothingLeft DeviceHasTap
PROPERTIES MainExits
CHECK_DEADLOCK FALSE
