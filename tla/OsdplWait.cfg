SPECIFICATION FairSpec
CONSTANTS
  ApplyFails = TRUE
  MaxEdits = 2
INVARIANTS TypeOK StaleOnlyIfLate DemoWaits
 
CHECK_DEADLOCK FALSE
