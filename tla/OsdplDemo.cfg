SPECIFICATION FairSpec
CONSTANTS
  ApplyFails = FALSE
  MaxEdits = 0
PROPERTIES DemoEnds
CHECK_DEADLOCK FALSE
