SPECIFICATION Spec
CONSTANTS
  c1 = c1
  c2 = c2
  c3 = c3
  Client <- MCClient
  MaxChecks = 2
  MaxDrops = 2
SYMMETRY Symmetry
INVARIANTS TypeOK OwnerUnlessLost GrantIsCurrent AssertionsHold
PROPERTIES ImplementsMutex
CHECK_DEADLOCK FALSE
