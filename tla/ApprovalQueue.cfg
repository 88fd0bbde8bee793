SPECIFICATION Spec
CONSTANTS
  i1 = i1
  i2 = i2
  v1 = v1
  v2 = v2
  None = None
  Item <- MCItems
  Reviewer <- MCReviewers
  Priority <- MCPriority
  SLA_BY_PRIORITY <- MCSla
  Limit = 1
  Stores <- MCStores
  MaxClock = 1
  MaxFaults = 1
  MaxRestarts = 1
SYMMETRY MCSymmetry
INVARIANTS
  NothingDropped
  ListFollowsStore
PROPERTIES
  NeverPendingAgain
  MostUrgentListed
\* reviewers and clock may be done
CHECK_DEADLOCK FALSE
