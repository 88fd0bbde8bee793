SPECIFICATION LoadingSpec
CONSTANTS
  r001 = r001
  b001 = b001
  g1 = g1
  g2 = g2
  l1 = l1
  File <- MCFile
  GetCall <- MCGetCall
  LoadCall <- MCLoadCall
  MaxChanges = 3
  MaxDay = 1
INVARIANTS RulesFollowFiles
SYMMETRY Symmetric
CHECK_DEADLOCK FALSE
