SPECIFICATION FairSpec
CONSTANTS
  o1 = o1
  o2 = o2
  o3 = o3
  carol = carol
  None = None
  Outcome <- MCOutcomes
  Customer <- MCCustomers
  Bucket <- MCBucket
  Weight = 50
  Seed <- MCSeed
  MinSample = 4
  MaxParallel = 3
INVARIANTS
  NeverOvercounts
  SwitchNeedsSamples
PROPERTIES
  ConclusionNamesWinner
\* all outcomes may have been recorded
CHECK_DEADLOCK FALSE
