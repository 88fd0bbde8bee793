SPECIFICATION FairSpec
CONSTANTS
  None = None
  r1 = r1
  r2 = r2
  s1 = s1
  s2 = s2
  t2 = t2
  alice = alice
  Run <- MCRuns
  ApiRun <- MCOneRun
  SessionOf <- MCOneSession
  TraceOf <- MCOtherTrace
  CustomerOf <- MCOneCustomer
  Action <- MCActions
  Proposals <- MCSmallProposals
  Confidence <- MCHighConfidence
  Wording <- MCWording
  VariantWording <- MCVariantWording
  Durable = TRUE
  MaxFaults = 1
INVARIANTS
  EvidenceBeforeDelivery
  FlaggedAreQueuedOnce
  LogMatchesStatus
PROPERTIES
  RunsEnd
\* runs end
CHECK_DEADLOCK FALSE
