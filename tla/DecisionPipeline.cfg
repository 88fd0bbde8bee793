SPECIFICATION Spec
CONSTANTS
  None = None
  r1 = r1
  r2 = r2
  s1 = s1
  s2 = s2
  t2 = t2
  alice = alice
  Run <- MCRuns
  ApiRun <- MCOneRun
  SessionOf <- MCOwnSession
  TraceOf <- MCOwnTrace
  CustomerOf <- MCOneCustomer
  Action <- MCActions
  Proposals <- MCProposals
  Confidence <- MCConfidence
  Wording <- MCWording
  VariantWording <- MCVariantWording
  Durable = FALSE
  MaxFaults = 1
INVARIANTS
  TypeOK
  StageConsistency
  OnlyApprovedDelivered
  NoAccountActionOnPartialContext
  DeliveredWordingClean
  SameSnapshot
PROPERTIES
  ImplementsGate
\* runs end
CHECK_DEADLOCK FALSE
