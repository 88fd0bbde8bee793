SPECIFICATION ReviewSpec
CONSTANTS
  None = None
  Actions <- MCActions
  Profiles <- MCProfiles
  Confidences <- MCConfidences
INVARIANTS
  ApprovedExactlyWhenPermitted
  ShortCircuitKeepsVerdict
  DegradedNeverLoosens
\* every input is evaluated once and the evaluation ends
CHECK_DEADLOCK FALSE
