SPECIFICATION Spec
CONSTANTS
  v1 = v1
  v2 = v2
  e1 = e1
  e2 = e2
  t1 = t1
  t2 = t2
  Version <- MCVersion
  Build <- MCBuild
  Evaluation <- MCEvaluation
  CandidateOf <- MCCandidateOf
  Trace <- MCTrace
  MaxRuns = 3
  MaxRestarts = 1
  MaxTrainings = 2
INVARIANTS AtMostOneChampion ChampionAgreed LatestVerdictIsCurrent
SYMMETRY MCSymmetry
CHECK_DEADLOCK FALSE
