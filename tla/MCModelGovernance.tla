-------------------------- MODULE MCModelGovernance --------------------------
(***************************************************************************)
(* Two versions in the registry; two evaluations of one of them, over an   *)
(* artifact that is trained twice, well or unfairly.                       *)
(***************************************************************************)
EXTENDS ModelGovernance, TLC

CONSTANTS v1, v2, e1, e2, t1, t2

Built(auc, low, high) ==
  [auc |-> auc, precision |-> 70, recall |-> 60, approved |-> [low_balance |-> low, high_balance |-> high]]

MCVersion == {v1, v2}
MCBuild == {Built(80, 40, 50), Built(90, 39, 50)}
MCEvaluation == {e1, e2}
MCCandidateOf == [e \in MCEvaluation |-> v1]
MCTrace == {t1, t2}

\* The two are asked for alike; their trace ids are any.
MCSymmetry == Permutations(MCEvaluation) \cup Permutations(MCTrace)
=============================================================================
