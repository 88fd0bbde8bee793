---------------------------- MODULE MCOrchestrator ----------------------------
(* Two runs of one session with orchestrators of their own, as the runner     *)
(* starts them: a payment risk and a billing dispute.                         *)
EXTENDS Orchestrator

CONSTANTS r1, r2, s1, case

MCRuns == {r1, r2}
MCOneSession == [r \in MCRuns |-> s1]
MCScenarios ==
  [r \in MCRuns |-> IF r = r1 THEN "payment_risk_intervention" ELSE "billing_dispute_resolution"]
MCOwnManagers == [r \in MCRuns |-> r]
\* One level on either side of the branch.
MCLevels == {"MEDIUM", "HIGH"}
MCActionLists == {<<>>, <<case>>}
=============================================================================
