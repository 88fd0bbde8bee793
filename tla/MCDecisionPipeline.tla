-------------------------- MODULE MCDecisionPipeline --------------------------
(* Instances of DecisionPipeline: two runs; actions that Layer 4 approves,     *)
(* flags and blocks, one of which changes an account; proposals of up to two.  *)
EXTENDS DecisionPipeline

CONSTANTS r1, r2, s1, s2, t2, alice

MCAction(type, approval, phrases) ==
  [action_type |-> type, requires_approval |-> approval,
   customer_message |-> phrases, metadata |-> <<>>]

MCPush     == MCAction("SEND_PUSH_NOTIFICATION", FALSE, {})
MCThreat   == MCAction("SEND_SMS", FALSE, {"legal action"})
MCHardship == MCAction("CREATE_HARDSHIP_ENROLLMENT_CASE", TRUE, {})
MCPlan     == MCAction("ENROLL_PAYMENT_PLAN", FALSE, {})

MCActions == {MCPush, MCThreat, MCHardship, MCPlan}

MCProposals ==
  {<<>>, <<MCPush>>, <<MCPlan, MCPush>>, <<MCThreat, MCPush>>, <<MCHardship, MCPlan>>}

MCSmallProposals == {<<>>, <<MCHardship, MCPlan>>}

MCWording == {{}, {"legal action"}, {"soft framing"}, {"direct framing"}}

\* One experiment, on push notifications, as seed_experiments has.
MCVariantWording ==
  [type \in {a.action_type : a \in MCActions} |->
     IF type = "SEND_PUSH_NOTIFICATION" THEN {{"soft framing"}, {"direct framing"}} ELSE {}]

MCConfidence == {700, 850, 900}
MCTwoConfidences == {700, 900}
MCHighConfidence == {900}

MCRuns == {r1, r2}
MCOneRun == {r1}

\* Each run has its own session; the API derives the trace from it.
MCOwnSession == [r \in {r1, r2} |-> IF r = r1 THEN s1 ELSE s2]
MCOwnTrace == MCOwnSession

\* Two runs of one session, as an SDK caller that passes session_id can start.
MCOneSession == [r \in {r1, r2} |-> s1]

\* The second run is started with a trace_id of its own.
MCOtherTrace == [r \in {r1, r2} |-> IF r = r1 THEN s1 ELSE t2]

MCOneCustomer == [r \in {r1, r2} |-> alice]
=============================================================================
