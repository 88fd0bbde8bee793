---------------------------- MODULE MCActionReview ----------------------------
(* Bounded inputs for ActionReview: every action type a rule or a threshold    *)
(* mentions and one that none does, at most one metadata entry, messages with  *)
(* and without a prohibited phrase, confidences on both sides of each bound.   *)
EXTENDS ActionReview

MCActionTypes ==
  {"SEND_PUSH_NOTIFICATION", "SEND_SMS", "CREATE_HARDSHIP_ENROLLMENT_CASE",
   "CREDIT_LIMIT_DECREASE", "APPLY_RATE_REDUCTION", "ESCALATE_TO_COLLECTIONS",
   "CREATE_RETENTION_CASE"}

MCFlags ==
  {"metadata.sms_ok", "metadata.adverse_action_notice", "metadata.open_hardship_case"}

MCMetadata ==
  {<<>>} \cup UNION {[{flag} -> BOOLEAN] : flag \in MCFlags}
         \cup [{"metadata.intervention_7d"} -> 2..4]

MCActions ==
  [action_type : MCActionTypes, requires_approval : BOOLEAN,
   customer_message : {{}, {"legal action"}}, metadata : MCMetadata]

MCProfiles == [partial_context : BOOLEAN, sms_ok : BOOLEAN]

MCConfidences == {0, 690, 700, 740, 750, 790, 800, 840, 850, 890, 900}
=============================================================================
