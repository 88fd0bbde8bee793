---------------------------- MODULE GuardrailRules ----------------------------
(***************************************************************************)
(* Layer 4 rule evaluation (platform/layer4_guardrails): the condition     *)
(* matcher of rule_engine.py, the two responsible-AI checks that           *)
(* GuardrailsService runs, and the classification of one proposed action   *)
(* as BLOCKED, FLAGGED or APPROVED.                                        *)
(*                                                                         *)
(* An action is a record with the fields the rules can read.  A customer   *)
(* message is the set of prohibited phrases it contains; the metadata an   *)
(* agent attaches is a partial function from field names to values, so an  *)
(* absent key is a key outside its domain.  Confidences and thresholds are *)
(* thousandths.                                                            *)
(***************************************************************************)
EXTENDS Integers, Sequences

CONSTANT
  None        \* Python's None: the value of an absent field

(* The YAML files under rules/, grouped as rules_by_category groups them    *)
(* (sorted by path inside a category).                                      *)
ProhibitedPhrases == {"legal action", "account closure", "guaranteed approval"}

Rule(id, outcome, type, field, op, value) ==
  [rule_id |-> id, outcome |-> outcome,
   condition |-> [action_type |-> type, field |-> field, operator |-> op, value |-> value]]

RegulatoryRules ==
  << Rule("R-001", "BLOCK", "*", "customer_message", "CONTAINS_ANY", ProhibitedPhrases),
     Rule("R-002", "BLOCK", "SEND_SMS", "metadata.sms_ok", "EQUALS", FALSE),
     Rule("R-003", "BLOCK", "CREDIT_LIMIT_DECREASE",
          "metadata.adverse_action_notice", "EQUALS", FALSE) >>

BusinessRules ==
  << Rule("B-001", "FLAG", "SEND_PUSH_NOTIFICATION",
          "metadata.intervention_7d", "GREATER_THAN", 2),
     Rule("B-002", "FLAG", "CREATE_HARDSHIP_ENROLLMENT_CASE",
          "requires_approval", "EQUALS", TRUE),
     Rule("B-003", "BLOCK", "CREATE_HARDSHIP_ENROLLMENT_CASE",
          "metadata.open_hardship_case", "EQUALS", TRUE) >>

RulesUnloaded ==   \* faulty variant: the regulatory directory was not found
  [REGULATORY |-> <<>>, BUSINESS_POLICY |-> BusinessRules]

Rules == [REGULATORY |-> RegulatoryRules, BUSINESS_POLICY |-> BusinessRules]

-----------------------------------------------------------------------------
(* Matching one condition.                                                 *)

\* The fields of the rules that start with "metadata.".
MetadataFields ==
  {"metadata.sms_ok", "metadata.adverse_action_notice", "metadata.intervention_7d",
   "metadata.open_hardship_case"}

FieldValue(action, profile, field) ==
  CASE field \in MetadataFields     -> IF field \in DOMAIN action.metadata
                                      THEN action.metadata[field] ELSE None
    [] field = "partial_context"   -> profile.partial_context
    [] field = "customer_message"  -> action.customer_message
    [] field = "requires_approval" -> action.requires_approval
    [] OTHER                       -> None

Number(value) == IF value = None THEN 0 ELSE value

ConditionMatches(action, profile, condition) ==
  LET actual   == FieldValue(action, profile, condition.field)
      expected == condition.value
      Is(op)   == condition.operator = op
  IN  /\ condition.action_type \in {"*", action.action_type}
      /\ \/ Is("ALWAYS")
         \/ Is("EQUALS")             /\ actual = expected
         \/ Is("GREATER_THAN")       /\ Number(actual) > Number(expected)
         \/ Is("LESS_THAN")          /\ Number(actual) < Number(expected)
         \/ Is("LESS_THAN_OR_EQUAL") /\ Number(actual) <= Number(expected)
         \/ Is("CONTAINS_ANY")       /\ actual \cap expected # {}
         \/ Is("NOT_CONTAINS_ANY")   /\ actual \cap expected = {}

StatusForRule(rule) == IF rule.outcome = "BLOCK" THEN "BLOCKED" ELSE "FLAGGED"

EvaluateRule(action, profile, category, rule) ==
  [rule_id  |-> rule.rule_id,
   category |-> category,
   status   |-> IF ConditionMatches(action, profile, rule.condition)
                THEN StatusForRule(rule)
                ELSE "APPROVED"]

-----------------------------------------------------------------------------
(* Evaluating one category, and one action.                                *)

Has(checks, status) == \E i \in DOMAIN checks : checks[i].status = status

\* RuleEvaluator.evaluate for one category: the results end at the first
\* regulatory block.
Evaluate(action, profile, rules, category) ==
  LET all   == [i \in DOMAIN rules[category] |->
                  EvaluateRule(action, profile, category, rules[category][i])]
      stops == {i \in DOMAIN all : category = "REGULATORY" /\ all[i].status = "BLOCKED"}
  IN  IF stops = {}
      THEN all
      ELSE SubSeq(all, 1, CHOOSE i \in stops : \A j \in stops : i <= j)

ConfidenceThreshold(type) ==
  CASE type = "CREATE_HARDSHIP_ENROLLMENT_CASE"                -> 750
    [] type \in {"APPLY_RATE_REDUCTION", "ENROLL_PAYMENT_PLAN"} -> 800
    [] type = "ESCALATE_TO_COLLECTIONS"                        -> 850
    [] OTHER                                                   -> 700

RaisedThresholdLowered(threshold) == threshold - 50   \* faulty variant: wrong sign

\* "threshold += 0.05" in binary floating point: 0.80 + 0.05 is the double
\* just above the literal 0.85; the other three sums are exact.
RaisedThreshold(threshold) == threshold + 50 + IF threshold = 800 THEN 1 ELSE 0

ConfidenceCheckStrict(action, confidence, partial) ==   \* faulty variant: > for >=
  [rule_id  |-> "AI-001",
   category |-> "RESPONSIBLE_AI",
   status   |-> IF confidence > ConfidenceThreshold(action.action_type)
                THEN "APPROVED" ELSE "FLAGGED"]

ConfidenceCheck(action, confidence, partial) ==
  LET base      == ConfidenceThreshold(action.action_type)
      threshold == IF partial THEN RaisedThreshold(base) ELSE base
  IN  [rule_id  |-> "AI-001",
       category |-> "RESPONSIBLE_AI",
       status   |-> IF confidence >= threshold THEN "APPROVED" ELSE "FLAGGED"]

AccountActions ==
  {"CREATE_HARDSHIP_ENROLLMENT_CASE", "APPLY_RATE_REDUCTION",
   "ENROLL_PAYMENT_PLAN", "CREDIT_LIMIT_DECREASE"}

PartialContextCheckHardship(action, profile) ==   \* faulty variant: one action type
  [rule_id  |-> "AI-002",
   category |-> "RESPONSIBLE_AI",
   status   |-> IF profile.partial_context
                     /\ action.action_type = "CREATE_HARDSHIP_ENROLLMENT_CASE"
                THEN "FLAGGED" ELSE "APPROVED"]

PartialContextCheck(action, profile) ==
  [rule_id  |-> "AI-002",
   category |-> "RESPONSIBLE_AI",
   status   |-> IF profile.partial_context /\ action.action_type \in AccountActions
                THEN "FLAGGED" ELSE "APPROVED"]

\* GuardrailsService._evaluate_action: a regulatory block ends the evaluation.
EvaluateAction(action, profile, confidence) ==
  LET regulatory == Evaluate(action, profile, Rules, "REGULATORY")
      business   == Evaluate(action, profile, Rules, "BUSINESS_POLICY")
      responsible ==
        << ConfidenceCheck(action, confidence, profile.partial_context),
           PartialContextCheck(action, profile) >>
  IN  IF Has(regulatory, "BLOCKED")
      THEN regulatory
      ELSE regulatory \o business \o responsible

ClassifyFlagsFirst(checks) ==   \* faulty variant: flagged tested before blocked
  IF Has(checks, "FLAGGED") THEN "FLAGGED"
  ELSE IF Has(checks, "BLOCKED") THEN "BLOCKED"
  ELSE "APPROVED"

\* The if/elif/else of GuardrailsService.evaluate.
Classify(checks) ==
  IF Has(checks, "BLOCKED") THEN "BLOCKED"
  ELSE IF Has(checks, "FLAGGED") THEN "FLAGGED"
  ELSE "APPROVED"

Verdict(action, profile, confidence) ==
  Classify(EvaluateAction(action, profile, confidence))
=============================================================================
