----------------------------- MODULE ActionReview -----------------------------
(***************************************************************************)
(* One proposed action through Layer 4: every action, profile and agent    *)
(* confidence of the bounded sets is an initial state, and one step is     *)
(* the evaluation GuardrailsService.evaluate performs on it.               *)
(* Init and Spec have names of their own, since DecisionPipelineProofs     *)
(* extends this module beside DecisionPipeline.                            *)
(***************************************************************************)
EXTENDS GuardrailRules

CONSTANTS
  Actions,       \* proposed actions
  Profiles,      \* assembled profiles: partial_context, and the customer's sms_ok
  Confidences    \* agent confidences, in thousandths

\* What an agent attaches is of the kind the rules compare it with, a message has
\* the prohibited phrases only as its data, and None is none of those values.
ASSUME ReviewAssumption ==
  /\ \A a \in Actions :
       /\ a.requires_approval \in BOOLEAN
       /\ a.customer_message \subseteq ProhibitedPhrases
       /\ \A field \in DOMAIN a.metadata :
            a.metadata[field] \in IF field = "metadata.intervention_7d" THEN Nat ELSE BOOLEAN
  /\ Profiles \subseteq [partial_context : BOOLEAN, sms_ok : BOOLEAN]
  /\ Confidences \subseteq 0..1000
  /\ None \notin BOOLEAN \cup Nat

VARIABLES
  action, profile, confidence,   \* the input of the evaluation
  checks,                        \* the CheckResults, None until evaluated
  verdict

reviewVars == <<action, profile, confidence, checks, verdict>>

ReviewInit ==
  /\ action \in Actions
  /\ profile \in Profiles
  /\ confidence \in Confidences
  /\ checks = None
  /\ verdict = None

Review ==
  /\ checks = None
  /\ checks' = EvaluateAction(action, profile, confidence)
  /\ verdict' = Classify(checks')
  /\ UNCHANGED <<action, profile, confidence>>

ReviewSpec == ReviewInit /\ [][Review]_reviewVars

-----------------------------------------------------------------------------
Reviewed == checks # None

CheckResult ==
  [rule_id  : {"R-001", "R-002", "R-003", "B-001", "B-002", "B-003", "AI-001", "AI-002"},
   category : {"REGULATORY", "BUSINESS_POLICY", "RESPONSIBLE_AI"},
   status   : {"APPROVED", "FLAGGED", "BLOCKED"}]

\* Types: every check names a rule and a status; the verdict is one of the
\* three outcomes of GuardrailsService.evaluate.
ReviewTypeOK ==
  Reviewed => /\ \A i \in DOMAIN checks : checks[i] \in CheckResult
              /\ verdict \in {"APPROVED", "FLAGGED", "BLOCKED"}

\* The declared value of a metadata flag: what the agent attached, if anything.
Declares(field, value) ==
  field \in DOMAIN action.metadata /\ action.metadata[field] = value

\* What each policy forbids to leave Layer 4 unreviewed, written from the
\* policies and not from the matcher: prohibited language, an SMS declared
\* without consent, an unannounced credit decrease, a fourth contact, a
\* hardship case that needs a supervisor or already exists, an account action
\* on incomplete context.
Forbidden ==
  \/ action.customer_message # {}
  \/ action.action_type = "SEND_SMS" /\ Declares("metadata.sms_ok", FALSE)
  \/ /\ action.action_type = "CREDIT_LIMIT_DECREASE"
     /\ Declares("metadata.adverse_action_notice", FALSE)
  \/ /\ action.action_type = "SEND_PUSH_NOTIFICATION"
     /\ "metadata.intervention_7d" \in DOMAIN action.metadata
     /\ action.metadata["metadata.intervention_7d"] >= 3
  \/ /\ action.action_type = "CREATE_HARDSHIP_ENROLLMENT_CASE"
     /\ action.requires_approval \/ Declares("metadata.open_hardship_case", TRUE)
  \/ action.action_type \in AccountActions /\ profile.partial_context

\* Layer 4 approves exactly the actions no policy forbids and whose agent was
\* confident enough: nothing slips through the matcher, nothing else is held.
ApprovedExactlyWhenPermitted ==
  Reviewed =>
    (verdict = "APPROVED" <=>
       /\ ~Forbidden
       /\ confidence >= IF profile.partial_context
                        THEN RaisedThreshold(ConfidenceThreshold(action.action_type))
                        ELSE ConfidenceThreshold(action.action_type))

\* Leaving out the business and responsible-AI checks after a regulatory block
\* (service.py:152) never changes the outcome: evaluating every category gives
\* the same classification.
ShortCircuitKeepsVerdict ==
  Reviewed =>
    verdict = Classify(
      Evaluate(action, profile, Rules, "REGULATORY")
        \o Evaluate(action, profile, Rules, "BUSINESS_POLICY")
        \o << ConfidenceCheck(action, confidence, profile.partial_context),
              PartialContextCheck(action, profile) >>)

Strictness(outcome) ==
  CASE outcome = "APPROVED" -> 0 [] outcome = "FLAGGED" -> 1 [] outcome = "BLOCKED" -> 2

\* Losing a source never makes Layer 4 more permissive: the outcome on the
\* degraded profile is at least as strict as on the complete one.
DegradedNeverLoosens ==
  Reviewed =>
    LET On(partial) == Verdict(action, [profile EXCEPT !.partial_context = partial], confidence)
    IN  Strictness(On(TRUE)) >= Strictness(On(FALSE))
=============================================================================
