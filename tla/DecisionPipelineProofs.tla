------------------------ MODULE DecisionPipelineProofs ------------------------
(***************************************************************************)
(* What holds of DecisionPipeline for any runs, sessions, traces, actions, *)
(* proposals, variants and number of faults; and of the rules of Layer 4   *)
(* and its review of an action (ActionReview), which shares no variable    *)
(* with it, for any actions, profiles and confidences.                     *)
(***************************************************************************)
EXTENDS DecisionPipeline, ActionReview, FiniteSetTheorems, SequenceTheorems, TLAPS

-----------------------------------------------------------------------------
(* Layer 4: what it does with prohibited language and with account actions *)
(* on incomplete context, for every action, profile and confidence.        *)

\* R-001 is the first regulatory rule and matches on any prohibited phrase.
LEMMA MessageRuleMatches ==
  ASSUME NEW a, NEW p, a.customer_message \cap ProhibitedPhrases # {}
  PROVE  ConditionMatches(a, p, RegulatoryRules[1].condition)
  <1> DEFINE condition == RegulatoryRules[1].condition
  <1>1. condition = [action_type |-> "*", field |-> "customer_message",
                     operator |-> "CONTAINS_ANY", value |-> ProhibitedPhrases]
    BY DEF RegulatoryRules, Rule
  <1>2. FieldValue(a, p, "customer_message") = a.customer_message
    BY DEF FieldValue, MetadataFields
  <1> QED
    BY <1>1, <1>2 DEF ConditionMatches

\* The results of the regulatory category then hold a block.
LEMMA MessageBlocks ==
  ASSUME NEW a, NEW p, a.customer_message \cap ProhibitedPhrases # {}
  PROVE  Has(Evaluate(a, p, Rules, "REGULATORY"), "BLOCKED")
  <1> DEFINE rules == Rules["REGULATORY"]
             all   == [i \in DOMAIN rules |-> EvaluateRule(a, p, "REGULATORY", rules[i])]
             stops == {i \in DOMAIN all : "REGULATORY" = "REGULATORY" /\ all[i].status = "BLOCKED"}
             first == CHOOSE i \in stops : \A j \in stops : i <= j
  <1>1. rules = RegulatoryRules /\ DOMAIN rules = 1..3
    <2>1. rules = RegulatoryRules
      BY DEF Rules
    <2>2. DOMAIN RegulatoryRules = 1..3
      BY DEF RegulatoryRules
    <2> QED
      BY <2>1, <2>2
  <1>2. all[1].status = "BLOCKED"
    <2>1. EvaluateRule(a, p, "REGULATORY", RegulatoryRules[1]).status
            = StatusForRule(RegulatoryRules[1])
      BY MessageRuleMatches DEF EvaluateRule
    <2>2. StatusForRule(RegulatoryRules[1]) = "BLOCKED"
      BY DEF StatusForRule, RegulatoryRules, Rule
    <2> QED
      BY <1>1, <2>1, <2>2
  <1>3. 1 \in stops /\ stops \subseteq 1..3
    BY <1>1, <1>2
  <1>4. first = 1
    <2> HIDE DEF stops
    <2>1. \E i \in stops : \A j \in stops : i <= j
      BY <1>3
    <2>2. first \in stops /\ \A j \in stops : first <= j
      BY <2>1
    <2> HIDE DEF first
    <2> QED
      BY <1>3, <2>2
  <1>5. Evaluate(a, p, Rules, "REGULATORY") = SubSeq(all, 1, first)
    BY <1>3 DEF Evaluate
  <1>6. SubSeq(all, 1, 1) = [i \in 1..1 |-> all[i]]
    BY <1>1
  <1> HIDE DEF all, first
  <1>7. DOMAIN SubSeq(all, 1, 1) = 1..1 /\ SubSeq(all, 1, 1)[1] = all[1]
    BY <1>6
  <1> QED
    BY <1>2, <1>4, <1>5, <1>7 DEF Has

\* No action whose message carries a prohibited phrase leaves Layer 4 approved
\* or flagged, whatever else it says, whatever the profile and the confidence
\* (R-001, service.py:152).
THEOREM ProhibitedLanguageIsBlocked ==
  ASSUME NEW a, NEW p, NEW c, a.customer_message \cap ProhibitedPhrases # {}
  PROVE  Verdict(a, p, c) = "BLOCKED"
  <1>1. EvaluateAction(a, p, c) = Evaluate(a, p, Rules, "REGULATORY")
    BY MessageBlocks DEF EvaluateAction
  <1> QED
    BY <1>1, MessageBlocks DEF Verdict, Classify

-----------------------------------------------------------------------------
(* Account actions on incomplete context.                                  *)

\* A concatenation ends with the items of its second part.
LEMMA ConcatenationItems ==
  ASSUME NEW S, NEW s \in Seq(S), NEW T, NEW t \in Seq(T), NEW i \in 1..Len(t)
  PROVE  Len(s) + i \in DOMAIN (s \o t) /\ (s \o t)[Len(s) + i] = t[i]
  <1>1. s \in Seq(S \cup T) /\ t \in Seq(S \cup T) /\ Len(s) \in Nat /\ Len(t) \in Nat
    OBVIOUS
  <1>2. /\ s \o t \in Seq(S \cup T) /\ Len(s \o t) = Len(s) + Len(t)
        /\ \A j \in 1..Len(s) + Len(t) : (s \o t)[j] = IF j <= Len(s) THEN s[j] ELSE t[j - Len(s)]
    BY <1>1, ConcatProperties
  <1> QED
    BY <1>1, <1>2

\* The checks of a category are a sequence.
LEMMA CategoryChecks ==
  ASSUME NEW a, NEW p, NEW category \in {"REGULATORY", "BUSINESS_POLICY"}
  PROVE  \E S : Evaluate(a, p, Rules, category) \in Seq(S)
  <1> DEFINE rules == Rules[category]
             all   == [i \in DOMAIN rules |-> EvaluateRule(a, p, category, rules[i])]
             stops == {i \in DOMAIN all : category = "REGULATORY" /\ all[i].status = "BLOCKED"}
             first == CHOOSE i \in stops : \A j \in stops : i <= j
             S == {EvaluateRule(a, p, category, rules[i]) : i \in 1..3}
  <1>1. DOMAIN rules = 1..3
    <2>1. DOMAIN RegulatoryRules = 1..3 /\ DOMAIN BusinessRules = 1..3
      BY DEF RegulatoryRules, BusinessRules
    <2> QED
      BY <2>1 DEF Rules
  <1> HIDE DEF rules
  <1>2. all = [i \in 1..3 |-> EvaluateRule(a, p, category, rules[i])]
    BY <1>1
  <1>3. all \in Seq(S) /\ Len(all) = 3
    BY <1>2
  <1>4. CASE stops = {}
    <2>1. Evaluate(a, p, Rules, category) = all
      BY <1>4 DEF Evaluate, rules
    <2> QED
      BY <1>3, <2>1
  <1>5. CASE stops # {}
    <2>1. stops \subseteq 1..3
      BY <1>2
    <2> HIDE DEF stops, all
    <2>2. \E i \in stops : \A j \in stops : i <= j
      <3>1. PICK i \in 1..3 : i \in stops
        BY <1>5, <2>1
      <3>2. CASE 1 \in stops
        BY <2>1, <3>2
      <3>3. CASE 1 \notin stops /\ 2 \in stops
        BY <2>1, <3>3
      <3>4. CASE stops = {3}
        BY <3>4
      <3> QED
        BY <2>1, <3>1, <3>2, <3>3, <3>4
    <2>3. first \in stops
      BY <2>2
    <2>4. Evaluate(a, p, Rules, category) = SubSeq(all, 1, first)
      BY <1>5 DEF Evaluate, rules, all, stops
    <2> HIDE DEF first, S
    <2>5. SubSeq(all, 1, first) \in Seq(S)
      BY <1>3, <2>1, <2>3
    <2> QED
      BY <2>4, <2>5
  <1> QED
    BY <1>4, <1>5

\* No account action leaves Layer 4 approved on a profile that misses a source,
\* whatever the agent declares and however confident it is (AI-002,
\* service.py:168).
THEOREM AccountActionsNeedContext ==
  ASSUME NEW a, NEW p, NEW c, a.action_type \in AccountActions, p.partial_context
  PROVE  Verdict(a, p, c) # "APPROVED"
  <1> DEFINE regulatory == Evaluate(a, p, Rules, "REGULATORY")
             business == Evaluate(a, p, Rules, "BUSINESS_POLICY")
             responsible == << ConfidenceCheck(a, c, p.partial_context), PartialContextCheck(a, p) >>
             results == regulatory \o business \o responsible
  <1>1. CASE Has(regulatory, "BLOCKED")
    BY <1>1 DEF Verdict, EvaluateAction, Classify
  <1>2. CASE ~Has(regulatory, "BLOCKED")
    <2>1. EvaluateAction(a, p, c) = results
      BY <1>2 DEF EvaluateAction
    <2>2. PICK S, T : regulatory \in Seq(S) /\ business \in Seq(T)
      BY CategoryChecks
    <2>3. Len(responsible) = 2 /\ responsible[2] = PartialContextCheck(a, p)
      OBVIOUS
    <2>4. PartialContextCheck(a, p).status = "FLAGGED"
      BY DEF PartialContextCheck
    <2> DEFINE n == Len(regulatory) + Len(business) + 2
    <2> HIDE DEF regulatory, business, responsible
    <2>5. n \in DOMAIN results /\ results[n] = responsible[2]
      <3>1. responsible \in Seq({responsible[1], responsible[2]})
        BY DEF responsible
      <3>2. /\ Len(regulatory \o business) = Len(regulatory) + Len(business)
            /\ Len(regulatory) \in Nat /\ Len(business) \in Nat
            /\ regulatory \o business \in Seq(S \cup T)
        BY <2>2
      <3> DEFINE rest == regulatory \o business
      <3>3. rest \in Seq(S \cup T) /\ Len(rest) + 2 = n
        BY <3>2
      <3>4. 2 \in 1..Len(responsible)
        BY <2>3
      <3> HIDE DEF rest, n
      <3>5. /\ Len(rest) + 2 \in DOMAIN (rest \o responsible)
            /\ (rest \o responsible)[Len(rest) + 2] = responsible[2]
        BY <3>1, <3>3, <3>4, ConcatenationItems
      <3> QED
        BY <3>3, <3>5 DEF rest
    <2>6. Has(results, "FLAGGED")
      BY <2>3, <2>4, <2>5 DEF Has
    <2> QED
      BY <2>1, <2>6 DEF Verdict, Classify
  <1> QED
    BY <1>1, <1>2

-----------------------------------------------------------------------------
(* The review of one action (ActionReview), for any actions, profiles and   *)
(* confidences of the agents.                                               *)

\* An action the rules can be asked about (ReviewAssumption).
Proposal(a) ==
  /\ a.requires_approval \in BOOLEAN
  /\ a.customer_message \subseteq ProhibitedPhrases
  /\ \A field \in DOMAIN a.metadata :
       a.metadata[field] \in IF field = "metadata.intervention_7d" THEN Nat ELSE BOOLEAN
  /\ None \notin BOOLEAN \cup Nat

Attached(a, field, value) == field \in DOMAIN a.metadata /\ a.metadata[field] = value

\* What each rule matches, in the order of the rule files.
Regulated(a, i) ==
  \/ i = 1 /\ a.customer_message # {}
  \/ i = 2 /\ a.action_type = "SEND_SMS" /\ Attached(a, "metadata.sms_ok", FALSE)
  \/ /\ i = 3
     /\ a.action_type = "CREDIT_LIMIT_DECREASE"
     /\ Attached(a, "metadata.adverse_action_notice", FALSE)

Limited(a, i) ==
  \/ /\ i = 1
     /\ a.action_type = "SEND_PUSH_NOTIFICATION"
     /\ "metadata.intervention_7d" \in DOMAIN a.metadata
     /\ a.metadata["metadata.intervention_7d"] >= 3
  \/ i = 2 /\ a.action_type = "CREATE_HARDSHIP_ENROLLMENT_CASE" /\ a.requires_approval
  \/ /\ i = 3
     /\ a.action_type = "CREATE_HARDSHIP_ENROLLMENT_CASE"
     /\ Attached(a, "metadata.open_hardship_case", TRUE)

\* A rule that compares for equality.
LEMMA EqualsMatches ==
  ASSUME NEW a, NEW p, NEW type, NEW field, NEW value, NEW condition,
         condition = [action_type |-> type, field |-> field, operator |-> "EQUALS",
                      value |-> value]
  PROVE  ConditionMatches(a, p, condition)
           <=> type \in {"*", a.action_type} /\ FieldValue(a, p, field) = value
  BY DEF ConditionMatches

\* A flag has a value when it was attached with that value.
LEMMA FlagAttached ==
  ASSUME NEW a, NEW p, Proposal(a), NEW value \in BOOLEAN,
         NEW field \in {"metadata.sms_ok", "metadata.adverse_action_notice",
                        "metadata.open_hardship_case"}
  PROVE  FieldValue(a, p, field) = value <=> Attached(a, field, value)
  <1>1. FieldValue(a, p, field)
          = IF field \in DOMAIN a.metadata THEN a.metadata[field] ELSE None
    BY DEF FieldValue, MetadataFields
  <1> QED
    BY <1>1 DEF Attached, Proposal

LEMMA RulesMatch ==
  ASSUME NEW a, NEW p, Proposal(a), NEW i \in 1..3
  PROVE  /\ ConditionMatches(a, p, RegulatoryRules[i].condition) <=> Regulated(a, i)
         /\ ConditionMatches(a, p, BusinessRules[i].condition) <=> Limited(a, i)
  <1>1. /\ RegulatoryRules[1].condition =
             [action_type |-> "*", field |-> "customer_message", operator |-> "CONTAINS_ANY",
              value |-> ProhibitedPhrases]
        /\ RegulatoryRules[2].condition =
             [action_type |-> "SEND_SMS", field |-> "metadata.sms_ok", operator |-> "EQUALS",
              value |-> FALSE]
        /\ RegulatoryRules[3].condition =
             [action_type |-> "CREDIT_LIMIT_DECREASE", field |-> "metadata.adverse_action_notice",
              operator |-> "EQUALS", value |-> FALSE]
    BY DEF RegulatoryRules, Rule
  <1>2. /\ BusinessRules[1].condition =
             [action_type |-> "SEND_PUSH_NOTIFICATION", field |-> "metadata.intervention_7d",
              operator |-> "GREATER_THAN", value |-> 2]
        /\ BusinessRules[2].condition =
             [action_type |-> "CREATE_HARDSHIP_ENROLLMENT_CASE", field |-> "requires_approval",
              operator |-> "EQUALS", value |-> TRUE]
        /\ BusinessRules[3].condition =
             [action_type |-> "CREATE_HARDSHIP_ENROLLMENT_CASE",
              field |-> "metadata.open_hardship_case", operator |-> "EQUALS", value |-> TRUE]
    BY DEF BusinessRules, Rule
  <1>3. ConditionMatches(a, p, RegulatoryRules[1].condition)
          <=> a.customer_message # {}
    <2>1. FieldValue(a, p, "customer_message") = a.customer_message
      BY DEF FieldValue, MetadataFields
    <2>2. a.customer_message \cap ProhibitedPhrases # {} <=> a.customer_message # {}
      BY DEF Proposal
    <2> QED
      BY <1>1, <2>1, <2>2 DEF ConditionMatches
  <1>4. ConditionMatches(a, p, BusinessRules[1].condition)
          <=> /\ a.action_type = "SEND_PUSH_NOTIFICATION"
              /\ "metadata.intervention_7d" \in DOMAIN a.metadata
              /\ a.metadata["metadata.intervention_7d"] >= 3
    <2> DEFINE actual == FieldValue(a, p, "metadata.intervention_7d")
    <2>1. actual = IF "metadata.intervention_7d" \in DOMAIN a.metadata
                   THEN a.metadata["metadata.intervention_7d"] ELSE None
      BY DEF FieldValue, MetadataFields
    <2>2. Number(actual) > Number(2)
            <=> /\ "metadata.intervention_7d" \in DOMAIN a.metadata
                /\ a.metadata["metadata.intervention_7d"] >= 3
      <3>1. Number(2) = 2
        BY DEF Proposal, Number
      <3>2. CASE "metadata.intervention_7d" \in DOMAIN a.metadata
        <4>1. actual \in Nat /\ actual = a.metadata["metadata.intervention_7d"]
          BY <2>1, <3>2 DEF Proposal
        <4>2. Number(actual) = actual
          BY <4>1 DEF Proposal, Number
        <4> HIDE DEF actual
        <4> QED
          BY <3>1, <3>2, <4>1, <4>2
      <3>3. CASE "metadata.intervention_7d" \notin DOMAIN a.metadata
        BY <2>1, <3>1, <3>3 DEF Number
      <3> QED
        BY <3>2, <3>3
    <2> QED
      BY <1>2, <2>2 DEF ConditionMatches
  <1>5. ConditionMatches(a, p, BusinessRules[2].condition)
          <=> a.action_type = "CREATE_HARDSHIP_ENROLLMENT_CASE" /\ a.requires_approval
    <2>1. PICK value : value = TRUE
      OBVIOUS
    <2>2. BusinessRules[2].condition =
            [action_type |-> "CREATE_HARDSHIP_ENROLLMENT_CASE", field |-> "requires_approval",
             operator |-> "EQUALS", value |-> value]
      BY <1>2, <2>1, Zenon
    <2>3. FieldValue(a, p, "requires_approval") = a.requires_approval
      BY DEF FieldValue, MetadataFields
    <2>4. ConditionMatches(a, p, BusinessRules[2].condition)
            <=> /\ "CREATE_HARDSHIP_ENROLLMENT_CASE" \in {"*", a.action_type}
                /\ a.requires_approval = value
      BY <2>2, <2>3, EqualsMatches
    <2>5. (a.requires_approval = TRUE) <=> a.requires_approval
      BY DEF Proposal
    <2> QED
      BY <2>1, <2>4, <2>5
  <1>6. PICK yes \in BOOLEAN, no \in BOOLEAN : yes = TRUE /\ no = FALSE
    OBVIOUS
  <1>7. /\ ConditionMatches(a, p, RegulatoryRules[2].condition) <=> Regulated(a, 2)
        /\ ConditionMatches(a, p, RegulatoryRules[3].condition) <=> Regulated(a, 3)
        /\ ConditionMatches(a, p, BusinessRules[3].condition) <=> Limited(a, 3)
    <2>1. /\ RegulatoryRules[2].condition =
               [action_type |-> "SEND_SMS", field |-> "metadata.sms_ok", operator |-> "EQUALS",
                value |-> no]
          /\ RegulatoryRules[3].condition =
               [action_type |-> "CREDIT_LIMIT_DECREASE",
                field |-> "metadata.adverse_action_notice", operator |-> "EQUALS", value |-> no]
          /\ BusinessRules[3].condition =
               [action_type |-> "CREATE_HARDSHIP_ENROLLMENT_CASE",
                field |-> "metadata.open_hardship_case", operator |-> "EQUALS", value |-> yes]
      BY <1>1, <1>2, <1>6, Zenon
    <2>2. ConditionMatches(a, p, RegulatoryRules[2].condition)
            <=> "SEND_SMS" \in {"*", a.action_type} /\ Attached(a, "metadata.sms_ok", no)
      BY <2>1, EqualsMatches, FlagAttached
    <2>3. ConditionMatches(a, p, RegulatoryRules[3].condition)
            <=> /\ "CREDIT_LIMIT_DECREASE" \in {"*", a.action_type}
                /\ Attached(a, "metadata.adverse_action_notice", no)
      BY <2>1, EqualsMatches, FlagAttached
    <2>4. ConditionMatches(a, p, BusinessRules[3].condition)
            <=> /\ "CREATE_HARDSHIP_ENROLLMENT_CASE" \in {"*", a.action_type}
                /\ Attached(a, "metadata.open_hardship_case", yes)
      BY <2>1, EqualsMatches, FlagAttached
    <2>5. /\ Regulated(a, 2) <=> a.action_type = "SEND_SMS" /\ Attached(a, "metadata.sms_ok", no)
          /\ Regulated(a, 3) <=> /\ a.action_type = "CREDIT_LIMIT_DECREASE"
                                 /\ Attached(a, "metadata.adverse_action_notice", no)
          /\ Limited(a, 3) <=> /\ a.action_type = "CREATE_HARDSHIP_ENROLLMENT_CASE"
                               /\ Attached(a, "metadata.open_hardship_case", yes)
      <3>1. 2 # 1 /\ 2 # 3 /\ 3 # 1 /\ 3 # 2
        OBVIOUS
      <3> QED
        BY <1>6, <3>1, Zenon DEF Regulated, Limited
    <2> QED
      BY <2>2, <2>3, <2>4, <2>5
  <1>8. i = 1 \/ i = 2 \/ i = 3
    OBVIOUS
  <1> QED
    BY <1>3, <1>4, <1>5, <1>7, <1>8 DEF Regulated, Limited

LEMMA FunctionIsSeq ==
  ASSUME NEW S, NEW n \in Nat, NEW f \in [1..n -> S]
  PROVE  f \in Seq(S) /\ Len(f) = n
  BY SeqDef

LEMMA FirstItems ==
  ASSUME NEW S, NEW s \in Seq(S), NEW n \in 1..Len(s)
  PROVE  /\ SubSeq(s, 1, n) \in Seq(S) /\ DOMAIN SubSeq(s, 1, n) = 1..n
         /\ \A i \in 1..n : SubSeq(s, 1, n)[i] = s[i]
  <1>1. \A i \in 1..n : s[i] \in S
    <2> SUFFICES ASSUME NEW i \in 1..n PROVE s[i] \in S
      OBVIOUS
    <2>1. i \in 1..Len(s)
      OBVIOUS
    <2> QED
      BY <2>1, ElementOfSeq
  <1>2. /\ SubSeq(s, 1, n) \in Seq(S) /\ Len(SubSeq(s, 1, n)) = n
        /\ \A i \in 1..n : SubSeq(s, 1, n)[i] = s[i]
    BY <1>1, SubSeqProperties
  <1> QED
    BY <1>2

\* What the rules of the two categories say of an action.
LEMMA RuleStatuses ==
  ASSUME NEW a, NEW p, Proposal(a), NEW i \in 1..3
  PROVE  /\ EvaluateRule(a, p, "REGULATORY", RegulatoryRules[i]).status
              = IF Regulated(a, i) THEN "BLOCKED" ELSE "APPROVED"
         /\ EvaluateRule(a, p, "BUSINESS_POLICY", BusinessRules[i]).status
              = IF Limited(a, i) THEN IF i = 3 THEN "BLOCKED" ELSE "FLAGGED" ELSE "APPROVED"
  <1>1. StatusForRule(RegulatoryRules[i]) = "BLOCKED"
    <2>1. i = 1 \/ i = 2 \/ i = 3
      OBVIOUS
    <2> QED
      BY <2>1 DEF StatusForRule, RegulatoryRules, Rule
  <1>2. StatusForRule(BusinessRules[i]) = IF i = 3 THEN "BLOCKED" ELSE "FLAGGED"
    <2>1. i = 1 \/ i = 2 \/ i = 3
      OBVIOUS
    <2> QED
      BY <2>1 DEF StatusForRule, BusinessRules, Rule
  <1> QED
    BY <1>1, <1>2, RulesMatch DEF EvaluateRule


LEMMA RegulatoryChecks ==
  ASSUME NEW a, NEW p, Proposal(a)
  PROVE  LET found == Evaluate(a, p, Rules, "REGULATORY")
         IN  /\ \E S : found \in Seq(S)
             /\ Has(found, "BLOCKED") <=> \E i \in 1..3 : Regulated(a, i)
             /\ ~Has(found, "FLAGGED")
  <1> DEFINE rules == Rules["REGULATORY"]
             all   == [i \in DOMAIN rules |-> EvaluateRule(a, p, "REGULATORY", rules[i])]
             stops == {i \in DOMAIN all : "REGULATORY" = "REGULATORY" /\ all[i].status = "BLOCKED"}
             first == CHOOSE i \in stops : \A j \in stops : i <= j
             found == Evaluate(a, p, Rules, "REGULATORY")
             S     == {EvaluateRule(a, p, "REGULATORY", rules[i]) : i \in 1..3}
  <1>1. found = IF stops = {} THEN all ELSE SubSeq(all, 1, first)
    BY DEF Evaluate
  <1>2. rules = RegulatoryRules /\ DOMAIN rules = 1..3
    <2>1. DOMAIN RegulatoryRules = 1..3
      BY DEF RegulatoryRules
    <2> QED
      BY <2>1 DEF Rules
  <1>3. /\ DOMAIN all = 1..3
        /\ \A i \in 1..3 : all[i].status = IF Regulated(a, i) THEN "BLOCKED" ELSE "APPROVED"
    BY <1>2, RuleStatuses
  <1>4. all \in Seq(S) /\ Len(all) = 3
    <2>1. all \in [1..3 -> S]
      BY <1>2
    <2> HIDE DEF all, S
    <2> QED
      BY <2>1, FunctionIsSeq
  <1>5. stops = {i \in 1..3 : Regulated(a, i)}
    BY <1>3
  <1> HIDE DEF stops, all, S, found
  <1>6. CASE stops = {}
    <2>1. found = all
      BY <1>1, <1>6
    <2> QED
      BY <1>3, <1>4, <1>5, <1>6, <2>1 DEF Has, found
  <1>7. CASE stops # {}
    <2>1. \E i \in stops : \A j \in stops : i <= j
      <3>1. \A i \in stops : i \in 1..3
        BY <1>5
      <3>2. CASE 1 \in stops
        BY <3>1, <3>2
      <3>3. CASE 1 \notin stops /\ 2 \in stops
        BY <3>1, <3>3
      <3>4. CASE 1 \notin stops /\ 2 \notin stops
        BY <1>7, <3>1, <3>4
      <3> QED
        BY <3>2, <3>3, <3>4
    <2>2. first \in stops
      BY <2>1
    <2>3. first \in 1..3 /\ Regulated(a, first)
      BY <1>5, <2>2
    <2> HIDE DEF first
    <2>4. /\ SubSeq(all, 1, first) \in Seq(S) /\ DOMAIN SubSeq(all, 1, first) = 1..first
          /\ \A i \in 1..first : SubSeq(all, 1, first)[i] = all[i]
      <3>1. first \in 1..Len(all)
        BY <1>4, <2>3
      <3> QED
        BY <1>4, <3>1, FirstItems, Zenon
    <2>5. found = SubSeq(all, 1, first)
      BY <1>1, <1>7
    <2>6. first \in 1..first /\ \A i \in 1..first : i \in 1..3
      BY <2>3
    <2> QED
      BY <1>3, <2>3, <2>4, <2>5, <2>6 DEF Has, found
  <1> QED
    BY <1>6, <1>7

LEMMA BusinessChecks ==
  ASSUME NEW a, NEW p, Proposal(a)
  PROVE  LET found == Evaluate(a, p, Rules, "BUSINESS_POLICY")
         IN  /\ \E S : found \in Seq(S)
             /\ Has(found, "BLOCKED") <=> Limited(a, 3)
             /\ Has(found, "FLAGGED") <=> Limited(a, 1) \/ Limited(a, 2)
  <1> DEFINE rules == Rules["BUSINESS_POLICY"]
             found == Evaluate(a, p, Rules, "BUSINESS_POLICY")
             S     == {EvaluateRule(a, p, "BUSINESS_POLICY", rules[i]) : i \in 1..3}
  <1>1. found = [i \in DOMAIN rules |-> EvaluateRule(a, p, "BUSINESS_POLICY", rules[i])]
    BY DEF Evaluate
  <1>2. rules = BusinessRules /\ DOMAIN rules = 1..3
    <2>1. DOMAIN BusinessRules = 1..3
      BY DEF BusinessRules
    <2> QED
      BY <2>1 DEF Rules
  <1>3. /\ DOMAIN found = 1..3
        /\ \A i \in 1..3 : found[i].status =
             IF Limited(a, i) THEN IF i = 3 THEN "BLOCKED" ELSE "FLAGGED" ELSE "APPROVED"
    BY <1>1, <1>2, RuleStatuses
  <1>4. found \in Seq(S)
    <2>1. found \in [1..3 -> S]
      BY <1>1, <1>2
    <2> HIDE DEF found, S
    <2> QED
      BY <2>1, FunctionIsSeq
  <1> HIDE DEF found, S
  <1>5. 1 \in 1..3 /\ 2 \in 1..3 /\ 3 \in 1..3 /\ \A i \in 1..3 : i = 1 \/ i = 2 \/ i = 3
    OBVIOUS
  <1>6. /\ Has(found, "BLOCKED") <=> Limited(a, 3)
        /\ Has(found, "FLAGGED") <=> Limited(a, 1) \/ Limited(a, 2)
    BY <1>3, <1>5 DEF Has
  <1> QED
    BY <1>4, <1>6 DEF found

\* A concatenation holds what its parts hold.
LEMMA ConcatenationHas ==
  ASSUME NEW S, NEW s \in Seq(S), NEW T, NEW t \in Seq(T), NEW status
  PROVE  Has(s \o t, status) <=> Has(s, status) \/ Has(t, status)
  <1> DEFINE m == Len(s)
             n == Len(t)
             u == s \o t
  <1>1. /\ m \in Nat /\ n \in Nat /\ DOMAIN s = 1..m /\ DOMAIN t = 1..n
        /\ DOMAIN u = 1..(m + n)
        /\ \A i \in 1..m : u[i] = s[i]
        /\ \A i \in 1..n : u[m + i] = t[i]
    <2>1. s \in Seq(S \cup T) /\ t \in Seq(S \cup T)
      OBVIOUS
    <2>2. /\ u \in Seq(S \cup T) /\ Len(u) = m + n
          /\ \A i \in 1..(m + n) : u[i] = IF i <= m THEN s[i] ELSE t[i - m]
      BY <2>1, ConcatProperties
    <2> HIDE DEF u, m, n
    <2>3. m \in Nat /\ n \in Nat /\ DOMAIN s = 1..m /\ DOMAIN t = 1..n
      BY DEF m, n
    <2> QED
      BY <2>2, <2>3
  <1> HIDE DEF m, n, u
  <1>2. \A i \in 1..m : i \in 1..(m + n)
    BY <1>1
  <1>3. \A i \in 1..n : m + i \in 1..(m + n)
    BY <1>1
  <1>4. \A i \in 1..(m + n) : i \in 1..m \/ \E j \in 1..n : i = m + j
    <2> SUFFICES ASSUME NEW i \in 1..(m + n), i \notin 1..m PROVE i - m \in 1..n /\ i = m + (i - m)
      OBVIOUS
    <2> QED
      BY <1>1
  <1>5. Has(u, status) => Has(s, status) \/ Has(t, status)
    <2> SUFFICES ASSUME NEW i \in 1..(m + n), u[i].status = status
                 PROVE  Has(s, status) \/ Has(t, status)
      BY <1>1 DEF Has
    <2>1. CASE i \in 1..m
      BY <1>1, <2>1 DEF Has
    <2>2. ASSUME NEW j \in 1..n, i = m + j PROVE Has(t, status)
      <3>1. u[m + j] = t[j]
        BY <1>1
      <3> QED
        BY <1>1, <2>2, <3>1 DEF Has
    <2> QED
      BY <1>4, <2>1, <2>2
  <1>6. Has(s, status) => Has(u, status)
    BY <1>1, <1>2 DEF Has
  <1>7. Has(t, status) => Has(u, status)
    <2> SUFFICES ASSUME NEW j \in 1..n, t[j].status = status PROVE Has(u, status)
      BY <1>1 DEF Has
    <2>1. m + j \in 1..(m + n) /\ u[m + j].status = status
      BY <1>1, <1>3
    <2> QED
      BY <1>1, <2>1 DEF Has
  <1> QED
    BY <1>5, <1>6, <1>7 DEF u

\* An agent that was not confident enough, an account action on incomplete context.
Unsure(a, p, c) ==
  LET base == ConfidenceThreshold(a.action_type)
  IN  ~(c >= IF p.partial_context THEN RaisedThreshold(base) ELSE base)

Unfounded(a, p) == p.partial_context /\ a.action_type \in AccountActions

\* The outcome of a review, from what the rules match.
Outcome(a, p, c) ==
  IF (\E i \in 1..3 : Regulated(a, i)) \/ Limited(a, 3) THEN "BLOCKED"
  ELSE IF Limited(a, 1) \/ Limited(a, 2) \/ Unsure(a, p, c) \/ Unfounded(a, p) THEN "FLAGGED"
  ELSE "APPROVED"

\* Whether or not the checks after a regulatory block are left out, the verdict is
\* the outcome.
LEMMA VerdictIsOutcome ==
  ASSUME NEW a, NEW p, NEW c, Proposal(a)
  PROVE  /\ Verdict(a, p, c) = Outcome(a, p, c)
         /\ Classify(
              Evaluate(a, p, Rules, "REGULATORY")
                \o Evaluate(a, p, Rules, "BUSINESS_POLICY")
                \o << ConfidenceCheck(a, c, p.partial_context),
                      PartialContextCheck(a, p) >>) = Outcome(a, p, c)
  <1> DEFINE regulatory == Evaluate(a, p, Rules, "REGULATORY")
             business == Evaluate(a, p, Rules, "BUSINESS_POLICY")
             sure == ConfidenceCheck(a, c, p.partial_context)
             founded == PartialContextCheck(a, p)
             responsible == <<sure, founded>>
             all == regulatory \o business \o responsible
  <1>1. /\ sure.status = IF Unsure(a, p, c) THEN "FLAGGED" ELSE "APPROVED"
        /\ founded.status = IF Unfounded(a, p) THEN "FLAGGED" ELSE "APPROVED"
    BY DEF ConfidenceCheck, PartialContextCheck, Unsure, Unfounded
  <1>2. Verdict(a, p, c)
          = Classify(IF Has(regulatory, "BLOCKED") THEN regulatory ELSE all)
    BY DEF Verdict, EvaluateAction
  <1> HIDE DEF sure, founded
  <1>3. /\ responsible \in Seq({sure, founded})
        /\ Has(responsible, "FLAGGED") <=> Unsure(a, p, c) \/ Unfounded(a, p)
        /\ ~Has(responsible, "BLOCKED")
    <2>1. DOMAIN responsible = 1..2 /\ responsible[1] = sure /\ responsible[2] = founded
      OBVIOUS
    <2>2. 1 \in 1..2 /\ 2 \in 1..2 /\ \A i \in 1..2 : i = 1 \/ i = 2
      OBVIOUS
    <2>3. responsible \in Seq({sure, founded})
      OBVIOUS
    <2> HIDE DEF responsible
    <2> QED
      BY <1>1, <2>1, <2>2, <2>3 DEF Has
  <1>4. PICK S : regulatory \in Seq(S)
    BY RegulatoryChecks, Zenon
  <1>5. PICK T : business \in Seq(T)
    BY BusinessChecks, Zenon
  <1>6. /\ Has(regulatory, "BLOCKED") <=> \E i \in 1..3 : Regulated(a, i)
        /\ ~Has(regulatory, "FLAGGED")
        /\ Has(business, "BLOCKED") <=> Limited(a, 3)
        /\ Has(business, "FLAGGED") <=> Limited(a, 1) \/ Limited(a, 2)
    BY RegulatoryChecks, BusinessChecks, Zenon
  <1> HIDE DEF regulatory, business, responsible
  <1>7. regulatory \o business \in Seq(S \cup T)
    <2>1. regulatory \in Seq(S \cup T) /\ business \in Seq(S \cup T)
      BY <1>4, <1>5
    <2> QED
      BY <2>1
  <1>8. \A status : Has(all, status)
          <=> \/ Has(regulatory, status) \/ Has(business, status)
              \/ Has(responsible, status)
    BY <1>3, <1>4, <1>5, <1>7, ConcatenationHas, Zenon
  <1> HIDE DEF all
  <1>9. Classify(all) = Outcome(a, p, c)
    BY <1>3, <1>6, <1>8, Zenon DEF Classify, Outcome
  <1>10. Has(regulatory, "BLOCKED") => Classify(regulatory) = Outcome(a, p, c)
    BY <1>6 DEF Classify, Outcome
  <1> QED
    BY <1>2, <1>9, <1>10 DEF all, regulatory, business, responsible, sure, founded

LEMMA ReviewedOutcome ==
  ASSUME NEW a, NEW p, NEW c, Proposal(a)
  PROVE  Verdict(a, p, c) = Outcome(a, p, c)
  BY VerdictIsOutcome

\* Incomplete context makes an agent less sure, and nothing else.
LEMMA DegradedIsStricter ==
  ASSUME NEW a, NEW p, NEW q, NEW c \in Nat, p.partial_context, ~q.partial_context
  PROVE  Strictness(Outcome(a, p, c)) >= Strictness(Outcome(a, q, c))
  <1> DEFINE base == ConfidenceThreshold(a.action_type)
  <1>1. base \in Nat
    BY DEF ConfidenceThreshold
  <1>2. Unsure(a, p, c) <=> ~(c >= RaisedThreshold(base))
    BY DEF Unsure
  <1>3. Unsure(a, q, c) <=> ~(c >= base)
    BY DEF Unsure
  <1> HIDE DEF base
  <1>4. RaisedThreshold(base) \in Nat /\ RaisedThreshold(base) >= base
    BY <1>1 DEF RaisedThreshold
  <1>5. Unsure(a, q, c) => Unsure(a, p, c)
    BY <1>1, <1>2, <1>3, <1>4
  <1>6. ~Unfounded(a, q)
    BY DEF Unfounded
  <1>7. /\ Strictness("APPROVED") = 0 /\ Strictness("FLAGGED") = 1
        /\ Strictness("BLOCKED") = 2
    BY DEF Strictness
  <1>8. CASE (\E i \in 1..3 : Regulated(a, i)) \/ Limited(a, 3)
    BY <1>7, <1>8 DEF Outcome
  <1>9. CASE ~((\E i \in 1..3 : Regulated(a, i)) \/ Limited(a, 3))
    <2>1. Outcome(a, p, c) \in {"APPROVED", "FLAGGED"} /\ Outcome(a, q, c) \in {"APPROVED", "FLAGGED"}
      BY <1>9 DEF Outcome
    <2>2. Outcome(a, q, c) = "FLAGGED" => Outcome(a, p, c) = "FLAGGED"
      BY <1>5, <1>6, <1>9 DEF Outcome
    <2> QED
      BY <1>7, <2>1, <2>2
  <1> QED
    BY <1>8, <1>9

\* The input is one of the bounded inputs, and once there are checks, the verdict on
\* it is the outcome.
ReviewInv ==
  /\ action \in Actions /\ profile \in Profiles /\ confidence \in Confidences
  /\ checks # None => verdict = Outcome(action, profile, confidence)

LEMMA ReviewInvariant == ReviewSpec => []ReviewInv
  <1>1. ReviewInit => ReviewInv
    BY DEF ReviewInit, ReviewInv
  <1>2. ReviewInv /\ [Review]_(reviewVars) => ReviewInv'
    <2> SUFFICES ASSUME ReviewInv, [Review]_(reviewVars) PROVE ReviewInv'
      OBVIOUS
    <2>1. CASE Review
      <3>1. Proposal(action)
        BY ReviewAssumption DEF ReviewInv, Proposal
      <3>2. verdict' = Verdict(action, profile, confidence)
        BY <2>1 DEF Review, Verdict
      <3>3. PICK a, p, c : a = action /\ p = profile /\ c = confidence
        OBVIOUS
      <3>4. Verdict(a, p, c) = Outcome(a, p, c)
        <4>1. Proposal(a)
          BY <3>1, <3>3
        <4> QED
          BY <4>1, ReviewedOutcome
      <3> QED
        BY <2>1, <3>2, <3>3, <3>4 DEF Review, ReviewInv
    <2>2. CASE UNCHANGED reviewVars
      BY <2>2 DEF reviewVars, ReviewInv
    <2> QED
      BY <2>1, <2>2 DEF Review
  <1> QED
    BY <1>1, <1>2, PTL DEF ReviewSpec

\* Layer 4 approves exactly the actions that no policy forbids and whose agent was
\* confident enough, whatever the actions, the profiles and the confidences
\* (rule_engine.py, service.py).
THEOREM ReviewsApproveThePermitted == ReviewSpec => []ApprovedExactlyWhenPermitted
  <1>1. ReviewInv => ApprovedExactlyWhenPermitted
    <2> SUFFICES ASSUME ReviewInv, checks # None
                 PROVE  verdict = "APPROVED" <=>
                          /\ ~Forbidden
                          /\ confidence >=
                               IF profile.partial_context
                               THEN RaisedThreshold(
                                      ConfidenceThreshold(action.action_type))
                               ELSE ConfidenceThreshold(action.action_type)
      BY DEF ApprovedExactlyWhenPermitted, Reviewed
    <2>1. verdict = Outcome(action, profile, confidence)
      BY DEF ReviewInv
    <2>2. Forbidden <=> \/ \E i \in 1..3 : Regulated(action, i) \/ Limited(action, i)
                               \/ Unfounded(action, profile)
      <3>1. 1 \in 1..3 /\ 2 \in 1..3 /\ 3 \in 1..3 /\ \A i \in 1..3 : i = 1 \/ i = 2 \/ i = 3
        OBVIOUS
      <3>2. 1 # 2 /\ 1 # 3 /\ 2 # 3
        OBVIOUS
      <3>3. /\ Regulated(action, 1) <=> action.customer_message # {}
            /\ Regulated(action, 2)
                 <=> action.action_type = "SEND_SMS" /\ Declares("metadata.sms_ok", FALSE)
            /\ Regulated(action, 3)
                 <=> /\ action.action_type = "CREDIT_LIMIT_DECREASE"
                     /\ Declares("metadata.adverse_action_notice", FALSE)
        BY <3>2, Zenon DEF Regulated, Attached, Declares
      <3>4. /\ Limited(action, 1)
                 <=> /\ action.action_type = "SEND_PUSH_NOTIFICATION"
                     /\ "metadata.intervention_7d" \in DOMAIN action.metadata
                     /\ action.metadata["metadata.intervention_7d"] >= 3
            /\ Limited(action, 2)
                 <=> action.action_type = "CREATE_HARDSHIP_ENROLLMENT_CASE"
                     /\ action.requires_approval
            /\ Limited(action, 3)
                 <=> /\ action.action_type = "CREATE_HARDSHIP_ENROLLMENT_CASE"
                     /\ Declares("metadata.open_hardship_case", TRUE)
        BY <3>2, Zenon DEF Limited, Attached, Declares
      <3>5. Forbidden <=> \/ Regulated(action, 1) \/ Regulated(action, 2)
                                 \/ Regulated(action, 3) \/ Limited(action, 1)
                                 \/ Limited(action, 2) \/ Limited(action, 3)
                                 \/ Unfounded(action, profile)
        BY <3>3, <3>4, Zenon DEF Forbidden, Unfounded
      <3> QED
        BY <3>1, <3>5
    <2>3. verdict = "APPROVED" <=> ~Forbidden /\ ~Unsure(action, profile, confidence)
      <3>1. \A i \in 1..3 : i = 1 \/ i = 2 \/ i = 3
        OBVIOUS
      <3>2. "APPROVED" # "BLOCKED" /\ "APPROVED" # "FLAGGED"
        OBVIOUS
      <3> QED
        BY <2>1, <2>2, <3>1, <3>2 DEF Outcome
    <2> QED
      BY <2>3, Zenon DEF Unsure
  <1> QED
    BY <1>1, ReviewInvariant, PTL

\* Leaving out the checks after a regulatory block changes no verdict (service.py:152).
THEOREM ShortCircuitsAreHarmless == ReviewSpec => []ShortCircuitKeepsVerdict
  <1>1. ReviewInv => ShortCircuitKeepsVerdict
    <2> SUFFICES ASSUME ReviewInv, checks # None PROVE ShortCircuitKeepsVerdict
      BY DEF ShortCircuitKeepsVerdict, Reviewed
    <2>1. PICK a, p, c : a = action /\ p = profile /\ c = confidence
      OBVIOUS
    <2>2. Proposal(a)
      BY <2>1, ReviewAssumption DEF ReviewInv, Proposal
    <2>3. Classify(
            Evaluate(a, p, Rules, "REGULATORY")
              \o Evaluate(a, p, Rules, "BUSINESS_POLICY")
              \o << ConfidenceCheck(a, c, p.partial_context),
                    PartialContextCheck(a, p) >>) = Outcome(a, p, c)
      BY <2>2, VerdictIsOutcome
    <2> QED
      BY <2>1, <2>3 DEF ShortCircuitKeepsVerdict, ReviewInv
  <1> QED
    BY <1>1, ReviewInvariant, PTL

\* Losing a source never makes Layer 4 more permissive.
THEOREM DegradedContextNeverLoosens == ReviewSpec => []DegradedNeverLoosens
  <1>1. ReviewInv => DegradedNeverLoosens
    <2> SUFFICES ASSUME ReviewInv PROVE DegradedNeverLoosens
      OBVIOUS
    <2>1. PICK p : p = [profile EXCEPT !.partial_context = TRUE]
      BY Zenon
    <2>2. PICK q : q = [profile EXCEPT !.partial_context = FALSE]
      BY Zenon
    <2>3. PICK a, c : a = action /\ c = confidence
      OBVIOUS
    <2>4. Proposal(a)
      BY <2>3, ReviewAssumption DEF ReviewInv, Proposal
    <2>5. p.partial_context /\ ~q.partial_context
      BY <2>1, <2>2, ReviewAssumption DEF ReviewInv
    <2>6. c \in Nat
      BY <2>3, ReviewAssumption DEF ReviewInv
    <2>7. Strictness(Outcome(a, p, c)) >= Strictness(Outcome(a, q, c))
      BY <2>5, <2>6, DegradedIsStricter
    <2>8. Verdict(a, p, c) = Outcome(a, p, c) /\ Verdict(a, q, c) = Outcome(a, q, c)
      BY <2>4, ReviewedOutcome
    <2> QED
      BY <2>1, <2>2, <2>3, <2>7, <2>8 DEF DegradedNeverLoosens
  <1> QED
    BY <1>1, ReviewInvariant, PTL

-----------------------------------------------------------------------------
(* The stages of a run.                                                    *)

\* The inductive invariant: typing needs the bounds of the review cursor, and
\* those need the stages.
PipelineInv == TypeOK /\ StageConsistency

-----------------------------------------------------------------------------
(* Helpers every layer is made of.                                         *)

\* Any variant of an action is sendable in its name.
LEMMA VariantsAreWordings ==
  ASSUME NEW a \in Action
  PROVE  Variants(a) \subseteq SendableAs(a)
  <1>1. VariantWording[a.action_type] \subseteq Wording
    BY PipelineAssumption DEF PipelineAssumption
  <1> QED
    BY <1>1 DEF Variants, SendableAs, Reworded

\* The initial states satisfy the invariant.
LEMMA InitInv == Init => PipelineInv
  <1> SUFFICES ASSUME Init PROVE PipelineInv
    OBVIOUS
  <1>1. TypeOK
    BY PipelineAssumption
    DEF Init, TypeOK, PipelineAssumption, Steps, Statuses
  <1>2. StageConsistency
    BY DEF Init, StageConsistency, RunStage, Executed, Finished
  <1> QED
    BY <1>1, <1>2 DEF PipelineInv

\* Reporting one of the statuses keeps the status table typed.
LEMMA ReportTypes ==
  ASSUME TypeOK, NEW r \in Run, NEW new \in Statuses, Report(r, new)
  PROVE  status_by_trace' \in [Trace -> Statuses]
  BY DEF TypeOK, Report

\* The statuses that runs report.
LEMMA StatusValues ==
  /\ "started" \in Statuses
  /\ "running" \in Statuses
  /\ "completed" \in Statuses
  /\ "failed" \in Statuses
  BY DEF Statuses

\* An aborted run has failed, and its status is one of the statuses.
LEMMA AbortTypes ==
  ASSUME TypeOK, NEW r \in Run, NEW layer, Abort(r, layer)
  PROVE  /\ pc' = [pc EXCEPT ![r] = "failed"]
         /\ status_by_trace' \in [Trace -> Statuses]
  <1>1. pc' = [pc EXCEPT ![r] = "failed"]
    BY DEF Abort, Goto
  <1>2. CASE r \in ApiRun
    BY <1>1, <1>2, StatusValues, ReportTypes DEF Abort
  <1>3. CASE r \notin ApiRun
    BY <1>1, <1>3 DEF Abort, TypeOK
  <1> QED
    BY <1>2, <1>3

\* A layer that returns moves its run on and leaves the status as it was.
LEMMA AdvanceTypes ==
  ASSUME TypeOK, NEW r \in Run, NEW layer, NEW next, Advance(r, layer, next)
  PROVE  /\ pc' = [pc EXCEPT ![r] = next]
         /\ status_by_trace' \in [Trace -> Statuses]
  BY DEF TypeOK, Advance, Goto

\* A layer that closes with its audit write either stored it and went on, or
\* was refused and failed; the shared tables stay typed.
LEMMA StoredTypes ==
  ASSUME TypeOK, NEW r \in Run, NEW event \in AuditEvents, NEW trace \in Trace,
         NEW layer, NEW next, Stored(r, event, trace, layer, next)
  PROVE  /\ pc' = [pc EXCEPT ![r] = next]
         /\ status_by_trace' \in [Trace -> Statuses]
         /\ audit' \subseteq [event : AuditEvents, trace : Trace, run : Run]
         /\ faults' \in 0..MaxFaults
  <1>1. Record(r, event, trace) \in [event : AuditEvents, trace : Trace, run : Run]
    BY DEF Record
  <1>2. audit' \subseteq [event : AuditEvents, trace : Trace, run : Run]
    BY <1>1 DEF Stored, TypeOK
  <1>3. faults' \in 0..MaxFaults
    BY DEF Stored, TypeOK
  <1> QED
    BY <1>2, <1>3, AdvanceTypes DEF Stored

\* The number of faults stays within its bound.
LEMMA FaultTypes ==
  ASSUME TypeOK, Fault
  PROVE  faults' \in 0..MaxFaults
  BY PipelineAssumption DEF TypeOK, Fault, PipelineAssumption

\* A refused audit write fails the run.
LEMMA RefusedTypes ==
  ASSUME TypeOK, NEW r \in Run, NEW layer, Refused(r, layer)
  PROVE  /\ pc' = [pc EXCEPT ![r] = "failed"]
         /\ status_by_trace' \in [Trace -> Statuses]
         /\ audit' \subseteq [event : AuditEvents, trace : Trace, run : Run]
         /\ faults' \in 0..MaxFaults
  <1>1. audit' \subseteq [event : AuditEvents, trace : Trace, run : Run]
    BY DEF Refused, TypeOK
  <1> QED
    BY <1>1, FaultTypes, AbortTypes DEF Refused

\* Closing a layer moves the run on or fails it.
LEMMA AuditedTypes ==
  ASSUME TypeOK, NEW r \in Run, NEW event \in AuditEvents, NEW trace \in Trace,
         NEW layer, NEW next, Audited(r, event, trace, layer, next)
  PROVE  /\ pc' = [pc EXCEPT ![r] = next] \/ pc' = [pc EXCEPT ![r] = "failed"]
         /\ status_by_trace' \in [Trace -> Statuses]
         /\ audit' \subseteq [event : AuditEvents, trace : Trace, run : Run]
         /\ faults' \in 0..MaxFaults
  BY StoredTypes, RefusedTypes DEF Audited

\* The session and the trace of a run are traces.
LEMMA TraceNames ==
  ASSUME NEW r \in Run
  PROVE  SessionOf[r] \in Session /\ SessionOf[r] \in Trace /\ TraceOf[r] \in Trace
  BY DEF Session, Trace

\* A run that finds no profile fails and records nothing.
LEMMA SessionExpiredTypes ==
  ASSUME TypeOK, NEW r \in Run, NEW layer, SessionExpired(r, layer)
  PROVE  /\ pc' = [pc EXCEPT ![r] = "failed"]
         /\ status_by_trace' \in [Trace -> Statuses]
         /\ audit' = audit
         /\ faults' = faults
  BY AbortTypes DEF SessionExpired

\* A step to one of the steps keeps the program counters typed.
LEMMA GotoTypes ==
  ASSUME TypeOK, NEW r \in Run, NEW step \in Steps, pc' = [pc EXCEPT ![r] = step]
  PROVE  pc' \in [Run -> Steps]
  BY DEF TypeOK

\* The events that layers record.
LEMMA AuditEventNames ==
  /\ "CONTEXT_ASSEMBLY" \in AuditEvents
  /\ "VECTOR_RETRIEVAL" \in AuditEvents
  /\ "ORCHESTRATION_COMPLETE" \in AuditEvents
  /\ "GUARDRAILS_EVALUATION" \in AuditEvents
  /\ "AB_ASSIGNMENT" \in AuditEvents
  /\ "ACTION_EXECUTED" \in AuditEvents
  BY DEF AuditEvents

\* The steps that actions go to.
LEMMA StepNames ==
  /\ "submitted" \in Steps /\ "L1" \in Steps /\ "L2" \in Steps /\ "L3" \in Steps
  /\ "L4" \in Steps /\ "judging" \in Steps /\ "L5" \in Steps /\ "L6" \in Steps
  /\ "sent" \in Steps /\ "done" \in Steps /\ "failed" \in Steps
  BY DEF Steps, Finished

-----------------------------------------------------------------------------
(* Every action keeps the types.                                           *)

\* Submit keeps the types.
LEMMA SubmitTypes ==
  ASSUME PipelineInv, NEW r \in Run, Submit(r)
  PROVE  TypeOK'
  <1>1. status_by_trace' \in [Trace -> Statuses]
    BY ReportTypes, StatusValues DEF PipelineInv, Submit
  <1>2. pc' \in [Run -> Steps]
    BY GotoTypes, StepNames DEF PipelineInv, Submit, Goto
  <1> QED
    BY <1>1, <1>2 DEF PipelineInv, TypeOK, Submit, judged

\* Begin keeps the types.
LEMMA BeginTypes ==
  ASSUME PipelineInv, NEW r \in Run, Begin(r)
  PROVE  TypeOK'
  <1>1. status_by_trace' \in [Trace -> Statuses]
    BY ReportTypes, StatusValues DEF PipelineInv, Begin
  <1>2. pc' \in [Run -> Steps]
    BY GotoTypes, StepNames DEF PipelineInv, Begin, Goto
  <1> QED
    BY <1>1, <1>2 DEF PipelineInv, TypeOK, Begin, judged

\* The part of the state that closing a layer touches.
Closing ==
  /\ pc \in [Run -> Steps]
  /\ status_by_trace \in [Trace -> Statuses]
  /\ audit \subseteq [event : AuditEvents, trace : Trace, run : Run]
  /\ faults \in 0..MaxFaults

\* What Audited touches stays typed.
LEMMA AuditedClosing ==
  ASSUME TypeOK, NEW r \in Run, NEW event \in AuditEvents, NEW trace \in Trace,
         NEW layer, NEW next \in Steps, Audited(r, event, trace, layer, next)
  PROVE  Closing'
  BY AuditedTypes, GotoTypes, StepNames DEF Closing

\* What Stored touches stays typed.
LEMMA StoredClosing ==
  ASSUME TypeOK, NEW r \in Run, NEW event \in AuditEvents, NEW trace \in Trace,
         NEW layer, NEW next \in Steps, Stored(r, event, trace, layer, next)
  PROVE  Closing'
  BY StoredTypes, GotoTypes DEF Closing

\* What Refused touches stays typed.
LEMMA RefusedClosing ==
  ASSUME TypeOK, NEW r \in Run, NEW layer, Refused(r, layer)
  PROVE  Closing'
  BY RefusedTypes, GotoTypes, StepNames DEF Closing

\* What SessionExpired touches stays typed.
LEMMA SessionExpiredClosing ==
  ASSUME TypeOK, NEW r \in Run, NEW layer, SessionExpired(r, layer)
  PROVE  Closing'
  BY SessionExpiredTypes, GotoTypes, StepNames DEF Closing, TypeOK

\* What Fault touches stays typed.
LEMMA FaultClosing ==
  ASSUME TypeOK, NEW r \in Run, NEW layer, NEW next \in Steps, Fault,
         Advance(r, layer, next) \/ Abort(r, layer), audit' = audit
  PROVE  Closing'
  BY FaultTypes, AdvanceTypes, AbortTypes, GotoTypes, StepNames DEF Closing, TypeOK

\* AssembleContext keeps the types.
LEMMA AssembleContextTypes ==
  ASSUME PipelineInv, NEW r \in Run, AssembleContext(r)
  PROVE  TypeOK'
  <1> USE DEF PipelineInv
  <1>1. Closing'
    <2>1. CASE Audited(r, "CONTEXT_ASSEMBLY", SessionOf[r], "L1", "L2")
      BY <2>1, AuditedClosing, AuditEventNames, StepNames, TraceNames
    <2>2. CASE ContextAuditDropped(r)
      BY <2>2, AdvanceTypes, GotoTypes, StepNames DEF ContextAuditDropped, Closing, TypeOK
    <2>3. CASE Abort(r, "L1") /\ UNCHANGED <<audit, faults>>
      BY <2>3, AbortTypes, GotoTypes, StepNames DEF Closing, TypeOK
    <2>4. CASE Fault /\ Abort(r, "L1") /\ UNCHANGED audit
      BY <2>4, FaultClosing, StepNames
    <2> QED
      BY <2>1, <2>2, <2>3, <2>4 DEF AssembleContext
  <1>2. context' \in [Session -> Profile \cup {None}]
    <2>1. CASE UNCHANGED context
      BY <2>1 DEF TypeOK
    <2>2. ASSUME NEW partial \in BOOLEAN,
                 Store(r, [assembled_by |-> r, partial_context |-> partial])
          PROVE  context' \in [Session -> Profile \cup {None}]
      BY <2>2, TraceNames DEF TypeOK, Store, Profile
    <2> QED
      BY <2>1, <2>2 DEF AssembleContext
  <1> QED
    BY <1>1, <1>2 DEF TypeOK, Closing, AssembleContext, judged

\* ExpireContext keeps the types.
LEMMA ExpireContextTypes ==
  ASSUME PipelineInv, NEW s \in Session, ExpireContext(s)
  PROVE  TypeOK'
  BY DEF PipelineInv, TypeOK, ExpireContext, judged

\* RetrievePolicy keeps the types.
LEMMA RetrievePolicyTypes ==
  ASSUME PipelineInv, NEW r \in Run, RetrievePolicy(r)
  PROVE  TypeOK'
  <1> USE DEF PipelineInv
  <1>1. Closing'
    BY SessionExpiredClosing, AuditedClosing, AuditEventNames, StepNames, TraceNames
    DEF RetrievePolicy
  <1> QED
    BY <1>1 DEF TypeOK, Closing, RetrievePolicy, judged

\* Orchestrate keeps the types.
LEMMA OrchestrateTypes ==
  ASSUME PipelineInv, NEW r \in Run, Orchestrate(r)
  PROVE  TypeOK'
  <1> USE DEF PipelineInv
  <1>1. Closing'
    <2>1. CASE SessionExpired(r, "L3")
      BY <2>1, SessionExpiredClosing
    <2>2. CASE Stored(r, "ORCHESTRATION_COMPLETE", TraceOf[r], "L3", "L4")
      BY <2>2, StoredClosing, AuditEventNames, StepNames, TraceNames
    <2>3. CASE Fault /\ (Advance(r, "L3", "L4") \/ Abort(r, "L3")) /\ UNCHANGED audit
      BY <2>3, FaultClosing, StepNames
    <2>4. CASE Abort(r, "L3") /\ UNCHANGED <<audit, faults>>
      BY <2>4, AbortTypes, StepNames DEF TypeOK, Closing
    <2> QED
      BY <2>1, <2>2, <2>3, <2>4 DEF Orchestrate
  <1>2. seen' \in [Run -> Profile \cup {None}]
    BY TraceNames DEF TypeOK, Orchestrate
  <1>5. certainty' \in [Run -> Confidence \cup {0}]
    BY DEF TypeOK, Orchestrate
  <1>3. proposed' \in [Run -> Seq(Action)]
    BY PipelineAssumption DEF TypeOK, Orchestrate, PipelineAssumption
  <1>4. \A q \in Run : cursor'[q] \in 1..(Len(proposed'[q]) + 1)
    <2>1. cursor[r] = 1
      BY DEF Orchestrate, StageConsistency, RunStage, Unreviewed
    <2>2. \A q \in Run \ {r} : proposed'[q] = proposed[q]
      BY DEF TypeOK, Orchestrate
    <2>3. cursor' = cursor
      BY DEF Orchestrate, judged
    <2>4. ASSUME NEW q \in Run
          PROVE  cursor'[q] \in 1..(Len(proposed'[q]) + 1)
      <3>1. Len(proposed'[q]) \in Nat
        BY <1>3
      <3>2. CASE q = r
        BY <2>1, <2>3, <3>1, <3>2
      <3>3. CASE q # r
        BY <2>2, <2>3, <3>3 DEF TypeOK
      <3> QED
        BY <3>2, <3>3
    <2> QED
      BY <2>4
  <1> QED
    BY <1>1, <1>2, <1>3, <1>4, <1>5 DEF TypeOK, Closing, Orchestrate, judged

\* LoadReview keeps the types.
LEMMA LoadReviewTypes ==
  ASSUME PipelineInv, NEW r \in Run, LoadReview(r)
  PROVE  TypeOK'
  <1> USE DEF PipelineInv
  <1>1. Closing'
    <2>1. CASE SessionExpired(r, "L4")
      BY <2>1, SessionExpiredClosing
    <2>2. CASE Goto(r, "judging") /\ UNCHANGED <<audit, status_by_trace, events, faults>>
      BY <2>2, GotoTypes, StepNames DEF Closing, TypeOK, Goto
    <2>3. CASE Fault /\ Abort(r, "L4") /\ UNCHANGED audit
      BY <2>3, FaultClosing, StepNames
    <2> QED
      BY <2>1, <2>2, <2>3 DEF LoadReview
  <1>2. reviewed' \in [Run -> Profile \cup {None}]
    BY TraceNames DEF TypeOK, LoadReview
  <1> QED
    BY <1>1, <1>2 DEF TypeOK, Closing, LoadReview, judged

\* The action under review is one of the proposals.
LEMMA JudgedAction ==
  ASSUME TypeOK, NEW r \in Run, Judging(r)
  PROVE  /\ cursor[r] \in DOMAIN proposed[r]
         /\ proposed[r][cursor[r]] \in Action
         /\ cursor[r] + 1 \in 1..(Len(proposed[r]) + 1)
  <1>1. proposed[r] \in Seq(Action) /\ cursor[r] \in Nat /\ cursor[r] >= 1
    BY DEF TypeOK
  <1>2. Len(proposed[r]) \in Nat /\ DOMAIN proposed[r] = 1..Len(proposed[r])
    BY <1>1
  <1>3. cursor[r] \in 1..Len(proposed[r])
    BY <1>1, <1>2 DEF Judging
  <1> QED
    BY <1>1, <1>2, <1>3

\* Moving the cursor past the action under review.
LEMMA CursorTypes ==
  ASSUME TypeOK, NEW r \in Run, Judging(r),
         cursor' = [cursor EXCEPT ![r] = @ + 1], proposed' = proposed
  PROVE  /\ cursor' \in [Run -> Nat]
         /\ \A q \in Run : cursor'[q] \in 1..(Len(proposed'[q]) + 1)
  <1>1. cursor' \in [Run -> Nat]
    BY DEF TypeOK
  <1>2. ASSUME NEW q \in Run
        PROVE  cursor'[q] \in 1..(Len(proposed'[q]) + 1)
    <2>1. CASE q = r
      BY <2>1, JudgedAction DEF TypeOK
    <2>2. CASE q # r
      BY <2>2 DEF TypeOK
    <2> QED
      BY <2>1, <2>2
  <1> QED
    BY <1>1, <1>2

\* JudgeAction keeps the types.
LEMMA JudgeActionTypes ==
  ASSUME PipelineInv, NEW r \in Run, JudgeAction(r)
  PROVE  TypeOK'
  <1> USE DEF PipelineInv
  <1>1. /\ cursor' \in [Run -> Nat]
        /\ \A q \in Run : cursor'[q] \in 1..(Len(proposed'[q]) + 1)
    BY CursorTypes DEF JudgeAction
  <1>2. proposed[r][cursor[r]] \in Action
    BY JudgedAction DEF JudgeAction
  <1>3. approved' \in [Run -> Seq(Action)] /\ blocked' \in [Run -> Seq(Action)]
    <2>1. /\ Append(approved[r], proposed[r][cursor[r]]) \in Seq(Action)
          /\ Append(blocked[r], proposed[r][cursor[r]]) \in Seq(Action)
      BY <1>2 DEF TypeOK
    <2>2. \/ blocked' = [blocked EXCEPT ![r] = Append(@, proposed[r][cursor[r]])]
             /\ approved' = approved
          \/ approved' = [approved EXCEPT ![r] = Append(@, proposed[r][cursor[r]])]
             /\ blocked' = blocked
      BY DEF JudgeAction
    <2> QED
      BY <2>1, <2>2 DEF TypeOK
  <1> QED
    BY <1>1, <1>3 DEF TypeOK, JudgeAction, shared

\* FlagAction keeps the types.
LEMMA FlagActionTypes ==
  ASSUME PipelineInv, NEW r \in Run, FlagAction(r)
  PROVE  TypeOK'
  <1> USE DEF PipelineInv
  <1>1. Closing'
    <2>1. CASE UNCHANGED <<pc, status_by_trace, events, faults>>
      BY <2>1 DEF FlagAction, Closing, TypeOK
    <2>2. CASE Fault /\ Abort(r, "L4")
      BY <2>2, FaultClosing, StepNames DEF FlagAction
    <2> QED
      BY <2>1, <2>2 DEF FlagAction
  <1>2. /\ cursor' \in [Run -> Nat]
        /\ \A q \in Run : cursor'[q] \in 1..(Len(proposed'[q]) + 1)
    BY CursorTypes DEF FlagAction
  <1>3. proposed[r][cursor[r]] \in Action
    BY JudgedAction DEF FlagAction
  <1>4. flagged' \in [Run -> Seq(Action)]
    BY <1>3 DEF TypeOK, FlagAction
  <1>5. queue' \in Seq([run : Run, action : Action])
    BY <1>3 DEF TypeOK, FlagAction, Enqueue
  <1> QED
    BY <1>1, <1>2, <1>4, <1>5 DEF TypeOK, Closing, FlagAction

\* FinishReview keeps the types.
LEMMA FinishReviewTypes ==
  ASSUME PipelineInv, NEW r \in Run, FinishReview(r)
  PROVE  TypeOK'
  <1> USE DEF PipelineInv
  <1>1. Closing'
    BY AuditedClosing, AuditEventNames, StepNames, TraceNames DEF FinishReview
  <1> QED
    BY <1>1 DEF TypeOK, Closing, FinishReview, judged

\* A choice of variants for the approved actions is a list of sendable actions.
LEMMA ChoiceTypes ==
  ASSUME TypeOK, NEW r \in Run,
         NEW choice \in [DOMAIN approved[r] -> UNION {Variants(a) : a \in Entries(approved[r])}],
         \A i \in DOMAIN choice : choice[i] \in Variants(approved[r][i])
  PROVE  choice \in Seq(Sendable) /\ DOMAIN choice = DOMAIN approved[r]
  <1>1. approved[r] \in Seq(Action) /\ DOMAIN choice = DOMAIN approved[r]
    BY DEF TypeOK
  <1>2. \A i \in DOMAIN choice : approved[r][i] \in Action
    BY <1>1
  <1>3. \A i \in DOMAIN choice : choice[i] \in SendableAs(approved[r][i])
    BY <1>2, VariantsAreWordings
  <1>4. \A i \in DOMAIN choice : choice[i] \in Sendable
    BY <1>2, <1>3 DEF Sendable
  <1>5. Len(approved[r]) \in Nat /\ DOMAIN approved[r] = 1..Len(approved[r])
    BY <1>1
  <1>6. choice \in [1..Len(approved[r]) -> Sendable]
    BY <1>4, <1>5
  <1>7. choice \in Seq(Sendable)
    BY <1>5, <1>6, SeqDef
  <1> QED
    BY <1>1, <1>7

\* SelectVariants keeps the types.
LEMMA SelectVariantsTypes ==
  ASSUME PipelineInv, NEW r \in Run, SelectVariants(r)
  PROVE  TypeOK'
  <1> USE DEF PipelineInv
  <1>1. Closing'
    BY StoredClosing, RefusedClosing, AuditEventNames, StepNames, TraceNames
    DEF SelectVariants
  <1>2. chosen' \in [Run -> Seq(Sendable)]
    <2>1. CASE UNCHANGED chosen
      BY <2>1 DEF TypeOK
    <2>2. ASSUME NEW choice \in [DOMAIN approved[r] -> UNION {Variants(a) : a \in Entries(approved[r])}],
                 \A i \in DOMAIN choice : choice[i] \in Variants(approved[r][i]),
                 chosen' = [chosen EXCEPT ![r] = choice]
          PROVE  chosen' \in [Run -> Seq(Sendable)]
      <3>1. choice \in Seq(Sendable)
        BY <2>2, ChoiceTypes
      <3> QED
        BY <2>2, <3>1 DEF TypeOK
    <2> QED
      BY <2>1, <2>2 DEF SelectVariants
  <1> QED
    BY <1>1, <1>2 DEF TypeOK, Closing, SelectVariants, judged

\* SendAction keeps the types.
LEMMA SendActionTypes ==
  ASSUME PipelineInv, NEW r \in Run, SendAction(r)
  PROVE  TypeOK'
  <1> USE DEF PipelineInv
  <1>1. Closing'
    <2>1. CASE Goto(r, "sent") /\ UNCHANGED <<status_by_trace, events, faults>>
      BY <2>1, GotoTypes, StepNames DEF SendAction, Closing, TypeOK, Goto
    <2>2. CASE Fault /\ Abort(r, "L6")
      BY <2>2, FaultClosing, StepNames DEF SendAction
    <2> QED
      BY <2>1, <2>2 DEF SendAction
  <1>2. chosen[r][1] \in Sendable
    BY DEF SendAction, TypeOK
  <1>3. delivered' \in [Run -> Seq(Sendable)]
    <2>1. Append(delivered[r], chosen[r][1]) \in Seq(Sendable)
      BY <1>2 DEF TypeOK
    <2> QED
      BY <2>1 DEF SendAction, ActionToSend, TypeOK
  <1> QED
    BY <1>1, <1>3 DEF TypeOK, Closing, SendAction, judged

\* RecordExecution keeps the types.
LEMMA RecordExecutionTypes ==
  ASSUME PipelineInv, NEW r \in Run, RecordExecution(r)
  PROVE  TypeOK'
  <1> USE DEF PipelineInv
  <1>1. Closing'
    <2>1. CASE /\ audit' = audit \cup {Record(r, "ACTION_EXECUTED", TraceOf[r])}
               /\ Goto(r, "done")
               /\ Report(r, "completed")
               /\ UNCHANGED faults
      <3>1. Record(r, "ACTION_EXECUTED", TraceOf[r])
              \in [event : AuditEvents, trace : Trace, run : Run]
        BY AuditEventNames, TraceNames DEF Record
      <3>2. status_by_trace' \in [Trace -> Statuses] /\ pc' \in [Run -> Steps]
        BY <2>1, ReportTypes, StatusValues, GotoTypes, StepNames DEF Goto
      <3> QED
        BY <2>1, <3>1, <3>2 DEF Closing, TypeOK
    <2>2. CASE Fault /\ Abort(r, "L6") /\ UNCHANGED audit
      BY <2>2, FaultClosing, StepNames
    <2> QED
      BY <2>1, <2>2 DEF RecordExecution
  <1> QED
    BY <1>1 DEF TypeOK, Closing, RecordExecution, judged

-----------------------------------------------------------------------------
(* Every action keeps the stages consistent.                               *)

\* A run whose state does not change keeps its stage; so does a run that only
\* moves on, unless it moves back or skips the choice of variants.
LEMMA RunMoves ==
  ASSUME NEW q \in Run, RunStage(q), NEW step, pc'[q] = step,
         step = pc[q] \/ step # "L6",
         step \in Unreviewed => pc[q] \in Unreviewed,
         step \notin Executed => pc[q] \notin Executed,
         cursor'[q] = cursor[q], approved'[q] = approved[q],
         chosen'[q] = chosen[q], delivered'[q] = delivered[q],
         \/ approved[q] = <<>>
         \/ reviewed'[q] = reviewed[q] /\ certainty'[q] = certainty[q]
  PROVE  RunStage(q)'
  <1>1. \A i \in DOMAIN approved'[q] : VerdictOf(q, approved[q][i])' = "APPROVED"
    <2>1. CASE approved[q] = <<>>
      BY <2>1
    <2>2. CASE reviewed'[q] = reviewed[q] /\ certainty'[q] = certainty[q]
      BY <2>2 DEF RunStage, VerdictOf
    <2> QED
      BY <2>1, <2>2
  <1> QED
    BY <1>1 DEF RunStage

\* What is approved keeps what it was judged against.
ReviewKept ==
  \A q \in Run :
    \/ approved[q] = <<>>
    \/ reviewed'[q] = reviewed[q] /\ certainty'[q] = certainty[q]

\* What leaves reviewed profiles and confidences alone keeps every review.
LEMMA ReviewUntouched ==
  ASSUME UNCHANGED <<reviewed, certainty>>
  PROVE  ReviewKept
  BY DEF ReviewKept

\* A step that moves one run on and leaves its review, choice and deliveries.
LEMMA MoveStages ==
  ASSUME PipelineInv, NEW r \in Run, NEW step, pc' = [pc EXCEPT ![r] = step],
         step # "L6",
         step \in Unreviewed => pc[r] \in Unreviewed,
         step \notin Executed => pc[r] \notin Executed,
         UNCHANGED <<cursor, approved, chosen, delivered>>,
         ReviewKept
  PROVE  StageConsistency'
  <1> SUFFICES ASSUME NEW q \in Run PROVE RunStage(q)'
    BY DEF StageConsistency
  <1>1. RunStage(q)
    BY DEF PipelineInv, StageConsistency
  <1>2. pc'[q] = IF q = r THEN step ELSE pc[q]
    BY DEF PipelineInv, TypeOK
  <1>3. CASE q = r
    BY <1>1, <1>2, <1>3, RunMoves DEF ReviewKept
  <1>4. CASE q # r
    BY <1>1, <1>2, <1>4, RunMoves DEF ReviewKept
  <1> QED
    BY <1>3, <1>4

\* A run that fails keeps the stages.
LEMMA FailStages ==
  ASSUME PipelineInv, NEW r \in Run, pc' = [pc EXCEPT ![r] = "failed"],
         UNCHANGED <<cursor, approved, chosen, delivered>>,
         ReviewKept
  PROVE  StageConsistency'
  BY MoveStages DEF Unreviewed, Executed, Finished

\* Before its review a run has approved nothing.
LEMMA NothingApproved ==
  ASSUME PipelineInv, NEW r \in Run, pc[r] \in Unreviewed
  PROVE  approved[r] = <<>>
  BY DEF PipelineInv, StageConsistency, RunStage

\* Submit keeps every run consistent with its stage.
LEMMA SubmitStages ==
  ASSUME PipelineInv, NEW r \in Run, Submit(r)
  PROVE  StageConsistency'
  <1>1. pc' = [pc EXCEPT ![r] = "submitted"] /\ pc[r] = "idle"
    BY DEF Submit, Goto
  <1> QED
    BY <1>1, ReviewUntouched, MoveStages DEF Submit, judged, Unreviewed, Executed, Finished

\* Begin keeps every run consistent with its stage.
LEMMA BeginStages ==
  ASSUME PipelineInv, NEW r \in Run, Begin(r)
  PROVE  StageConsistency'
  <1>1. pc' = [pc EXCEPT ![r] = "L1"] /\ pc[r] \in {"idle", "submitted"}
    BY DEF Begin, Goto
  <1> QED
    BY <1>1, ReviewUntouched, MoveStages DEF Begin, judged, Unreviewed, Executed, Finished

\* AssembleContext keeps every run consistent with its stage.
LEMMA AssembleContextStages ==
  ASSUME PipelineInv, NEW r \in Run, AssembleContext(r)
  PROVE  StageConsistency'
  <1>1. pc' = [pc EXCEPT ![r] = "L2"] \/ pc' = [pc EXCEPT ![r] = "failed"]
    BY AuditedTypes, AuditEventNames, TraceNames, AdvanceTypes, AbortTypes
    DEF AssembleContext, ContextAuditDropped, PipelineInv
  <1>2. pc[r] = "L1" /\ UNCHANGED <<cursor, approved, chosen, delivered, reviewed, certainty>>
    BY DEF AssembleContext, judged
  <1> QED
    BY <1>1, <1>2, ReviewUntouched, MoveStages, FailStages DEF Unreviewed, Executed, Finished

\* RetrievePolicy keeps every run consistent with its stage.
LEMMA RetrievePolicyStages ==
  ASSUME PipelineInv, NEW r \in Run, RetrievePolicy(r)
  PROVE  StageConsistency'
  <1>1. pc' = [pc EXCEPT ![r] = "L3"] \/ pc' = [pc EXCEPT ![r] = "failed"]
    BY AuditedTypes, AuditEventNames, TraceNames, SessionExpiredTypes
    DEF RetrievePolicy, PipelineInv
  <1>2. pc[r] = "L2" /\ UNCHANGED <<cursor, approved, chosen, delivered, reviewed, certainty>>
    BY DEF RetrievePolicy, judged
  <1> QED
    BY <1>1, <1>2, ReviewUntouched, MoveStages, FailStages DEF Unreviewed, Executed, Finished

\* Orchestrate keeps every run consistent with its stage.
LEMMA OrchestrateStages ==
  ASSUME PipelineInv, NEW r \in Run, Orchestrate(r)
  PROVE  StageConsistency'
  <1>1. pc' = [pc EXCEPT ![r] = "L4"] \/ pc' = [pc EXCEPT ![r] = "failed"]
    BY StoredTypes, AuditEventNames, TraceNames, SessionExpiredTypes, AdvanceTypes, AbortTypes
    DEF Orchestrate, PipelineInv
  <1>2. pc[r] = "L3" /\ UNCHANGED <<cursor, approved, chosen, delivered>>
    BY DEF Orchestrate, judged
  <1>3. approved[r] = <<>>
    BY <1>2, NothingApproved DEF Unreviewed
  <1>4. \A q \in Run \ {r} : certainty'[q] = certainty[q]
    BY DEF Orchestrate, PipelineInv, TypeOK
  <1>8. reviewed' = reviewed
    BY DEF Orchestrate
  <1>5. ReviewKept
    <2> SUFFICES ASSUME NEW q \in Run, approved[q] # <<>>
                 PROVE  reviewed'[q] = reviewed[q] /\ certainty'[q] = certainty[q]
      BY DEF ReviewKept
    <2>1. q \in Run \ {r}
      BY <1>3
    <2> QED
      BY <1>4, <1>8, <2>1
  <1>6. CASE pc' = [pc EXCEPT ![r] = "failed"]
    BY <1>2, <1>5, <1>6, FailStages
  <1>7. CASE pc' = [pc EXCEPT ![r] = "L4"]
    BY <1>2, <1>5, <1>7, MoveStages DEF Unreviewed, Executed, Finished
  <1> QED
    BY <1>1, <1>6, <1>7

\* LoadReview keeps every run consistent with its stage.
LEMMA LoadReviewStages ==
  ASSUME PipelineInv, NEW r \in Run, LoadReview(r)
  PROVE  StageConsistency'
  <1>1. pc' = [pc EXCEPT ![r] = "judging"] \/ pc' = [pc EXCEPT ![r] = "failed"]
    BY SessionExpiredTypes, AbortTypes DEF LoadReview, PipelineInv, Goto
  <1>2. pc[r] = "L4" /\ UNCHANGED <<cursor, approved, chosen, delivered, certainty>>
    BY DEF LoadReview, judged
  <1>3. approved[r] = <<>>
    BY <1>2, NothingApproved DEF Unreviewed
  <1>4. \A q \in Run \ {r} : reviewed'[q] = reviewed[q]
    BY DEF LoadReview, PipelineInv, TypeOK
  <1>5. ReviewKept
    BY <1>2, <1>3, <1>4 DEF ReviewKept
  <1>6. CASE pc' = [pc EXCEPT ![r] = "failed"]
    BY <1>2, <1>5, <1>6, FailStages
  <1>7. CASE pc' = [pc EXCEPT ![r] = "judging"]
    BY <1>2, <1>5, <1>7, MoveStages DEF Unreviewed, Executed, Finished
  <1> QED
    BY <1>1, <1>6, <1>7

\* FinishReview keeps every run consistent with its stage.
LEMMA FinishReviewStages ==
  ASSUME PipelineInv, NEW r \in Run, FinishReview(r)
  PROVE  StageConsistency'
  <1>1. pc' = [pc EXCEPT ![r] = "L5"] \/ pc' = [pc EXCEPT ![r] = "failed"]
    BY AuditedTypes, AuditEventNames, TraceNames DEF FinishReview, PipelineInv
  <1>2. /\ pc[r] = "judging"
        /\ UNCHANGED <<cursor, approved, chosen, delivered, reviewed, certainty>>
    BY DEF FinishReview, judged
  <1> QED
    BY <1>1, <1>2, ReviewUntouched, MoveStages, FailStages DEF Unreviewed, Executed, Finished

\* RecordExecution keeps every run consistent with its stage.
LEMMA RecordExecutionStages ==
  ASSUME PipelineInv, NEW r \in Run, RecordExecution(r)
  PROVE  StageConsistency'
  <1>1. pc' = [pc EXCEPT ![r] = "done"] \/ pc' = [pc EXCEPT ![r] = "failed"]
    BY AbortTypes DEF RecordExecution, PipelineInv, Goto
  <1>2. UNCHANGED <<cursor, approved, chosen, delivered, reviewed, certainty>>
    BY DEF RecordExecution, judged
  <1> QED
    BY <1>1, <1>2, ReviewUntouched, MoveStages, FailStages DEF Unreviewed, Executed, Finished

\* ExpireContext keeps every run consistent with its stage.
LEMMA ExpireContextStages ==
  ASSUME PipelineInv, NEW s \in Session, ExpireContext(s)
  PROVE  StageConsistency'
  BY DEF PipelineInv, StageConsistency, RunStage, VerdictOf, ExpireContext, judged

\* JudgeAction keeps every run consistent with its stage.
LEMMA JudgeActionStages ==
  ASSUME PipelineInv, NEW r \in Run, JudgeAction(r)
  PROVE  StageConsistency'
  <1> DEFINE proposal == proposed[r][cursor[r]]
  <1> SUFFICES ASSUME NEW q \in Run PROVE RunStage(q)'
    BY DEF StageConsistency
  <1>1. RunStage(q)
    BY DEF PipelineInv, StageConsistency
  <1>2. /\ pc[r] = "judging"
        /\ UNCHANGED <<pc, reviewed, certainty, chosen, delivered>>
    BY DEF JudgeAction, Judging
  <1>3. CASE q # r
    <2>1. cursor'[q] = cursor[q] /\ approved'[q] = approved[q]
      BY <1>3 DEF JudgeAction, PipelineInv, TypeOK
    <2> QED
      BY <1>1, <1>2, <2>1, RunMoves
  <1>4. CASE q = r
    <2>1. \A x : VerdictOf(r, x)' = VerdictOf(r, x)
      BY <1>2 DEF VerdictOf
    <2>2. delivered[r] = <<>>
      BY <1>1, <1>2, <1>4 DEF RunStage, Executed, Finished
    <2>3. \/ approved'[r] = approved[r]
          \/ /\ approved'[r] = Append(approved[r], proposal)
             /\ VerdictOf(r, proposal) = "APPROVED"
      BY DEF JudgeAction, PipelineInv, TypeOK
    <2>4. \A i \in DOMAIN approved'[r] : VerdictOf(r, approved'[r][i]) = "APPROVED"
      <3>1. approved[r] \in Seq(Action) /\ proposal \in Action
        BY JudgedAction DEF JudgeAction, PipelineInv, TypeOK
      <3>2. \A i \in DOMAIN approved[r] : VerdictOf(r, approved[r][i]) = "APPROVED"
        BY <1>1, <1>4 DEF RunStage
      <3> QED
        BY <2>3, <3>1, <3>2
    <2> QED
      BY <1>2, <1>4, <2>1, <2>2, <2>4 DEF RunStage, Unreviewed, Executed, Finished
  <1> QED
    BY <1>3, <1>4

\* FlagAction keeps every run consistent with its stage.
LEMMA FlagActionStages ==
  ASSUME PipelineInv, NEW r \in Run, FlagAction(r)
  PROVE  StageConsistency'
  <1> SUFFICES ASSUME NEW q \in Run PROVE RunStage(q)'
    BY DEF StageConsistency
  <1>1. RunStage(q)
    BY DEF PipelineInv, StageConsistency
  <1>2. /\ pc[r] = "judging"
        /\ UNCHANGED <<approved, reviewed, certainty, chosen, delivered>>
    BY DEF FlagAction, Judging
  <1>3. pc' = pc \/ pc' = [pc EXCEPT ![r] = "failed"]
    BY AbortTypes DEF FlagAction, PipelineInv
  <1>4. CASE q # r
    <2>1. cursor'[q] = cursor[q] /\ pc'[q] = pc[q]
      BY <1>3, <1>4 DEF FlagAction, PipelineInv, TypeOK
    <2> QED
      BY <1>1, <1>2, <2>1, RunMoves
  <1>5. CASE q = r
    <2>1. \A x : VerdictOf(r, x)' = VerdictOf(r, x)
      BY <1>2 DEF VerdictOf
    <2>2. delivered[r] = <<>>
      BY <1>1, <1>2, <1>5 DEF RunStage, Executed, Finished
    <2>3. pc'[r] \in {"judging", "failed"}
      BY <1>2, <1>3 DEF PipelineInv, TypeOK
    <2> QED
      BY <1>1, <1>2, <1>5, <2>1, <2>2, <2>3 DEF RunStage, Unreviewed, Executed, Finished
  <1> QED
    BY <1>4, <1>5

\* SelectVariants keeps every run consistent with its stage.
LEMMA SelectVariantsStages ==
  ASSUME PipelineInv, NEW r \in Run, SelectVariants(r)
  PROVE  StageConsistency'
  <1>1. /\ pc[r] = "L5"
        /\ UNCHANGED <<cursor, approved, reviewed, certainty, delivered>>
    BY DEF SelectVariants, judged
  <1>2. CASE Refused(r, "L5") /\ UNCHANGED chosen
    BY <1>1, <1>2, RefusedTypes, ReviewUntouched, FailStages DEF PipelineInv
  <1>3. ASSUME NEW choice \in [DOMAIN approved[r] -> UNION {Variants(a) : a \in Entries(approved[r])}],
               \A i \in DOMAIN choice : choice[i] \in Variants(approved[r][i]),
               chosen' = [chosen EXCEPT ![r] = choice],
               Stored(r, "AB_ASSIGNMENT", TraceOf[r], "L5", "L6")
        PROVE  StageConsistency'
    <2> SUFFICES ASSUME NEW q \in Run PROVE RunStage(q)'
      BY DEF StageConsistency
    <2>1. RunStage(q)
      BY DEF PipelineInv, StageConsistency
    <2>2. pc' = [pc EXCEPT ![r] = "L6"]
      BY <1>3, StoredTypes, AuditEventNames, TraceNames DEF PipelineInv
    <2>3. CASE q # r
      <3>1. pc'[q] = pc[q] /\ chosen'[q] = chosen[q]
        BY <1>3, <2>2, <2>3 DEF PipelineInv, TypeOK
      <3> QED
        BY <1>1, <2>1, <3>1, RunMoves
    <2>4. CASE q = r
      <3>1. /\ DOMAIN choice = DOMAIN approved[r]
            /\ \A i \in DOMAIN choice : choice[i] \in Variants(approved[r][i])
        BY <1>3, ChoiceTypes DEF PipelineInv
      <3>2. pc'[r] = "L6" /\ chosen'[r] = choice
        BY <1>3, <2>2 DEF PipelineInv, TypeOK
      <3>3. \A x : VerdictOf(r, x)' = VerdictOf(r, x)
        BY <1>1 DEF VerdictOf
      <3>4. delivered[r] = <<>>
        BY <1>1, <2>1, <2>4 DEF RunStage, Executed, Finished
      <3> QED
        BY <1>1, <2>1, <2>4, <3>1, <3>2, <3>3, <3>4
        DEF RunStage, Unreviewed, Executed, Finished
    <2> QED
      BY <2>3, <2>4
  <1> QED
    BY <1>2, <1>3 DEF SelectVariants

\* SendAction keeps every run consistent with its stage.
LEMMA SendActionStages ==
  ASSUME PipelineInv, NEW r \in Run, SendAction(r)
  PROVE  StageConsistency'
  <1>1. /\ pc[r] = "L6" /\ chosen[r] # <<>>
        /\ UNCHANGED <<cursor, approved, reviewed, certainty, chosen>>
    BY DEF SendAction, judged
  <1>2. CASE Abort(r, "L6") /\ UNCHANGED delivered
    BY <1>1, <1>2, AbortTypes, ReviewUntouched, FailStages DEF PipelineInv
  <1>3. CASE /\ delivered' = [delivered EXCEPT ![r] = Append(@, chosen[r][1])]
             /\ pc' = [pc EXCEPT ![r] = "sent"]
    <2> SUFFICES ASSUME NEW q \in Run PROVE RunStage(q)'
      BY DEF StageConsistency
    <2>1. RunStage(q)
      BY DEF PipelineInv, StageConsistency
    <2>2. CASE q # r
      <3>1. pc'[q] = pc[q] /\ delivered'[q] = delivered[q]
        BY <1>3, <2>2 DEF PipelineInv, TypeOK
      <3> QED
        BY <1>1, <2>1, <3>1, RunMoves
    <2>3. CASE q = r
      <3>1. pc'[r] = "sent" /\ delivered'[r] = Append(delivered[r], chosen[r][1])
        BY <1>3 DEF PipelineInv, TypeOK
      <3>2. delivered[r] = <<>>
        BY <1>1, <2>1, <2>3 DEF RunStage, Executed, Finished
      <3>3. Len(delivered'[r]) = 1 /\ delivered'[r][1] = chosen[r][1]
        BY <3>1, <3>2
      <3>4. /\ approved[r] # <<>>
            /\ chosen[r][1] \in Variants(approved[r][1])
        <4>1. /\ DOMAIN chosen[r] = DOMAIN approved[r]
              /\ \A i \in DOMAIN approved[r] : chosen[r][i] \in Variants(approved[r][i])
          BY <1>1, <2>1, <2>3 DEF RunStage
        <4>2. chosen[r] \in Seq(Sendable) /\ approved[r] \in Seq(Action)
          BY DEF PipelineInv, TypeOK
        <4>3. 1 \in DOMAIN chosen[r]
          BY <1>1, <4>2
        <4> QED
          BY <4>1, <4>2, <4>3
      <3>5. \A x : VerdictOf(r, x)' = VerdictOf(r, x)
        BY <1>1 DEF VerdictOf
      <3> QED
        BY <1>1, <2>1, <2>3, <3>1, <3>3, <3>4, <3>5
        DEF RunStage, Unreviewed, Executed, Finished
    <2> QED
      BY <2>2, <2>3
  <1> QED
    BY <1>2, <1>3 DEF SendAction, Goto, ActionToSend

-----------------------------------------------------------------------------
(* The invariant and what follows from it.                                 *)

\* Every step keeps the invariant: one case per action.
LEMMA StepInv ==
  ASSUME PipelineInv, [Next]_vars
  PROVE  PipelineInv'
  <1>1. ASSUME NEW r \in Run, Submit(r) PROVE PipelineInv'
    BY <1>1, SubmitTypes, SubmitStages DEF PipelineInv
  <1>2. ASSUME NEW r \in Run, Begin(r) PROVE PipelineInv'
    BY <1>2, BeginTypes, BeginStages DEF PipelineInv
  <1>3. ASSUME NEW r \in Run, AssembleContext(r) PROVE PipelineInv'
    BY <1>3, AssembleContextTypes, AssembleContextStages DEF PipelineInv
  <1>4. ASSUME NEW r \in Run, RetrievePolicy(r) PROVE PipelineInv'
    BY <1>4, RetrievePolicyTypes, RetrievePolicyStages DEF PipelineInv
  <1>5. ASSUME NEW r \in Run, Orchestrate(r) PROVE PipelineInv'
    BY <1>5, OrchestrateTypes, OrchestrateStages DEF PipelineInv
  <1>6. ASSUME NEW r \in Run, LoadReview(r) PROVE PipelineInv'
    BY <1>6, LoadReviewTypes, LoadReviewStages DEF PipelineInv
  <1>7. ASSUME NEW r \in Run, JudgeAction(r) PROVE PipelineInv'
    BY <1>7, JudgeActionTypes, JudgeActionStages DEF PipelineInv
  <1>8. ASSUME NEW r \in Run, FlagAction(r) PROVE PipelineInv'
    BY <1>8, FlagActionTypes, FlagActionStages DEF PipelineInv
  <1>9. ASSUME NEW r \in Run, FinishReview(r) PROVE PipelineInv'
    BY <1>9, FinishReviewTypes, FinishReviewStages DEF PipelineInv
  <1>10. ASSUME NEW r \in Run, SelectVariants(r) PROVE PipelineInv'
    BY <1>10, SelectVariantsTypes, SelectVariantsStages DEF PipelineInv
  <1>11. ASSUME NEW r \in Run, SendAction(r) PROVE PipelineInv'
    BY <1>11, SendActionTypes, SendActionStages DEF PipelineInv
  <1>12. ASSUME NEW r \in Run, RecordExecution(r) PROVE PipelineInv'
    BY <1>12, RecordExecutionTypes, RecordExecutionStages DEF PipelineInv
  <1>13. ASSUME NEW s \in Session, ExpireContext(s) PROVE PipelineInv'
    BY <1>13, ExpireContextTypes, ExpireContextStages DEF PipelineInv
  <1>14. CASE UNCHANGED vars
    BY <1>14
    DEF PipelineInv, TypeOK, StageConsistency, RunStage, VerdictOf, vars, judged, shared
  <1> QED
    BY <1>1, <1>2, <1>3, <1>4, <1>5, <1>6, <1>7, <1>8, <1>9, <1>10, <1>11, <1>12,
       <1>13, <1>14
    DEF Next, Step

\* The invariant holds in every reachable state.
THEOREM InvariantHolds == Spec => []PipelineInv
  BY InitInv, StepInv, PTL DEF Spec

\* Every reachable state is typed, whatever the runs share and however they
\* interleave (blueprint_runner.py:150).
THEOREM TypeCorrect == Spec => []TypeOK
  BY InvariantHolds, PTL DEF PipelineInv

\* The stages of every run stay consistent.
THEOREM StagesConsistent == Spec => []StageConsistency
  BY InvariantHolds, PTL DEF PipelineInv

\* The invariant implies the safety property.
LEMMA DeliveredWasApproved == PipelineInv => OnlyApprovedDelivered
  <1> SUFFICES ASSUME PipelineInv, NEW r \in Run, NEW i \in DOMAIN delivered[r]
               PROVE  /\ approved[r] # <<>>
                      /\ delivered[r][i] \in SendableAs(approved[r][1])
                      /\ VerdictOf(r, approved[r][1]) = "APPROVED"
    BY DEF OnlyApprovedDelivered
  <1>1. RunStage(r)
    BY DEF PipelineInv, StageConsistency
  <1>2. delivered[r] \in Seq(Sendable) /\ approved[r] \in Seq(Action)
    BY DEF PipelineInv, TypeOK
  <1>3. delivered[r] # <<>> /\ i \in 1..Len(delivered[r])
    BY <1>2
  <1>4. i = 1 /\ approved[r] # <<>> /\ delivered[r][1] \in Variants(approved[r][1])
    BY <1>1, <1>3 DEF RunStage
  <1>5. 1 \in DOMAIN approved[r] /\ approved[r][1] \in Action
    BY <1>2, <1>4
  <1>6. delivered[r][1] \in SendableAs(approved[r][1])
    BY <1>4, <1>5, VariantsAreWordings
  <1> QED
    BY <1>1, <1>4, <1>5, <1>6 DEF RunStage

\* Only an action that Layer 4 approved reaches a customer, at most reworded:
\* for any agents, proposals, sessions, faults and interleavings.
THEOREM ApprovalGatesDelivery == Spec => []OnlyApprovedDelivered
  BY InvariantHolds, DeliveredWasApproved, PTL

-----------------------------------------------------------------------------
(* The wording of what is delivered.                                       *)

\* R-001 blocks a prohibited phrase, so what is approved has none.
LEMMA ApprovedIsClean ==
  ASSUME NEW r \in Run, NEW a, VerdictOf(r, a) = "APPROVED"
  PROVE  a.customer_message \cap ProhibitedPhrases = {}
  <1> DEFINE x == <<a, reviewed[r], certainty[r]>>
  <1>1. x \in Approvable
    BY DEF VerdictOf
  <1>2. Verdict(a, reviewed[r], certainty[r]) = "APPROVED"
    BY <1>1 DEF Approvable
  <1> QED
    BY <1>2, ProhibitedLanguageIsBlocked

\* A variant of a clean action is clean when the experiments are.
LEMMA VariantIsClean ==
  ASSUME VariantsAreClean, NEW a \in Action, NEW v \in Variants(a),
         a.customer_message \cap ProhibitedPhrases = {}
  PROVE  v.customer_message \cap ProhibitedPhrases = {}
  <1>1. CASE v = a
    BY <1>1
  <1>2. CASE \E w \in VariantWording[a.action_type] : v = [a EXCEPT !.customer_message = w]
    <2>1. PICK w \in VariantWording[a.action_type] : v = [a EXCEPT !.customer_message = w]
      BY <1>2
    <2>2. v.customer_message = w
      BY <2>1, ActionAssumption DEF ActionAssumption
    <2>3. a.action_type \in DOMAIN VariantWording
      BY PipelineAssumption DEF PipelineAssumption
    <2> QED
      BY <2>1, <2>2, <2>3 DEF VariantsAreClean
  <1> QED
    BY <1>1, <1>2 DEF Variants

\* With clean experiments the invariant implies clean deliveries.
LEMMA DeliveredIsClean ==
  ASSUME VariantsAreClean, PipelineInv
  PROVE  DeliveredWordingClean
  <1> SUFFICES ASSUME NEW r \in Run, NEW i \in DOMAIN delivered[r]
               PROVE  delivered[r][i].customer_message \cap ProhibitedPhrases = {}
    BY DEF DeliveredWordingClean
  <1>1. RunStage(r)
    BY DEF PipelineInv, StageConsistency
  <1>2. delivered[r] \in Seq(Sendable) /\ approved[r] \in Seq(Action)
    BY DEF PipelineInv, TypeOK
  <1>3. delivered[r] # <<>> /\ i \in 1..Len(delivered[r])
    BY <1>2
  <1>4. i = 1 /\ approved[r] # <<>> /\ delivered[r][1] \in Variants(approved[r][1])
    BY <1>1, <1>3 DEF RunStage
  <1>5. 1 \in DOMAIN approved[r] /\ approved[r][1] \in Action
    BY <1>2, <1>4
  <1>6. approved[r][1].customer_message \cap ProhibitedPhrases = {}
    BY <1>1, <1>5, ApprovedIsClean DEF RunStage
  <1> QED
    BY <1>4, <1>5, <1>6, VariantIsClean

\* If the experiments' own texts are clean, no customer is ever sent a
\* prohibited phrase: Layer 5 rewording after the check opens no gap.
THEOREM WordingStaysClean ==
  ASSUME VariantsAreClean
  PROVE  Spec => []DeliveredWordingClean
  <1>1. PipelineInv => DeliveredWordingClean
    BY DeliveredIsClean
  <1> QED
    BY <1>1, InvariantHolds, PTL

-----------------------------------------------------------------------------
(* The evidence for what is delivered.                                     *)

\* The steps of a run after a layer has closed.
After(step) ==
  CASE step = "L1" -> {"L2", "L3", "L4", "judging", "L5", "L6", "sent"}
    [] step = "L2" -> {"L3", "L4", "judging", "L5", "L6", "sent"}
    [] step = "L4" -> {"L5", "L6", "sent"}
    [] step = "L5" -> {"L6", "sent"}

AssemblyRecorded(r) ==
  \E a \in audit : a.event = "CONTEXT_ASSEMBLY" /\ CustomerOf[a.run] = CustomerOf[r]

\* Which records the log holds for a run by the time it reaches a step.  A handover
\* without record has no proposals, so nothing is approved then.
RecordsOf(r) ==
  /\ pc[r] \in After("L1") => AssemblyRecorded(r)
  /\ pc[r] \in After("L2") => "VECTOR_RETRIEVAL" \in RecordedEvents(r)
  /\ proposed[r] # <<>> => "ORCHESTRATION_COMPLETE" \in RecordedEvents(r)
  /\ approved[r] # <<>> => proposed[r] # <<>>
  /\ pc[r] \in After("L4") => "GUARDRAILS_EVALUATION" \in RecordedEvents(r)
  /\ pc[r] \in After("L5") => "AB_ASSIGNMENT" \in RecordedEvents(r)

RecordInv == PipelineInv /\ (\A r \in Run : RecordsOf(r)) /\ EvidenceBeforeDelivery

\* Where each layer's record is due.
LEMMA AfterSteps ==
  /\ After("L1") = {"L2", "L3", "L4", "judging", "L5", "L6", "sent"}
  /\ After("L2") = {"L3", "L4", "judging", "L5", "L6", "sent"}
  /\ After("L4") = {"L5", "L6", "sent"}
  /\ After("L5") = {"L6", "sent"}
  BY DEF After

\* The log only grows, and what it holds of a run stays.
LEMMA RecordsStay ==
  ASSUME audit \subseteq audit', NEW q
  PROVE  /\ RecordedEvents(q) \subseteq RecordedEvents(q)'
         /\ AssemblyRecorded(q) => AssemblyRecorded(q)'
  BY DEF RecordedEvents, AssemblyRecorded

\* A layer that closes has its record in the log.
LEMMA StoredRecords ==
  ASSUME NEW r \in Run, NEW event, NEW trace, NEW layer, NEW next,
         Stored(r, event, trace, layer, next)
  PROVE  /\ audit \subseteq audit'
         /\ pc' = [pc EXCEPT ![r] = next]
         /\ event \in RecordedEvents(r)'
         /\ event = "CONTEXT_ASSEMBLY" => AssemblyRecorded(r)'
  <1> DEFINE new == Record(r, event, trace)
  <1>1. new.run = r /\ new.event = event
    BY DEF Record
  <1>2. audit' = audit \cup {new} /\ pc' = [pc EXCEPT ![r] = next]
    BY DEF Stored, Advance, Goto
  <1> HIDE DEF new
  <1>3. new \in audit'
    BY <1>2
  <1> QED
    BY <1>1, <1>2, <1>3 DEF RecordedEvents, AssemblyRecorded

\* A layer that cannot store its record fails.
LEMMA RefusedRecords ==
  ASSUME NEW r \in Run, NEW layer, Refused(r, layer)
  PROVE  audit \subseteq audit' /\ pc' = [pc EXCEPT ![r] = "failed"]
  BY DEF Refused, Abort, Goto

\* What the invariant asks of a step.
RecordsKept == (\A q \in Run : RecordsOf(q)') /\ EvidenceBeforeDelivery'

\* A step of one run that delivers nothing and keeps its own records in order.
LEMMA RecordsOfRun ==
  ASSUME RecordInv, NEW r \in Run, audit \subseteq audit', delivered' = delivered,
         \A q \in Run \ {r} : pc'[q] = pc[q] /\ proposed'[q] = proposed[q] /\ approved'[q] = approved[q],
         RecordsOf(r)'
  PROVE  RecordsKept
  <1>1. ASSUME NEW q \in Run, q # r PROVE RecordsOf(q)'
    BY <1>1, RecordsStay DEF RecordInv, RecordsOf
  <1>2. EvidenceBeforeDelivery'
    <2> SUFFICES ASSUME NEW q \in Run, delivered[q] # <<>>
                 PROVE  /\ {"VECTOR_RETRIEVAL", "ORCHESTRATION_COMPLETE", "GUARDRAILS_EVALUATION",
                            "AB_ASSIGNMENT"} \subseteq RecordedEvents(q)'
                        /\ AssemblyRecorded(q)'
      BY DEF EvidenceBeforeDelivery, AssemblyRecorded
    <2>1. /\ {"VECTOR_RETRIEVAL", "ORCHESTRATION_COMPLETE", "GUARDRAILS_EVALUATION",
              "AB_ASSIGNMENT"} \subseteq RecordedEvents(q)
          /\ AssemblyRecorded(q)
      BY DEF RecordInv, EvidenceBeforeDelivery, AssemblyRecorded
    <2> QED
      BY <2>1, RecordsStay
  <1> QED
    BY <1>1, <1>2 DEF RecordsKept

\* A run that moves on, with the records its new step calls for.
LEMMA MoveRecords ==
  ASSUME RecordInv, NEW r \in Run, NEW step, pc' = [pc EXCEPT ![r] = step],
         audit \subseteq audit', UNCHANGED <<proposed, approved, delivered>>,
         step \in After("L1") => AssemblyRecorded(r)',
         step \in After("L2") => "VECTOR_RETRIEVAL" \in RecordedEvents(r)',
         step \in After("L4") => "GUARDRAILS_EVALUATION" \in RecordedEvents(r)',
         step \in After("L5") => "AB_ASSIGNMENT" \in RecordedEvents(r)'
  PROVE  RecordsKept
  <1>1. pc'[r] = step /\ \A q \in Run \ {r} : pc'[q] = pc[q]
    BY DEF RecordInv, PipelineInv, TypeOK
  <1>2. RecordsOf(r)
    BY DEF RecordInv
  <1>3. RecordsOf(r)'
    BY <1>1, <1>2, RecordsStay DEF RecordsOf
  <1> QED
    BY <1>1, <1>3, RecordsOfRun

\* A run that fails or ends needs no further record.
LEMMA EndRecords ==
  ASSUME RecordInv, NEW r \in Run, NEW step \in {"submitted", "L1", "done", "failed"},
         pc' = [pc EXCEPT ![r] = step],
         audit \subseteq audit', UNCHANGED <<proposed, approved, delivered>>
  PROVE  RecordsKept
  <1>1. step \notin After("L1") \cup After("L2") \cup After("L4") \cup After("L5")
    BY AfterSteps
  <1> QED
    BY <1>1, MoveRecords

\* A run that passes its layer with the record, or fails.
LEMMA AssembleContextRecords ==
  ASSUME RecordInv, NEW r \in Run, AssembleContext(r)
  PROVE  RecordsKept
  <1>1. UNCHANGED <<proposed, approved, delivered>>
    BY DEF AssembleContext, judged
  <1>2. CASE Stored(r, "CONTEXT_ASSEMBLY", SessionOf[r], "L1", "L2")
    BY <1>1, <1>2, StoredRecords, MoveRecords, AfterSteps
  <1>3. CASE ContextAuditDropped(r)
    <2>1. /\ \E a \in audit : a.event = "CONTEXT_ASSEMBLY" /\ CustomerOf[a.run] = CustomerOf[r]
          /\ audit' = audit /\ pc' = [pc EXCEPT ![r] = "L2"]
      BY <1>3 DEF ContextAuditDropped, Advance, Goto
    <2>2. AssemblyRecorded(r)'
      BY <2>1 DEF AssemblyRecorded
    <2> QED
      BY <1>1, <2>1, <2>2, MoveRecords, AfterSteps
  <1>4. CASE (Abort(r, "L1") /\ UNCHANGED audit) \/ Refused(r, "L1")
    BY <1>1, <1>4, RefusedRecords, EndRecords DEF Abort, Goto
  <1> QED
    BY <1>2, <1>3, <1>4 DEF AssembleContext, Audited

LEMMA RetrievePolicyRecords ==
  ASSUME RecordInv, NEW r \in Run, RetrievePolicy(r)
  PROVE  RecordsKept
  <1>1. UNCHANGED <<proposed, approved, delivered>> /\ pc[r] = "L2"
    BY DEF RetrievePolicy, judged
  <1>2. CASE Stored(r, "VECTOR_RETRIEVAL", SessionOf[r], "L2", "L3")
    <2>1. AssemblyRecorded(r)'
      BY <1>1, <1>2, StoredRecords, RecordsStay, AfterSteps DEF RecordInv, RecordsOf
    <2> QED
      BY <1>1, <1>2, <2>1, StoredRecords, MoveRecords, AfterSteps
  <1>3. CASE SessionExpired(r, "L2") \/ Refused(r, "L2")
    BY <1>1, <1>3, RefusedRecords, EndRecords DEF SessionExpired, Abort, Goto
  <1> QED
    BY <1>2, <1>3 DEF RetrievePolicy, Audited

\* Proposals come with the record of the orchestration.
LEMMA OrchestrateRecords ==
  ASSUME RecordInv, NEW r \in Run, Orchestrate(r)
  PROVE  RecordsKept
  <1>1. /\ UNCHANGED <<approved, delivered>> /\ pc[r] = "L3"
        /\ \A q \in Run \ {r} : proposed'[q] = proposed[q]
    BY DEF Orchestrate, judged, RecordInv, PipelineInv, TypeOK
  <1>2. approved[r] = <<>>
    BY <1>1 DEF RecordInv, PipelineInv, StageConsistency, RunStage, Unreviewed
  <1>3. /\ AssemblyRecorded(r) /\ "VECTOR_RETRIEVAL" \in RecordedEvents(r)
        /\ proposed[r] # <<>> => "ORCHESTRATION_COMPLETE" \in RecordedEvents(r)
    BY <1>1, AfterSteps DEF RecordInv, RecordsOf
  <1>4. ASSUME NEW step \in {"L4", "failed"}, pc' = [pc EXCEPT ![r] = step],
               audit \subseteq audit',
               proposed' = proposed \/ "ORCHESTRATION_COMPLETE" \in RecordedEvents(r)'
        PROVE  RecordsKept
    <2>1. pc'[r] = step /\ \A q \in Run \ {r} : pc'[q] = pc[q]
      BY <1>4 DEF RecordInv, PipelineInv, TypeOK
    <2>2. RecordsOf(r)'
      BY <1>1, <1>2, <1>3, <1>4, <2>1, RecordsStay, AfterSteps DEF RecordsOf
    <2> QED
      BY <1>1, <1>4, <2>1, <2>2, RecordsOfRun
  <1>5. CASE Stored(r, "ORCHESTRATION_COMPLETE", TraceOf[r], "L3", "L4")
    BY <1>4, <1>5, StoredRecords
  <1>6. CASE (Abort(r, "L3") \/ Advance(r, "L3", "L4")) /\ UNCHANGED <<proposed, audit>>
    BY <1>4, <1>6 DEF Abort, Advance, Goto
  <1>7. CASE SessionExpired(r, "L3") /\ UNCHANGED proposed
    BY <1>4, <1>7 DEF SessionExpired, Abort, Goto
  <1> QED
    BY <1>5, <1>6, <1>7 DEF Orchestrate

LEMMA LoadReviewRecords ==
  ASSUME RecordInv, NEW r \in Run, LoadReview(r)
  PROVE  RecordsKept
  <1>1. UNCHANGED <<proposed, approved, delivered, audit>> /\ pc[r] = "L4"
    BY DEF LoadReview, SessionExpired, judged
  <1>2. CASE pc' = [pc EXCEPT ![r] = "judging"]
    <2>1. AssemblyRecorded(r) /\ "VECTOR_RETRIEVAL" \in RecordedEvents(r)
      BY <1>1, AfterSteps DEF RecordInv, RecordsOf
    <2> QED
      BY <1>1, <1>2, <2>1, RecordsStay, MoveRecords, AfterSteps
  <1>3. CASE pc' = [pc EXCEPT ![r] = "failed"]
    BY <1>1, <1>3, EndRecords
  <1> QED
    BY <1>2, <1>3 DEF LoadReview, SessionExpired, Abort, Goto

\* What is approved or flagged was proposed.
LEMMA JudgeRecords ==
  ASSUME RecordInv, NEW r \in Run, JudgeAction(r) \/ FlagAction(r)
  PROVE  RecordsKept
  <1>1. /\ UNCHANGED <<proposed, delivered, audit>> /\ Judging(r)
        /\ \A q \in Run \ {r} : approved'[q] = approved[q]
    BY DEF JudgeAction, FlagAction, shared, RecordInv, PipelineInv, TypeOK
  <1>2. pc' = pc \/ pc' = [pc EXCEPT ![r] = "failed"]
    BY DEF JudgeAction, FlagAction, Abort, Goto
  <1>3. /\ pc'[r] \in {pc[r], "failed"}
        /\ \A q \in Run \ {r} : pc'[q] = pc[q]
    BY <1>2 DEF RecordInv, PipelineInv, TypeOK
  <1>4. proposed[r] # <<>>
    <2>1. cursor[r] \in DOMAIN proposed[r]
      BY <1>1, JudgedAction DEF RecordInv, PipelineInv
    <2> QED
      BY <2>1
  <1>5. RecordsOf(r)
    BY DEF RecordInv
  <1>6. RecordsOf(r)'
    BY <1>1, <1>3, <1>4, <1>5, RecordsStay, AfterSteps DEF RecordsOf
  <1> QED
    BY <1>1, <1>3, <1>6, RecordsOfRun

LEMMA FinishReviewRecords ==
  ASSUME RecordInv, NEW r \in Run, FinishReview(r)
  PROVE  RecordsKept
  <1>1. UNCHANGED <<proposed, approved, delivered>> /\ pc[r] = "judging"
    BY DEF FinishReview, judged
  <1>2. CASE Stored(r, "GUARDRAILS_EVALUATION", TraceOf[r], "L4", "L5")
    <2>1. AssemblyRecorded(r) /\ "VECTOR_RETRIEVAL" \in RecordedEvents(r)
      BY <1>1, AfterSteps DEF RecordInv, RecordsOf
    <2> QED
      BY <1>1, <1>2, <2>1, StoredRecords, RecordsStay, MoveRecords, AfterSteps
  <1>3. CASE Refused(r, "L4")
    BY <1>1, <1>3, RefusedRecords, EndRecords
  <1> QED
    BY <1>2, <1>3 DEF FinishReview, Audited

LEMMA SelectVariantsRecords ==
  ASSUME RecordInv, NEW r \in Run, SelectVariants(r)
  PROVE  RecordsKept
  <1>1. UNCHANGED <<proposed, approved, delivered>> /\ pc[r] = "L5"
    BY DEF SelectVariants, judged
  <1>2. CASE Stored(r, "AB_ASSIGNMENT", TraceOf[r], "L5", "L6")
    <2>1. /\ AssemblyRecorded(r)
          /\ {"VECTOR_RETRIEVAL", "GUARDRAILS_EVALUATION"} \subseteq RecordedEvents(r)
      BY <1>1, AfterSteps DEF RecordInv, RecordsOf
    <2> QED
      BY <1>1, <1>2, <2>1, StoredRecords, RecordsStay, MoveRecords, AfterSteps
  <1>3. CASE Refused(r, "L5")
    BY <1>1, <1>3, RefusedRecords, EndRecords
  <1> QED
    BY <1>2, <1>3 DEF SelectVariants

\* What is sent was chosen from what was approved, so all five records exist.
LEMMA SendActionRecords ==
  ASSUME RecordInv, NEW r \in Run, SendAction(r)
  PROVE  RecordsKept
  <1>1. UNCHANGED <<proposed, approved, audit>> /\ pc[r] = "L6" /\ chosen[r] # <<>>
    BY DEF SendAction, judged
  <1>2. CASE pc' = [pc EXCEPT ![r] = "failed"] /\ UNCHANGED delivered
    BY <1>1, <1>2, EndRecords
  <1>3. CASE /\ pc' = [pc EXCEPT ![r] = "sent"]
             /\ delivered' = [delivered EXCEPT ![r] = Append(@, chosen[r][1])]
    <2>1. pc'[r] = "sent" /\ \A q \in Run \ {r} : pc'[q] = pc[q] /\ delivered'[q] = delivered[q]
      BY <1>3 DEF RecordInv, PipelineInv, TypeOK
    <2>2. approved[r] # <<>>
      <3>1. DOMAIN chosen[r] = DOMAIN approved[r]
        BY <1>1 DEF RecordInv, PipelineInv, StageConsistency, RunStage
      <3>2. chosen[r] \in Seq(Sendable)
        BY DEF RecordInv, PipelineInv, TypeOK
      <3>3. 1 \in DOMAIN chosen[r]
        BY <1>1, <3>2
      <3> QED
        BY <3>1, <3>3
    <2>3. RecordsOf(r)
      BY DEF RecordInv
    <2>4. /\ {"VECTOR_RETRIEVAL", "ORCHESTRATION_COMPLETE", "GUARDRAILS_EVALUATION",
              "AB_ASSIGNMENT"} \subseteq RecordedEvents(r)
          /\ AssemblyRecorded(r)
      BY <1>1, <2>2, <2>3, AfterSteps DEF RecordsOf
    <2>5. \A q \in Run : RecordedEvents(q)' = RecordedEvents(q) /\ (AssemblyRecorded(q)' <=> AssemblyRecorded(q))
      BY <1>1 DEF RecordedEvents, AssemblyRecorded
    <2>6. RecordsOf(r)'
      BY <1>1, <2>1, <2>3, <2>4, <2>5 DEF RecordsOf
    <2>7. ASSUME NEW q \in Run, q # r PROVE RecordsOf(q)'
      BY <1>1, <2>1, <2>5, <2>7 DEF RecordInv, RecordsOf
    <2>8. EvidenceBeforeDelivery'
      <3> SUFFICES ASSUME NEW q \in Run, delivered'[q] # <<>>
                   PROVE  /\ {"VECTOR_RETRIEVAL", "ORCHESTRATION_COMPLETE", "GUARDRAILS_EVALUATION",
                              "AB_ASSIGNMENT"} \subseteq RecordedEvents(q)'
                          /\ AssemblyRecorded(q)'
        BY DEF EvidenceBeforeDelivery, AssemblyRecorded
      <3>1. CASE q = r
        BY <2>4, <2>5, <3>1
      <3>2. CASE q # r
        BY <2>1, <2>5, <3>2 DEF RecordInv, EvidenceBeforeDelivery, AssemblyRecorded
      <3> QED
        BY <3>1, <3>2
    <2> QED
      BY <2>6, <2>7, <2>8 DEF RecordsKept
  <1> QED
    BY <1>2, <1>3 DEF SendAction, Abort, Goto, ActionToSend

LEMMA RecordExecutionRecords ==
  ASSUME RecordInv, NEW r \in Run, RecordExecution(r)
  PROVE  RecordsKept
  <1>1. UNCHANGED <<proposed, approved, delivered>> /\ audit \subseteq audit'
    BY DEF RecordExecution, judged
  <1>2. pc' = [pc EXCEPT ![r] = "done"] \/ pc' = [pc EXCEPT ![r] = "failed"]
    BY DEF RecordExecution, Abort, Goto
  <1> QED
    BY <1>1, <1>2, EndRecords

\* A step of no run.
LEMMA QuietRecords ==
  ASSUME RecordInv, UNCHANGED <<pc, proposed, approved, delivered, audit>>
  PROVE  RecordsKept
  BY DEF RecordInv, RecordsKept, RecordsOf, EvidenceBeforeDelivery, RecordedEvents, AssemblyRecorded

LEMMA InitRecords == Init => RecordInv
  <1> SUFFICES ASSUME Init PROVE RecordInv
    OBVIOUS
  <1>1. \A r \in Run : RecordsOf(r)
    BY AfterSteps DEF Init, RecordsOf
  <1> QED
    BY <1>1, InitInv DEF RecordInv, Init, EvidenceBeforeDelivery

LEMMA StepRecords ==
  ASSUME RecordInv, [Next]_vars
  PROVE  RecordInv'
  <1>1. ASSUME NEW r \in Run, Submit(r) \/ Begin(r) PROVE RecordsKept
    BY <1>1, EndRecords DEF Submit, Begin, Goto, judged
  <1>2. ASSUME NEW r \in Run, Step(r) PROVE RecordsKept
    BY <1>1, <1>2, AssembleContextRecords, RetrievePolicyRecords, OrchestrateRecords,
       LoadReviewRecords, JudgeRecords, FinishReviewRecords, SelectVariantsRecords,
       SendActionRecords, RecordExecutionRecords DEF Step
  <1>3. ASSUME NEW s \in Session, ExpireContext(s) PROVE RecordsKept
    BY <1>3, QuietRecords DEF ExpireContext, judged
  <1>4. ASSUME UNCHANGED vars PROVE RecordsKept
    BY <1>4, QuietRecords DEF vars, judged, shared
  <1>5. RecordsKept
    BY <1>1, <1>2, <1>3, <1>4 DEF Next
  <1>6. PipelineInv'
    BY StepInv DEF RecordInv
  <1> QED
    BY <1>5, <1>6 DEF RecordInv, RecordsKept

\* Nothing reaches a customer before the log holds the retrieval, the
\* orchestration, the review and the assignment of its run and an assembly for
\* its customer, whatever writes are refused or dropped on the way.
THEOREM EvidenceComesFirst == Spec => []EvidenceBeforeDelivery
  <1>1. RecordInv => EvidenceBeforeDelivery
    BY DEF RecordInv
  <1> QED
    BY <1>1, InitRecords, StepRecords, PTL DEF Spec

-----------------------------------------------------------------------------
(* The profile behind a decision.                                          *)

\* No two runs share a session, as runs started through the API do not.
OwnSessions == \A q, r \in Run : q # r => SessionOf[q] # SessionOf[r]

\* The profile a run has seen stays that of its session until it expires.
SnapshotOf(r) ==
  /\ pc[r] \in {"idle", "submitted", "L1", "L2", "L3"} => seen[r] = None
  /\ pc[r] \in Unreviewed => reviewed[r] = None
  /\ pc[r] = "L4" /\ seen[r] # None => context[SessionOf[r]] \in {None, seen[r]}
  /\ pc[r] \in {"L4", "judging"} => seen[r] # None
  /\ pc[r] = "judging" => reviewed[r] # None
  /\ approved[r] # <<>> => seen[r] # None /\ reviewed[r] # None
  /\ seen[r] # None /\ reviewed[r] # None => reviewed[r] = seen[r]

SnapshotInv == PipelineInv /\ \A r \in Run : SnapshotOf(r)

\* What the invariant asks of a step.
SnapshotsKept == \A q \in Run : SnapshotOf(q)'

\* A run that takes no step keeps its profile; the stored one may expire.
LEMMA OtherSnapshot ==
  ASSUME NEW q \in Run, SnapshotOf(q),
         pc'[q] = pc[q], seen'[q] = seen[q], reviewed'[q] = reviewed[q], approved'[q] = approved[q],
         context'[SessionOf[q]] \in {context[SessionOf[q]], None}
  PROVE  SnapshotOf(q)'
  BY DEF SnapshotOf

\* A step of one run that leaves the profiles of other sessions.
LEMMA SnapshotsOfRun ==
  ASSUME SnapshotInv, NEW r \in Run, SnapshotOf(r)',
         \A q \in Run \ {r} :
           /\ pc'[q] = pc[q] /\ seen'[q] = seen[q]
           /\ reviewed'[q] = reviewed[q] /\ approved'[q] = approved[q]
           /\ context'[SessionOf[q]] = context[SessionOf[q]]
  PROVE  SnapshotsKept
  BY OtherSnapshot DEF SnapshotInv, SnapshotsKept

\* A run that moves on without reading or storing a profile.
LEMMA MoveSnapshot ==
  ASSUME SnapshotInv, NEW r \in Run, NEW step, pc' = [pc EXCEPT ![r] = step],
         UNCHANGED <<seen, reviewed, approved, context>>,
         step \notin {"L4", "judging"},
         step \in Unreviewed => pc[r] \in {"idle", "submitted", "L1", "L2"}
  PROVE  SnapshotsKept
  <1>1. pc'[r] = step /\ \A q \in Run \ {r} : pc'[q] = pc[q]
    BY DEF SnapshotInv, PipelineInv, TypeOK
  <1>2. SnapshotOf(r)
    BY DEF SnapshotInv
  <1>3. SnapshotOf(r)'
    BY <1>1, <1>2 DEF SnapshotOf, Unreviewed
  <1> QED
    BY <1>1, <1>3, SnapshotsOfRun

\* Only a run of the session stores a profile under it.
LEMMA AssembleContextSnapshot ==
  ASSUME OwnSessions, SnapshotInv, NEW r \in Run, AssembleContext(r)
  PROVE  SnapshotsKept
  <1>1. pc[r] = "L1" /\ UNCHANGED <<seen, reviewed, approved>>
    BY DEF AssembleContext, judged
  <1>2. pc' = [pc EXCEPT ![r] = "L2"] \/ pc' = [pc EXCEPT ![r] = "failed"]
    BY DEF AssembleContext, Audited, Stored, Refused, ContextAuditDropped, Advance, Abort, Goto
  <1>3. pc'[r] \in {"L2", "failed"} /\ \A q \in Run \ {r} : pc'[q] = pc[q]
    BY <1>2 DEF SnapshotInv, PipelineInv, TypeOK
  <1>4. context' = context \/ \E made : context' = [context EXCEPT ![SessionOf[r]] = made]
    BY DEF AssembleContext, Store
  <1>5. \A q \in Run \ {r} : context'[SessionOf[q]] = context[SessionOf[q]]
    BY <1>4, TraceNames DEF OwnSessions, SnapshotInv, PipelineInv, TypeOK
  <1>6. SnapshotOf(r)
    BY DEF SnapshotInv
  <1>7. SnapshotOf(r)'
    BY <1>1, <1>3, <1>6 DEF SnapshotOf, Unreviewed
  <1> QED
    BY <1>1, <1>3, <1>5, <1>7, SnapshotsOfRun

\* The agents work on the profile of the session.
LEMMA OrchestrateSnapshot ==
  ASSUME SnapshotInv, NEW r \in Run, Orchestrate(r)
  PROVE  SnapshotsKept
  <1>1. pc[r] = "L3" /\ UNCHANGED <<context, reviewed, approved>>
    BY DEF Orchestrate, judged
  <1>2. CASE SessionExpired(r, "L3") /\ UNCHANGED seen
    <2>1. pc' = [pc EXCEPT ![r] = "failed"]
      BY <1>2 DEF SessionExpired, Abort, Goto
    <2> QED
      BY <1>1, <1>2, <2>1, MoveSnapshot DEF Unreviewed
  <1>3. CASE context[SessionOf[r]] # None /\ seen' = [seen EXCEPT ![r] = context[SessionOf[r]]]
    <2>1. pc' = [pc EXCEPT ![r] = "L4"] \/ pc' = [pc EXCEPT ![r] = "failed"]
      BY DEF Orchestrate, SessionExpired, Stored, Advance, Abort, Goto
    <2>2. pc'[r] \in {"L4", "failed"} /\ \A q \in Run \ {r} : pc'[q] = pc[q]
      BY <2>1 DEF SnapshotInv, PipelineInv, TypeOK
    <2>3. seen'[r] = context[SessionOf[r]] /\ \A q \in Run \ {r} : seen'[q] = seen[q]
      BY <1>3 DEF SnapshotInv, PipelineInv, TypeOK
    <2>4. reviewed[r] = None /\ approved[r] = <<>>
      BY <1>1 DEF SnapshotInv, SnapshotOf, Unreviewed, PipelineInv, StageConsistency, RunStage
    <2>5. SnapshotOf(r)'
      BY <1>1, <1>3, <2>2, <2>3, <2>4 DEF SnapshotOf, Unreviewed
    <2> QED
      BY <1>1, <2>2, <2>3, <2>5, SnapshotsOfRun
  <1> QED
    BY <1>2, <1>3 DEF Orchestrate

\* Layer 4 reads it again: it is still there, or the run fails.
LEMMA LoadReviewSnapshot ==
  ASSUME SnapshotInv, NEW r \in Run, LoadReview(r)
  PROVE  SnapshotsKept
  <1>1. pc[r] = "L4" /\ UNCHANGED <<context, seen, approved>>
    BY DEF LoadReview, judged
  <1>2. CASE pc' = [pc EXCEPT ![r] = "failed"] /\ UNCHANGED reviewed
    BY <1>1, <1>2, MoveSnapshot DEF Unreviewed
  <1>3. CASE /\ context[SessionOf[r]] # None /\ pc' = [pc EXCEPT ![r] = "judging"]
             /\ reviewed' = [reviewed EXCEPT ![r] = context[SessionOf[r]]]
    <2>1. pc'[r] = "judging" /\ \A q \in Run \ {r} : pc'[q] = pc[q]
      BY <1>3 DEF SnapshotInv, PipelineInv, TypeOK
    <2>2. /\ reviewed'[r] = context[SessionOf[r]]
          /\ \A q \in Run \ {r} : reviewed'[q] = reviewed[q]
      BY <1>3 DEF SnapshotInv, PipelineInv, TypeOK
    <2>3. SnapshotOf(r) /\ approved[r] = <<>>
      BY <1>1 DEF SnapshotInv, Unreviewed, PipelineInv, StageConsistency, RunStage
    <2>4. seen[r] # None /\ reviewed'[r] = seen[r]
      BY <1>1, <1>3, <2>2, <2>3 DEF SnapshotOf
    <2>5. SnapshotOf(r)'
      BY <1>1, <2>1, <2>3, <2>4 DEF SnapshotOf, Unreviewed
    <2> QED
      BY <1>1, <2>1, <2>2, <2>5, SnapshotsOfRun
  <1> QED
    BY <1>2, <1>3 DEF LoadReview, SessionExpired, Abort, Goto

\* Layer 4 judges once both profiles are read.
LEMMA JudgeSnapshot ==
  ASSUME SnapshotInv, NEW r \in Run, JudgeAction(r) \/ FlagAction(r)
  PROVE  SnapshotsKept
  <1>1. pc[r] = "judging" /\ UNCHANGED <<context, seen, reviewed>>
    BY DEF JudgeAction, FlagAction, Judging, shared
  <1>2. \A q \in Run \ {r} : approved'[q] = approved[q]
    BY DEF JudgeAction, FlagAction, SnapshotInv, PipelineInv, TypeOK
  <1>3. pc' = pc \/ pc' = [pc EXCEPT ![r] = "failed"]
    BY DEF JudgeAction, FlagAction, Abort, Goto
  <1>4. pc'[r] \in {"judging", "failed"} /\ \A q \in Run \ {r} : pc'[q] = pc[q]
    BY <1>1, <1>3 DEF SnapshotInv, PipelineInv, TypeOK
  <1>5. SnapshotOf(r)
    BY DEF SnapshotInv
  <1>6. SnapshotOf(r)'
    BY <1>1, <1>4, <1>5 DEF SnapshotOf, Unreviewed
  <1> QED
    BY <1>1, <1>2, <1>4, <1>6, SnapshotsOfRun

LEMMA InitSnapshot == Init => SnapshotInv
  <1> SUFFICES ASSUME Init PROVE SnapshotInv
    OBVIOUS
  <1>1. \A r \in Run : SnapshotOf(r)
    BY DEF Init, SnapshotOf
  <1> QED
    BY <1>1, InitInv DEF SnapshotInv

LEMMA StepSnapshot ==
  ASSUME OwnSessions, SnapshotInv, [Next]_vars
  PROVE  SnapshotInv'
  <1>1. ASSUME NEW r \in Run, Submit(r) \/ Begin(r) PROVE SnapshotsKept
    BY <1>1, MoveSnapshot DEF Submit, Begin, Goto, judged, Unreviewed
  <1>2. ASSUME NEW r \in Run, RetrievePolicy(r) PROVE SnapshotsKept
    <2>1. pc[r] = "L2" /\ UNCHANGED <<seen, reviewed, approved, context>>
      BY <1>2 DEF RetrievePolicy, judged
    <2>2. pc' = [pc EXCEPT ![r] = "L3"] \/ pc' = [pc EXCEPT ![r] = "failed"]
      BY <1>2 DEF RetrievePolicy, SessionExpired, Audited, Stored, Refused, Advance, Abort, Goto
    <2> QED
      BY <2>1, <2>2, MoveSnapshot DEF Unreviewed
  <1>3. ASSUME NEW r \in Run, FinishReview(r) \/ SelectVariants(r) PROVE SnapshotsKept
    <2>1. UNCHANGED <<seen, reviewed, approved, context>>
      BY <1>3 DEF FinishReview, SelectVariants, judged
    <2>2. \E step \in {"L5", "L6", "failed"} : pc' = [pc EXCEPT ![r] = step]
      BY <1>3 DEF FinishReview, SelectVariants, Audited, Stored, Refused, Advance, Abort, Goto
    <2> QED
      BY <2>1, <2>2, MoveSnapshot DEF Unreviewed
  <1>4. ASSUME NEW r \in Run, SendAction(r) \/ RecordExecution(r) PROVE SnapshotsKept
    <2>1. UNCHANGED <<seen, reviewed, approved, context>>
      BY <1>4 DEF SendAction, RecordExecution, judged
    <2>2. \E step \in {"sent", "done", "failed"} : pc' = [pc EXCEPT ![r] = step]
      BY <1>4 DEF SendAction, RecordExecution, Abort, Goto
    <2> QED
      BY <2>1, <2>2, MoveSnapshot DEF Unreviewed
  <1>5. ASSUME NEW s \in Session, ExpireContext(s) PROVE SnapshotsKept
    <2>1. /\ context' = [context EXCEPT ![s] = None]
          /\ UNCHANGED <<pc, seen, reviewed, approved>>
      BY <1>5 DEF ExpireContext, judged
    <2>2. \A q \in Run : context'[SessionOf[q]] \in {context[SessionOf[q]], None}
      BY <2>1, TraceNames DEF SnapshotInv, PipelineInv, TypeOK
    <2> QED
      BY <2>1, <2>2, OtherSnapshot DEF SnapshotInv, SnapshotsKept
  <1>6. ASSUME UNCHANGED vars PROVE SnapshotsKept
    BY <1>6, OtherSnapshot DEF SnapshotInv, SnapshotsKept, vars, judged, shared
  <1>7. ASSUME NEW r \in Run, Step(r) PROVE SnapshotsKept
    BY <1>1, <1>2, <1>3, <1>4, <1>7, AssembleContextSnapshot, OrchestrateSnapshot,
       LoadReviewSnapshot, JudgeSnapshot DEF Step
  <1>8. SnapshotsKept
    BY <1>1, <1>5, <1>6, <1>7 DEF Next
  <1>9. PipelineInv'
    BY StepInv DEF SnapshotInv
  <1> QED
    BY <1>8, <1>9 DEF SnapshotInv, SnapshotsKept

\* When no two runs share a session, Layer 4 judges against the profile that the
\* agents reasoned on, although it reads the store again, and although the
\* profile may expire or other runs store theirs between the two reads.
THEOREM AgentsAndReviewAgree ==
  ASSUME OwnSessions
  PROVE  Spec => []SameSnapshot
  <1>1. SnapshotInv => SameSnapshot
    BY DEF SnapshotInv, SnapshotOf, SameSnapshot
  <1>2. SnapshotInv /\ [Next]_vars => SnapshotInv'
    BY StepSnapshot
  <1> QED
    BY <1>1, <1>2, InitSnapshot, PTL DEF Spec

\* A variant is of the type of the action.
LEMMA VariantType ==
  ASSUME NEW a \in Action, NEW v \in Variants(a)
  PROVE  v.action_type = a.action_type
  <1>1. CASE v = a
    BY <1>1
  <1>2. CASE \E w : v = [a EXCEPT !.customer_message = w]
    BY <1>2, ActionAssumption DEF ActionAssumption
  <1> QED
    BY <1>1, <1>2 DEF Variants

\* When no two runs share a session, no account is changed for a customer on a
\* profile that misses a source: AI-002 holds the action back, and it was asked
\* about the profile the agents had seen (service.py:168).
THEOREM AccountsNeedEverySource ==
  ASSUME OwnSessions
  PROVE  Spec => []NoAccountActionOnPartialContext
  <1>1. ASSUME SnapshotInv
        PROVE  NoAccountActionOnPartialContext
    <2> SUFFICES ASSUME NEW r \in Run, NEW i \in DOMAIN delivered[r],
                        delivered[r][i].action_type \in AccountActions, seen[r].partial_context
                 PROVE  FALSE
      BY DEF NoAccountActionOnPartialContext
    <2>1. RunStage(r) /\ SnapshotOf(r)
      BY <1>1 DEF SnapshotInv, PipelineInv, StageConsistency
    <2>2. delivered[r] \in Seq(Sendable) /\ approved[r] \in Seq(Action)
      BY <1>1 DEF SnapshotInv, PipelineInv, TypeOK
    <2>3. delivered[r] # <<>> /\ i \in 1..Len(delivered[r])
      BY <2>2
    <2>4. i = 1 /\ approved[r] # <<>> /\ delivered[r][1] \in Variants(approved[r][1])
      BY <2>1, <2>3 DEF RunStage
    <2>5. 1 \in DOMAIN approved[r] /\ approved[r][1] \in Action
      BY <2>2, <2>4
    <2>6. approved[r][1].action_type \in AccountActions
      BY <2>4, <2>5, VariantType
    <2>7. VerdictOf(r, approved[r][1]) = "APPROVED"
      BY <2>1, <2>5 DEF RunStage
    <2>8. Verdict(approved[r][1], reviewed[r], certainty[r]) = "APPROVED"
      BY <2>7 DEF VerdictOf, Approvable
    <2>9. reviewed[r] = seen[r]
      BY <2>1, <2>4 DEF SnapshotOf
    <2> QED
      BY <2>6, <2>8, <2>9, AccountActionsNeedContext
  <1>2. SnapshotInv /\ [Next]_vars => SnapshotInv'
    BY StepSnapshot
  <1> QED
    BY <1>1, <1>2, InitSnapshot, PTL DEF Spec

-----------------------------------------------------------------------------
(* The event log of a run.                                                 *)

OwnTrace(r) == \A q \in Run \ {r} : TraceOf[q] # TraceOf[r]

Lead(n) == SubSeq(FullLog, 1, n)

\* How many events a run has published by the time it reaches a step.
Published(step) ==
  CASE step \in {"idle", "submitted"} -> 0
    [] step = "L1"                    -> 1
    [] step = "L2"                    -> 3
    [] step = "L3"                    -> 5
    [] step \in {"L4", "judging"}     -> 7
    [] step = "L5"                    -> 9
    [] step \in {"L6", "sent"}        -> 11
    [] OTHER                          -> 13

\* The log and the status of a run that shares its trace with no other.
LogOf(r) ==
  OwnTrace(r) =>
    /\ pc[r] # "failed" => events[TraceOf[r]] = Lead(Published(pc[r]))
    /\ pc[r] = "failed" =>
         \E k \in 1..6 : events[TraceOf[r]] =
                           Append(Lead(2 * k - 1), Event("layer_error", Layers[k]))
    /\ status_by_trace[TraceOf[r]] = "completed" <=> pc[r] = "done"

EventsPerTrace == events = [t \in Trace |-> events[t]]

LogInv == PipelineInv /\ EventsPerTrace /\ \A r \in Run : LogOf(r)

\* The full log, event by event.
LEMMA FullLogEvents ==
  /\ FullLog[1] = Event("layer_started", "L1") /\ FullLog[2] = Event("layer_completed", "L1")
  /\ FullLog[3] = Event("layer_started", "L2") /\ FullLog[4] = Event("layer_completed", "L2")
  /\ FullLog[5] = Event("layer_started", "L3") /\ FullLog[6] = Event("layer_completed", "L3")
  /\ FullLog[7] = Event("layer_started", "L4") /\ FullLog[8] = Event("layer_completed", "L4")
  /\ FullLog[9] = Event("layer_started", "L5") /\ FullLog[10] = Event("layer_completed", "L5")
  /\ FullLog[11] = Event("layer_started", "L6") /\ FullLog[12] = Event("layer_completed", "L6")
  /\ FullLog[13] = Event("pipeline_done", "L6")
  <1>1. \A i \in 1..13 :
          /\ i = 13 => FullLog[i] = Event("pipeline_done", "L6")
          /\ i % 2 = 0 => FullLog[i] = Event("layer_completed", Layers[i \div 2])
          /\ i # 13 /\ i % 2 # 0 => FullLog[i] = Event("layer_started", Layers[(i + 1) \div 2])
    BY DEF FullLog
  <1>2. /\ Layers[1] = "L1" /\ Layers[2] = "L2" /\ Layers[3] = "L3"
        /\ Layers[4] = "L4" /\ Layers[5] = "L5" /\ Layers[6] = "L6"
    BY DEF Layers
  <1> HIDE DEF FullLog, Layers
  <1>3. FullLog[1] = Event("layer_started", Layers[1]) /\ FullLog[2] = Event("layer_completed", Layers[1])
    BY <1>1
  <1>4. FullLog[3] = Event("layer_started", Layers[2]) /\ FullLog[4] = Event("layer_completed", Layers[2])
    BY <1>1
  <1>5. FullLog[5] = Event("layer_started", Layers[3]) /\ FullLog[6] = Event("layer_completed", Layers[3])
    BY <1>1
  <1>6. FullLog[7] = Event("layer_started", Layers[4]) /\ FullLog[8] = Event("layer_completed", Layers[4])
    BY <1>1
  <1>7. FullLog[9] = Event("layer_started", Layers[5]) /\ FullLog[10] = Event("layer_completed", Layers[5])
    BY <1>1
  <1>8. FullLog[11] = Event("layer_started", Layers[6]) /\ FullLog[12] = Event("layer_completed", Layers[6])
    BY <1>1
  <1>9. FullLog[13] = Event("pipeline_done", "L6")
    BY <1>1
  <1> QED
    BY <1>2, <1>3, <1>4, <1>5, <1>6, <1>7, <1>8, <1>9

\* None of them is an error.
LEMMA FullLogHasNoError ==
  ASSUME NEW i \in 1..13
  PROVE  FullLog[i].type # "layer_error"
  <1>1. FullLog[i].type \in {"layer_started", "layer_completed", "pipeline_done"}
    BY FullLogEvents DEF Event
  <1> QED
    BY <1>1

\* The first n events of the full log.
LEMMA LeadEvents ==
  ASSUME NEW n \in 0..13
  PROVE  /\ Lead(n) \in Seq({FullLog[i] : i \in 1..13}) /\ Len(Lead(n)) = n
         /\ \A i \in 1..n : Lead(n)[i] = FullLog[i]
         /\ Lead(n) = [i \in 1..n |-> FullLog[i]]
  <1> DEFINE S == {FullLog[i] : i \in 1..13}
  <1>1. FullLog = [i \in 1..13 |-> FullLog[i]]
    BY DEF FullLog
  <1> HIDE DEF FullLog
  <1>2. \A i \in 1..13 : FullLog[i] \in S
    OBVIOUS
  <1> HIDE DEF S
  <1>3. FullLog \in Seq(S) /\ Len(FullLog) = 13
    BY <1>1, <1>2
  <1>4. /\ SubSeq(FullLog, 1, n) \in Seq(S) /\ Len(SubSeq(FullLog, 1, n)) = n
        /\ \A i \in 1..n : SubSeq(FullLog, 1, n)[i] = FullLog[i]
    <2>1. 1 \in Int /\ n \in Int /\ n - 1 + 1 = n
      OBVIOUS
    <2>2. \A i \in 1..n : FullLog[i] \in S
      BY <1>2
    <2>3. /\ SubSeq(FullLog, 1, n) \in Seq(S)
          /\ Len(SubSeq(FullLog, 1, n)) = IF 1 <= n THEN n - 1 + 1 ELSE 0
          /\ \A i \in 1..(n - 1 + 1) : SubSeq(FullLog, 1, n)[i] = FullLog[1 + i - 1]
      BY <2>1, <2>2, SubSeqProperties
    <2>4. \A i \in 1..n : 1 + i - 1 = i
      OBVIOUS
    <2> QED
      BY <2>1, <2>3, <2>4
  <1> QED
    BY <1>4 DEF Lead, S

\* One event further, and two.
LEMMA LeadOne == Lead(0) \o <<FullLog[1]>> = Lead(1)
  <1> DEFINE S == {FullLog[i] : i \in 1..13}
  <1>1. Lead(0) \in Seq(S) /\ Len(Lead(0)) = 0
    BY LeadEvents
  <1>2. Lead(1) \in Seq(S) /\ Len(Lead(1)) = 1 /\ Lead(1)[1] = FullLog[1]
    BY LeadEvents
  <1> HIDE DEF S
  <1>3. Lead(0) = <<>>
    BY <1>1
  <1>4. <<>> \o Lead(1) = Lead(1)
    BY <1>2, ConcatEmptySeq
  <1>5. Lead(1) = <<FullLog[1]>>
    BY <1>2
  <1> QED
    BY <1>3, <1>4, <1>5

LEMMA LeadTwo ==
  ASSUME NEW n \in 0..11, NEW j, j = n + 1, NEW k, k = n + 2
  PROVE  Lead(n) \o <<FullLog[j], FullLog[k]>> = Lead(k)
  <1> DEFINE two == <<FullLog[n + 1], FullLog[n + 2]>>
             S == {FullLog[i] : i \in 1..13}
             whole == Lead(n) \o two
  <1>1. n + 2 \in 0..13 /\ n \in 0..13
    OBVIOUS
  <1>2. /\ Lead(n) \in Seq(S) /\ Len(Lead(n)) = n
        /\ \A i \in 1..n : Lead(n)[i] = FullLog[i]
    BY <1>1, LeadEvents
  <1>3. /\ Lead(n + 2) \in Seq(S) /\ Len(Lead(n + 2)) = n + 2
        /\ \A i \in 1..(n + 2) : Lead(n + 2)[i] = FullLog[i]
    BY <1>1, LeadEvents
  <1>4. two \in Seq(S) /\ Len(two) = 2 /\ two[1] = FullLog[n + 1] /\ two[2] = FullLog[n + 2]
    <2>1. FullLog[n + 1] \in S /\ FullLog[n + 2] \in S
      OBVIOUS
    <2> HIDE DEF S
    <2> QED
      BY <2>1
  <1> HIDE DEF two, S
  <1>5. /\ whole \in Seq(S) /\ Len(whole) = n + 2
        /\ \A i \in 1..(n + 2) : whole[i] = IF i <= n THEN Lead(n)[i] ELSE two[i - n]
    <2>1. /\ Lead(n) \o two \in Seq(S) /\ Len(Lead(n) \o two) = Len(Lead(n)) + Len(two)
          /\ \A i \in 1..(Len(Lead(n)) + Len(two)) :
               (Lead(n) \o two)[i] = IF i <= Len(Lead(n)) THEN Lead(n)[i] ELSE two[i - Len(Lead(n))]
      BY <1>2, <1>4, ConcatProperties
    <2> QED
      BY <1>2, <1>4, <2>1
  <1>6. \A i \in 1..(n + 2) : whole[i] = Lead(n + 2)[i]
    BY <1>2, <1>3, <1>4, <1>5
  <1> HIDE DEF whole
  <1>7. whole = Lead(n + 2)
    BY <1>3, <1>5, <1>6, SeqEqual
  <1> QED
    BY <1>7 DEF whole, two

\* What the invariant asks of a step.
LogsKept == EventsPerTrace' /\ \A q \in Run : LogOf(q)'

\* A step of one run touches the log and the status of its trace only.
LEMMA LogsOfRun ==
  ASSUME LogInv, NEW r \in Run, EventsPerTrace', LogOf(r)',
         \A q \in Run \ {r} : pc'[q] = pc[q],
         \A t \in Trace \ {TraceOf[r]} :
           events'[t] = events[t] /\ status_by_trace'[t] = status_by_trace[t]
  PROVE  LogsKept
  <1>1. ASSUME NEW q \in Run, q # r, OwnTrace(q) PROVE LogOf(q)'
    <2>1. TraceOf[q] \in Trace \ {TraceOf[r]}
      BY <1>1, TraceNames DEF OwnTrace
    <2>2. /\ pc'[q] = pc[q] /\ events'[TraceOf[q]] = events[TraceOf[q]]
          /\ status_by_trace'[TraceOf[q]] = status_by_trace[TraceOf[q]]
      BY <1>1, <2>1
    <2>3. LogOf(q)
      BY DEF LogInv
    <2> QED
      BY <2>2, <2>3 DEF LogOf, OwnTrace
  <1>2. ASSUME NEW q \in Run, ~OwnTrace(q) PROVE LogOf(q)'
    BY <1>2 DEF LogOf, OwnTrace
  <1> QED
    BY <1>1, <1>2 DEF LogsKept

\* How many events the steps have published.
LEMMA PublishedSteps ==
  /\ Published("idle") = 0 /\ Published("submitted") = 0 /\ Published("L1") = 1
  /\ Published("L2") = 3 /\ Published("L3") = 5 /\ Published("L4") = 7
  /\ Published("judging") = 7 /\ Published("L5") = 9 /\ Published("L6") = 11
  /\ Published("sent") = 11 /\ Published("done") = 13
  BY DEF Published

\* A run that publishes nothing stays at its place in the log.
LEMMA QuietLog ==
  ASSUME LogInv, NEW r \in Run, NEW step, pc' = [pc EXCEPT ![r] = step],
         pc[r] \notin {"done", "failed"}, step \notin {"done", "failed"},
         Published(step) = Published(pc[r]), UNCHANGED events,
         UNCHANGED status_by_trace \/ Report(r, "started")
  PROVE  LogsKept
  <1>1. pc'[r] = step /\ \A q \in Run \ {r} : pc'[q] = pc[q]
    BY DEF LogInv, PipelineInv, TypeOK
  <1>2. /\ status_by_trace'[TraceOf[r]] = "completed" => status_by_trace[TraceOf[r]] = "completed"
        /\ \A t \in Trace \ {TraceOf[r]} : status_by_trace'[t] = status_by_trace[t]
    BY TraceNames DEF Report, LogInv, PipelineInv, TypeOK
  <1>3. LogOf(r)'
    BY <1>1, <1>2 DEF LogInv, LogOf, OwnTrace
  <1> QED
    BY <1>1, <1>2, <1>3, LogsOfRun DEF LogInv, EventsPerTrace

\* A run that publishes the events up to its next step.
LEMMA PublishLog ==
  ASSUME LogInv, NEW r \in Run, NEW step, pc' = [pc EXCEPT ![r] = step],
         pc[r] \notin {"done", "failed"}, step # "failed",
         NEW new, Publish(r, new),
         Lead(Published(pc[r])) \o new = Lead(Published(step)),
         \/ step # "done" /\ UNCHANGED status_by_trace
         \/ step # "done" /\ Report(r, "running")
         \/ step = "done" /\ Report(r, "completed")
  PROVE  LogsKept
  <1>1. pc'[r] = step /\ \A q \in Run \ {r} : pc'[q] = pc[q]
    BY DEF LogInv, PipelineInv, TypeOK
  <1>2. /\ EventsPerTrace'
        /\ events'[TraceOf[r]] = events[TraceOf[r]] \o new
        /\ \A t \in Trace \ {TraceOf[r]} : events'[t] = events[t]
    BY TraceNames DEF Publish, LogInv, EventsPerTrace
  <1>3. /\ step = "done" => status_by_trace'[TraceOf[r]] = "completed"
        /\ step # "done" /\ status_by_trace'[TraceOf[r]] = "completed" =>
             status_by_trace[TraceOf[r]] = "completed"
        /\ \A t \in Trace \ {TraceOf[r]} : status_by_trace'[t] = status_by_trace[t]
    BY TraceNames DEF Report, LogInv, PipelineInv, TypeOK
  <1>4. LogOf(r)'
    BY <1>1, <1>2, <1>3 DEF LogInv, LogOf, OwnTrace
  <1> QED
    BY <1>1, <1>2, <1>3, <1>4, LogsOfRun

\* A layer that returns closes itself and starts the next one.
LEMMA AdvanceLog ==
  ASSUME LogInv, NEW r \in Run, NEW k \in 1..5,
         pc[r] \notin {"done", "failed"}, Published(pc[r]) = 2 * k - 1,
         Advance(r, Layers[k], Layers[k + 1])
  PROVE  LogsKept
  <1>1. /\ FullLog[2 * k] = Event("layer_completed", Layers[k])
        /\ FullLog[2 * k + 1] = Event("layer_started", Layers[k + 1])
    <2>1. k = 1 \/ k = 2 \/ k = 3 \/ k = 4 \/ k = 5
      OBVIOUS
    <2> QED
      BY <2>1, FullLogEvents DEF Layers
  <1>2. /\ Layers[k + 1] \notin {"done", "failed"}
        /\ Published(Layers[k + 1]) = 2 * k + 1
    <2>1. k = 1 \/ k = 2 \/ k = 3 \/ k = 4 \/ k = 5
      OBVIOUS
    <2> QED
      BY <2>1, PublishedSteps DEF Layers
  <1>3. Lead(2 * k - 1) \o <<FullLog[2 * k], FullLog[2 * k + 1]>> = Lead(2 * k + 1)
    <2>1. 2 * k - 1 \in 0..11 /\ 2 * k = 2 * k - 1 + 1 /\ 2 * k + 1 = 2 * k - 1 + 2
      OBVIOUS
    <2> QED
      BY <2>1, LeadTwo
  <1>4. /\ pc' = [pc EXCEPT ![r] = Layers[k + 1]] /\ UNCHANGED status_by_trace
        /\ Publish(r, <<FullLog[2 * k], FullLog[2 * k + 1]>>)
    BY <1>1 DEF Advance, Goto
  <1> QED
    BY <1>2, <1>3, <1>4, PublishLog

\* A layer that fails ends the log.
LEMMA AbortLog ==
  ASSUME LogInv, NEW r \in Run, NEW k \in 1..6,
         pc[r] \notin {"done", "failed"}, Published(pc[r]) = 2 * k - 1,
         Abort(r, Layers[k])
  PROVE  LogsKept
  <1> DEFINE error == Event("layer_error", Layers[k])
             t == TraceOf[r]
  <1>1. pc'[r] = "failed" /\ \A q \in Run \ {r} : pc'[q] = pc[q]
    BY DEF Abort, Goto, LogInv, PipelineInv, TypeOK
  <1>2. /\ EventsPerTrace'
        /\ events'[t] = events[t] \o <<error>>
        /\ \A u \in Trace \ {t} : events'[u] = events[u]
    BY TraceNames DEF Abort, Publish, LogInv, EventsPerTrace
  <1>3. /\ status_by_trace'[t] = "completed" => status_by_trace[t] = "completed"
        /\ \A u \in Trace \ {t} : status_by_trace'[u] = status_by_trace[u]
    BY TraceNames DEF Abort, Report, LogInv, PipelineInv, TypeOK
  <1>4. Lead(2 * k - 1) \o <<error>> = Append(Lead(2 * k - 1), error)
    <2>1. 2 * k - 1 \in 0..13
      OBVIOUS
    <2>2. PICK S : Lead(2 * k - 1) \in Seq(S)
      BY <2>1, LeadEvents
    <2> HIDE DEF error
    <2>3. Lead(2 * k - 1) \in Seq(S \cup {error})
      BY <2>2
    <2> QED
      BY <2>3, AppendIsConcat
  <1>5. LogOf(r)'
    <2> SUFFICES ASSUME OwnTrace(r)
                 PROVE  /\ \E j \in 1..6 : events'[t] = Append(Lead(2 * j - 1), Event("layer_error", Layers[j]))
                        /\ status_by_trace'[t] # "completed"
      BY <1>1 DEF LogOf, OwnTrace
    <2>1. events[t] = Lead(2 * k - 1) /\ status_by_trace[t] # "completed"
      BY DEF LogInv, LogOf
    <2>2. events'[t] = Append(Lead(2 * k - 1), Event("layer_error", Layers[k]))
      BY <1>2, <1>4, <2>1
    <2> QED
      BY <1>3, <2>1, <2>2
  <1> QED
    BY <1>1, <1>2, <1>3, <1>5, LogsOfRun

\* A layer either closes or fails; Layer 4 while it judges.
LEMMA LayerLog ==
  ASSUME LogInv, NEW r \in Run
  PROVE  /\ pc[r] = "L1" /\ (Advance(r, "L1", "L2") \/ Abort(r, "L1")) => LogsKept
         /\ pc[r] = "L2" /\ (Advance(r, "L2", "L3") \/ Abort(r, "L2")) => LogsKept
         /\ pc[r] = "L3" /\ (Advance(r, "L3", "L4") \/ Abort(r, "L3")) => LogsKept
         /\ pc[r] = "L4" /\ Abort(r, "L4") => LogsKept
         /\ pc[r] = "judging" /\ (Advance(r, "L4", "L5") \/ Abort(r, "L4")) => LogsKept
         /\ pc[r] = "L5" /\ (Advance(r, "L5", "L6") \/ Abort(r, "L5")) => LogsKept
         /\ pc[r] \in {"L6", "sent"} /\ Abort(r, "L6") => LogsKept
  <1>1. /\ Layers[1] = "L1" /\ Layers[2] = "L2" /\ Layers[3] = "L3"
        /\ Layers[4] = "L4" /\ Layers[5] = "L5" /\ Layers[6] = "L6"
    BY DEF Layers
  <1>2. ASSUME NEW k \in 1..6, pc[r] \notin {"done", "failed"}, Published(pc[r]) = 2 * k - 1,
               Abort(r, Layers[k]) \/ (k \in 1..5 /\ Advance(r, Layers[k], Layers[k + 1]))
        PROVE  LogsKept
    BY <1>2, AbortLog, AdvanceLog
  <1>3. CASE pc[r] = "L1"
    BY <1>1, <1>2, <1>3, PublishedSteps
  <1>4. CASE pc[r] = "L2"
    BY <1>1, <1>2, <1>4, PublishedSteps
  <1>5. CASE pc[r] = "L3"
    BY <1>1, <1>2, <1>5, PublishedSteps
  <1>6. CASE pc[r] \in {"L4", "judging"}
    BY <1>1, <1>2, <1>6, PublishedSteps
  <1>7. CASE pc[r] = "L5"
    BY <1>1, <1>2, <1>7, PublishedSteps
  <1>8. CASE pc[r] \in {"L6", "sent"}
    BY <1>1, <1>2, <1>8, PublishedSteps
  <1> QED
    BY <1>3, <1>4, <1>5, <1>6, <1>7, <1>8

\* A step that moves no run and publishes nothing.
LEMMA StillLog ==
  ASSUME LogInv, UNCHANGED <<pc, events, status_by_trace>>
  PROVE  LogsKept
  BY DEF LogInv, LogsKept, LogOf, OwnTrace, EventsPerTrace

\* Every step of a run keeps its log at its place: one case per action.
LEMMA StepLog ==
  ASSUME LogInv, NEW r \in Run, Submit(r) \/ Step(r)
  PROVE  LogsKept
  <1>1. CASE Submit(r)
    <2>1. /\ pc[r] = "idle" /\ pc' = [pc EXCEPT ![r] = "submitted"]
          /\ Report(r, "started") /\ UNCHANGED events
      BY <1>1 DEF Submit, Goto
    <2>2. Published("submitted") = Published(pc[r])
      BY <2>1, PublishedSteps
    <2> QED
      BY <2>1, <2>2, QuietLog
  <1>2. CASE Begin(r)
    <2>1. /\ pc[r] \in {"idle", "submitted"} /\ pc' = [pc EXCEPT ![r] = "L1"]
          /\ Report(r, "running") /\ Publish(r, <<FullLog[1]>>)
      BY <1>2, FullLogEvents DEF Begin, Goto
    <2>2. Lead(Published(pc[r])) \o <<FullLog[1]>> = Lead(Published("L1"))
      BY <2>1, LeadOne, PublishedSteps
    <2> QED
      BY <2>1, <2>2, PublishLog
  <1>3. CASE AssembleContext(r)
    BY <1>3, LayerLog DEF AssembleContext, Audited, Stored, Refused, ContextAuditDropped
  <1>4. CASE RetrievePolicy(r)
    BY <1>4, LayerLog DEF RetrievePolicy, SessionExpired, Audited, Stored, Refused
  <1>5. CASE Orchestrate(r)
    BY <1>5, LayerLog DEF Orchestrate, SessionExpired, Stored
  <1>6. CASE LoadReview(r)
    <2>1. CASE Abort(r, "L4")
      BY <1>6, <2>1, LayerLog DEF LoadReview
    <2>2. CASE Goto(r, "judging") /\ UNCHANGED <<status_by_trace, events>>
      <3>1. pc[r] = "L4" /\ pc' = [pc EXCEPT ![r] = "judging"]
        BY <1>6, <2>2 DEF LoadReview, Goto
      <3>2. Published("judging") = Published(pc[r])
        BY <3>1, PublishedSteps
      <3> QED
        BY <2>2, <3>1, <3>2, QuietLog
    <2> QED
      BY <1>6, <2>1, <2>2 DEF LoadReview, SessionExpired
  <1>7. CASE JudgeAction(r)
    BY <1>7, StillLog DEF JudgeAction, shared
  <1>8. CASE FlagAction(r)
    <2>1. CASE Abort(r, "L4")
      BY <1>8, <2>1, LayerLog DEF FlagAction, Judging
    <2>2. CASE UNCHANGED <<pc, status_by_trace, events>>
      BY <2>2, StillLog
    <2> QED
      BY <1>8, <2>1, <2>2 DEF FlagAction
  <1>9. CASE FinishReview(r)
    BY <1>9, LayerLog DEF FinishReview, Audited, Stored, Refused
  <1>10. CASE SelectVariants(r)
    BY <1>10, LayerLog DEF SelectVariants, Stored, Refused
  <1>11. CASE SendAction(r)
    <2>1. CASE Abort(r, "L6")
      BY <1>11, <2>1, LayerLog DEF SendAction
    <2>2. CASE Goto(r, "sent") /\ UNCHANGED <<status_by_trace, events>>
      <3>1. pc[r] = "L6" /\ pc' = [pc EXCEPT ![r] = "sent"]
        BY <1>11, <2>2 DEF SendAction, Goto
      <3>2. Published("sent") = Published(pc[r])
        BY <3>1, PublishedSteps
      <3> QED
        BY <2>2, <3>1, <3>2, QuietLog
    <2> QED
      BY <1>11, <2>1, <2>2 DEF SendAction
  <1>12. CASE RecordExecution(r)
    <2>1. pc[r] \in {"L6", "sent"}
      BY <1>12 DEF RecordExecution
    <2>2. CASE Abort(r, "L6")
      BY <2>1, <2>2, LayerLog
    <2>3. CASE /\ Goto(r, "done") /\ Report(r, "completed")
               /\ Publish(r, <<Event("layer_completed", "L6"), Event("pipeline_done", "L6")>>)
      <3>1. /\ pc' = [pc EXCEPT ![r] = "done"] /\ Report(r, "completed")
            /\ Publish(r, <<FullLog[12], FullLog[13]>>)
        BY <2>3, FullLogEvents DEF Goto
      <3>2. Lead(11) \o <<FullLog[12], FullLog[13]>> = Lead(13)
        <4>1. 11 \in 0..11 /\ 12 = 11 + 1 /\ 13 = 11 + 2
          OBVIOUS
        <4> QED
          BY <4>1, LeadTwo
      <3>3. Published(pc[r]) = 11 /\ Published("done") = 13
        BY <2>1, PublishedSteps
      <3> QED
        BY <2>1, <3>1, <3>2, <3>3, PublishLog
    <2> QED
      BY <1>12, <2>2, <2>3 DEF RecordExecution
  <1> QED
    BY <1>1, <1>2, <1>3, <1>4, <1>5, <1>6, <1>7, <1>8, <1>9, <1>10, <1>11, <1>12 DEF Step

\* What the log of one run has to say.
LogIsConsistent(r) ==
  LET log == events[TraceOf[r]]
      n   == Len(log)
      ok  == \/ n <= 13 /\ log = SubSeq(FullLog, 1, n)
             \/ /\ n \in {2 * k : k \in 1..6}
                /\ log = Append(SubSeq(FullLog, 1, n - 1), Event("layer_error", Layers[n \div 2]))
  IN  /\ ok
      /\ status_by_trace[TraceOf[r]] = "completed" <=> log = FullLog
      /\ pc[r] = "failed" <=> n > 0 /\ log[n].type = "layer_error"

\* The full log is its own beginning of thirteen events.
LEMMA LeadFull == FullLog = Lead(13)
  <1>1. FullLog = [i \in 1..13 |-> FullLog[i]]
    BY DEF FullLog
  <1>2. Lead(13) = [i \in 1..13 |-> FullLog[i]]
    BY LeadEvents
  <1> QED
    BY <1>1, <1>2

LEMMA LogIsTold ==
  ASSUME LogInv, NEW r \in Run, OwnTrace(r)
  PROVE  LogIsConsistent(r)
  <1> DEFINE log == events[TraceOf[r]]
             n == Len(log)
             S == {FullLog[i] : i \in 1..13}
  <1>1. LogOf(r)
    BY DEF LogInv
  <1>2. CASE pc[r] # "failed"
    <2> DEFINE m == Published(pc[r])
    <2>1. m \in {0, 1, 3, 5, 7, 9, 11, 13} /\ (m = 13 <=> pc[r] = "done")
      <3>1. pc[r] \in Steps
        BY DEF LogInv, PipelineInv, TypeOK
      <3> QED
        BY <1>2, <3>1 DEF Steps, Finished, Published
    <2>2. log = Lead(m)
      BY <1>1, <1>2 DEF LogOf
    <2> HIDE DEF m, log
    <2>3. m \in 0..13
      BY <2>1
    <2>4. n = m /\ \A i \in 1..m : log[i] = FullLog[i]
      BY <2>2, <2>3, LeadEvents
    <2>5. log = FullLog <=> m = 13
      <3>1. Len(Lead(13)) = 13
        BY LeadEvents
      <3> QED
        BY <2>2, <2>4, <3>1, LeadFull
    <2>6. ~(n > 0 /\ log[n].type = "layer_error")
      <3>1. CASE m = 0
        BY <2>4, <3>1
      <3>2. CASE m # 0
        <4>1. m \in 1..13 /\ m \in 1..m
          BY <2>3, <3>2
        <4> QED
          BY <2>4, <4>1, FullLogHasNoError
      <3> QED
        BY <3>1, <3>2
    <2>7. n <= 13 /\ log = SubSeq(FullLog, 1, n)
      BY <2>2, <2>3, <2>4 DEF Lead
    <2>8. status_by_trace[TraceOf[r]] = "completed" <=> pc[r] = "done"
      BY <1>1 DEF LogOf
    <2> QED
      BY <1>2, <2>1, <2>5, <2>6, <2>7, <2>8 DEF LogIsConsistent, log
  <1>3. CASE pc[r] = "failed"
    <2>1. PICK k \in 1..6 : log = Append(Lead(2 * k - 1), Event("layer_error", Layers[k]))
      BY <1>1, <1>3 DEF LogOf
    <2> DEFINE error == Event("layer_error", Layers[k])
    <2>2. error.type = "layer_error"
      BY DEF Event
    <2> HIDE DEF log, error
    <2>3. 2 * k - 1 \in 0..13 /\ 2 * k - 1 + 1 = 2 * k /\ (2 * k) \div 2 = k
      OBVIOUS
    <2>4. Lead(2 * k - 1) \in Seq(S) /\ Len(Lead(2 * k - 1)) = 2 * k - 1
      BY <2>3, LeadEvents
    <2> HIDE DEF S
    <2>5. n = 2 * k /\ log[n] = error
      BY <2>1, <2>3, <2>4, AppendProperties DEF error
    <2>6. log # FullLog
      <3>1. n \in 1..13
        BY <2>5
      <3> QED
        BY <2>2, <2>5, <3>1, FullLogHasNoError
    <2>7. log = Append(SubSeq(FullLog, 1, n - 1), Event("layer_error", Layers[n \div 2]))
      BY <2>1, <2>3, <2>5 DEF Lead
    <2>8. status_by_trace[TraceOf[r]] # "completed"
      BY <1>1, <1>3 DEF LogOf
    <2>9. n > 0 /\ n \in {2 * j : j \in 1..6}
      BY <2>5
    <2> QED
      BY <1>3, <2>2, <2>5, <2>6, <2>7, <2>8, <2>9 DEF LogIsConsistent, log
  <1> QED
    BY <1>2, <1>3

LEMMA InitLog == Init => LogInv
  <1> SUFFICES ASSUME Init PROVE LogInv
    OBVIOUS
  <1>1. Lead(0) = <<>>
    <2>1. PICK S : Lead(0) \in Seq(S) /\ Len(Lead(0)) = 0
      BY LeadEvents
    <2> QED
      BY <2>1
  <1>2. ASSUME NEW r \in Run PROVE LogOf(r)
    <2>1. pc[r] = "idle" /\ events[TraceOf[r]] = <<>> /\ status_by_trace[TraceOf[r]] = None
      BY TraceNames DEF Init
    <2> QED
      BY <1>1, <2>1, PublishedSteps, PipelineAssumption DEF LogOf
  <1>3. EventsPerTrace
    BY DEF Init, EventsPerTrace
  <1> QED
    BY <1>2, <1>3, InitInv DEF LogInv

\* The log of a run that shares its trace with no other says how it stands: it
\* is a prefix of the full log, or ends in the error of the layer that failed,
\* and it is full exactly when the run is reported completed.
THEOREM LogTellsTheStatus == Spec => []LogMatchesStatus
  <1>1. ASSUME LogInv, [Next]_vars
        PROVE  LogInv'
    <2>1. ASSUME NEW s \in Session, ExpireContext(s) PROVE LogsKept
      BY <1>1, <2>1, StillLog DEF ExpireContext
    <2>2. ASSUME UNCHANGED vars PROVE LogsKept
      BY <1>1, <2>2, StillLog DEF vars, shared
    <2>3. LogsKept
      BY <1>1, <2>1, <2>2, StepLog DEF Next
    <2>4. PipelineInv'
      BY <1>1, StepInv DEF LogInv
    <2> QED
      BY <2>3, <2>4 DEF LogInv, LogsKept
  <1>2. ASSUME LogInv
        PROVE  LogMatchesStatus
    <2> SUFFICES ASSUME NEW r \in Run, OwnTrace(r)
                 PROVE  LogIsConsistent(r)
      BY DEF LogMatchesStatus, LogIsConsistent, OwnTrace
    <2> QED
      BY <1>2, LogIsTold
  <1> QED
    BY <1>1, <1>2, InitLog, PTL DEF Spec

-----------------------------------------------------------------------------
(* The approval queue.                                                     *)

FlagInv == PipelineInv /\ FlaggedAreQueuedOnce

\* What is queued is a finite set of entries.
LEMMA QueuedIsFinite ==
  ASSUME PipelineInv, NEW r
  PROVE  IsFiniteSet(QueuedFor(r))
  <1>1. DOMAIN queue = 1..Len(queue) /\ Len(queue) \in Nat
    BY DEF PipelineInv, TypeOK
  <1>2. IsFiniteSet(1..Len(queue))
    BY <1>1, FS_Interval
  <1>3. QueuedFor(r) \subseteq 1..Len(queue)
    BY <1>1 DEF QueuedFor
  <1> QED
    BY <1>2, <1>3, FS_Subset

\* Flagging an action and queuing it are one step, whether the store takes the
\* entry or not.
LEMMA FlagActionFlags ==
  ASSUME FlagInv, NEW r \in Run, FlagAction(r)
  PROVE  FlaggedAreQueuedOnce'
  <1> DEFINE proposal == proposed[r][cursor[r]]
             entry == [run |-> r, action |-> proposal]
             n == Len(queue) + 1
  <1>1. proposal \in Action
    BY JudgedAction DEF FlagAction, FlagInv, PipelineInv
  <1>2. /\ queue' = Append(queue, entry)
        /\ flagged' = [flagged EXCEPT ![r] = Append(@, proposal)]
    BY DEF FlagAction, Enqueue
  <1>3. entry.run = r /\ entry.action = proposal /\ entry \in [run : Run, action : Action]
    BY <1>1
  <1> HIDE DEF proposal, entry
  <1>4. /\ queue \in Seq([run : Run, action : Action])
        /\ \A q \in Run : flagged[q] \in Seq(Action)
        /\ flagged'[r] = Append(flagged[r], proposal)
        /\ \A q \in Run \ {r} : flagged'[q] = flagged[q]
    BY <1>2 DEF FlagInv, PipelineInv, TypeOK
  <1>5. /\ DOMAIN queue = 1..Len(queue) /\ Len(queue) \in Nat
        /\ DOMAIN queue' = DOMAIN queue \cup {n} /\ n \notin DOMAIN queue
        /\ queue'[n] = entry
        /\ \A i \in DOMAIN queue : queue'[i] = queue[i]
    BY <1>2, <1>3, <1>4
  <1>6. /\ QueuedFor(r)' = QueuedFor(r) \cup {n} /\ n \notin QueuedFor(r)
        /\ \A q \in Run \ {r} : QueuedFor(q)' = QueuedFor(q)
    BY <1>3, <1>5 DEF QueuedFor
  <1>7. /\ Len(flagged'[r]) = Len(flagged[r]) + 1
        /\ Entries(flagged'[r]) = Entries(flagged[r]) \cup {proposal}
    <2>1. /\ DOMAIN flagged[r] = 1..Len(flagged[r]) /\ Len(flagged[r]) \in Nat
          /\ DOMAIN flagged'[r] = 1..(Len(flagged[r]) + 1)
          /\ \A i \in 1..Len(flagged[r]) : flagged'[r][i] = flagged[r][i]
          /\ flagged'[r][Len(flagged[r]) + 1] = proposal
          /\ Len(flagged'[r]) = Len(flagged[r]) + 1
      BY <1>1, <1>4
    <2>2. DOMAIN flagged'[r] = DOMAIN flagged[r] \cup {Len(flagged[r]) + 1}
      BY <2>1
    <2> QED
      BY <2>1, <2>2 DEF Entries
  <1>8. ASSUME NEW q \in Run
        PROVE  /\ Cardinality(QueuedFor(q)) = Len(flagged[q])
               /\ \A i \in QueuedFor(q) : i \in DOMAIN queue /\ queue[i].action \in Entries(flagged[q])
    BY DEF FlagInv, FlaggedAreQueuedOnce, QueuedFor
  <1>9. Cardinality(QueuedFor(r) \cup {n}) = Cardinality(QueuedFor(r)) + 1
    BY <1>6, QueuedIsFinite, FS_AddElement DEF FlagInv
  <1>10. /\ Cardinality(QueuedFor(r)') = Len(flagged'[r])
         /\ \A i \in QueuedFor(r)' : queue'[i].action \in Entries(flagged'[r])
    BY <1>3, <1>5, <1>6, <1>7, <1>8, <1>9
  <1>11. ASSUME NEW q \in Run \ {r}
         PROVE  /\ Cardinality(QueuedFor(q)') = Len(flagged'[q])
                /\ \A i \in QueuedFor(q)' : queue'[i].action \in Entries(flagged'[q])
    BY <1>4, <1>5, <1>6, <1>8
  <1> QED
    BY <1>10, <1>11 DEF FlaggedAreQueuedOnce

\* Every action Layer 4 flagged waits in the approval queue once, even when the
\* queue's store refused it and when the run failed later.
THEOREM FlaggedWaitOnce == Spec => []FlaggedAreQueuedOnce
  <1>1. ASSUME Init PROVE FlagInv
    <2>1. \A r \in Run : QueuedFor(r) = {} /\ flagged[r] = <<>>
      BY <1>1 DEF Init, QueuedFor
    <2>2. Cardinality({}) = 0 /\ Len(<<>>) = 0
      BY FS_EmptySet
    <2>3. FlaggedAreQueuedOnce
      BY <2>1, <2>2 DEF FlaggedAreQueuedOnce
    <2>4. PipelineInv
      BY <1>1, InitInv
    <2> QED
      BY <2>3, <2>4 DEF FlagInv
  <1>2. ASSUME FlagInv, [Next]_vars
        PROVE  FlagInv'
    <2>1. ASSUME UNCHANGED <<queue, flagged>>
          PROVE  FlaggedAreQueuedOnce'
      BY <1>2, <2>1 DEF FlagInv, FlaggedAreQueuedOnce, QueuedFor, Entries
    <2>2. UNCHANGED <<queue, flagged>> \/ \E r \in Run : FlagAction(r)
      BY <1>2 DEF Next, Step, Submit, Begin, AssembleContext, RetrievePolicy, Orchestrate,
         LoadReview, JudgeAction, FinishReview, SelectVariants, SendAction, RecordExecution,
         ExpireContext, vars, judged, shared
    <2>3. FlaggedAreQueuedOnce'
      BY <1>2, <2>1, <2>2, FlagActionFlags
    <2>4. PipelineInv'
      BY <1>2, StepInv DEF FlagInv
    <2> QED
      BY <2>3, <2>4 DEF FlagInv
  <1>3. FlagInv => FlaggedAreQueuedOnce
    BY DEF FlagInv
  <1> QED
    BY <1>1, <1>2, <1>3, PTL DEF Spec

-----------------------------------------------------------------------------
(* The refinement of DecisionGate.                                         *)

\* The approved list of r is what its review has let through so far.
Faithful(r) ==
  /\ \A i \in DOMAIN approved[r] : \E j \in 1..(cursor[r] - 1) : approved[r][i] = proposed[r][j]
  /\ \A j \in 1..(cursor[r] - 1) : VerdictOf(r, proposed[r][j]) = "APPROVED" =>
       \E i \in DOMAIN approved[r] : approved[r][i] = proposed[r][j]

\* The evidence of a review is stored exactly when it is over, and while it
\* lasts the approved list is what the verdicts let through.
ReviewOf(r) ==
  /\ pc[r] \in Unreviewed \cup {"judging"} => ~Evaluated(r)
  /\ pc[r] \in {"L5", "L6"} => Evaluated(r)
  /\ pc[r] = "judging" => reviewed[r] \in Profile /\ Faithful(r)

\* The invariant behind the refinement.
GateInv == PipelineInv /\ \A r \in Run : ReviewOf(r)

-----------------------------------------------------------------------------
(* The evidence of a review.                                               *)

\* Evidence of a review is a record of that event and run.
LEMMA EvaluatedRecord ==
  ASSUME NEW q
  PROVE  Evaluated(q) <=> \E a \in audit : a.run = q /\ a.event = "GUARDRAILS_EVALUATION"
  BY DEF Evaluated, RecordedEvents

\* The same after a step.
LEMMA EvaluatedRecordNext ==
  ASSUME NEW q
  PROVE  Evaluated(q)' <=> \E a \in audit' : a.run = q /\ a.event = "GUARDRAILS_EVALUATION"
  BY DEF Evaluated, RecordedEvents

\* A record adds evidence of a review only if it is one.
LEMMA RecordEvaluates ==
  ASSUME NEW r \in Run, NEW event, NEW trace, NEW layer, NEW next,
         Stored(r, event, trace, layer, next), NEW q \in Run
  PROVE  Evaluated(q)' <=> (Evaluated(q) \/ (q = r /\ event = "GUARDRAILS_EVALUATION"))
  <1> DEFINE new == Record(r, event, trace)
  <1>1. new.run = r /\ new.event = event
    BY DEF Record
  <1>2. audit' = audit \cup {new}
    BY DEF Stored
  <1> HIDE DEF new
  <1> QED
    BY <1>1, <1>2, EvaluatedRecord, EvaluatedRecordNext

\* Evidence stays as it is while the log does.
LEMMA SameEvidence ==
  ASSUME audit' = audit, NEW q \in Run
  PROVE  Evaluated(q)' <=> Evaluated(q)
  BY DEF Evaluated, RecordedEvents

-----------------------------------------------------------------------------
(* How steps of the pipeline show in the gate.                             *)

\* A step that changes nothing the gate sees is a stutter.
LEMMA GateStutters ==
  ASSUME UNCHANGED <<GateStage, GateProposals, GateCleared, delivered>>
  PROVE  [Gate!Next]_(Gate!vars)
  BY DEF Gate!vars

\* A run that ends closes its decision.
LEMMA GateCloses ==
  ASSUME NEW r \in Run, GateStage[r] # "closed",
         GateStage' = [GateStage EXCEPT ![r] = "closed"],
         UNCHANGED <<GateProposals, GateCleared, delivered>>
  PROVE  [Gate!Next]_(Gate!vars)
  BY DEF Gate!Next, Gate!Close

\* A step that moves one run within its stage, or closes it.
LEMMA GateMoves ==
  ASSUME PipelineInv, NEW r \in Run, NEW step, pc' = [pc EXCEPT ![r] = step],
         \/ StageOf(step) = StageOf(pc[r])
         \/ StageOf(step) = "closed" /\ StageOf(pc[r]) # "closed",
         UNCHANGED <<GateProposals, GateCleared, delivered>>
  PROVE  [Gate!Next]_(Gate!vars)
  <1>1. GateStage' = [GateStage EXCEPT ![r] = StageOf(step)]
    BY DEF GateStage, PipelineInv, TypeOK
  <1>2. GateStage[r] = StageOf(pc[r])
    BY DEF GateStage
  <1>3. CASE StageOf(step) = StageOf(pc[r])
    <2>1. GateStage' = GateStage
      BY <1>1, <1>2, <1>3 DEF GateStage
    <2> QED
      BY <2>1, GateStutters
  <1>4. CASE StageOf(step) = "closed" /\ StageOf(pc[r]) # "closed"
    BY <1>1, <1>2, <1>4, GateCloses
  <1> QED
    BY <1>3, <1>4

-----------------------------------------------------------------------------
(* Reviews that a step leaves alone.                                       *)

\* A run none of whose own state changes keeps its review.
LEMMA OtherReview ==
  ASSUME NEW q \in Run, ReviewOf(q),
         pc'[q] = pc[q], proposed'[q] = proposed[q], cursor'[q] = cursor[q],
         approved'[q] = approved[q], reviewed'[q] = reviewed[q],
         certainty'[q] = certainty[q], Evaluated(q)' <=> Evaluated(q)
  PROVE  ReviewOf(q)'
  BY DEF ReviewOf, Faithful, VerdictOf

\* A step that moves one run on and leaves its review, its approved list and
\* what it delivered, in a way the gate does not see or sees as closing.
LEMMA QuietMove ==
  ASSUME GateInv, NEW r \in Run, NEW step, pc' = [pc EXCEPT ![r] = step],
         UNCHANGED <<proposed, cursor, approved, reviewed, certainty, delivered>>,
         \A q \in Run : Evaluated(q)' <=> Evaluated(q),
         \/ StageOf(step) = StageOf(pc[r])
         \/ StageOf(step) = "closed" /\ StageOf(pc[r]) # "closed",
         step \in Unreviewed => ~Evaluated(r),
         step \in {"L5", "L6"} => Evaluated(r),
         step # "judging"
  PROVE  (\A q \in Run : ReviewOf(q)') /\ [Gate!Next]_(Gate!vars)
  <1>1. ASSUME NEW q \in Run, q # r PROVE ReviewOf(q)'
    BY <1>1, OtherReview DEF GateInv, PipelineInv, TypeOK
  <1>2. ReviewOf(r)'
    BY DEF ReviewOf, GateInv, PipelineInv, TypeOK
  <1>3. UNCHANGED <<GateProposals, GateCleared>>
    BY DEF GateProposals, GateCleared
  <1>4. [Gate!Next]_(Gate!vars)
    BY <1>3, GateMoves DEF GateInv
  <1> QED
    BY <1>1, <1>2, <1>4

\* A run that fails.
LEMMA QuietFailure ==
  ASSUME GateInv, NEW r \in Run, pc' = [pc EXCEPT ![r] = "failed"],
         StageOf(pc[r]) # "closed",
         UNCHANGED <<proposed, cursor, approved, reviewed, certainty, delivered>>,
         \A q \in Run : Evaluated(q)' <=> Evaluated(q)
  PROVE  (\A q \in Run : ReviewOf(q)') /\ [Gate!Next]_(Gate!vars)
  BY QuietMove DEF StageOf, Unreviewed

\* The stages of the steps.
LEMMA StageNames ==
  /\ StageOf("idle") = "open" /\ StageOf("submitted") = "open"
  /\ StageOf("L1") = "open" /\ StageOf("L2") = "open" /\ StageOf("L3") = "open"
  /\ StageOf("L4") = "proposed" /\ StageOf("judging") = "proposed"
  /\ StageOf("L5") = "cleared" /\ StageOf("L6") = "cleared"
  /\ StageOf("sent") = "contacted"
  /\ StageOf("done") = "closed" /\ StageOf("failed") = "closed"
  BY DEF StageOf

\* Before its review, a run has no evidence of it.
LEMMA NoEvidence ==
  ASSUME GateInv, NEW r \in Run, pc[r] \in Unreviewed \cup {"judging"}
  PROVE  ~Evaluated(r)
  BY DEF GateInv, ReviewOf

\* A layer other than the review closes with its record, within a stage.
LEMMA RecordMoves ==
  ASSUME GateInv, NEW r \in Run, NEW event, NEW trace, NEW layer, NEW next,
         Stored(r, event, trace, layer, next), event # "GUARDRAILS_EVALUATION",
         StageOf(next) = StageOf(pc[r]),
         next \in Unreviewed => ~Evaluated(r),
         next \in {"L5", "L6"} => Evaluated(r),
         next # "judging",
         UNCHANGED <<proposed, cursor, approved, reviewed, certainty, delivered>>
  PROVE  (\A q \in Run : ReviewOf(q)') /\ [Gate!Next]_(Gate!vars)
  <1>1. pc' = [pc EXCEPT ![r] = next]
    BY DEF Stored, Advance, Goto
  <1>2. \A q \in Run : Evaluated(q)' <=> Evaluated(q)
    BY RecordEvaluates
  <1> QED
    BY <1>1, <1>2, QuietMove

\* A layer that raises.
LEMMA AbortMoves ==
  ASSUME GateInv, NEW r \in Run, NEW layer, Abort(r, layer), audit' = audit,
         StageOf(pc[r]) # "closed",
         UNCHANGED <<proposed, cursor, approved, reviewed, certainty, delivered>>
  PROVE  (\A q \in Run : ReviewOf(q)') /\ [Gate!Next]_(Gate!vars)
  <1>1. pc' = [pc EXCEPT ![r] = "failed"]
    BY DEF Abort, Goto
  <1> QED
    BY <1>1, SameEvidence, QuietFailure

-----------------------------------------------------------------------------
(* Every action keeps the reviews and shows in the gate as a step of it or  *)
(* not at all.                                                              *)

\* What the lemmas below establish of a step.
GateStep == (\A q \in Run : ReviewOf(q)') /\ [Gate!Next]_(Gate!vars)

\* Submit stays in the open stage.
LEMMA SubmitGate ==
  ASSUME GateInv, NEW r \in Run, Submit(r)
  PROVE  GateStep
  <1>1. pc[r] = "idle" /\ pc' = [pc EXCEPT ![r] = "submitted"] /\ audit' = audit
    BY DEF Submit, Goto
  <1>2. ~Evaluated(r)
    BY <1>1, NoEvidence DEF Unreviewed
  <1> QED
    BY <1>1, <1>2, QuietMove, SameEvidence, StageNames DEF Submit, judged, GateStep

\* Begin stays in the open stage.
LEMMA BeginGate ==
  ASSUME GateInv, NEW r \in Run, Begin(r)
  PROVE  GateStep
  <1>1. /\ pc[r] \in {"idle", "submitted"}
        /\ pc' = [pc EXCEPT ![r] = "L1"]
        /\ audit' = audit
    BY DEF Begin, Goto
  <1>2. ~Evaluated(r)
    BY <1>1, NoEvidence DEF Unreviewed
  <1> QED
    BY <1>1, <1>2, QuietMove, SameEvidence, StageNames DEF Begin, judged, GateStep

\* AssembleContext stays in the open stage or closes.
LEMMA AssembleContextGate ==
  ASSUME GateInv, NEW r \in Run, AssembleContext(r)
  PROVE  GateStep
  <1>1. pc[r] = "L1"
    BY DEF AssembleContext
  <1>2. UNCHANGED <<proposed, cursor, approved, reviewed, certainty, delivered>>
    BY DEF AssembleContext, judged
  <1>3. ~Evaluated(r)
    BY <1>1, NoEvidence DEF Unreviewed
  <1>4. CASE Stored(r, "CONTEXT_ASSEMBLY", SessionOf[r], "L1", "L2")
    BY <1>1, <1>2, <1>3, <1>4, RecordMoves, StageNames DEF GateStep
  <1>5. CASE Refused(r, "L1")
    BY <1>1, <1>2, <1>5, AbortMoves, StageNames DEF GateStep, Refused
  <1>6. CASE ContextAuditDropped(r)
    <2>1. pc' = [pc EXCEPT ![r] = "L2"] /\ audit' = audit
      BY <1>6 DEF ContextAuditDropped, Advance, Goto
    <2> QED
      BY <1>1, <1>2, <1>3, <2>1, QuietMove, SameEvidence, StageNames DEF GateStep
  <1>7. CASE Abort(r, "L1") /\ audit' = audit
    BY <1>1, <1>2, <1>7, AbortMoves, StageNames DEF GateStep
  <1> QED
    BY <1>4, <1>5, <1>6, <1>7 DEF AssembleContext, Audited

\* RetrievePolicy stays in the open stage or closes.
LEMMA RetrievePolicyGate ==
  ASSUME GateInv, NEW r \in Run, RetrievePolicy(r)
  PROVE  GateStep
  <1>1. pc[r] = "L2"
    BY DEF RetrievePolicy
  <1>2. UNCHANGED <<proposed, cursor, approved, reviewed, certainty, delivered>>
    BY DEF RetrievePolicy, judged
  <1>3. ~Evaluated(r)
    BY <1>1, NoEvidence DEF Unreviewed
  <1>4. CASE Stored(r, "VECTOR_RETRIEVAL", SessionOf[r], "L2", "L3")
    BY <1>1, <1>2, <1>3, <1>4, RecordMoves, StageNames DEF GateStep
  <1>5. CASE Refused(r, "L2") \/ SessionExpired(r, "L2")
    BY <1>1, <1>2, <1>5, AbortMoves, StageNames DEF GateStep, Refused, SessionExpired
  <1> QED
    BY <1>4, <1>5 DEF RetrievePolicy, Audited

\* SelectVariants stays in the cleared stage or closes.
LEMMA SelectVariantsGate ==
  ASSUME GateInv, NEW r \in Run, SelectVariants(r)
  PROVE  GateStep
  <1>1. pc[r] = "L5"
    BY DEF SelectVariants
  <1>2. UNCHANGED <<proposed, cursor, approved, reviewed, certainty, delivered>>
    BY DEF SelectVariants, judged
  <1>3. Evaluated(r)
    BY <1>1 DEF GateInv, ReviewOf
  <1>4. CASE Stored(r, "AB_ASSIGNMENT", TraceOf[r], "L5", "L6")
    BY <1>1, <1>2, <1>3, <1>4, RecordMoves, StageNames DEF GateStep, Unreviewed
  <1>5. CASE Refused(r, "L5")
    BY <1>1, <1>2, <1>5, AbortMoves, StageNames DEF GateStep, Refused
  <1> QED
    BY <1>4, <1>5 DEF SelectVariants

\* RecordExecution closes.
LEMMA RecordExecutionGate ==
  ASSUME GateInv, NEW r \in Run, RecordExecution(r)
  PROVE  GateStep
  <1>1. pc[r] \in {"L6", "sent"}
    BY DEF RecordExecution
  <1>2. UNCHANGED <<proposed, cursor, approved, reviewed, certainty, delivered>>
    BY DEF RecordExecution, judged
  <1>3. CASE /\ audit' = audit \cup {Record(r, "ACTION_EXECUTED", TraceOf[r])}
             /\ pc' = [pc EXCEPT ![r] = "done"]
    <2> DEFINE new == Record(r, "ACTION_EXECUTED", TraceOf[r])
    <2>1. new.event # "GUARDRAILS_EVALUATION"
      BY DEF Record
    <2>2. audit' = audit \cup {new}
      BY <1>3
    <2> HIDE DEF new
    <2>3. \A q \in Run : Evaluated(q)' <=> Evaluated(q)
      BY <2>1, <2>2, EvaluatedRecord, EvaluatedRecordNext
    <2> QED
      BY <1>1, <1>2, <1>3, <2>3, QuietMove, StageNames DEF GateStep, Unreviewed
  <1>4. CASE Abort(r, "L6") /\ audit' = audit
    BY <1>1, <1>2, <1>4, AbortMoves, StageNames DEF GateStep
  <1> QED
    BY <1>3, <1>4 DEF RecordExecution, Goto

\* A run that goes from Layer 3 to Layer 4 proposes what it hands over.
LEMMA HandOver ==
  ASSUME GateInv, NEW r \in Run, NEW actions \in Seq(Action),
         pc[r] = "L3", pc' = [pc EXCEPT ![r] = "L4"],
         proposed' = [proposed EXCEPT ![r] = actions],
         UNCHANGED <<cursor, approved, reviewed, delivered>>,
         \A q \in Run : q # r => certainty'[q] = certainty[q],
         \A q \in Run : Evaluated(q)' <=> Evaluated(q)
  PROVE  GateStep
  <1>1. ASSUME NEW q \in Run, q # r PROVE ReviewOf(q)'
    BY <1>1, OtherReview DEF GateInv, PipelineInv, TypeOK
  <1>2. pc'[r] = "L4"
    BY DEF GateInv, PipelineInv, TypeOK
  <1>3. ~Evaluated(r)
    BY NoEvidence DEF Unreviewed
  <1>4. ReviewOf(r)'
    BY <1>2, <1>3 DEF ReviewOf
  <1>5. GateStage[r] = "open" /\ GateStage' = [GateStage EXCEPT ![r] = "proposed"]
    BY StageNames DEF GateStage, GateInv, PipelineInv, TypeOK
  <1>6. GateProposals' = [GateProposals EXCEPT ![r] = Entries(actions)]
    BY DEF GateProposals, GateInv, PipelineInv, TypeOK
  <1>7. Entries(actions) \in SUBSET Action
    BY DEF Entries
  <1>8. GateCleared' = GateCleared
    BY DEF GateCleared
  <1>9. Gate!Propose(r)
    BY <1>5, <1>6, <1>7, <1>8 DEF Gate!Propose
  <1> QED
    BY <1>1, <1>4, <1>9 DEF GateStep, Gate!Next

\* Orchestrate proposes or closes.
LEMMA OrchestrateGate ==
  ASSUME GateInv, NEW r \in Run, Orchestrate(r)
  PROVE  GateStep
  <1>1. pc[r] = "L3"
    BY DEF Orchestrate
  <1>2. UNCHANGED <<cursor, approved, reviewed, delivered>>
    BY DEF Orchestrate, judged
  <1>3. CASE SessionExpired(r, "L3") /\ UNCHANGED <<proposed, certainty>>
    BY <1>1, <1>2, <1>3, AbortMoves, StageNames DEF GateStep, SessionExpired
  <1>4. CASE /\ \E actions \in Proposals : proposed' = [proposed EXCEPT ![r] = actions]
             /\ \E c \in Confidence : certainty' = [certainty EXCEPT ![r] = c]
             /\ Stored(r, "ORCHESTRATION_COMPLETE", TraceOf[r], "L3", "L4")
    <2>1. PICK actions \in Proposals : proposed' = [proposed EXCEPT ![r] = actions]
      BY <1>4
    <2>2. actions \in Seq(Action)
      BY PipelineAssumption DEF PipelineAssumption
    <2>3. \A q \in Run : q # r => certainty'[q] = certainty[q]
      BY <1>4 DEF GateInv, PipelineInv, TypeOK
    <2>4. \A q \in Run : Evaluated(q)' <=> Evaluated(q)
      BY <1>4, RecordEvaluates
    <2>5. pc' = [pc EXCEPT ![r] = "L4"]
      BY <1>4 DEF Stored, Advance, Goto
    <2> QED
      BY <1>1, <1>2, <2>1, <2>2, <2>3, <2>4, <2>5, HandOver
  <1>5. CASE Advance(r, "L3", "L4") /\ UNCHANGED <<proposed, certainty, audit>>
    <2>1. pc' = [pc EXCEPT ![r] = "L4"]
      BY <1>5 DEF Advance, Goto
    <2>2. proposed[r] \in Seq(Action) /\ proposed' = [proposed EXCEPT ![r] = proposed[r]]
      BY <1>5 DEF GateInv, PipelineInv, TypeOK
    <2> QED
      BY <1>1, <1>2, <1>5, <2>1, <2>2, SameEvidence, HandOver
  <1>6. CASE Abort(r, "L3") /\ UNCHANGED <<proposed, certainty, audit>>
    BY <1>1, <1>2, <1>6, AbortMoves, StageNames DEF GateStep
  <1> QED
    BY <1>3, <1>4, <1>5, <1>6 DEF Orchestrate

\* LoadReview stays in the proposed stage, with nothing judged, or closes.
LEMMA LoadReviewGate ==
  ASSUME GateInv, NEW r \in Run, LoadReview(r)
  PROVE  GateStep
  <1>1. pc[r] = "L4"
    BY DEF LoadReview
  <1>2. UNCHANGED <<proposed, cursor, approved, certainty, delivered, audit>>
    BY DEF LoadReview, judged, SessionExpired
  <1>3. CASE reviewed' = reviewed /\ Abort(r, "L4")
    BY <1>1, <1>2, <1>3, AbortMoves, StageNames DEF GateStep
  <1>4. CASE /\ context[SessionOf[r]] # None
             /\ reviewed' = [reviewed EXCEPT ![r] = context[SessionOf[r]]]
             /\ pc' = [pc EXCEPT ![r] = "judging"]
    <2>1. ASSUME NEW q \in Run, q # r PROVE ReviewOf(q)'
      BY <1>2, <1>4, <2>1, OtherReview, SameEvidence DEF GateInv, PipelineInv, TypeOK
    <2>2. pc'[r] = "judging" /\ reviewed'[r] \in Profile
      BY <1>4, TraceNames DEF GateInv, PipelineInv, TypeOK
    <2>3. ~Evaluated(r)'
      BY <1>1, <1>2, NoEvidence, SameEvidence DEF Unreviewed
    <2>4. cursor[r] = 1 /\ approved[r] = <<>>
      BY <1>1 DEF GateInv, PipelineInv, StageConsistency, RunStage, Unreviewed
    <2>5. Faithful(r)'
      BY <1>2, <2>4 DEF Faithful
    <2>6. ReviewOf(r)'
      BY <2>2, <2>3, <2>5 DEF ReviewOf
    <2>7. UNCHANGED <<GateProposals, GateCleared>>
      BY <1>2, SameEvidence DEF GateProposals, GateCleared
    <2>8. [Gate!Next]_(Gate!vars)
      BY <1>1, <1>2, <1>4, <2>7, GateMoves, StageNames DEF GateInv
    <2> QED
      BY <2>1, <2>6, <2>8 DEF GateStep
  <1> QED
    BY <1>3, <1>4 DEF LoadReview, SessionExpired, Goto

\* SendAction contacts the customer with what was cleared, or closes.
LEMMA SendActionGate ==
  ASSUME GateInv, NEW r \in Run, SendAction(r)
  PROVE  GateStep
  <1>1. pc[r] = "L6" /\ chosen[r] # <<>>
    BY DEF SendAction
  <1>2. UNCHANGED <<proposed, cursor, approved, reviewed, certainty, audit>>
    BY DEF SendAction, judged
  <1>3. CASE delivered' = delivered /\ Abort(r, "L6")
    BY <1>1, <1>2, <1>3, AbortMoves, StageNames DEF GateStep
  <1>4. CASE /\ delivered' = [delivered EXCEPT ![r] = Append(@, chosen[r][1])]
             /\ pc' = [pc EXCEPT ![r] = "sent"]
    <2>1. ASSUME NEW q \in Run, q # r PROVE ReviewOf(q)'
      BY <1>2, <1>4, <2>1, OtherReview, SameEvidence DEF GateInv, PipelineInv, TypeOK
    <2>2. pc'[r] = "sent"
      BY <1>4 DEF GateInv, PipelineInv, TypeOK
    <2>3. ReviewOf(r)'
      BY <2>2 DEF ReviewOf, Unreviewed
    <2>4. RunStage(r)
      BY DEF GateInv, PipelineInv, StageConsistency
    <2>5. approved[r] \in Seq(Action) /\ chosen[r] \in Seq(Sendable)
      BY DEF GateInv, PipelineInv, TypeOK
    <2>6. 1 \in DOMAIN chosen[r]
      BY <1>1, <2>5
    <2>7. /\ delivered[r] = <<>>
          /\ 1 \in DOMAIN approved[r]
          /\ chosen[r][1] \in Variants(approved[r][1])
      BY <1>1, <2>4, <2>6 DEF RunStage, Executed, Finished
    <2>8. approved[r][1] \in Action /\ approved[r][1] \in Entries(approved[r])
      BY <2>5, <2>7 DEF Entries
    <2>9. chosen[r][1] \in {approved[r][1]}
              \cup {Gate!Reworded(approved[r][1], w) : w \in Wording}
      BY <2>7, <2>8, VariantsAreWordings DEF SendableAs, Reworded, Gate!Reworded
    <2>10. delivered' = [delivered EXCEPT ![r] = <<chosen[r][1]>>]
      BY <1>4, <2>7
    <2>11. GateCleared[r] = Entries(approved[r]) /\ GateCleared' = GateCleared
      BY <1>1, <1>2, SameEvidence DEF GateCleared, GateInv, ReviewOf
    <2>12. GateProposals' = GateProposals
      BY <1>2 DEF GateProposals
    <2>13. GateStage[r] = "cleared" /\ GateStage' = [GateStage EXCEPT ![r] = "contacted"]
      BY <1>1, <1>4, StageNames DEF GateStage, GateInv, PipelineInv, TypeOK
    <2>14. Gate!Contact(r)
      BY <2>8, <2>9, <2>10, <2>11, <2>12, <2>13 DEF Gate!Contact
    <2> QED
      BY <2>1, <2>3, <2>14 DEF GateStep, Gate!Next
  <1> QED
    BY <1>3, <1>4 DEF SendAction, ActionToSend, Goto

\* A judged action keeps the approved list faithful to the verdicts.
LEMMA JudgedFaithfully ==
  ASSUME GateInv, NEW r \in Run, Judging(r), cursor' = [cursor EXCEPT ![r] = @ + 1],
         UNCHANGED <<proposed, reviewed, certainty>>,
         \/ /\ VerdictOf(r, proposed[r][cursor[r]]) # "APPROVED"
            /\ approved' = approved
         \/ /\ VerdictOf(r, proposed[r][cursor[r]]) = "APPROVED"
            /\ approved' = [approved EXCEPT ![r] = Append(@, proposed[r][cursor[r]])]
  PROVE  Faithful(r)'
  <1> DEFINE proposal == proposed[r][cursor[r]]
             Passes(j) == VerdictOf(r, proposed[r][j]) = "APPROVED"
  <1>1. Faithful(r) /\ approved[r] \in Seq(Action) /\ cursor[r] \in Nat \ {0}
    BY DEF Judging, GateInv, ReviewOf, PipelineInv, TypeOK
  <1>2. cursor'[r] = cursor[r] + 1
    BY DEF GateInv, PipelineInv, TypeOK
  <1>3. 1..(cursor'[r] - 1) = 1..(cursor[r] - 1) \cup {cursor[r]}
    BY <1>1, <1>2
  <1>4. ASSUME NEW j PROVE Passes(j)' <=> Passes(j)
    BY DEF VerdictOf
  <1>5. /\ \A i \in DOMAIN approved[r] :
             \E j \in 1..(cursor[r] - 1) : approved[r][i] = proposed[r][j]
        /\ \A j \in 1..(cursor[r] - 1) : Passes(j) =>
             \E i \in DOMAIN approved[r] : approved[r][i] = proposed[r][j]
    BY <1>1 DEF Faithful
  <1> HIDE DEF Passes
  <1>6. /\ \A i \in DOMAIN approved'[r] :
             \E j \in 1..(cursor'[r] - 1) : approved'[r][i] = proposed'[r][j]
        /\ \A j \in 1..(cursor'[r] - 1) : Passes(j) =>
             \E i \in DOMAIN approved'[r] : approved'[r][i] = proposed'[r][j]
    <2>1. CASE ~Passes(cursor[r]) /\ approved' = approved
      BY <1>3, <1>5, <2>1
    <2>2. CASE approved' = [approved EXCEPT ![r] = Append(@, proposal)]
      <3>1. approved'[r] = Append(approved[r], proposal)
        BY <2>2 DEF GateInv, PipelineInv, TypeOK
      <3>2. DOMAIN approved'[r] = DOMAIN approved[r] \cup {Len(approved[r]) + 1}
        BY <1>1, <3>1
      <3>3. /\ approved'[r][Len(approved[r]) + 1] = proposal
            /\ \A i \in DOMAIN approved[r] : approved'[r][i] = approved[r][i]
        BY <1>1, <3>1
      <3> QED
        BY <1>3, <1>5, <3>2, <3>3
    <2> QED
      BY <2>1, <2>2 DEF Passes
  <1> QED
    BY <1>4, <1>6 DEF Faithful, Passes

\* JudgeAction does not show in the gate: nothing is cleared before the evidence
\* is stored.
LEMMA JudgeActionGate ==
  ASSUME GateInv, NEW r \in Run, JudgeAction(r)
  PROVE  GateStep
  <1>1. /\ Judging(r) /\ pc[r] = "judging"
        /\ cursor' = [cursor EXCEPT ![r] = @ + 1]
        /\ UNCHANGED <<pc, proposed, reviewed, certainty, delivered, audit>>
    BY DEF JudgeAction, Judging, shared
  <1>2. \/ /\ VerdictOf(r, proposed[r][cursor[r]]) # "APPROVED"
           /\ approved' = approved
        \/ /\ VerdictOf(r, proposed[r][cursor[r]]) = "APPROVED"
           /\ approved' = [approved EXCEPT ![r] = Append(@, proposed[r][cursor[r]])]
    BY DEF JudgeAction
  <1>3. Faithful(r)'
    BY <1>1, <1>2, JudgedFaithfully
  <1>4. ~Evaluated(r) /\ \A q \in Run : Evaluated(q)' <=> Evaluated(q)
    BY <1>1, NoEvidence, SameEvidence
  <1>5. ReviewOf(r)'
    BY <1>1, <1>3, <1>4 DEF ReviewOf, GateInv
  <1>6. \A q \in Run : q # r => cursor'[q] = cursor[q] /\ approved'[q] = approved[q]
    BY <1>1, <1>2 DEF GateInv, PipelineInv, TypeOK
  <1>7. ASSUME NEW q \in Run, q # r PROVE ReviewOf(q)'
    BY <1>1, <1>4, <1>6, <1>7, OtherReview DEF GateInv
  <1>8. UNCHANGED <<GateStage, GateProposals>>
    BY <1>1 DEF GateStage, GateProposals
  <1>9. GateCleared' = GateCleared
    BY <1>4, <1>6 DEF GateCleared, Entries
  <1> QED
    BY <1>1, <1>5, <1>7, <1>8, <1>9, GateStutters DEF GateStep

\* FlagAction does not show in the gate, or closes.
LEMMA FlagActionGate ==
  ASSUME GateInv, NEW r \in Run, FlagAction(r)
  PROVE  GateStep
  <1>1. /\ Judging(r) /\ pc[r] = "judging"
        /\ cursor' = [cursor EXCEPT ![r] = @ + 1]
        /\ UNCHANGED <<proposed, reviewed, certainty, approved, delivered, audit>>
        /\ VerdictOf(r, proposed[r][cursor[r]]) # "APPROVED"
    BY DEF FlagAction, Judging
  <1>2. ~Evaluated(r) /\ \A q \in Run : Evaluated(q)' <=> Evaluated(q)
    BY <1>1, NoEvidence, SameEvidence
  <1>3. \A q \in Run : q # r => cursor'[q] = cursor[q]
    BY <1>1 DEF GateInv, PipelineInv, TypeOK
  <1>4. UNCHANGED <<GateProposals, GateCleared>>
    BY <1>1, <1>2 DEF GateProposals, GateCleared
  <1>5. CASE pc' = pc
    <2>1. ASSUME NEW q \in Run, q # r PROVE ReviewOf(q)'
      BY <1>1, <1>2, <1>3, <1>5, <2>1, OtherReview DEF GateInv
    <2>2. Faithful(r)'
      BY <1>1, JudgedFaithfully
    <2>3. ReviewOf(r)'
      BY <1>1, <1>2, <1>5, <2>2 DEF ReviewOf, GateInv
    <2>4. GateStage' = GateStage
      BY <1>5 DEF GateStage
    <2> QED
      BY <1>1, <1>4, <2>1, <2>3, <2>4, GateStutters DEF GateStep
  <1>6. CASE pc' = [pc EXCEPT ![r] = "failed"]
    <2>1. ASSUME NEW q \in Run, q # r PROVE ReviewOf(q)'
      BY <1>1, <1>2, <1>3, <1>6, <2>1, OtherReview DEF GateInv, PipelineInv, TypeOK
    <2>2. ReviewOf(r)'
      BY <1>6 DEF ReviewOf, GateInv, PipelineInv, TypeOK, Unreviewed
    <2>3. [Gate!Next]_(Gate!vars)
      BY <1>1, <1>4, <1>6, GateMoves, StageNames DEF GateInv
    <2> QED
      BY <2>1, <2>2, <2>3 DEF GateStep
  <1> QED
    BY <1>5, <1>6 DEF FlagAction, Abort, Goto

\* The actions a review approves are the permitted ones.
LEMMA VerdictPermits ==
  ASSUME NEW r \in Run, NEW a \in Action,
         <<reviewed[r], certainty[r]>> \in DOMAIN Permitted
  PROVE  VerdictOf(r, a) = "APPROVED" <=> a \in Permitted[<<reviewed[r], certainty[r]>>]
  <1> DEFINE x == <<a, reviewed[r], certainty[r]>>
  <1>1. a \in Permitted[<<reviewed[r], certainty[r]>>] <=> x \in Approvable
    BY DEF Permitted
  <1>2. ~(x \in Approvable /\ x \in Blockable)
    BY DEF Approvable, Blockable
  <1>3. VerdictOf(r, a) = CASE x \in Approvable -> "APPROVED"
                            [] x \in Blockable  -> "BLOCKED"
                            [] OTHER            -> "FLAGGED"
    BY DEF VerdictOf
  <1> HIDE DEF x
  <1>4. VerdictOf(r, a) = "APPROVED" <=> x \in Approvable
    BY <1>2, <1>3
  <1> QED
    BY <1>1, <1>4

\* A review that is over has approved the permitted proposals.
LEMMA ReviewClears ==
  ASSUME GateInv, NEW r \in Run, pc[r] = "judging", AllJudged(r)
  PROVE  /\ <<reviewed[r], certainty[r]>> \in DOMAIN Permitted
         /\ Entries(approved[r]) =
              Entries(proposed[r]) \cap Permitted[<<reviewed[r], certainty[r]>>]
  <1> DEFINE c == <<reviewed[r], certainty[r]>>
  <1>1. /\ Faithful(r)
        /\ reviewed[r] \in Profile
        /\ certainty[r] \in Confidence \cup {0}
        /\ proposed[r] \in Seq(Action)
        /\ approved[r] \in Seq(Action)
    BY DEF GateInv, ReviewOf, PipelineInv, TypeOK
  <1>2. c \in DOMAIN Permitted
    BY <1>1 DEF Permitted
  <1>3. 1..(cursor[r] - 1) = DOMAIN proposed[r]
    BY <1>1 DEF AllJudged, GateInv, PipelineInv, TypeOK
  <1>4. \A i \in DOMAIN approved[r] :
          approved[r][i] \in Action /\ VerdictOf(r, approved[r][i]) = "APPROVED"
    BY <1>1 DEF GateInv, PipelineInv, StageConsistency, RunStage
  <1>5. \A j \in DOMAIN proposed[r] : proposed[r][j] \in Action
    BY <1>1
  <1>6. \A a \in Action : VerdictOf(r, a) = "APPROVED" <=> a \in Permitted[c]
    BY <1>2, VerdictPermits
  <1>7. /\ \A i \in DOMAIN approved[r] :
             \E j \in DOMAIN proposed[r] : approved[r][i] = proposed[r][j]
        /\ \A j \in DOMAIN proposed[r] : VerdictOf(r, proposed[r][j]) = "APPROVED" =>
             \E i \in DOMAIN approved[r] : approved[r][i] = proposed[r][j]
    BY <1>1, <1>3 DEF Faithful
  <1> HIDE DEF c
  <1>8. Entries(approved[r]) \subseteq Entries(proposed[r]) \cap Permitted[c]
    BY <1>4, <1>6, <1>7 DEF Entries
  <1>9. Entries(proposed[r]) \cap Permitted[c] \subseteq Entries(approved[r])
    BY <1>5, <1>6, <1>7 DEF Entries
  <1> QED
    BY <1>2, <1>8, <1>9 DEF c

\* FinishReview clears under the profile and the confidence it judged by, or
\* closes.
LEMMA FinishReviewGate ==
  ASSUME GateInv, NEW r \in Run, FinishReview(r)
  PROVE  GateStep
  <1>1. pc[r] = "judging" /\ AllJudged(r)
    BY DEF FinishReview
  <1>2. UNCHANGED <<proposed, cursor, approved, reviewed, certainty, delivered>>
    BY DEF FinishReview, judged
  <1>3. CASE Stored(r, "GUARDRAILS_EVALUATION", TraceOf[r], "L4", "L5")
    <2>1. pc' = [pc EXCEPT ![r] = "L5"]
      BY <1>3 DEF Stored, Advance, Goto
    <2>2. \A q \in Run : Evaluated(q)' <=> (Evaluated(q) \/ q = r)
      BY <1>3, RecordEvaluates
    <2>3. ASSUME NEW q \in Run, q # r PROVE ReviewOf(q)'
      BY <1>2, <2>1, <2>2, <2>3, OtherReview DEF GateInv, PipelineInv, TypeOK
    <2>4. ReviewOf(r)'
      BY <2>1, <2>2 DEF ReviewOf, GateInv, PipelineInv, TypeOK, Unreviewed
    <2>5. GateStage[r] = "proposed" /\ GateStage' = [GateStage EXCEPT ![r] = "cleared"]
      BY <1>1, <2>1, StageNames DEF GateStage, GateInv, PipelineInv, TypeOK
    <2>6. GateProposals' = GateProposals /\ GateProposals[r] = Entries(proposed[r])
      BY <1>2 DEF GateProposals
    <2>7. GateCleared' = [GateCleared EXCEPT ![r] = Entries(approved[r])]
      BY <1>2, <2>2 DEF GateCleared
    <2>8. Gate!Clear(r)
      BY <1>1, <1>2, <2>5, <2>6, <2>7, ReviewClears DEF Gate!Clear
    <2> QED
      BY <2>3, <2>4, <2>8 DEF GateStep, Gate!Next
  <1>4. CASE Refused(r, "L4")
    BY <1>1, <1>2, <1>4, AbortMoves, StageNames DEF GateStep, Refused
  <1> QED
    BY <1>3, <1>4 DEF FinishReview, Audited

\* The end of a profile's life does not show in the gate.
LEMMA ExpireContextGate ==
  ASSUME GateInv, NEW s \in Session, ExpireContext(s)
  PROVE  GateStep
  <1>1. UNCHANGED <<pc, proposed, cursor, approved, reviewed, certainty, delivered, audit>>
    BY DEF ExpireContext, judged
  <1>2. \A q \in Run : ReviewOf(q)'
    BY <1>1, OtherReview, SameEvidence DEF GateInv
  <1>3. UNCHANGED <<GateStage, GateProposals, GateCleared>>
    BY <1>1, SameEvidence DEF GateStage, GateProposals, GateCleared
  <1> QED
    BY <1>1, <1>2, <1>3, GateStutters DEF GateStep

-----------------------------------------------------------------------------
(* The refinement.                                                         *)

\* Initial states map to initial states.
LEMMA InitGate == Init => GateInv /\ Gate!Init
  <1> SUFFICES ASSUME Init PROVE GateInv /\ Gate!Init
    OBVIOUS
  <1>1. \A r \in Run : ~Evaluated(r)
    BY EvaluatedRecord DEF Init
  <1>2. \A r \in Run : ReviewOf(r)
    BY <1>1 DEF ReviewOf, Init
  <1>3. Gate!Init
    BY <1>1, StageNames
    DEF Init, Gate!Init, GateStage, GateProposals, GateCleared, Entries
  <1> QED
    BY <1>2, <1>3, InitInv DEF GateInv

\* Steps map to steps or to stutters, and keep the invariant.
LEMMA StepGate ==
  ASSUME GateInv, [Next]_vars
  PROVE  GateInv' /\ [Gate!Next]_(Gate!vars)
  <1>1. PipelineInv'
    BY StepInv DEF GateInv
  <1>2. ASSUME NEW r \in Run, Submit(r) \/ Step(r) PROVE GateStep
    BY <1>2, SubmitGate, BeginGate, AssembleContextGate, RetrievePolicyGate,
       OrchestrateGate, LoadReviewGate, JudgeActionGate, FlagActionGate,
       FinishReviewGate, SelectVariantsGate, SendActionGate, RecordExecutionGate
    DEF Step
  <1>3. ASSUME UNCHANGED vars PROVE GateStep
    <2>1. UNCHANGED <<pc, proposed, cursor, approved, reviewed, certainty, delivered, audit>>
      BY <1>3 DEF vars, judged, shared
    <2>2. \A q \in Run : ReviewOf(q)'
      BY <2>1, OtherReview, SameEvidence DEF GateInv
    <2>3. UNCHANGED <<GateStage, GateProposals, GateCleared>>
      BY <2>1, SameEvidence DEF GateStage, GateProposals, GateCleared
    <2> QED
      BY <2>1, <2>2, <2>3, GateStutters DEF GateStep
  <1>4. GateStep
    BY <1>2, <1>3, ExpireContextGate DEF Next
  <1> QED
    BY <1>1, <1>4 DEF GateInv, GateStep

\* Every behaviour of the pipeline is one of the gate: agents propose, Layer 4
\* clears under one profile and one confidence, and at most one cleared action,
\* possibly reworded, reaches the customer - whatever fails, expires or is shared
\* between concurrent runs.
THEOREM PipelineImplementsGate == Spec => ImplementsGate
  <1>1. Init => GateInv /\ Gate!Init
    BY InitGate
  <1>2. GateInv /\ [Next]_vars => GateInv' /\ [Gate!Next]_(Gate!vars)
    BY StepGate
  <1> QED
    BY <1>1, <1>2, PTL DEF Spec, ImplementsGate, Gate!Spec
=============================================================================
