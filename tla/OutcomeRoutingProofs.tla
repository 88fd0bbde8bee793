------------------------- MODULE OutcomeRoutingProofs -------------------------
(***************************************************************************)
(* What holds of OutcomeRouting for any outcomes, experiments, memory      *)
(* writers, number of reports and of refused writes.                       *)
(***************************************************************************)
EXTENDS OutcomeRouting, FiniteSetTheorems, TLAPS

Stage == {"unreported", "pending", "noting", "over", "failed"}

RoutingTypes ==
  /\ branch \in [Report -> [Destination -> Stage]]
  /\ answer \in [Report -> {"none", "recorded", "error", "lost"}]
  /\ counted \in [Fact -> Nat]
  /\ governance \subseteq Report
  /\ audit_log \subseteq [event : {"OUTCOME_CAPTURED", "MEMORY_STORED"}, about : Report]
  /\ memories \subseteq Report
  /\ refusals \in 0 .. MaxRefusals

\* A destination that is over has what it is for.
OverIsRecorded ==
  \A r \in Report :
    /\ branch[r]["experiment"] = "over" /\ VariantOf[FactOf(r)] = "seeded" =>
         counted[FactOf(r)] > 0
    /\ branch[r]["governance"] = "over" => r \in governance
    /\ branch[r]["audit"] = "over" => Row("OUTCOME_CAPTURED", r) \in audit_log

\* A memory is noted when it is kept.
NotedIsKept ==
  /\ \A r \in Report : branch[r]["memory"] = "noting" => r \in memories
  /\ MemoryRecordsAreTrue

\* Who was told that all is recorded was told so when all was over.
RecordedIsRouted == \A r \in Report : answer[r] = "recorded" => Routed(r)

\* The inductive invariant.
RoutingInv == RoutingTypes /\ OverIsRecorded /\ NotedIsKept /\ RecordedIsRouted

-----------------------------------------------------------------------------
(* What a step of one destination changes.                                 *)

LEMMA ReportsAreOfFacts ==
  ASSUME NEW r \in Report
  PROVE  FactOf(r) \in Fact
  BY DEF Report, FactOf

LEMMA MoveChangesOne ==
  ASSUME RoutingTypes, NEW r \in Report, NEW d \in Destination, NEW to \in Stage,
         Move(r, d, to)
  PROVE  /\ branch' \in [Report -> [Destination -> Stage]]
         /\ branch'[r][d] = to
         /\ \A e \in Destination \ {d} : branch'[r][e] = branch[r][e]
         /\ \A q \in Report \ {r} : branch'[q] = branch[q]
  BY DEF RoutingTypes, Move

\* Nobody who was told that all is recorded has anything pending.
LEMMA RecordedStaysRouted ==
  ASSUME RoutingInv, NEW r \in Report, NEW d \in Destination, NEW to \in Stage,
         Move(r, d, to), branch[r][d] # "over", answer' = answer
  PROVE  RecordedIsRouted'
  <1>1. answer[r] # "recorded"
    BY DEF RoutingInv, RecordedIsRouted, Routed
  <1>2. \A q \in Report \ {r} : branch'[q] = branch[q]
    BY MoveChangesOne DEF RoutingInv
  <1> QED
    BY <1>1, <1>2 DEF RoutingInv, RecordedIsRouted, Routed

LEMMA InitRouting == Init => RoutingInv
  <1> SUFFICES ASSUME Init PROVE RoutingInv
    OBVIOUS
  <1>1. RoutingTypes
    BY RoutingAssumption DEF Init, RoutingTypes, Stage
  <1>2. \A r \in Report, d \in Destination : branch[r][d] = "unreported"
    BY DEF Init
  <1>3. OverIsRecorded
    BY <1>2 DEF OverIsRecorded, Destination
  <1>4. NotedIsKept
    BY <1>2 DEF Init, NotedIsKept, MemoryRecordsAreTrue, Destination
  <1>5. RecordedIsRouted
    BY DEF Init, RecordedIsRouted
  <1> QED
    BY <1>1, <1>3, <1>4, <1>5 DEF RoutingInv

-----------------------------------------------------------------------------
(* The steps.                                                              *)

LEMMA SubmitKeepsRouting ==
  ASSUME RoutingInv, NEW r \in Report, Submit(r)
  PROVE  RoutingInv'
  <1>1. /\ \A d \in Destination : branch'[r][d] \in {"over", "pending"}
        /\ \A d \in Destination : d # "memory" => branch'[r][d] = "pending"
        /\ \A q \in Report \ {r} : branch'[q] = branch[q]
        /\ branch' \in [Report -> [Destination -> Stage]]
        /\ UNCHANGED <<answer, counted, governance, audit_log, memories, refusals>>
    BY DEF RoutingInv, RoutingTypes, Submit, Stage
  <1>2. answer[r] # "recorded"
    BY DEF Submit, Reported, RoutingInv, RecordedIsRouted, Routed, Destination
  <1>3. RoutingTypes'
    BY <1>1 DEF RoutingInv, RoutingTypes
  <1>4. OverIsRecorded'
    BY <1>1 DEF RoutingInv, OverIsRecorded, Destination, Row
  <1>5. NotedIsKept'
    BY <1>1 DEF RoutingInv, NotedIsKept, MemoryRecordsAreTrue, Destination
  <1>6. RecordedIsRouted'
    BY <1>1, <1>2 DEF RoutingInv, RecordedIsRouted, Routed
  <1> QED
    BY <1>3, <1>4, <1>5, <1>6 DEF RoutingInv

LEMMA CountKeepsRouting ==
  ASSUME RoutingInv, NEW r \in Report, CountOutcome(r)
  PROVE  RoutingInv'
  <1> DEFINE to == IF VariantOf[FactOf(r)] = "unseeded" THEN "failed" ELSE "over"
             one == IF VariantOf[FactOf(r)] = "seeded" THEN 1 ELSE 0
  <1>1. /\ branch[r]["experiment"] = "pending" /\ Move(r, "experiment", to)
        /\ counted' = [counted EXCEPT ![FactOf(r)] = @ + one]
        /\ UNCHANGED <<answer, governance, audit_log, memories, refusals>>
    BY DEF CountOutcome, Pending
  <1>2. to \in Stage /\ "experiment" \in Destination /\ FactOf(r) \in Fact
    BY ReportsAreOfFacts DEF Stage, Destination
  <1>3. /\ branch' \in [Report -> [Destination -> Stage]]
        /\ branch'[r]["experiment"] = to
        /\ \A e \in Destination \ {"experiment"} : branch'[r][e] = branch[r][e]
        /\ \A q \in Report \ {r} : branch'[q] = branch[q]
    BY <1>1, <1>2, MoveChangesOne DEF RoutingInv
  <1>4. /\ counted' \in [Fact -> Nat]
        /\ \A f \in Fact : counted'[f] >= counted[f]
        /\ counted'[FactOf(r)] = counted[FactOf(r)] + one
    BY <1>1, <1>2 DEF RoutingInv, RoutingTypes
  <1>5. RoutingTypes'
    BY <1>1, <1>3, <1>4 DEF RoutingInv, RoutingTypes
  <1>6. OverIsRecorded'
    <2>1. ASSUME NEW q \in Report, branch'[q]["experiment"] = "over",
                 VariantOf[FactOf(q)] = "seeded"
          PROVE  counted'[FactOf(q)] > 0
      <3>1. FactOf(q) \in Fact /\ counted[FactOf(q)] \in Nat /\ counted'[FactOf(q)] \in Nat
        BY <1>4, ReportsAreOfFacts DEF RoutingInv, RoutingTypes
      <3>2. CASE q = r
        <4>1. counted'[FactOf(q)] = counted[FactOf(q)] + 1
          BY <1>4, <2>1, <3>2
        <4> QED
          BY <3>1, <4>1
      <3>3. CASE q # r
        <4>1. counted[FactOf(q)] > 0
          BY <1>3, <2>1, <3>3 DEF RoutingInv, OverIsRecorded
        <4> QED
          BY <1>4, <3>1, <4>1
      <3> QED
        BY <3>2, <3>3
    <2>2. ASSUME NEW q \in Report
          PROVE  /\ branch'[q]["governance"] = "over" => q \in governance'
                 /\ branch'[q]["audit"] = "over" => Row("OUTCOME_CAPTURED", q) \in audit_log'
      BY <1>1, <1>3 DEF RoutingInv, OverIsRecorded, Destination
    <2> QED
      BY <2>1, <2>2 DEF OverIsRecorded, Row
  <1>7. NotedIsKept'
    BY <1>1, <1>3 DEF RoutingInv, NotedIsKept, MemoryRecordsAreTrue, Destination
  <1>8. RecordedIsRouted'
    BY <1>1, <1>2, RecordedStaysRouted
  <1> QED
    BY <1>5, <1>6, <1>7, <1>8 DEF RoutingInv

LEMMA GovernKeepsRouting ==
  ASSUME RoutingInv, NEW r \in Report, Govern(r)
  PROVE  RoutingInv'
  <1>1. /\ branch[r]["governance"] = "pending" /\ Move(r, "governance", "over")
        /\ governance' = governance \cup {r}
        /\ UNCHANGED <<answer, counted, audit_log, memories, refusals>>
    BY DEF Govern, Pending
  <1>2. "over" \in Stage /\ "governance" \in Destination
    BY DEF Stage, Destination
  <1>3. /\ branch' \in [Report -> [Destination -> Stage]]
        /\ \A e \in Destination \ {"governance"} : branch'[r][e] = branch[r][e]
        /\ \A q \in Report \ {r} : branch'[q] = branch[q]
    BY <1>1, <1>2, MoveChangesOne DEF RoutingInv
  <1>4. RoutingTypes'
    BY <1>1, <1>3 DEF RoutingInv, RoutingTypes
  <1>5. OverIsRecorded'
    BY <1>1, <1>3 DEF RoutingInv, OverIsRecorded, Destination, Row
  <1>6. NotedIsKept'
    BY <1>1, <1>3 DEF RoutingInv, NotedIsKept, MemoryRecordsAreTrue, Destination
  <1>7. RecordedIsRouted'
    BY <1>1, <1>2, RecordedStaysRouted
  <1> QED
    BY <1>4, <1>5, <1>6, <1>7 DEF RoutingInv

\* A record more in the log, of either kind.
LEMMA RowsAreTyped ==
  ASSUME NEW r \in Report
  PROVE  /\ Row("OUTCOME_CAPTURED", r) \in
              [event : {"OUTCOME_CAPTURED", "MEMORY_STORED"}, about : Report]
         /\ Row("MEMORY_STORED", r) \in
              [event : {"OUTCOME_CAPTURED", "MEMORY_STORED"}, about : Report]
         /\ Row("OUTCOME_CAPTURED", r).event = "OUTCOME_CAPTURED"
         /\ Row("MEMORY_STORED", r).about = r
  BY DEF Row

LEMMA AuditKeepsRouting ==
  ASSUME RoutingInv, NEW r \in Report, WriteAudit(r)
  PROVE  RoutingInv'
  <1> DEFINE row == Row("OUTCOME_CAPTURED", r)
  <1>1. PICK to \in {"over", "failed"} :
          /\ branch[r]["audit"] = "pending" /\ Move(r, "audit", to)
          /\ audit_log' \in {audit_log, audit_log \cup {row}}
          /\ to = "over" => audit_log' = audit_log \cup {row}
          /\ refusals' \in 0 .. MaxRefusals
          /\ UNCHANGED <<answer, counted, governance, memories>>
    BY RoutingAssumption DEF WriteAudit, Pending, Refusal, RoutingInv, RoutingTypes
  <1>2. to \in Stage /\ "audit" \in Destination
    BY DEF Stage, Destination
  <1>3. /\ branch' \in [Report -> [Destination -> Stage]]
        /\ branch'[r]["audit"] = to
        /\ \A e \in Destination \ {"audit"} : branch'[r][e] = branch[r][e]
        /\ \A q \in Report \ {r} : branch'[q] = branch[q]
    BY <1>1, <1>2, MoveChangesOne DEF RoutingInv
  <1>4. RoutingTypes'
    BY <1>1, <1>3, RowsAreTyped DEF RoutingInv, RoutingTypes
  <1>5. OverIsRecorded'
    <2>1. \A q \in Report : branch'[q]["audit"] = "over" => Row("OUTCOME_CAPTURED", q) \in audit_log'
      BY <1>1, <1>3 DEF RoutingInv, OverIsRecorded
    <2> QED
      BY <1>1, <1>3, <2>1 DEF RoutingInv, OverIsRecorded, Destination, Row
  <1>6. NotedIsKept'
    <2>1. MemoryRecordsAreTrue'
      BY <1>1, RowsAreTyped DEF RoutingInv, NotedIsKept, MemoryRecordsAreTrue
    <2> QED
      BY <1>1, <1>3, <2>1 DEF RoutingInv, NotedIsKept, Destination
  <1>7. RecordedIsRouted'
    BY <1>1, <1>2, RecordedStaysRouted
  <1> QED
    BY <1>4, <1>5, <1>6, <1>7 DEF RoutingInv

LEMMA StoreKeepsRouting ==
  ASSUME RoutingInv, NEW r \in Report, StoreMemory(r)
  PROVE  RoutingInv'
  <1>1. PICK to \in {"noting", "over"} :
          /\ branch[r]["memory"] = "pending" /\ Move(r, "memory", to)
          /\ memories' \in {memories, memories \cup {r}}
          /\ to = "noting" => memories' = memories \cup {r}
          /\ refusals' \in 0 .. MaxRefusals
          /\ UNCHANGED <<answer, counted, governance, audit_log>>
    BY RoutingAssumption
    DEF StoreMemory, Pending, Refusal, Kept, CollectionRefused, PointRefused, AfterFailure,
        RoutingInv, RoutingTypes
  <1>2. to \in Stage /\ "memory" \in Destination
    BY DEF Stage, Destination
  <1>3. /\ branch' \in [Report -> [Destination -> Stage]]
        /\ branch'[r]["memory"] = to
        /\ \A e \in Destination \ {"memory"} : branch'[r][e] = branch[r][e]
        /\ \A q \in Report \ {r} : branch'[q] = branch[q]
    BY <1>1, <1>2, MoveChangesOne DEF RoutingInv
  <1>4. RoutingTypes'
    BY <1>1, <1>3 DEF RoutingInv, RoutingTypes
  <1>5. OverIsRecorded'
    BY <1>1, <1>3 DEF RoutingInv, OverIsRecorded, Destination, Row
  <1>6. NotedIsKept'
    BY <1>1, <1>3 DEF RoutingInv, NotedIsKept, MemoryRecordsAreTrue
  <1>7. RecordedIsRouted'
    BY <1>1, <1>2, RecordedStaysRouted
  <1> QED
    BY <1>4, <1>5, <1>6, <1>7 DEF RoutingInv

LEMMA NoteKeepsRouting ==
  ASSUME RoutingInv, NEW r \in Report, NoteMemory(r)
  PROVE  RoutingInv'
  <1> DEFINE row == Row("MEMORY_STORED", r)
  <1>1. /\ branch[r]["memory"] = "noting" /\ Move(r, "memory", "over")
        /\ audit_log' \in {audit_log, audit_log \cup {row}}
        /\ refusals' \in 0 .. MaxRefusals
        /\ UNCHANGED <<answer, counted, governance, memories>>
    BY RoutingAssumption DEF NoteMemory, Refusal, RoutingInv, RoutingTypes
  <1>2. "over" \in Stage /\ "memory" \in Destination
    BY DEF Stage, Destination
  <1>3. /\ branch' \in [Report -> [Destination -> Stage]]
        /\ branch'[r]["memory"] = "over"
        /\ \A e \in Destination \ {"memory"} : branch'[r][e] = branch[r][e]
        /\ \A q \in Report \ {r} : branch'[q] = branch[q]
    BY <1>1, <1>2, MoveChangesOne DEF RoutingInv
  <1>4. RoutingTypes'
    BY <1>1, <1>3, RowsAreTyped DEF RoutingInv, RoutingTypes
  <1>5. OverIsRecorded'
    BY <1>1, <1>3 DEF RoutingInv, OverIsRecorded, Destination, Row
  <1>6. NotedIsKept'
    <2>1. r \in memories
      BY <1>1 DEF RoutingInv, NotedIsKept
    <2>2. MemoryRecordsAreTrue'
      BY <1>1, <2>1, RowsAreTyped DEF RoutingInv, NotedIsKept, MemoryRecordsAreTrue
    <2> QED
      BY <1>1, <1>3, <2>2 DEF RoutingInv, NotedIsKept
  <1>7. RecordedIsRouted'
    BY <1>1, <1>2, RecordedStaysRouted
  <1> QED
    BY <1>4, <1>5, <1>6, <1>7 DEF RoutingInv

LEMMA AnswerKeepsRouting ==
  ASSUME RoutingInv, NEW r \in Report, Confirm(r) \/ Fail(r) \/ LoseAnswer(r)
  PROVE  RoutingInv'
  <1>1. PICK what \in {"recorded", "error", "lost"} :
          /\ answer' = [answer EXCEPT ![r] = what]
          /\ what = "recorded" => Routed(r)
          /\ UNCHANGED <<branch, counted, governance, audit_log, memories, refusals>>
    BY DEF Confirm, Fail, LoseAnswer, AnswerWith
  <1>2. RoutingTypes' /\ OverIsRecorded' /\ NotedIsKept'
    BY <1>1 DEF RoutingInv, RoutingTypes, OverIsRecorded, NotedIsKept, MemoryRecordsAreTrue, Row
  <1>3. RecordedIsRouted'
    BY <1>1 DEF RoutingInv, RoutingTypes, RecordedIsRouted, Routed
  <1> QED
    BY <1>2, <1>3 DEF RoutingInv

LEMMA RoutingKept ==
  ASSUME RoutingInv, [Next]_vars
  PROVE  RoutingInv'
  <1>1. ASSUME UNCHANGED vars PROVE RoutingInv'
    BY <1>1 DEF vars, RoutingInv, RoutingTypes, OverIsRecorded, NotedIsKept,
       MemoryRecordsAreTrue, RecordedIsRouted, Routed, Row
  <1> QED
    BY <1>1, SubmitKeepsRouting, CountKeepsRouting, GovernKeepsRouting, AuditKeepsRouting,
       StoreKeepsRouting, NoteKeepsRouting, AnswerKeepsRouting DEF Next, Route

-----------------------------------------------------------------------------
(* Theorems.                                                               *)

\* Whatever is refused, lost or reported again, the four destinations and the
\* answer stay in step.
THEOREM RoutingInvariant == Spec => []RoutingInv
  BY InitRouting, RoutingKept, PTL DEF Spec

\* "recorded" means that the experiment has counted an outcome it knows of, that
\* governance and the audit log have it and that the memory is done with it.
THEOREM RecordedMeansAll == Spec => []RecordedEverywhere
  <1>1. RoutingInv => RecordedEverywhere
    BY DEF RoutingInv, RecordedEverywhere, RecordedIsRouted, Routed, OverIsRecorded, Destination
  <1> QED
    BY <1>1, RoutingInvariant, PTL

\* The audit log never claims a memory that was not kept.
THEOREM MemoryRecordsHold == Spec => []MemoryRecordsAreTrue
  <1>1. RoutingInv => MemoryRecordsAreTrue
    BY DEF RoutingInv, NotedIsKept
  <1> QED
    BY <1>1, RoutingInvariant, PTL
=============================================================================
