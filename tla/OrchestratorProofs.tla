-------------------------- MODULE OrchestratorProofs --------------------------
(***************************************************************************)
(* What holds of Orchestrator for any runs, sessions, scenarios, state      *)
(* managers, action lists, risk levels, switches of the backend and faults. *)
(***************************************************************************)
EXTENDS Orchestrator, FiniteSetTheorems, SequenceTheorems, TLAPS

-----------------------------------------------------------------------------
(* The proposals of at most two outputs.                                   *)

\* The list that nobody contributed to is empty.
LEMMA FlattenNone == FlattenSeq(<<>>) = <<>>
  BY DEF FlattenSeq

LEMMA FlattenOne ==
  ASSUME NEW a
  PROVE  FlattenSeq(<<a>>) = a
  BY DEF FlattenSeq

LEMMA FlattenTwo ==
  ASSUME NEW a, NEW b
  PROVE  FlattenSeq(<<a, b>>) = a \o b
  <1> DEFINE s == <<a, b>>
             Flat(f) == [i \in 1..Len(s) |-> IF i = 1 THEN s[i] ELSE f[i-1] \o s[i]]
             flat == CHOOSE f : f = Flat(f)
             g == [i \in 1..2 |-> IF i = 1 THEN a ELSE a \o b]
  <1>1. Len(s) = 2 /\ s[1] = a /\ s[2] = b
    OBVIOUS
  <1>2. g = Flat(g)
    BY <1>1
  <1>3. flat = Flat(flat)
    BY <1>2
  <1>4. FlattenSeq(s) = flat[2]
    BY <1>1 DEF FlattenSeq
  <1>5. ASSUME NEW f, f = [i \in 1..2 |-> IF i = 1 THEN a ELSE f[i-1] \o b]
        PROVE  f[2] = a \o b
    <2>1. f[1] = a
      BY <1>5
    <2>2. f[2] = f[1] \o b
      BY <1>5
    <2> QED
      BY <2>1, <2>2
  <1>6. \A f : Flat(f) = [i \in 1..2 |-> IF i = 1 THEN a ELSE f[i-1] \o b]
    BY <1>1
  <1>7. flat = [i \in 1..2 |-> IF i = 1 THEN a ELSE flat[i-1] \o b]
    BY <1>3, <1>6
  <1> HIDE DEF flat
  <1>8. flat[2] = a \o b
    BY <1>5, <1>7
  <1> QED
    BY <1>4, <1>8

-----------------------------------------------------------------------------
(* The pipelines and the budgets.                                          *)

\* A scenario that has a pipeline.
Known(r) == ScenarioOf[r] \in DOMAIN PIPELINES

\* A pipeline starts with an assessment, ends with a proposal, and may branch
\* in between.
LEMMA PipelineShapes ==
  ASSUME NEW r \in Run, Known(r)
  PROVE  /\ Len(Steps(r)) \in {2, 3}
         /\ Steps(r)[1].kind = "agent" /\ Steps(r)[1].agent \in Assessors
         /\ Len(Steps(r)) = 3 => /\ Steps(r)[2].kind = "branch"
                                 /\ Steps(r)[2].if_true = Steps(r)[3].agent
                                 /\ Steps(r)[2].if_false = None
         /\ Steps(r)[Len(Steps(r))].kind = "agent"
         /\ Steps(r)[Len(Steps(r))].agent \in AgentName \ Assessors
  <1>1. CASE ScenarioOf[r] = "payment_risk_intervention"
    BY <1>1 DEF Known, Steps, PIPELINES, Agent, Branch, Assessors, AgentName
  <1>2. CASE ScenarioOf[r] = "billing_dispute_resolution"
    BY <1>2 DEF Known, Steps, PIPELINES, Agent, Branch, Assessors, AgentName
  <1>3. CASE ScenarioOf[r] = "churn_prevention"
    BY <1>3 DEF Known, Steps, PIPELINES, Agent, Branch, Assessors, AgentName
  <1>4. DOMAIN PIPELINES = {"payment_risk_intervention", "billing_dispute_resolution",
                            "churn_prevention"}
    BY DEF PIPELINES
  <1> QED
    BY <1>1, <1>2, <1>3, <1>4 DEF Known

\* The limits of the agent steps are milliseconds, eight seconds at least.
LEMMA StepLimits ==
  ASSUME NEW r \in Run, Known(r), NEW i \in 1..Len(Steps(r)), Steps(r)[i].kind = "agent"
  PROVE  Steps(r)[i].timeout_ms \in Nat /\ Steps(r)[i].timeout_ms >= 8000
  <1>1. CASE ScenarioOf[r] = "payment_risk_intervention"
    BY <1>1 DEF Steps, PIPELINES, Agent, Branch
  <1>2. CASE ScenarioOf[r] = "billing_dispute_resolution"
    BY <1>2 DEF Steps, PIPELINES, Agent, Branch
  <1>3. CASE ScenarioOf[r] = "churn_prevention"
    BY <1>3 DEF Steps, PIPELINES, Agent, Branch
  <1>4. DOMAIN PIPELINES = {"payment_risk_intervention", "billing_dispute_resolution",
                            "churn_prevention"}
    BY DEF PIPELINES
  <1> QED
    BY <1>1, <1>2, <1>3, <1>4 DEF Known

\* Every agent has a budget for every backend, the mock's are short.
LEMMA BudgetTypes ==
  ASSUME NEW agent \in AgentName, NEW backend \in Backend
  PROVE  /\ LatencyBudget(agent, backend) \in Nat
         /\ backend = "mock" => LatencyBudget(agent, backend) <= 2000
  <1>1. Task(agent) \in {"RISK_SCORING", "INTERVENTION_REASONING", "DISPUTE_ANALYSIS",
                         "CHURN_ASSESSMENT"}
    BY DEF Task, AgentName, Assessors
  <1>2. \A task \in {"RISK_SCORING", "INTERVENTION_REASONING", "DISPUTE_ANALYSIS",
                     "CHURN_ASSESSMENT"} :
          /\ Budgets[task][backend] \in Nat
          /\ backend = "mock" => Budgets[task][backend] <= 2000
    BY DEF Budgets, Backend
  <1> QED
    BY <1>1, <1>2 DEF LatencyBudget

\* The limit of a step leaves its model the whole budget and more, whatever backend
\* both were computed for.
LEMMA LimitExceedsBudget ==
  ASSUME NEW step, step.agent \in AgentName, step.timeout_ms \in Nat,
         step.timeout_ms >= 8000, NEW backend \in Backend
  PROVE  /\ AgentTimeout(step, backend) \in Nat
         /\ LatencyBudget(step.agent, backend) < AgentTimeout(step, backend)
  BY BudgetTypes DEF AgentTimeout

\* The agents of a pipeline: the first assesses, the last proposes.
LEMMA AgentSteps ==
  ASSUME NEW r \in Run, Known(r), NEW i \in 1..Len(Steps(r)), Steps(r)[i].kind = "agent"
  PROVE  /\ Steps(r)[i].agent \in AgentName
         /\ Steps(r)[i].timeout_ms \in Nat /\ Steps(r)[i].timeout_ms >= 8000
         /\ i # Len(Steps(r)) => i = 1 /\ Steps(r)[i].agent \in Assessors
         /\ i = Len(Steps(r)) => Steps(r)[i].agent \notin Assessors
  <1>1. i = 1 \/ i = Len(Steps(r)) \/ (i = 2 /\ Len(Steps(r)) = 3)
    BY PipelineShapes
  <1>2. ~(i = 2 /\ Len(Steps(r)) = 3)
    BY PipelineShapes
  <1>3. Assessors \subseteq AgentName
    BY DEF AgentName
  <1> QED
    BY <1>1, <1>2, <1>3, PipelineShapes, StepLimits

-----------------------------------------------------------------------------
(* The inductive invariant.                                                *)

Under(r) == pc[r] \notin {"idle", "raised"}

\* An output that proposes nothing.
Assessment == {output \in OutputType : output.actions = <<>>}

\* Where a run is: in its pipeline, at an agent while one is under way, and with
\* the outputs of the agents before; only the last agent proposes.
Progress(r) ==
  /\ pc[r] = "idle" => at[r] = 1 /\ outputs[r] = <<>>
  /\ Under(r) =>
       /\ Known(r)
       /\ at[r] = 1 => outputs[r] = <<>>
       /\ at[r] \in 2..Len(Steps(r)) => \E a \in Assessment : outputs[r] = <<a>>
       /\ at[r] > Len(Steps(r)) =>
            \E a \in Assessment :
              outputs[r] = <<a>> \/ \E p \in OutputType : outputs[r] = <<a, p>>
  /\ pc[r] = "waiting" => at[r] <= Len(Steps(r)) /\ Current(r).kind = "agent"

\* A run is put before a human once, on the way from an agent that failed to the
\* checkpoint that says so, to its result.
Escalation(r) ==
  /\ pc[r] \in {"idle", "stepping", "waiting"} => reviews[r] = <<>>
  /\ pc[r] = "saving" => (unsaved[r].status = "HUMAN_REVIEW" <=> reviews[r] # <<>>)
  /\ pc[r] = "returning" => reviews[r] # <<>>
  /\ reviews[r] # <<>> /\ pc[r] # "raised" => at[r] <= Len(Steps(r))
  /\ Len(reviews[r]) <= 1
  /\ pc[r] # "done" => result[r] = None
  /\ pc[r] = "done" =>
       result[r] \in HandedOver /\ (result[r].status = "HUMAN_REVIEW" <=> reviews[r] # <<>>)

\* The two limits of a call come from one setting: the budget is the shorter one,
\* also when the client belongs to a backend configured before.
Limits(r) ==
  /\ Under(r) => client[r] \in Backend
  /\ pc[r] = "waiting" =>
       route[r] \in [backend : Backend, budget : Nat] /\ route[r].budget < timeout[r]

RunSoFar(r) == Progress(r) /\ Escalation(r) /\ Limits(r)

UnsavedPerRun == unsaved = [r \in Run |-> unsaved[r]]

OrchestratorInv ==
  /\ RunTypes
  /\ UnsavedPerRun
  /\ \A r \in Run : RunSoFar(r)
  /\ SlowModelsFallBack

\* A step of run r leaves the others alone.
StepOf(r) ==
  /\ \A q \in Run \ {r} :
       /\ pc'[q] = pc[q] /\ at'[q] = at[q] /\ outputs'[q] = outputs[q]
       /\ client'[q] = client[q] /\ timeout'[q] = timeout[q] /\ route'[q] = route[q]
       /\ reviews'[q] = reviews[q] /\ result'[q] = result[q] /\ unsaved'[q] = unsaved[q]

\* What a run is allowed to be does not depend on the others.
LEMMA OthersSoFar ==
  ASSUME OrchestratorInv, NEW r \in Run, StepOf(r), RunSoFar(r)'
  PROVE  \A q \in Run : RunSoFar(q)'
  <1> SUFFICES ASSUME NEW q \in Run, q # r PROVE RunSoFar(q)'
    OBVIOUS
  <1>1. RunSoFar(q)
    BY DEF OrchestratorInv
  <1>2. /\ pc'[q] = pc[q] /\ at'[q] = at[q] /\ outputs'[q] = outputs[q]
        /\ client'[q] = client[q] /\ timeout'[q] = timeout[q] /\ route'[q] = route[q]
        /\ reviews'[q] = reviews[q] /\ result'[q] = result[q] /\ unsaved'[q] = unsaved[q]
    BY DEF StepOf
  <1>3. Progress(q)'
    BY <1>1, <1>2 DEF RunSoFar, Progress, Under, Current
  <1>4. Escalation(q)'
    BY <1>1, <1>2 DEF RunSoFar, Escalation
  <1>5. Limits(q)'
    BY <1>1, <1>2 DEF RunSoFar, Limits, Under, Current
  <1> QED
    BY <1>3, <1>4, <1>5 DEF RunSoFar

\* What the invariant says of one run.
LEMMA InvAt ==
  ASSUME OrchestratorInv, NEW r \in Run
  PROVE  Progress(r) /\ Escalation(r) /\ Limits(r)
  BY DEF OrchestratorInv, RunSoFar

\* Runs that were held up stay known as such.
LEMMA QueuesStay ==
  ASSUME SlowModelsFallBack, UNCHANGED reviews, late \subseteq late'
  PROVE  SlowModelsFallBack'
  BY DEF SlowModelsFallBack

\* The initial states satisfy the invariant.
LEMMA InitInv == Init => OrchestratorInv
  <1> SUFFICES ASSUME Init PROVE OrchestratorInv
    OBVIOUS
  <1>1. \A r \in Run : Len(Steps(r)) \in Nat
    <2> TAKE r \in Run
    <2>1. CASE Known(r)
      BY <2>1, PipelineShapes
    <2>2. CASE ~Known(r)
      BY <2>2 DEF Steps, Known
    <2> QED
      BY <2>1, <2>2
  <1>2. RunTypes
    BY <1>1, OrchestratorAssumption DEF Init, RunTypes, OrchestratorAssumption
  <1>3. UnsavedPerRun
    BY DEF Init, UnsavedPerRun
  <1>4. ASSUME NEW r \in Run PROVE RunSoFar(r)
    BY DEF Init, RunSoFar, Progress, Escalation, Limits, Under
  <1>5. SlowModelsFallBack
    BY DEF Init, SlowModelsFallBack
  <1> QED
    BY <1>2, <1>3, <1>4, <1>5 DEF OrchestratorInv

-----------------------------------------------------------------------------
(* One lemma per operation.                                                *)

\* What a checkpoint sets before its write.
LEMMA CheckpointSets ==
  ASSUME OrchestratorInv, NEW r \in Run, NEW name, NEW status, Checkpoint(r, name, status)
  PROVE  /\ pc' = [pc EXCEPT ![r] = "saving"]
         /\ pc'[r] = "saving" /\ unsaved'[r].status = status
         /\ UnsavedPerRun'
         /\ \A q \in Run \ {r} : pc'[q] = pc[q] /\ unsaved'[q] = unsaved[q]
  <1>1. pc' = [pc EXCEPT ![r] = "saving"]
    BY DEF Checkpoint, Goto
  <1>2. pc'[r] = "saving" /\ \A q \in Run \ {r} : pc'[q] = pc[q]
    BY <1>1 DEF OrchestratorInv, RunTypes
  <1> DEFINE mine == [index |-> counts[ManagerOf[r]][SessionOf[r]] + 1,
                      name |-> name, status |-> status]
  <1>3. unsaved' = [unsaved EXCEPT ![r] = mine] /\ mine.status = status
    BY DEF Checkpoint
  <1> HIDE DEF mine
  <1>4. /\ unsaved'[r] = mine /\ \A q \in Run \ {r} : unsaved'[q] = unsaved[q]
        /\ unsaved' = [q \in Run |-> unsaved'[q]]
    BY <1>3 DEF OrchestratorInv, UnsavedPerRun
  <1> QED
    BY <1>1, <1>2, <1>3, <1>4 DEF UnsavedPerRun

\* The steps of a run are a short sequence, also where its scenario has none.
LEMMA StepsLength ==
  ASSUME NEW r \in Run
  PROVE  Len(Steps(r)) \in 0..3
  <1>1. CASE Known(r)
    BY <1>1, PipelineShapes
  <1>2. CASE ~Known(r)
    BY <1>2 DEF Steps, Known
  <1> QED
    BY <1>1, <1>2

\* A fault counts within the bound.
LEMMA FaultTypes ==
  ASSUME RunTypes, Fault
  PROVE  faults' \in 0..MaxFaults
  BY OrchestratorAssumption DEF RunTypes, Fault, OrchestratorAssumption

\* The agent under way is one of the agents, and its step has a limit.
LEMMA CurrentAgent ==
  ASSUME OrchestratorInv, NEW r \in Run, Under(r), at[r] <= Len(Steps(r)),
         Current(r).kind = "agent"
  PROVE  /\ Known(r) /\ at[r] \in 1..Len(Steps(r))
         /\ Current(r).agent \in AgentName
         /\ Current(r).timeout_ms \in Nat /\ Current(r).timeout_ms >= 8000
         /\ at[r] # Len(Steps(r)) => at[r] = 1 /\ Current(r).agent \in Assessors
         /\ at[r] = Len(Steps(r)) => Current(r).agent \notin Assessors
  <1>1. Known(r)
    BY InvAt DEF Progress
  <1>2. at[r] \in 1..Len(Steps(r))
    BY StepsLength DEF OrchestratorInv, RunTypes
  <1> QED
    BY <1>1, <1>2, AgentSteps DEF Current

\* A run whose agent runs is at an agent of its pipeline.
LEMMA AgentRunning ==
  ASSUME OrchestratorInv, NEW r \in Run, AgentRuns(r)
  PROVE  /\ pc[r] \in {"stepping", "waiting"} /\ Under(r)
         /\ at[r] <= Len(Steps(r)) /\ Current(r).kind = "agent"
  BY InvAt DEF AgentRuns, AtStep, Progress, Under

\* A run that raised has left nothing behind that the invariant speaks of.
LEMMA RaisedSoFar ==
  ASSUME OrchestratorInv, NEW r \in Run, pc' = [pc EXCEPT ![r] = "raised"],
         UNCHANGED <<reviews, result>>, pc[r] # "done"
  PROVE  RunSoFar(r)'
  <1>1. pc'[r] = "raised"
    BY DEF OrchestratorInv, RunTypes
  <1>2. Len(reviews[r]) <= 1 /\ result[r] = None
    BY InvAt DEF Escalation
  <1>3. Progress(r)' /\ Limits(r)'
    BY <1>1 DEF Progress, Limits, Under
  <1>4. Escalation(r)'
    BY <1>1, <1>2 DEF Escalation
  <1> QED
    BY <1>3, <1>4 DEF RunSoFar

LEMMA BeginInv ==
  ASSUME OrchestratorInv, NEW r \in Run, Begin(r)
  PROVE  OrchestratorInv'
  <1>1. /\ pc[r] = "idle"
        /\ UNCHANGED <<at, outputs, timeout, route, late, unsaved, result, setting, reviews,
                       audit, switches, faults>>
        /\ client' = [client EXCEPT ![r] = setting]
    BY DEF Begin, Bound, trail
  <1>2. PICK next \in {"stepping", "raised"} :
          pc' = [pc EXCEPT ![r] = next] /\ (next = "stepping" => Known(r))
    BY DEF Begin, Goto, Known
  <1>3. RunTypes'
    BY <1>1, <1>2 DEF OrchestratorInv, RunTypes
  <1>4. StepOf(r)
    BY <1>1, <1>2 DEF OrchestratorInv, RunTypes, StepOf
  <1>5. pc'[r] = next /\ client'[r] = setting
    BY <1>1, <1>2 DEF OrchestratorInv, RunTypes
  <1>6. ASSUME next = "stepping" PROVE RunSoFar(r)'
    <2>1. at[r] = 1 /\ outputs[r] = <<>> /\ reviews[r] = <<>> /\ result[r] = None
      BY <1>1, InvAt DEF Progress, Escalation
    <2>2. Progress(r)'
      BY <1>1, <1>2, <1>5, <1>6, <2>1, PipelineShapes DEF Progress, Under
    <2>3. Escalation(r)'
      BY <1>1, <1>5, <1>6, <2>1 DEF Escalation
    <2>4. Limits(r)'
      BY <1>1, <1>5, <1>6 DEF Limits, Under, OrchestratorInv, RunTypes
    <2> QED
      BY <2>2, <2>3, <2>4 DEF RunSoFar
  <1>7. RunSoFar(r)'
    BY <1>1, <1>2, <1>6, RaisedSoFar
  <1>8. UnsavedPerRun'
    BY <1>1 DEF OrchestratorInv, UnsavedPerRun
  <1> QED
    BY <1>1, <1>3, <1>4, <1>7, <1>8, OthersSoFar, QueuesStay DEF OrchestratorInv

\* Where a branch leads: to the agent after it or to the end.
LEMMA BranchTargets ==
  ASSUME OrchestratorInv, NEW r \in Run, Under(r), at[r] <= Len(Steps(r)),
         Current(r).kind = "branch", NEW agent
  PROVE  /\ at[r] = 2 /\ Len(Steps(r)) = 3
         /\ StepFor(r, agent) \in {3, 4}
  <1>1. Known(r) /\ at[r] \in 1..Len(Steps(r))
    <2>1. Known(r)
      BY InvAt DEF Progress
    <2>2. at[r] \in 1..(Len(Steps(r)) + 1)
      BY DEF OrchestratorInv, RunTypes
    <2> QED
      BY <2>1, <2>2, StepsLength
  <1>2. at[r] = 2 /\ Len(Steps(r)) = 3
    BY <1>1, PipelineShapes DEF Current
  <1> DEFINE ahead == {i \in (at[r] + 1)..Len(Steps(r)) :
                         Steps(r)[i].kind = "branch" \/ Steps(r)[i].agent = agent}
  <1>3. ahead = {} \/ ahead = {3}
    BY <1>2
  <1>4. Min({3}) = 3
    BY DEF Min
  <1>5. StepFor(r, agent) = IF agent = None \/ ahead = {} THEN 4 ELSE Min(ahead)
    BY <1>2 DEF StepFor
  <1> HIDE DEF ahead
  <1>6. StepFor(r, agent) \in {3, 4}
    BY <1>3, <1>4, <1>5
  <1> QED
    BY <1>2, <1>6

LEMMA TakeBranchInv ==
  ASSUME OrchestratorInv, NEW r \in Run, TakeBranch(r)
  PROVE  OrchestratorInv'
  <1>1. /\ pc[r] = "stepping" /\ at[r] <= Len(Steps(r)) /\ Current(r).kind = "branch"
        /\ Checkpoint(r, "BRANCH", "BRANCH_COMPLETE")
        /\ UNCHANGED <<outputs, client, timeout, route, late, result, setting, reviews, audit,
                       switches, faults>>
    BY DEF TakeBranch, AtStep
  <1>2. PICK next : next = StepFor(r, Routed(r, Last(outputs[r]).risk_level))
                    /\ at' = [at EXCEPT ![r] = next]
    BY DEF TakeBranch
  <1>3. at[r] = 2 /\ Len(Steps(r)) = 3 /\ next \in {3, 4} /\ Known(r)
    BY <1>1, <1>2, BranchTargets, InvAt DEF Under, Progress
  <1>4. /\ pc' = [pc EXCEPT ![r] = "saving"] /\ pc'[r] = "saving"
        /\ unsaved'[r].status = "BRANCH_COMPLETE" /\ UnsavedPerRun'
        /\ \A q \in Run \ {r} : pc'[q] = pc[q] /\ unsaved'[q] = unsaved[q]
    BY <1>1, CheckpointSets
  <1>5. at' \in [Run -> Nat] /\ at'[r] = next /\ \A q \in Run \ {r} : at'[q] = at[q]
    BY <1>2, <1>3 DEF OrchestratorInv, RunTypes
  <1>6. \A q \in Run : at'[q] \in 1..(Len(Steps(q)) + 1)
    <2>1. \A q \in Run : at[q] \in 1..(Len(Steps(q)) + 1)
      BY DEF OrchestratorInv, RunTypes
    <2>2. at'[r] \in 1..(Len(Steps(r)) + 1)
      BY <1>3, <1>5
    <2> QED
      BY <1>5, <2>1, <2>2
  <1>7. RunTypes'
    BY <1>1, <1>4, <1>5, <1>6 DEF OrchestratorInv, RunTypes
  <1>8. StepOf(r)
    <2>1. UNCHANGED <<outputs, client, timeout, route, reviews, result>>
      BY <1>1
    <2> QED
      BY <1>4, <1>5, <2>1 DEF StepOf
  <1>9. Progress(r)'
    <2>1. Under(r) /\ at[r] \in 2..Len(Steps(r))
      BY <1>1, <1>3 DEF Under
    <2>2. PICK a \in Assessment : outputs[r] = <<a>>
      BY <2>1, InvAt DEF Progress
    <2>3. outputs'[r] = <<a>>
      BY <1>1, <2>2
    <2> QED
      BY <1>3, <1>4, <1>5, <2>2, <2>3 DEF Progress
  <1>10. Escalation(r)'
    <2>1. reviews[r] = <<>> /\ result[r] = None
      BY <1>1, InvAt DEF Escalation
    <2>2. reviews'[r] = <<>> /\ result'[r] = None
      BY <1>1, <2>1
    <2> QED
      BY <1>4, <2>2 DEF Escalation
  <1>11. Limits(r)'
    BY <1>1, <1>4, InvAt DEF Limits, Under
  <1>12. RunSoFar(r)'
    BY <1>9, <1>10, <1>11 DEF RunSoFar
  <1> QED
    BY <1>1, <1>4, <1>7, <1>8, <1>12, OthersSoFar, QueuesStay DEF OrchestratorInv

LEMMA CallAgentInv ==
  ASSUME OrchestratorInv, NEW r \in Run, CallAgent(r)
  PROVE  OrchestratorInv'
  <1> DEFINE budget == LatencyBudget(Current(r).agent, setting)
             limit == AgentTimeout(Current(r), setting)
  <1>1. /\ pc[r] = "stepping" /\ at[r] <= Len(Steps(r)) /\ Current(r).kind = "agent"
        /\ timeout' = [timeout EXCEPT ![r] = limit]
        /\ route' = [route EXCEPT ![r] = [backend |-> setting, budget |-> budget]]
        /\ pc' = [pc EXCEPT ![r] = "waiting"]
        /\ UNCHANGED <<at, outputs, client, late, unsaved, result, setting, reviews, audit,
                       switches, faults>>
    BY DEF CallAgent, AtStep, Goto, trail
  <1>2. limit \in Nat /\ budget \in Nat /\ budget < limit /\ setting \in Backend
    <2>1. Under(r) /\ setting \in Backend
      BY <1>1 DEF OrchestratorInv, RunTypes, Under
    <2>2. /\ Current(r).agent \in AgentName
          /\ Current(r).timeout_ms \in Nat /\ Current(r).timeout_ms >= 8000
      BY <1>1, <2>1, CurrentAgent
    <2> QED
      BY <2>1, <2>2, LimitExceedsBudget, BudgetTypes
  <1>3. [backend |-> setting, budget |-> budget] \in [backend : Backend, budget : Nat]
    BY <1>2
  <1> HIDE DEF budget, limit
  <1>4. /\ pc'[r] = "waiting" /\ timeout'[r] = limit
        /\ route'[r] = [backend |-> setting, budget |-> budget]
    BY <1>1 DEF OrchestratorInv, RunTypes
  <1>5. RunTypes'
    BY <1>1, <1>2, <1>3 DEF OrchestratorInv, RunTypes
  <1>6. StepOf(r)
    BY <1>1 DEF OrchestratorInv, RunTypes, StepOf
  <1>7. Current(r)' = Current(r)
    BY <1>1 DEF Current
  <1>8. Progress(r)'
    BY <1>1, <1>4, <1>7, InvAt DEF Progress, Under
  <1>9. Escalation(r)'
    BY <1>1, <1>4, InvAt DEF Escalation
  <1>10. Limits(r)'
    BY <1>1, <1>2, <1>3, <1>4, InvAt DEF Limits, Under
  <1>11. RunSoFar(r)'
    BY <1>8, <1>9, <1>10 DEF RunSoFar
  <1>12. UnsavedPerRun'
    BY <1>1 DEF OrchestratorInv, UnsavedPerRun
  <1> QED
    BY <1>1, <1>5, <1>6, <1>11, <1>12, OthersSoFar, QueuesStay DEF OrchestratorInv

\* Nothing moves while the event loop is held up.
LEMMA HoldLoopInv ==
  ASSUME OrchestratorInv, HoldLoop
  PROVE  OrchestratorInv'
  <1>1. /\ UNCHANGED <<pc, at, outputs, client, timeout, route, unsaved, result, setting,
                       reviews, audit, switches>>
        /\ late \subseteq late' /\ late' \subseteq Run
    BY DEF HoldLoop, trail, OrchestratorInv, RunTypes
  <1>2. faults' \in 0..MaxFaults
    BY FaultTypes DEF HoldLoop, OrchestratorInv
  <1>3. RunTypes'
    BY <1>1, <1>2 DEF OrchestratorInv, RunTypes
  <1>4. ASSUME NEW r \in Run PROVE RunSoFar(r)'
    <2>1. Progress(r)'
      BY <1>1, InvAt DEF Progress, Under, Current
    <2>2. Escalation(r)' /\ Limits(r)'
      BY <1>1, InvAt DEF Escalation, Limits, Under
    <2> QED
      BY <2>1, <2>2 DEF RunSoFar
  <1>5. SlowModelsFallBack' /\ UnsavedPerRun'
    BY <1>1, QueuesStay DEF OrchestratorInv, UnsavedPerRun
  <1> QED
    BY <1>3, <1>4, <1>5 DEF OrchestratorInv

\* The second of two outputs.
LEMMA AppendTwo ==
  ASSUME NEW S, NEW a \in S, NEW b \in S
  PROVE  Append(<<a>>, b) = <<a, b>>
  <1>1. Append(<<a>>, b) \in Seq(S) /\ <<a, b>> \in Seq(S)
    OBVIOUS
  <1>2. Len(Append(<<a>>, b)) = 2 /\ Append(<<a>>, b)[1] = a /\ Append(<<a>>, b)[2] = b
    OBVIOUS
  <1>3. Len(<<a, b>>) = 2 /\ <<a, b>>[1] = a /\ <<a, b>>[2] = b
    OBVIOUS
  <1>4. \A i \in 1..2 : Append(<<a>>, b)[i] = <<a, b>>[i]
    <2>1. \A i \in 1..2 : i = 1 \/ i = 2
      OBVIOUS
    <2> QED
      BY <1>2, <1>3, <2>1
  <1> QED
    BY <1>1, <1>2, <1>3, <1>4, SeqEqual

\* What an agent returns is an output, and an assessor proposes nothing.
LEMMA OutputTypes ==
  ASSUME NEW agent \in AgentName, NEW backend \in Backend, NEW server \in Backend,
         NEW output \in Output(agent, backend, server)
  PROVE  output \in OutputType /\ (agent \in Assessors => output \in Assessment)
  BY OrchestratorAssumption DEF Output, OutputType, Assessment, OrchestratorAssumption

\* An agent returns, to the model that answered or to its replacement.
LEMMA ReturnedInv ==
  ASSUME OrchestratorInv, NEW r \in Run, pc[r] = "waiting", NEW backend \in Backend,
         NEW server \in Backend, Returned(r, backend, server), UNCHANGED faults
  PROVE  OrchestratorInv'
  <1>1. /\ Checkpoint(r, Current(r).agent, "STEP_COMPLETE")
        /\ at' = [at EXCEPT ![r] = @ + 1]
        /\ UNCHANGED <<client, timeout, route, result, setting, reviews, audit, switches, faults>>
        /\ late' = late \ {r}
    BY DEF Returned
  <1>2. PICK output \in Output(Current(r).agent, backend, server) :
          outputs' = [outputs EXCEPT ![r] = Append(@, output)]
    BY DEF Returned
  <1>3. Under(r) /\ at[r] <= Len(Steps(r)) /\ Current(r).kind = "agent"
    BY InvAt DEF Progress, Under
  <1>4. /\ Known(r) /\ at[r] \in 1..Len(Steps(r)) /\ Current(r).agent \in AgentName
        /\ at[r] # Len(Steps(r)) => at[r] = 1 /\ Current(r).agent \in Assessors
    BY <1>3, CurrentAgent
  <1>5. output \in OutputType /\ (Current(r).agent \in Assessors => output \in Assessment)
    BY <1>4, OutputTypes
  <1>6. /\ pc' = [pc EXCEPT ![r] = "saving"] /\ pc'[r] = "saving"
        /\ unsaved'[r].status = "STEP_COMPLETE" /\ UnsavedPerRun'
        /\ \A q \in Run \ {r} : pc'[q] = pc[q] /\ unsaved'[q] = unsaved[q]
    BY <1>1, CheckpointSets
  <1>7. at' \in [Run -> Nat] /\ at'[r] = at[r] + 1 /\ \A q \in Run \ {r} : at'[q] = at[q]
    BY <1>1 DEF OrchestratorInv, RunTypes
  <1>8. \A q \in Run : at'[q] \in 1..(Len(Steps(q)) + 1)
    <2>1. \A q \in Run : at[q] \in 1..(Len(Steps(q)) + 1)
      BY DEF OrchestratorInv, RunTypes
    <2>2. at'[r] \in 1..(Len(Steps(r)) + 1)
      BY <1>4, <1>7, StepsLength
    <2> QED
      BY <1>7, <2>1, <2>2
  <1>9. /\ outputs[r] \in Seq(OutputType) /\ outputs'[r] = Append(outputs[r], output)
        /\ \A q \in Run \ {r} : outputs'[q] = outputs[q]
    BY <1>2 DEF OrchestratorInv, RunTypes
  <1>10. outputs' \in [Run -> Seq(OutputType)]
    BY <1>2, <1>5, <1>9 DEF OrchestratorInv, RunTypes
  <1>11. RunTypes'
    <2>1. pc' \in [Run -> {"idle", "stepping", "waiting", "saving", "returning", "done",
                           "raised"}]
      BY <1>6 DEF OrchestratorInv, RunTypes
    <2> QED
      BY <1>1, <1>7, <1>8, <1>10, <2>1 DEF OrchestratorInv, RunTypes
  <1>12. StepOf(r)
    <2>1. UNCHANGED <<client, timeout, route, reviews, result>>
      BY <1>1
    <2> QED
      BY <1>6, <1>7, <1>9, <2>1 DEF StepOf
  <1>13. Progress(r)'
    <2>1. CASE at[r] = Len(Steps(r))
      <3>1. Len(Steps(r)) \in {2, 3}
        BY <1>4, PipelineShapes
      <3>2. at[r] \in 2..Len(Steps(r))
        <4>1. \A n : n \in {2, 3} => n \in 2..n
          OBVIOUS
        <4> QED
          BY <2>1, <3>1, <4>1
      <3>3. PICK a \in Assessment : outputs[r] = <<a>>
        BY <1>3, <3>2, InvAt DEF Progress
      <3>4. outputs'[r] = <<a, output>>
        <4>1. outputs'[r] = Append(<<a>>, output) /\ a \in OutputType
          BY <1>9, <3>3 DEF Assessment
        <4> QED
          BY <1>5, <4>1, AppendTwo
      <3>5. \E b \in Assessment : \E p \in OutputType : outputs'[r] = <<b, p>>
        BY <1>5, <3>4
      <3> QED
        BY <1>4, <1>6, <1>7, <2>1, <3>1, <3>5 DEF Progress
    <2>2. CASE at[r] # Len(Steps(r))
      <3>1. at[r] = 1 /\ output \in Assessment /\ Len(Steps(r)) \in {2, 3}
        BY <1>4, <1>5, <2>2, PipelineShapes
      <3>2. outputs[r] = <<>>
        BY <1>3, <3>1, InvAt DEF Progress
      <3>3. outputs'[r] = <<output>>
        BY <1>9, <3>2
      <3> QED
        BY <1>4, <1>6, <1>7, <3>1, <3>3 DEF Progress
    <2> QED
      BY <2>1, <2>2
  <1>14. Escalation(r)'
    <2>1. reviews[r] = <<>> /\ result[r] = None
      BY InvAt DEF Escalation
    <2>2. reviews'[r] = <<>> /\ result'[r] = None
      BY <1>1, <2>1
    <2> QED
      BY <1>6, <2>2 DEF Escalation
  <1>15. Limits(r)'
    BY <1>1, <1>6, InvAt DEF Limits, Under
  <1>16. RunSoFar(r)'
    BY <1>13, <1>14, <1>15 DEF RunSoFar
  <1>17. SlowModelsFallBack'
    <2>1. reviews[r] = <<>>
      BY InvAt DEF Escalation
    <2> QED
      BY <1>1, <2>1 DEF OrchestratorInv, SlowModelsFallBack
  <1> QED
    BY <1>1, <1>6, <1>11, <1>12, <1>16, <1>17, OthersSoFar DEF OrchestratorInv

LEMMA AnswerInv ==
  ASSUME OrchestratorInv, NEW r \in Run, Answer(r)
  PROVE  OrchestratorInv'
  <1>1. pc[r] = "waiting" /\ Returned(r, route[r].backend, client[r]) /\ UNCHANGED faults
    BY DEF Answer
  <1>2. client[r] \in Backend /\ route[r] \in [backend : Backend, budget : Nat]
    BY <1>1, InvAt DEF Limits, Under
  <1> QED
    BY <1>1, <1>2, ReturnedInv

LEMMA FallBackInv ==
  ASSUME OrchestratorInv, NEW r \in Run, FallBack(r)
  PROVE  OrchestratorInv'
  BY ReturnedInv DEF FallBack, Backend

\* A failure goes before a human: the queue of a run was empty.
LEMMA EscalateInv ==
  ASSUME OrchestratorInv, NEW r \in Run, AgentRuns(r),
         NEW failure \in {"TIMEOUT", "ERROR"}, failure = "TIMEOUT" => r \in late,
         Escalate(r, failure), faults' \in 0..MaxFaults
  PROVE  OrchestratorInv'
  <1>1. /\ Checkpoint(r, Current(r).agent, "HUMAN_REVIEW")
        /\ UNCHANGED <<at, outputs, client, timeout, route, late, result, setting, audit,
                       switches>>
    BY DEF Escalate, agents
  <1> DEFINE item == [step |-> Current(r).agent, failure_type |-> failure]
  <1>2. reviews' = [reviews EXCEPT ![r] = Append(@, item)]
    BY DEF Escalate, Queued
  <1>3. Under(r) /\ at[r] <= Len(Steps(r)) /\ Current(r).kind = "agent"
    BY AgentRunning
  <1>4. item \in [step : AgentName, failure_type : {"TIMEOUT", "ERROR"}]
    BY <1>3, CurrentAgent
  <1>5. item.failure_type = failure
    OBVIOUS
  <1> HIDE DEF item
  <1>6. reviews[r] = <<>> /\ result[r] = None
    BY AgentRunning, InvAt DEF Escalation
  <1>7. reviews'[r] = <<item>> /\ \A q \in Run \ {r} : reviews'[q] = reviews[q]
    BY <1>2, <1>6 DEF OrchestratorInv, RunTypes
  <1>8. reviews' \in [Run -> Seq([step : AgentName, failure_type : {"TIMEOUT", "ERROR"}])]
    <2>1. <<item>> \in Seq([step : AgentName, failure_type : {"TIMEOUT", "ERROR"}])
      BY <1>4
    <2>2. Append(reviews[r], item) = <<item>>
      BY <1>6
    <2> QED
      BY <1>2, <2>1, <2>2 DEF OrchestratorInv, RunTypes
  <1>9. /\ pc' = [pc EXCEPT ![r] = "saving"] /\ pc'[r] = "saving"
        /\ unsaved'[r].status = "HUMAN_REVIEW" /\ UnsavedPerRun'
        /\ \A q \in Run \ {r} : pc'[q] = pc[q] /\ unsaved'[q] = unsaved[q]
    BY <1>1, CheckpointSets
  <1>10. RunTypes'
    <2>1. pc' \in [Run -> {"idle", "stepping", "waiting", "saving", "returning", "done",
                           "raised"}]
      BY <1>9 DEF OrchestratorInv, RunTypes
    <2> QED
      BY <1>1, <1>8, <2>1 DEF OrchestratorInv, RunTypes
  <1>11. StepOf(r)
    BY <1>1, <1>7, <1>9 DEF StepOf
  <1>12. Progress(r)'
    BY <1>1, <1>3, <1>9, InvAt DEF Progress, Under
  <1>13. Escalation(r)'
    <2>1. reviews'[r] # <<>> /\ Len(reviews'[r]) = 1
      BY <1>7
    <2>2. at'[r] <= Len(Steps(r)) /\ result'[r] = None
      BY <1>1, <1>3, <1>6
    <2> QED
      BY <1>9, <2>1, <2>2 DEF Escalation
  <1>14. Limits(r)'
    BY <1>1, <1>3, <1>9, InvAt DEF Limits, Under
  <1>15. RunSoFar(r)'
    BY <1>12, <1>13, <1>14 DEF RunSoFar
  <1>16. SlowModelsFallBack'
    <2> SUFFICES ASSUME NEW q \in Run, NEW i \in DOMAIN reviews'[q],
                        reviews'[q][i].failure_type = "TIMEOUT"
                 PROVE  q \in late
      BY <1>1 DEF SlowModelsFallBack
    <2>2. CASE q = r
      BY <1>5, <1>7, <2>2
    <2>3. CASE q # r
      BY <1>7, <2>3 DEF OrchestratorInv, SlowModelsFallBack
    <2> QED
      BY <2>2, <2>3
  <1> QED
    BY <1>9, <1>10, <1>11, <1>15, <1>16, OthersSoFar DEF OrchestratorInv

\* The actions of at most two outputs, in order.
LEMMA ProposedOfOne ==
  ASSUME NEW a
  PROVE  ProposedActions(<<a>>) = a.actions
  <1>1. [i \in DOMAIN <<a>> |-> <<a>>[i].actions] = <<a.actions>>
    OBVIOUS
  <1> QED
    BY <1>1, FlattenOne DEF ProposedActions

LEMMA ProposedOfTwo ==
  ASSUME NEW a, NEW p
  PROVE  ProposedActions(<<a, p>>) = a.actions \o p.actions
  <1>1. [i \in DOMAIN <<a, p>> |-> <<a, p>>[i].actions] = <<a.actions, p.actions>>
    OBVIOUS
  <1> QED
    BY <1>1, FlattenTwo DEF ProposedActions

LEMMA ProposedOfNone == ProposedActions(<<>>) = <<>>
  <1>1. [i \in DOMAIN <<>> |-> <<>>[i].actions] = <<>>
    OBVIOUS
  <1> QED
    BY <1>1, FlattenNone DEF ProposedActions

\* What a run hands over: nothing before its last agent, one agent's list after.
LEMMA Proposals ==
  ASSUME OrchestratorInv, NEW r \in Run, Under(r)
  PROVE  /\ ProposedActions(outputs[r]) \in ActionList
         /\ at[r] <= Len(Steps(r)) => ProposedActions(outputs[r]) = <<>>
  <1>1. at[r] \in 1..(Len(Steps(r)) + 1) /\ Len(Steps(r)) \in 0..3
    BY StepsLength DEF OrchestratorInv, RunTypes
  <1>2. <<>> \in ActionList /\ \A list \in ActionList : <<>> \o list = list
    <2>1. \A list \in ActionList : list \in Seq(ToSet(list))
      BY OrchestratorAssumption DEF OrchestratorAssumption
    <2> QED
      BY <2>1, OrchestratorAssumption, ConcatEmptySeq DEF OrchestratorAssumption
  <1>3. CASE outputs[r] = <<>>
    BY <1>2, <1>3, ProposedOfNone
  <1>4. CASE \E a \in Assessment : outputs[r] = <<a>>
    BY <1>2, <1>4, ProposedOfOne DEF Assessment
  <1>5. CASE at[r] > Len(Steps(r))
             /\ \E a \in Assessment, p \in OutputType : outputs[r] = <<a, p>>
    <2>1. PICK a \in Assessment, p \in OutputType : outputs[r] = <<a, p>>
      BY <1>5
    <2>2. ProposedActions(outputs[r]) = <<>> \o p.actions /\ p.actions \in ActionList
      BY <2>1, ProposedOfTwo DEF Assessment, OutputType
    <2> QED
      BY <1>1, <1>2, <1>5, <2>2
  <1>6. at[r] = 1 \/ at[r] \in 2..Len(Steps(r)) \/ at[r] > Len(Steps(r))
    BY <1>1
  <1> QED
    BY <1>3, <1>4, <1>5, <1>6, InvAt DEF Progress

LEMMA TimeOutInv ==
  ASSUME OrchestratorInv, NEW r \in Run, TimeOut(r)
  PROVE  OrchestratorInv'
  <1>1. /\ pc[r] = "waiting" /\ ~BudgetEndsFirst(r)
        /\ Escalate(r, "TIMEOUT") /\ UNCHANGED faults
    BY DEF TimeOut
  <1>2. r \in late
    BY <1>1, InvAt DEF Limits, BudgetEndsFirst
  <1>3. faults' \in 0..MaxFaults
    BY <1>1 DEF OrchestratorInv, RunTypes
  <1> QED
    BY <1>1, <1>2, <1>3, EscalateInv DEF AgentRuns

LEMMA AgentFailsInv ==
  ASSUME OrchestratorInv, NEW r \in Run, AgentFails(r)
  PROVE  OrchestratorInv'
  <1>1. faults' \in 0..MaxFaults
    BY FaultTypes DEF AgentFails, OrchestratorInv, RunTypes
  <1> QED
    BY <1>1, EscalateInv DEF AgentFails

LEMMA AgentRaisesInv ==
  ASSUME OrchestratorInv, NEW r \in Run, AgentRaises(r)
  PROVE  OrchestratorInv'
  <1>1. /\ pc[r] # "done" /\ pc' = [pc EXCEPT ![r] = "raised"]
        /\ UNCHANGED <<at, outputs, client, timeout, route, late, unsaved, result, setting,
                       reviews, audit, switches>>
    BY AgentRunning DEF AgentRaises, Goto, agents, trail
  <1>2. faults' \in 0..MaxFaults
    BY FaultTypes DEF AgentRaises, OrchestratorInv
  <1>3. RunTypes'
    BY <1>1, <1>2 DEF OrchestratorInv, RunTypes
  <1>4. StepOf(r)
    BY <1>1 DEF OrchestratorInv, RunTypes, StepOf
  <1>5. RunSoFar(r)' /\ UnsavedPerRun'
    BY <1>1, RaisedSoFar DEF OrchestratorInv, UnsavedPerRun
  <1> QED
    BY <1>1, <1>3, <1>4, <1>5, OthersSoFar, QueuesStay DEF OrchestratorInv

\* The write of a checkpoint returns and the run goes on, or it raises.
LEMMA SaveInv ==
  ASSUME OrchestratorInv, NEW r \in Run, Save(r)
  PROVE  OrchestratorInv'
  <1>1. /\ pc[r] = "saving" /\ unsaved' = [unsaved EXCEPT ![r] = None]
        /\ UNCHANGED <<at, outputs, client, timeout, route, late, result, setting, reviews,
                       audit, switches>>
    BY DEF Save, Refused, agents
  <1>2. PICK next \in {AfterSave(unsaved[r].status), "raised"} : pc' = [pc EXCEPT ![r] = next]
    BY DEF Save, Refused, Goto
  <1>3. faults' \in 0..MaxFaults
    <2>1. UNCHANGED faults \/ Fault
      BY DEF Save
    <2> QED
      BY <2>1, FaultTypes DEF OrchestratorInv, RunTypes
  <1>4. next \in {"returning", "stepping", "raised"}
    BY DEF AfterSave
  <1>5. RunTypes'
    BY <1>1, <1>2, <1>3, <1>4 DEF OrchestratorInv, RunTypes
  <1>6. UnsavedPerRun'
    BY <1>1 DEF OrchestratorInv, UnsavedPerRun
  <1>7. StepOf(r)
    BY <1>1, <1>2 DEF OrchestratorInv, RunTypes, UnsavedPerRun, StepOf
  <1>8. pc'[r] = next
    BY <1>2 DEF OrchestratorInv, RunTypes
  <1>9. ASSUME next # "raised" PROVE RunSoFar(r)'
    <2>1. next = AfterSave(unsaved[r].status) /\ next \in {"returning", "stepping"}
      BY <1>2, <1>4, <1>9
    <2>2. next = "returning" <=> reviews[r] # <<>>
      BY <1>1, <2>1, InvAt DEF Escalation, AfterSave
    <2>3. Progress(r)'
      BY <1>1, <1>8, <2>1, InvAt DEF Progress, Under
    <2>4. Escalation(r)'
      BY <1>1, <1>8, <2>1, <2>2, InvAt DEF Escalation
    <2>5. Limits(r)'
      BY <1>1, <1>8, <2>1, InvAt DEF Limits, Under
    <2> QED
      BY <2>3, <2>4, <2>5 DEF RunSoFar
  <1>10. RunSoFar(r)'
    BY <1>1, <1>2, <1>9, RaisedSoFar
  <1> QED
    BY <1>1, <1>5, <1>6, <1>7, <1>10, OthersSoFar, QueuesStay DEF OrchestratorInv

\* A run ends with an output: no proposals leave it after a review was asked for.
LEMMA FinishInv ==
  ASSUME OrchestratorInv, NEW r \in Run, Under(r), pc[r] # "done",
         NEW output \in HandedOver, result' = [result EXCEPT ![r] = output],
         pc' = [pc EXCEPT ![r] = "done"],
         output.status = "HUMAN_REVIEW" <=> reviews[r] # <<>>,
         UNCHANGED <<agents, trail, setting, reviews, switches, faults>>,
         audit' \subseteq Run
  PROVE  OrchestratorInv'
  <1>1. UNCHANGED <<at, outputs, client, timeout, route, late, unsaved, setting, reviews,
                    switches, faults>>
    BY DEF agents, trail
  <1>2. RunTypes'
    BY <1>1 DEF OrchestratorInv, RunTypes
  <1>3. UnsavedPerRun' /\ StepOf(r)
    BY <1>1 DEF OrchestratorInv, RunTypes, UnsavedPerRun, StepOf
  <1>4. pc'[r] = "done" /\ result'[r] = output
    BY DEF OrchestratorInv, RunTypes
  <1>5. Progress(r)' /\ Limits(r)'
    BY <1>1, <1>4, InvAt DEF Progress, Limits, Under
  <1>6. Escalation(r)'
    BY <1>1, <1>4, InvAt DEF Escalation, Under
  <1>7. RunSoFar(r)'
    BY <1>5, <1>6 DEF RunSoFar
  <1> QED
    BY <1>1, <1>2, <1>3, <1>7, OthersSoFar, QueuesStay DEF OrchestratorInv

\* What a run hands over is an output.
LEMMA HandedOverTypes ==
  ASSUME OrchestratorInv, NEW r \in Run, Under(r),
         NEW status \in {"PENDING_GUARDRAILS", "HUMAN_REVIEW"}
  PROVE  [status |-> status, actions |-> ProposedActions(outputs[r])] \in HandedOver
  <1>1. ProposedActions(outputs[r]) \in ActionList
    BY Proposals
  <1> QED
    BY <1>1 DEF HandedOver

LEMMA ConcludeInv ==
  ASSUME OrchestratorInv, NEW r \in Run, Conclude(r)
  PROVE  OrchestratorInv'
  <1>1. /\ pc[r] = "stepping" /\ at[r] > Len(Steps(r))
        /\ UNCHANGED <<agents, trail, setting, reviews, switches>>
    BY DEF Conclude
  <1>2. reviews[r] = <<>> /\ Under(r)
    BY <1>1, InvAt DEF Escalation, Under
  <1>3. CASE Recorded(r)
             /\ result' = [result EXCEPT ![r] =
                  [status |-> "PENDING_GUARDRAILS", actions |-> ProposedActions(outputs[r])]]
             /\ Goto(r, "done") /\ UNCHANGED faults
    <2> DEFINE output == [status |-> "PENDING_GUARDRAILS", actions |-> ProposedActions(outputs[r])]
    <2>1. output \in HandedOver /\ output.status = "PENDING_GUARDRAILS"
      BY <1>2, HandedOverTypes
    <2>2. audit' \subseteq Run
      BY <1>3 DEF Recorded, OrchestratorInv, RunTypes
    <2> HIDE DEF output
    <2>3. result' = [result EXCEPT ![r] = output] /\ pc' = [pc EXCEPT ![r] = "done"]
      BY <1>3 DEF output, Goto
    <2> QED
      BY <1>1, <1>2, <1>3, <2>1, <2>2, <2>3, FinishInv
  <1>4. CASE Fault /\ Goto(r, "raised") /\ UNCHANGED <<audit, result>>
    <2>1. UNCHANGED <<at, outputs, client, timeout, route, late, unsaved, setting, reviews,
                      switches>>
      BY <1>1 DEF agents, trail
    <2>2. RunTypes'
      BY <1>4, <2>1, FaultTypes DEF OrchestratorInv, RunTypes, Goto
    <2>3. StepOf(r) /\ UnsavedPerRun'
      BY <1>4, <2>1 DEF OrchestratorInv, RunTypes, UnsavedPerRun, StepOf, Goto
    <2>4. RunSoFar(r)'
      BY <1>1, <1>4, RaisedSoFar DEF Goto
    <2> QED
      BY <2>1, <2>2, <2>3, <2>4, OthersSoFar, QueuesStay DEF OrchestratorInv
  <1> QED
    BY <1>3, <1>4 DEF Conclude

LEMMA HandBackInv ==
  ASSUME OrchestratorInv, NEW r \in Run, HandBack(r)
  PROVE  OrchestratorInv'
  <1> DEFINE output == [status |-> "HUMAN_REVIEW", actions |-> ProposedActions(outputs[r])]
  <1>1. /\ pc[r] = "returning"
        /\ UNCHANGED <<agents, trail, setting, reviews, audit, switches, faults>>
    BY DEF HandBack
  <1>2. reviews[r] # <<>> /\ Under(r)
    BY <1>1, InvAt DEF Escalation, Under
  <1>3. output \in HandedOver /\ output.status = "HUMAN_REVIEW"
    BY <1>2, HandedOverTypes
  <1>4. result' = [result EXCEPT ![r] = output] /\ pc' = [pc EXCEPT ![r] = "done"]
    BY DEF HandBack, Goto
  <1>5. audit' \subseteq Run
    BY <1>1 DEF OrchestratorInv, RunTypes
  <1> HIDE DEF output
  <1> QED
    BY <1>1, <1>2, <1>3, <1>4, <1>5, FinishInv

\* A switch changes the backend under the runs, whose calls keep their limits.
LEMMA SwitchBackendInv ==
  ASSUME OrchestratorInv, SwitchBackend
  PROVE  OrchestratorInv'
  <1>1. /\ switches < MaxSwitches /\ switches' = switches + 1 /\ setting' \in Backend
        /\ UNCHANGED <<pc, at, outputs, client, timeout, route, late, unsaved, result, reviews,
                       audit, faults>>
    BY DEF SwitchBackend, Configured, agents, trail
  <1>2. switches' \in 0..MaxSwitches
    BY <1>1, OrchestratorAssumption DEF OrchestratorInv, RunTypes, OrchestratorAssumption
  <1>3. RunTypes'
    BY <1>1, <1>2 DEF OrchestratorInv, RunTypes
  <1>4. ASSUME NEW r \in Run PROVE RunSoFar(r)'
    <2>1. Progress(r)'
      BY <1>1, InvAt DEF Progress, Under, Current
    <2>2. Escalation(r)'
      BY <1>1, InvAt DEF Escalation
    <2>3. Limits(r)'
      BY <1>1, InvAt DEF Limits, Under
    <2> QED
      BY <2>1, <2>2, <2>3 DEF RunSoFar
  <1>5. SlowModelsFallBack' /\ UnsavedPerRun'
    BY <1>1, QueuesStay DEF OrchestratorInv, UnsavedPerRun
  <1> QED
    BY <1>3, <1>4, <1>5 DEF OrchestratorInv

\* A stuttering step preserves the invariant.
LEMMA StutterInv ==
  ASSUME OrchestratorInv, UNCHANGED vars
  PROVE  OrchestratorInv'
  <1>1. UNCHANGED <<pc, at, outputs, client, timeout, route, late, unsaved, result, setting,
                    reviews, audit, switches, faults>>
    BY DEF vars, agents, trail
  <1>2. RunTypes' /\ UnsavedPerRun' /\ SlowModelsFallBack'
    BY <1>1 DEF OrchestratorInv, RunTypes, UnsavedPerRun, SlowModelsFallBack
  <1>3. ASSUME NEW r \in Run PROVE RunSoFar(r)'
    <2>1. Progress(r)'
      BY <1>1, InvAt DEF Progress, Under, Current
    <2>2. Escalation(r)' /\ Limits(r)'
      BY <1>1, InvAt DEF Escalation, Limits, Under, Current
    <2> QED
      BY <2>1, <2>2 DEF RunSoFar
  <1> QED
    BY <1>2, <1>3 DEF OrchestratorInv

\* Every step preserves the invariant.
LEMMA StepInv == OrchestratorInv /\ [Next]_vars => OrchestratorInv'
  <1> SUFFICES ASSUME OrchestratorInv, [Next]_vars PROVE OrchestratorInv'
    OBVIOUS
  <1>1. ASSUME NEW r \in Run, Step(r) PROVE OrchestratorInv'
    BY <1>1, BeginInv, TakeBranchInv, CallAgentInv, AnswerInv, FallBackInv, TimeOutInv,
       AgentFailsInv, AgentRaisesInv, SaveInv, ConcludeInv, HandBackInv
    DEF Step
  <1>2. CASE SwitchBackend
    BY <1>2, SwitchBackendInv
  <1>3. CASE HoldLoop
    BY <1>3, HoldLoopInv
  <1>4. CASE UNCHANGED vars
    BY <1>4, StutterInv
  <1> QED
    BY <1>1, <1>2, <1>3, <1>4 DEF Next

THEOREM OrchestratorInvariant == Spec => []OrchestratorInv
  BY InitInv, StepInv, PTL DEF Spec

\* A run is put before a human once at most, and then handed back as such.
THEOREM FailuresEscalateOnce == Spec => []EscalatedOnce
  <1>1. OrchestratorInv => EscalatedOnce
    BY DEF OrchestratorInv, RunSoFar, Escalation, EscalatedOnce
  <1> QED
    BY <1>1, OrchestratorInvariant, PTL

\* No slow model ends a run in human review, however the backend is switched, unless
\* the event loop was held up beyond both limits of its call: the limit of every
\* step exceeds the budget of its agent under every backend, the mock included.
THEOREM SlowModelsNeverEscalate == Spec => []SlowModelsFallBack
  <1>1. OrchestratorInv => SlowModelsFallBack
    BY DEF OrchestratorInv
  <1> QED
    BY <1>1, OrchestratorInvariant, PTL

-----------------------------------------------------------------------------
(* The refinement of AgentHandover.                                        *)

\* The abstract variables, as Handover maps them.
HandedBar == [r \in Run |-> IF result[r] = None THEN <<>> ELSE result[r].actions]
EscalatedBar == {r \in Run : reviews[r] # <<>>}

\* A function that differs from another at one argument.
LEMMA ExceptAt ==
  ASSUME NEW S, NEW f, NEW g, f = [x \in S |-> f[x]], g = [x \in S |-> g[x]],
         NEW r \in S, \A q \in S \ {r} : g[q] = f[q]
  PROVE  g = [f EXCEPT ![r] = g[r]]
  OBVIOUS

\* The abstract variables are functions on the runs.
LEMMA BarFunctions ==
  /\ HandoverOutcome = [r \in Run |-> HandoverOutcome[r]]
  /\ HandoverOutcome' = [r \in Run |-> HandoverOutcome'[r]]
  /\ HandedBar = [r \in Run |-> HandedBar[r]]
  /\ HandedBar' = [r \in Run |-> HandedBar'[r]]
  BY DEF HandoverOutcome, HandedBar

LEMMA HandoverVars ==
  Handover!vars = <<HandoverOutcome, HandedBar, audit, EscalatedBar>>
  BY DEF Handover!vars, HandedBar, EscalatedBar

\* How a run stands, from where it is.
LEMMA OutcomeAt ==
  ASSUME OrchestratorInv, NEW r \in Run
  PROVE  /\ pc[r] \notin {"raised", "done"} => HandoverOutcome[r] = "open"
         /\ pc[r] = "raised" => HandoverOutcome[r] = "raised"
         /\ HandedBar[r] = IF result[r] = None THEN <<>> ELSE result[r].actions
         /\ r \in EscalatedBar <=> reviews[r] # <<>>
  BY DEF HandoverOutcome, HandedBar, EscalatedBar

\* A step that moves a run on, without an end, a failure or a result, is a stutter.
LEMMA HandoverStutters ==
  ASSUME OrchestratorInv, NEW r \in Run, pc[r] \notin {"raised", "done"},
         NEW next, next \notin {"raised", "done"}, pc' = [pc EXCEPT ![r] = next],
         UNCHANGED <<result, reviews, audit>>
  PROVE  UNCHANGED Handover!vars
  <1>1. \A q \in Run : pc'[q] = pc[q] \/ (q = r /\ pc'[q] = next)
    BY DEF OrchestratorInv, RunTypes
  <1>2. \A q \in Run : HandoverOutcome'[q] = HandoverOutcome[q]
    BY <1>1 DEF HandoverOutcome
  <1>3. UNCHANGED HandoverOutcome
    BY <1>2 DEF HandoverOutcome
  <1>4. UNCHANGED <<HandedBar, EscalatedBar>>
    BY DEF HandedBar, EscalatedBar
  <1> QED
    BY <1>3, <1>4 DEF Handover!vars, HandedBar, EscalatedBar

\* A failure that no handler names, a write that fails: the run raises.
LEMMA RaiseRefines ==
  ASSUME OrchestratorInv, NEW r \in Run, pc[r] \notin {"raised", "done"},
         pc' = [pc EXCEPT ![r] = "raised"], UNCHANGED <<result, reviews, audit>>
  PROVE  Handover!Raise(r)
  <1>1. \A q \in Run : pc'[q] = IF q = r THEN "raised" ELSE pc[q]
    BY DEF OrchestratorInv, RunTypes
  <1>2. HandoverOutcome[r] = "open"
    BY OutcomeAt
  <1>3. HandoverOutcome' = [HandoverOutcome EXCEPT ![r] = "raised"]
    <2>1. HandoverOutcome'[r] = "raised"
      BY <1>1 DEF HandoverOutcome
    <2>2. \A q \in Run \ {r} : HandoverOutcome'[q] = HandoverOutcome[q]
      BY <1>1 DEF HandoverOutcome
    <2> QED
      BY <2>1, <2>2, BarFunctions, ExceptAt
  <1>4. UNCHANGED <<HandedBar, EscalatedBar>>
    BY DEF HandedBar, EscalatedBar
  <1> QED
    BY <1>2, <1>3, <1>4 DEF Handover!Raise, HandedBar, EscalatedBar

\* The exception handlers put a run before a human for the first time.
LEMMA EscalateRefines ==
  ASSUME OrchestratorInv, NEW r \in Run, AgentRuns(r), NEW failure,
         Escalate(r, failure)
  PROVE  Handover!Escalate(r)
  <1>1. UNCHANGED <<result, audit>> /\ pc' = [pc EXCEPT ![r] = "saving"]
    BY CheckpointSets DEF Escalate
  <1>2. reviews[r] = <<>> /\ pc[r] \in {"stepping", "waiting"}
    BY AgentRunning, InvAt DEF Escalation
  <1> DEFINE item == [step |-> Current(r).agent, failure_type |-> failure]
  <1>3. reviews' = [reviews EXCEPT ![r] = Append(@, item)]
    BY DEF Escalate, Queued
  <1> HIDE DEF item
  <1>4. reviews'[r] # <<>> /\ \A q \in Run \ {r} : reviews'[q] = reviews[q]
    <2>1. reviews'[r] = Append(<<>>, item)
      BY <1>2, <1>3 DEF OrchestratorInv, RunTypes
    <2>2. Append(<<>>, item) # <<>>
      OBVIOUS
    <2> QED
      BY <1>3, <2>1, <2>2 DEF OrchestratorInv, RunTypes
  <1>5. EscalatedBar' = EscalatedBar \cup {r} /\ r \notin EscalatedBar
    BY <1>2, <1>4 DEF EscalatedBar
  <1>6. HandoverOutcome[r] = "open"
    BY <1>2, OutcomeAt
  <1>7. \A q \in Run : pc'[q] = IF q = r THEN "saving" ELSE pc[q]
    BY <1>1 DEF OrchestratorInv, RunTypes
  <1>8. UNCHANGED HandoverOutcome
    <2>1. \A q \in Run : HandoverOutcome'[q] = HandoverOutcome[q]
      BY <1>1, <1>2, <1>7 DEF HandoverOutcome
    <2> QED
      BY <2>1 DEF HandoverOutcome
  <1>9. UNCHANGED HandedBar
    BY <1>1 DEF HandedBar
  <1> QED
    BY <1>1, <1>5, <1>6, <1>8, <1>9 DEF Handover!Escalate, HandedBar, EscalatedBar

\* What finishing a run changes of the abstract state.
LEMMA FinishRefines ==
  ASSUME OrchestratorInv, NEW r \in Run, pc[r] \notin {"raised", "done"},
         NEW output \in HandedOver, result' = [result EXCEPT ![r] = output],
         pc' = [pc EXCEPT ![r] = "done"], UNCHANGED reviews
  PROVE  /\ HandoverOutcome[r] = "open"
         /\ HandoverOutcome' = [HandoverOutcome EXCEPT ![r] =
              IF output.status = "HUMAN_REVIEW" THEN "review" ELSE "proposed"]
         /\ HandedBar[r] = <<>>
         /\ HandedBar' = [HandedBar EXCEPT ![r] = output.actions]
         /\ UNCHANGED EscalatedBar
  <1>1. /\ \A q \in Run : pc'[q] = IF q = r THEN "done" ELSE pc[q]
        /\ \A q \in Run : result'[q] = IF q = r THEN output ELSE result[q]
    BY DEF OrchestratorInv, RunTypes
  <1>2. output # None /\ output.status \in {"PENDING_GUARDRAILS", "HUMAN_REVIEW"}
    BY OrchestratorAssumption DEF OrchestratorAssumption, HandedOver
  <1>3. HandoverOutcome[r] = "open" /\ HandedBar[r] = <<>>
    BY OutcomeAt, InvAt DEF Escalation
  <1>4. HandoverOutcome' = [HandoverOutcome EXCEPT ![r] =
          IF output.status = "HUMAN_REVIEW" THEN "review" ELSE "proposed"]
    <2>1. HandoverOutcome'[r] = IF output.status = "HUMAN_REVIEW" THEN "review" ELSE "proposed"
      BY <1>1, <1>2 DEF HandoverOutcome
    <2>2. \A q \in Run \ {r} : HandoverOutcome'[q] = HandoverOutcome[q]
      BY <1>1 DEF HandoverOutcome
    <2> QED
      BY <2>1, <2>2, BarFunctions, ExceptAt
  <1>5. HandedBar' = [HandedBar EXCEPT ![r] = output.actions]
    <2>1. HandedBar'[r] = output.actions
      BY <1>1, <1>2 DEF HandedBar
    <2>2. \A q \in Run \ {r} : HandedBar'[q] = HandedBar[q]
      BY <1>1 DEF HandedBar
    <2> QED
      BY <2>1, <2>2, BarFunctions, ExceptAt
  <1>6. UNCHANGED EscalatedBar
    BY DEF EscalatedBar
  <1> QED
    BY <1>3, <1>4, <1>5, <1>6

\* Proposals go with their record; no proposal goes with a human review.
LEMMA ConcludeRefines ==
  ASSUME OrchestratorInv, NEW r \in Run, Conclude(r)
  PROVE  Handover!Propose(r) \/ Handover!Raise(r)
  <1>1. pc[r] = "stepping" /\ UNCHANGED reviews
    BY DEF Conclude
  <1>2. reviews[r] = <<>> /\ Under(r)
    BY <1>1, InvAt DEF Escalation, Under
  <1>3. CASE Recorded(r)
             /\ result' = [result EXCEPT ![r] =
                  [status |-> "PENDING_GUARDRAILS", actions |-> ProposedActions(outputs[r])]]
             /\ Goto(r, "done") /\ UNCHANGED faults
    <2> DEFINE output == [status |-> "PENDING_GUARDRAILS", actions |-> ProposedActions(outputs[r])]
    <2>1. output \in HandedOver /\ output.status = "PENDING_GUARDRAILS"
      BY <1>2, HandedOverTypes
    <2>2. output.actions \in ActionList
      BY <1>2, Proposals
    <2> HIDE DEF output
    <2>3. result' = [result EXCEPT ![r] = output] /\ pc' = [pc EXCEPT ![r] = "done"]
      BY <1>3 DEF output, Goto
    <2>4. /\ HandoverOutcome[r] = "open"
          /\ HandoverOutcome' = [HandoverOutcome EXCEPT ![r] = "proposed"]
          /\ HandedBar' = [HandedBar EXCEPT ![r] = output.actions]
          /\ UNCHANGED EscalatedBar
      BY <1>1, <2>1, <2>3, FinishRefines
    <2>5. r \notin EscalatedBar /\ audit' = audit \cup {r}
      BY <1>2, <1>3 DEF EscalatedBar, Recorded
    <2>6. Handover!Propose(r)
      BY <2>2, <2>4, <2>5 DEF Handover!Propose, HandedBar, EscalatedBar
    <2> QED
      BY <2>6
  <1>4. CASE Fault /\ Goto(r, "raised") /\ UNCHANGED <<audit, result>>
    BY <1>1, <1>4, RaiseRefines DEF Goto
  <1> QED
    BY <1>3, <1>4 DEF Conclude

LEMMA HandBackRefines ==
  ASSUME OrchestratorInv, NEW r \in Run, HandBack(r)
  PROVE  Handover!HandBack(r)
  <1> DEFINE output == [status |-> "HUMAN_REVIEW", actions |-> ProposedActions(outputs[r])]
  <1>1. pc[r] = "returning" /\ UNCHANGED <<reviews, audit>>
    BY DEF HandBack
  <1>2. reviews[r] # <<>> /\ Under(r) /\ at[r] <= Len(Steps(r))
    BY <1>1, InvAt DEF Escalation, Under
  <1>3. output \in HandedOver /\ output.status = "HUMAN_REVIEW"
    BY <1>2, HandedOverTypes
  <1>4. output.actions = <<>>
    BY <1>2, Proposals
  <1>5. result' = [result EXCEPT ![r] = output] /\ pc' = [pc EXCEPT ![r] = "done"]
    BY DEF HandBack, Goto
  <1> HIDE DEF output
  <1>6. /\ HandoverOutcome[r] = "open"
        /\ HandoverOutcome' = [HandoverOutcome EXCEPT ![r] = "review"]
        /\ HandedBar[r] = <<>>
        /\ HandedBar' = [HandedBar EXCEPT ![r] = output.actions]
        /\ UNCHANGED EscalatedBar
    BY <1>1, <1>3, <1>5, FinishRefines
  <1>7. UNCHANGED HandedBar
    BY <1>4, <1>6, BarFunctions
  <1>8. r \in EscalatedBar
    BY <1>2 DEF EscalatedBar
  <1> QED
    BY <1>1, <1>6, <1>7, <1>8 DEF Handover!HandBack, HandedBar, EscalatedBar

\* Initial states map to initial states.
LEMMA InitHandover == Init => Handover!Init
  BY DEF Init, Handover!Init, HandoverOutcome

\* Every step of a run maps to a step or a stutter.
LEMMA StepHandover == OrchestratorInv /\ [Next]_vars => [Handover!Next]_(Handover!vars)
  <1> SUFFICES ASSUME OrchestratorInv, [Next]_vars
               PROVE  Handover!Next \/ UNCHANGED Handover!vars
    OBVIOUS
  <1>1. ASSUME NEW r \in Run, Begin(r) PROVE Handover!Next \/ UNCHANGED Handover!vars
    <2>1. PICK next \in {"stepping", "raised"} : pc' = [pc EXCEPT ![r] = next]
      BY <1>1 DEF Begin, Goto
    <2>2. pc[r] = "idle" /\ UNCHANGED <<result, reviews, audit>>
      BY <1>1 DEF Begin
    <2>3. CASE next = "stepping"
      BY <2>1, <2>2, <2>3, HandoverStutters
    <2>4. CASE next = "raised"
      BY <2>1, <2>2, <2>4, RaiseRefines DEF Handover!Next
    <2> QED
      BY <2>3, <2>4
  <1>2. ASSUME NEW r \in Run, TakeBranch(r) PROVE UNCHANGED Handover!vars
    <2>1. /\ pc[r] = "stepping" /\ pc' = [pc EXCEPT ![r] = "saving"]
          /\ UNCHANGED <<result, reviews, audit>>
      BY <1>2, CheckpointSets DEF TakeBranch, AtStep
    <2> QED
      BY <2>1, HandoverStutters
  <1>3. ASSUME NEW r \in Run, CallAgent(r) PROVE UNCHANGED Handover!vars
    <2>1. /\ pc[r] = "stepping" /\ pc' = [pc EXCEPT ![r] = "waiting"]
          /\ UNCHANGED <<result, reviews, audit>>
      BY <1>3 DEF CallAgent, AtStep, Goto
    <2> QED
      BY <2>1, HandoverStutters
  <1>4. ASSUME NEW r \in Run, Answer(r) \/ FallBack(r) PROVE UNCHANGED Handover!vars
    <2>1. /\ pc[r] = "waiting" /\ pc' = [pc EXCEPT ![r] = "saving"]
          /\ UNCHANGED <<result, reviews, audit>>
      BY <1>4, CheckpointSets DEF Answer, FallBack, Returned
    <2> QED
      BY <2>1, HandoverStutters
  <1>5. ASSUME NEW r \in Run, TimeOut(r) \/ AgentFails(r) PROVE Handover!Next
    <2>1. AgentRuns(r) /\ \E failure : Escalate(r, failure)
      BY <1>5 DEF TimeOut, AgentFails, AgentRuns
    <2> QED
      BY <2>1, EscalateRefines DEF Handover!Next
  <1>6. ASSUME NEW r \in Run, AgentRaises(r) PROVE Handover!Next
    <2>1. /\ pc[r] \in {"stepping", "waiting"} /\ pc' = [pc EXCEPT ![r] = "raised"]
          /\ UNCHANGED <<result, reviews, audit>>
      BY <1>6, AgentRunning DEF AgentRaises, Goto
    <2> QED
      BY <2>1, RaiseRefines DEF Handover!Next
  <1>7. ASSUME NEW r \in Run, Save(r) PROVE Handover!Next \/ UNCHANGED Handover!vars
    <2>1. PICK next \in {"returning", "stepping", "raised"} : pc' = [pc EXCEPT ![r] = next]
      BY <1>7 DEF Save, Refused, Goto, AfterSave
    <2>2. pc[r] = "saving" /\ UNCHANGED <<result, reviews, audit>>
      BY <1>7 DEF Save
    <2>3. CASE next = "raised"
      BY <2>1, <2>2, <2>3, RaiseRefines DEF Handover!Next
    <2>4. CASE next # "raised"
      BY <2>1, <2>2, <2>4, HandoverStutters
    <2> QED
      BY <2>3, <2>4
  <1>8. ASSUME NEW r \in Run, Conclude(r) PROVE Handover!Next
    BY <1>8, ConcludeRefines DEF Handover!Next
  <1>9. ASSUME NEW r \in Run, HandBack(r) PROVE Handover!Next
    BY <1>9, HandBackRefines DEF Handover!Next
  <1>10. ASSUME SwitchBackend \/ HoldLoop \/ UNCHANGED vars PROVE UNCHANGED Handover!vars
    <2>1. UNCHANGED <<pc, result, reviews, audit>>
      BY <1>10 DEF SwitchBackend, HoldLoop, vars
    <2> QED
      BY <2>1 DEF Handover!vars, HandoverOutcome
  <1> QED
    BY <1>1, <1>2, <1>3, <1>4, <1>5, <1>6, <1>7, <1>8, <1>9, <1>10 DEF Next, Step

\* Layer 3 keeps its promise: proposals go with evidence, a human review goes
\* with neither a record nor a proposal, and each run ends in one way.
THEOREM HandoverImplemented == Spec => ImplementsHandover
  BY InitHandover, StepHandover, OrchestratorInvariant, PTL
  DEF Spec, ImplementsHandover, Handover!Spec

-----------------------------------------------------------------------------
(* Types, of the checkpoints as well: their indexes stay within the bound   *)
(* because every checkpoint of a run uses up a step of its pipeline.        *)

\* The pipeline steps that are done with: those behind a run, and the one that
\* put it before a human.
Spent ==
  {step \in Run \X (1..3) :
     \/ step[2] < at[step[1]]
     \/ step[2] = at[step[1]] /\ reviews[step[1]] # <<>>}

Unwritten == [index : 1..MaxIndex, name : AgentName \cup {"BRANCH"}, status : Status]

\* No counter has passed the steps done with, and a run that saves has
\* something to save.
TrailInv ==
  /\ TrailTypes
  /\ \A m \in Manager, s \in Session : counts[m][s] <= Cardinality(Spent)
  /\ \A r \in Run : pc[r] = "saving" => unsaved[r] \in Unwritten

\* There are no more steps than the bound on the indexes.
LEMMA StepsBounded ==
  ASSUME NEW steps \in SUBSET (Run \X (1..3))
  PROVE  /\ IsFiniteSet(steps)
         /\ Cardinality(steps) \in Nat
         /\ Cardinality(steps) <= MaxIndex
         /\ MaxIndex \in Nat
  <1>1. IsFiniteSet(Run) /\ Cardinality(Run) \in Nat
    BY OrchestratorAssumption, FS_CardinalityType DEF OrchestratorAssumption
  <1>2. IsFiniteSet(1..3) /\ Cardinality(1..3) = 3
    <2>1. IsFiniteSet(1..3) /\ Cardinality(1..3) = IF 1 > 3 THEN 0 ELSE 3-1+1
      BY FS_Interval, 1 \in Int, 3 \in Int, Zenon
    <2> QED
      BY <2>1
  <1>3. IsFiniteSet(Run \X (1..3)) /\ Cardinality(Run \X (1..3)) = Cardinality(Run) * 3
    BY <1>1, <1>2, FS_Product
  <1>4. IsFiniteSet(steps) /\ Cardinality(steps) <= Cardinality(Run \X (1..3))
    BY <1>3, FS_Subset
  <1>5. Cardinality(steps) \in Nat
    BY <1>4, FS_CardinalityType
  <1> QED
    BY <1>1, <1>3, <1>4, <1>5 DEF MaxIndex

LEMMA SpentIsBounded ==
  /\ Spent \in SUBSET (Run \X (1..3))
  /\ Spent' \in SUBSET (Run \X (1..3))
  BY DEF Spent

\* One more step that is done with makes room for one more checkpoint.
LEMMA SpentGrows ==
  ASSUME Spent \subseteq Spent', NEW step \in Spent', step \notin Spent
  PROVE  Cardinality(Spent) + 1 <= Cardinality(Spent')
  <1>1. IsFiniteSet(Spent) /\ Cardinality(Spent) \in Nat
    BY SpentIsBounded, StepsBounded
  <1>2. IsFiniteSet(Spent')
    BY SpentIsBounded, StepsBounded
  <1>3. IsFiniteSet(Spent \cup {step}) /\ Cardinality(Spent \cup {step}) = Cardinality(Spent) + 1
    BY <1>1, FS_AddElement
  <1>4. Spent \cup {step} \subseteq Spent'
    OBVIOUS
  <1> QED
    BY <1>2, <1>3, <1>4, FS_Subset

\* A step that touches no checkpoint keeps them.
LEMMA TrailStays ==
  ASSUME TrailInv, UNCHANGED <<at, reviews, unsaved, counts, stored>>,
         \A r \in Run : pc'[r] = "saving" => pc[r] = "saving"
  PROVE  TrailInv'
  <1>1. UNCHANGED Spent
    BY DEF Spent
  <1>2. TrailTypes'
    BY DEF TrailInv, TrailTypes
  <1>3. \A r \in Run : pc'[r] = "saving" => unsaved'[r] \in Unwritten
    BY DEF TrailInv
  <1> QED
    BY <1>1, <1>2, <1>3 DEF TrailInv, Unwritten

\* A checkpoint takes the next index, for a step that is done with now.
LEMMA CheckpointTrail ==
  ASSUME OrchestratorInv, TrailInv, NEW r \in Run, NEW name \in AgentName \cup {"BRANCH"},
         NEW status \in Status, Checkpoint(r, name, status),
         Spent \subseteq Spent', NEW step \in Spent', step \notin Spent
  PROVE  TrailInv'
  <1> DEFINE m == ManagerOf[r]
             s == SessionOf[r]
             index == counts[m][s] + 1
             mine == [index |-> index, name |-> name, status |-> status]
  <1>1. m \in Manager /\ s \in Session
    BY DEF Manager, Session
  <1>2. /\ \A n \in Manager, t \in Session :
             counts[n][t] \in Nat /\ counts[n][t] <= Cardinality(Spent)
        /\ counts \in [Manager -> [Session -> 0..MaxIndex]]
    <2>1. counts \in [Manager -> [Session -> 0..MaxIndex]]
      BY DEF TrailInv, TrailTypes
    <2> QED
      BY <2>1 DEF TrailInv
  <1>3. /\ Cardinality(Spent) + 1 <= Cardinality(Spent')
        /\ Cardinality(Spent) \in Nat /\ Cardinality(Spent') \in Nat
        /\ Cardinality(Spent') <= MaxIndex /\ MaxIndex \in Nat
    BY SpentGrows, SpentIsBounded, StepsBounded
  <1>4. index \in 1..MaxIndex /\ index <= Cardinality(Spent')
    BY <1>1, <1>2, <1>3
  <1>5. mine \in Unwritten
    BY <1>4 DEF Unwritten
  <1>6. /\ counts' = [counts EXCEPT ![m][s] = index]
        /\ unsaved' = [unsaved EXCEPT ![r] = mine]
        /\ UNCHANGED stored
        /\ pc' = [pc EXCEPT ![r] = "saving"]
    BY DEF Checkpoint, Goto
  <1>7. counts' \in [Manager -> [Session -> 0..MaxIndex]]
    <2>1. [counts[m] EXCEPT ![s] = index] \in [Session -> 0..MaxIndex]
      BY <1>1, <1>2, <1>3, <1>4
    <2>2. counts' = [counts EXCEPT ![m] = [counts[m] EXCEPT ![s] = index]]
      BY <1>6
    <2> HIDE DEF m, s, index
    <2> QED
      BY <1>1, <1>2, <2>1, <2>2
  <1> HIDE DEF mine, index, m, s
  <1>8. \A n \in Manager, t \in Session : counts'[n][t] <= Cardinality(Spent')
    <2> SUFFICES ASSUME NEW n \in Manager, NEW t \in Session
                 PROVE  counts'[n][t] <= Cardinality(Spent')
      OBVIOUS
    <2>1. CASE n = m /\ t = s
      <3>1. counts'[n][t] = index
        BY <1>2, <1>6, <2>1
      <3> QED
        BY <1>4, <3>1
    <2>2. CASE ~(n = m /\ t = s)
      <3>1. counts'[n][t] = counts[n][t]
        BY <1>2, <1>6, <2>2
      <3> QED
        BY <1>2, <1>3, <3>1
    <2> QED
      BY <2>1, <2>2
  <1>9. unsaved' \in [Run -> {None} \cup Unwritten]
    BY <1>5, <1>6 DEF TrailInv, TrailTypes, Unwritten
  <1>10. \A q \in Run : pc'[q] = "saving" => unsaved'[q] \in Unwritten
    <2>1. \A q \in Run \ {r} : pc'[q] = pc[q] /\ unsaved'[q] = unsaved[q]
      BY <1>6 DEF OrchestratorInv, RunTypes, UnsavedPerRun
    <2>2. unsaved'[r] = mine
      BY <1>6 DEF OrchestratorInv, UnsavedPerRun
    <2> QED
      BY <1>5, <2>1, <2>2 DEF TrailInv
  <1>11. stored' \in [Session -> [1..MaxIndex -> {None} \cup CheckpointRecord]]
    BY <1>6 DEF TrailInv, TrailTypes
  <1>12. TrailTypes'
    BY <1>7, <1>9, <1>11 DEF TrailTypes, Unwritten
  <1> QED
    BY <1>8, <1>10, <1>12 DEF TrailInv, Unwritten

\* The step a run leaves behind, by moving on or by failing at it.
LEMMA StepSpent ==
  ASSUME OrchestratorInv, NEW r \in Run, at[r] \in 1..3, reviews[r] = <<>>,
         at'[r] > at[r] \/ (at'[r] = at[r] /\ reviews'[r] # <<>>),
         at'[r] \in Nat,
         \A q \in Run \ {r} : at'[q] = at[q] /\ reviews'[q] = reviews[q]
  PROVE  /\ Spent \subseteq Spent'
         /\ <<r, at[r]>> \in Spent' /\ <<r, at[r]>> \notin Spent
  <1>1. <<r, at[r]>> \in Spent'
    BY DEF Spent
  <1>2. <<r, at[r]>> \notin Spent
    BY DEF Spent
  <1>3. ASSUME NEW step \in Spent PROVE step \in Spent'
    <2>1. step \in Run \X (1..3) /\ step[1] \in Run /\ step[2] \in 1..3
      BY DEF Spent
    <2>2. CASE step[1] = r
      <3>1. step[2] < at[r]
        BY <1>3, <2>2 DEF Spent
      <3>2. step[2] < at'[r]
        BY <2>1, <3>1
      <3> QED
        BY <2>1, <2>2, <3>2 DEF Spent
    <2>3. CASE step[1] # r
      BY <1>3, <2>1, <2>3 DEF Spent
    <2> QED
      BY <2>2, <2>3
  <1> QED
    BY <1>1, <1>2, <1>3

LEMMA InitTrail == Init => TrailInv
  <1> SUFFICES ASSUME Init PROVE TrailInv
    OBVIOUS
  <1>1. Cardinality(Spent) \in Nat /\ MaxIndex \in Nat
    BY SpentIsBounded, StepsBounded
  <1>2. TrailTypes
    BY <1>1 DEF Init, TrailTypes
  <1>3. \A m \in Manager, s \in Session : counts[m][s] = 0
    BY DEF Init
  <1>4. \A r \in Run : pc[r] # "saving"
    BY DEF Init
  <1> QED
    BY <1>1, <1>2, <1>3, <1>4 DEF TrailInv

LEMMA TakeBranchTrail ==
  ASSUME OrchestratorInv, TrailInv, NEW r \in Run, TakeBranch(r)
  PROVE  TrailInv'
  <1>1. /\ pc[r] = "stepping" /\ at[r] <= Len(Steps(r)) /\ Current(r).kind = "branch"
        /\ Checkpoint(r, "BRANCH", "BRANCH_COMPLETE") /\ UNCHANGED reviews
        /\ at' = [at EXCEPT ![r] = StepFor(r, Routed(r, Last(outputs[r]).risk_level))]
    BY DEF TakeBranch, AtStep
  <1>2. at[r] = 2 /\ reviews[r] = <<>>
    BY <1>1, BranchTargets, InvAt DEF Escalation, Under
  <1>3. at'[r] \in {3, 4} /\ \A q \in Run \ {r} : at'[q] = at[q]
    <2>1. StepFor(r, Routed(r, Last(outputs[r]).risk_level)) \in {3, 4}
      BY <1>1, BranchTargets DEF Under
    <2> QED
      BY <1>1, <2>1 DEF OrchestratorInv, RunTypes
  <1>4. Spent \subseteq Spent' /\ <<r, at[r]>> \in Spent' /\ <<r, at[r]>> \notin Spent
    BY <1>1, <1>2, <1>3, StepSpent
  <1>5. "BRANCH" \in AgentName \cup {"BRANCH"} /\ "BRANCH_COMPLETE" \in Status
    BY DEF Status
  <1> QED
    BY <1>1, <1>4, <1>5, CheckpointTrail

\* The agent under way is at one of at most three steps.
LEMMA AgentStep ==
  ASSUME OrchestratorInv, NEW r \in Run, AgentRuns(r)
  PROVE  Current(r).agent \in AgentName /\ at[r] \in 1..3 /\ reviews[r] = <<>>
  <1>1. Under(r) /\ at[r] <= Len(Steps(r)) /\ Current(r).kind = "agent" /\ reviews[r] = <<>>
    BY AgentRunning, InvAt DEF Escalation
  <1>2. Current(r).agent \in AgentName /\ at[r] \in 1..Len(Steps(r))
    BY <1>1, CurrentAgent
  <1>3. Len(Steps(r)) \in 0..3
    BY StepsLength
  <1>4. at[r] \in 1..3
    <2> DEFINE n == Len(Steps(r))
    <2>1. n \in 0..3 /\ at[r] \in 1..n
      BY <1>2, <1>3
    <2> HIDE DEF n
    <2> QED
      BY <2>1
  <1> QED
    BY <1>1, <1>2, <1>4

LEMMA ReturnedTrail ==
  ASSUME OrchestratorInv, TrailInv, NEW r \in Run, pc[r] = "waiting",
         NEW backend, NEW server, Returned(r, backend, server)
  PROVE  TrailInv'
  <1>1. /\ Checkpoint(r, Current(r).agent, "STEP_COMPLETE") /\ UNCHANGED reviews
        /\ at' = [at EXCEPT ![r] = @ + 1]
    BY DEF Returned
  <1>2. Current(r).agent \in AgentName /\ at[r] \in 1..3 /\ reviews[r] = <<>>
    BY AgentStep DEF AgentRuns
  <1>3. at'[r] = at[r] + 1 /\ \A q \in Run \ {r} : at'[q] = at[q]
    BY <1>1 DEF OrchestratorInv, RunTypes
  <1>4. Spent \subseteq Spent' /\ <<r, at[r]>> \in Spent' /\ <<r, at[r]>> \notin Spent
    BY <1>1, <1>2, <1>3, StepSpent
  <1>5. "STEP_COMPLETE" \in Status
    BY DEF Status
  <1> QED
    BY <1>1, <1>2, <1>4, <1>5, CheckpointTrail

LEMMA EscalateTrail ==
  ASSUME OrchestratorInv, TrailInv, NEW r \in Run, AgentRuns(r),
         NEW failure, Escalate(r, failure)
  PROVE  TrailInv'
  <1> DEFINE item == [step |-> Current(r).agent, failure_type |-> failure]
  <1>1. /\ Checkpoint(r, Current(r).agent, "HUMAN_REVIEW") /\ UNCHANGED at
        /\ reviews' = [reviews EXCEPT ![r] = Append(@, item)]
    BY DEF Escalate, Queued, agents
  <1> HIDE DEF item
  <1>2. Current(r).agent \in AgentName /\ at[r] \in 1..3 /\ reviews[r] = <<>>
    BY AgentStep
  <1>3. reviews'[r] # <<>> /\ \A q \in Run \ {r} : reviews'[q] = reviews[q]
    <2>1. reviews'[r] = Append(<<>>, item)
      BY <1>1, <1>2 DEF OrchestratorInv, RunTypes
    <2>2. Append(<<>>, item) # <<>>
      OBVIOUS
    <2> QED
      BY <1>1, <2>1, <2>2 DEF OrchestratorInv, RunTypes
  <1>4. Spent \subseteq Spent' /\ <<r, at[r]>> \in Spent' /\ <<r, at[r]>> \notin Spent
    BY <1>1, <1>2, <1>3, StepSpent
  <1>5. "HUMAN_REVIEW" \in Status
    BY DEF Status
  <1> QED
    BY <1>1, <1>2, <1>4, <1>5, CheckpointTrail

\* What is saved is a checkpoint, under an index within the bound.
LEMMA SaveTrail ==
  ASSUME OrchestratorInv, TrailInv, NEW r \in Run, Save(r)
  PROVE  TrailInv'
  <1> DEFINE s == SessionOf[r]
             saved == [run |-> r, name |-> unsaved[r].name, status |-> unsaved[r].status]
  <1>1. /\ pc[r] = "saving" /\ unsaved' = [unsaved EXCEPT ![r] = None]
        /\ UNCHANGED <<at, reviews, counts>>
        /\ stored' = [stored EXCEPT ![s][unsaved[r].index] = saved] \/ UNCHANGED stored
    BY DEF Save, Refused, agents
  <1>2. unsaved[r] \in Unwritten
    BY <1>1 DEF TrailInv
  <1>3. /\ saved \in CheckpointRecord
        /\ unsaved[r].index \in 1..MaxIndex /\ s \in Session
    BY <1>2 DEF Unwritten, Session, CheckpointRecord
  <1>4. PICK next \in {"returning", "stepping", "raised"} : pc' = [pc EXCEPT ![r] = next]
    BY DEF Save, Refused, Goto, AfterSave
  <1>5. UNCHANGED Spent
    BY <1>1 DEF Spent
  <1> HIDE DEF saved, s
  <1>6. stored' \in [Session -> [1..MaxIndex -> {None} \cup CheckpointRecord]]
    <2> DEFINE Saved == {None} \cup CheckpointRecord
    <2>1. stored \in [Session -> [1..MaxIndex -> Saved]] /\ saved \in Saved
      BY <1>3 DEF TrailInv, TrailTypes
    <2> HIDE DEF Saved
    <2>2. [stored[s] EXCEPT ![unsaved[r].index] = saved] \in [1..MaxIndex -> Saved]
      BY <1>3, <2>1
    <2>3. stored' \in [Session -> [1..MaxIndex -> Saved]]
      BY <1>1, <1>3, <2>1, <2>2
    <2> QED
      BY <2>3 DEF Saved
  <1>7. unsaved' \in [Run -> {None} \cup Unwritten]
    BY <1>1 DEF TrailInv, TrailTypes, Unwritten
  <1>8. TrailTypes'
    BY <1>1, <1>6, <1>7 DEF TrailInv, TrailTypes, Unwritten
  <1>9. \A q \in Run : pc'[q] = "saving" => unsaved'[q] \in Unwritten
    <2>1. pc'[r] # "saving" /\ \A q \in Run \ {r} : pc'[q] = pc[q] /\ unsaved'[q] = unsaved[q]
      BY <1>1, <1>4 DEF OrchestratorInv, RunTypes, UnsavedPerRun
    <2> QED
      BY <2>1 DEF TrailInv
  <1> QED
    BY <1>1, <1>5, <1>8, <1>9 DEF TrailInv, Unwritten

LEMMA StepTrail == OrchestratorInv /\ TrailInv /\ [Next]_vars => TrailInv'
  <1> SUFFICES ASSUME OrchestratorInv, TrailInv, [Next]_vars PROVE TrailInv'
    OBVIOUS
  <1>1. ASSUME NEW r \in Run,
               Begin(r) \/ CallAgent(r) \/ AgentRaises(r) \/ Conclude(r) \/ HandBack(r)
        PROVE  TrailInv'
    <2>1. UNCHANGED <<at, reviews, unsaved, counts, stored>>
      BY <1>1 DEF Begin, CallAgent, AgentRaises, Conclude, HandBack, agents, trail
    <2>2. PICK next \in {"stepping", "raised", "waiting", "done"} :
            pc' = [pc EXCEPT ![r] = next]
      BY <1>1 DEF Begin, CallAgent, AgentRaises, Conclude, HandBack, Goto
    <2>3. \A q \in Run : pc'[q] = "saving" => pc[q] = "saving"
      BY <2>2 DEF OrchestratorInv, RunTypes
    <2> QED
      BY <2>1, <2>3, TrailStays
  <1>2. ASSUME NEW r \in Run, TakeBranch(r) PROVE TrailInv'
    BY <1>2, TakeBranchTrail
  <1>3. ASSUME NEW r \in Run, Answer(r) \/ FallBack(r) PROVE TrailInv'
    BY <1>3, ReturnedTrail DEF Answer, FallBack
  <1>4. ASSUME NEW r \in Run, TimeOut(r) \/ AgentFails(r) PROVE TrailInv'
    <2>1. AgentRuns(r) /\ \E failure : Escalate(r, failure)
      BY <1>4 DEF TimeOut, AgentFails, AgentRuns
    <2> QED
      BY <2>1, EscalateTrail
  <1>5. ASSUME NEW r \in Run, Save(r) PROVE TrailInv'
    BY <1>5, SaveTrail
  <1>6. ASSUME SwitchBackend \/ HoldLoop \/ UNCHANGED vars PROVE TrailInv'
    <2>1. UNCHANGED <<pc, at, reviews, unsaved, counts, stored>>
      BY <1>6 DEF SwitchBackend, HoldLoop, vars, agents, trail
    <2> QED
      BY <2>1, TrailStays
  <1> QED
    BY <1>1, <1>2, <1>3, <1>4, <1>5, <1>6 DEF Next, Step

\* Every variable keeps its type; no run is ever out of indexes for its checkpoints.
THEOREM OrchestratorTypes == Spec => []TypeOK
  <1>1. OrchestratorInv /\ TrailInv => TypeOK
    BY DEF OrchestratorInv, TrailInv, TypeOK
  <1>2. Spec => []TrailInv
    BY InitTrail, StepTrail, OrchestratorInvariant, PTL DEF Spec
  <1> QED
    BY <1>1, <1>2, OrchestratorInvariant, PTL

-----------------------------------------------------------------------------
(* The trail of a run, as far as it has come.                              *)

\* The first n checkpoints due are filed, in order, and no others.
Placed(r, place, n) ==
  /\ place \in [1..n -> 1..MaxIndex]
  /\ \A j, k \in 1..n : j < k => place[j] < place[k]
  /\ Filed(r) = {place[k] : k \in 1..n}
  /\ \A k \in 1..n : stored[SessionOf[r]][place[k]] = Due(r)[k]

\* All that a run has done is filed, but for the checkpoint it writes, whose index
\* comes after those of the others.
TrailSoFar(r) ==
  /\ pc[r] = "idle" => Filed(r) = {}
  /\ Under(r) =>
       /\ \E n \in Nat : \E place :
            /\ Placed(r, place, n)
            /\ IF pc[r] # "saving" THEN n = Len(Due(r))
               ELSE /\ n + 1 = Len(Due(r))
                    /\ Due(r)[n + 1] =
                         [run |-> r, name |-> unsaved[r].name, status |-> unsaved[r].status]
                    /\ \A k \in 1..n : place[k] < unsaved[r].index
       /\ \A i \in Filed(r) : i <= counts[ManagerOf[r]][SessionOf[r]]
       /\ pc[r] = "saving" => unsaved[r].index <= counts[ManagerOf[r]][SessionOf[r]]

\* An intervention is due after a severe assessment only, and so is its step.
InterventionSoFar(r) ==
  Under(r) =>
    /\ \A k \in DOMAIN Due(r) : Due(r)[k].name = "InterventionAgent" => Severe(r)
    /\ at[r] <= Len(Steps(r)) /\ Current(r).kind = "agent"
         /\ Current(r).agent = "InterventionAgent" => Severe(r)

\* The store keeps runs apart by refusing a key twice; where it would not, the runs
\* of a session share the manager that counts the keys.
KeysApart ==
  Durable \/ \A q, r \in Run : SessionOf[q] = SessionOf[r] => ManagerOf[q] = ManagerOf[r]

\* Without a store that refuses, every checkpoint being written has a key of its own.
OwnKeys ==
  ~Durable =>
    /\ \A r \in Run, i \in 1..MaxIndex :
         stored[SessionOf[r]][i] # None => i <= counts[ManagerOf[r]][SessionOf[r]]
    /\ \A r \in Run : pc[r] = "saving" =>
         /\ unsaved[r].index <= counts[ManagerOf[r]][SessionOf[r]]
         /\ stored[SessionOf[r]][unsaved[r].index] = None
    /\ \A q, r \in Run :
         pc[q] = "saving" /\ pc[r] = "saving" /\ SessionOf[q] = SessionOf[r] /\ q # r =>
           unsaved[q].index # unsaved[r].index

TrailsInv ==
  /\ \A r \in Run : TrailSoFar(r) /\ InterventionSoFar(r)
  /\ OwnKeys

-----------------------------------------------------------------------------
(* The checkpoints that are due.                                           *)

Entry(r, name, status) == [run |-> r, name |-> name, status |-> status]

Passed(r) == \E i \in 1..(at[r] - 1) : Steps(r)[i].kind = "branch"

\* Due, from the outputs and the failures of a run.
DueOf(r, outs, passed, fails) ==
  LET outcomes == [i \in DOMAIN outs |-> Entry(r, outs[i].agent, "STEP_COMPLETE")]
      branch   == IF passed THEN <<Entry(r, "BRANCH", "BRANCH_COMPLETE")>> ELSE <<>>
      failure  == [i \in DOMAIN fails |-> Entry(r, fails[i].step, "HUMAN_REVIEW")]
  IN  IF outcomes = <<>> THEN failure
      ELSE <<Head(outcomes)>> \o branch \o Tail(outcomes) \o failure

LEMMA DueIs ==
  ASSUME NEW r \in Run
  PROVE  /\ Due(r) = DueOf(r, outputs[r], Passed(r), reviews[r])
         /\ Due(r)' = DueOf(r, outputs'[r], Passed(r)', reviews'[r])
  BY DEF Due, DueOf, Passed, Entry

\* A sequence of two, or three, is the tuple of its elements.
LEMMA SeqOfTwo ==
  ASSUME NEW S, NEW s \in Seq(S), NEW a, NEW b, Len(s) = 2, s[1] = a, s[2] = b
  PROVE  s = <<a, b>>
  <1>1. a \in S /\ b \in S 
    OBVIOUS
  <1>2. <<a, b>> \in Seq(S) /\ Len(<<a, b>>) = 2
    BY <1>1
  <1>3. \A i \in 1..2 : s[i] = <<a, b>>[i]
    <2>1. \A i \in 1..2 : i = 1 \/ i = 2
      OBVIOUS
    <2> QED
      BY <2>1
  <1> QED
    BY <1>2, <1>3, SeqEqual

LEMMA SeqOfThree ==
  ASSUME NEW S, NEW s \in Seq(S), NEW a, NEW b, NEW c,
         Len(s) = 3, s[1] = a, s[2] = b, s[3] = c
  PROVE  s = <<a, b, c>>
  <1>1. a \in S /\ b \in S /\ c \in S
    <2>1. \A i \in 1..Len(s) : s[i] \in S
      BY ElementOfSeq
    <2>2. 1 \in 1..Len(s) /\ 2 \in 1..Len(s) /\ 3 \in 1..Len(s)
      OBVIOUS
    <2> QED
      BY <2>1, <2>2
  <1>2. <<a, b, c>> \in Seq(S) /\ Len(<<a, b, c>>) = 3
    BY <1>1
  <1>3. \A i \in 1..3 : s[i] = <<a, b, c>>[i]
    <2>1. \A i \in 1..3 : i = 1 \/ i = 2 \/ i = 3
      OBVIOUS
    <2> QED
      BY <2>1
  <1> QED
    BY <1>2, <1>3, SeqEqual

\* Short sequences, put together.
LEMMA ShortConcats ==
  ASSUME NEW a, NEW b, NEW c
  PROVE  /\ <<a>> \o <<b>> = <<a, b>> /\ <<a, b>> \o <<c>> = <<a, b, c>>
         /\ Append(<<a>>, b) = <<a, b>> /\ Append(<<a, b>>, c) = <<a, b, c>>
  <1> DEFINE S == {a, b, c}
  <1>1. /\ <<a>> \in Seq(S) /\ <<b>> \in Seq(S) /\ <<c>> \in Seq(S) /\ <<a, b>> \in Seq(S)
        /\ Len(<<a>>) = 1 /\ Len(<<b>>) = 1 /\ Len(<<c>>) = 1 /\ Len(<<a, b>>) = 2
        /\ b \in S /\ c \in S
    OBVIOUS
  <1>2. /\ <<a>> \o <<b>> \in Seq(S) /\ Len(<<a>> \o <<b>>) = 2
        /\ (<<a>> \o <<b>>)[1] = a /\ (<<a>> \o <<b>>)[2] = b
    BY <1>1
  <1>3. /\ <<a, b>> \o <<c>> \in Seq(S) /\ Len(<<a, b>> \o <<c>>) = 3
        /\ (<<a, b>> \o <<c>>)[1] = a /\ (<<a, b>> \o <<c>>)[2] = b /\ (<<a, b>> \o <<c>>)[3] = c
    BY <1>1
  <1> DEFINE two == <<a>> \o <<b>>
             three == <<a, b>> \o <<c>>
  <1>4. two = <<a, b>> /\ three = <<a, b, c>>
    <2>1. /\ two \in Seq(S) /\ Len(two) = 2 /\ two[1] = a /\ two[2] = b
          /\ three \in Seq(S) /\ Len(three) = 3 /\ three[1] = a /\ three[2] = b /\ three[3] = c
      BY <1>2, <1>3
    <2> HIDE DEF two, three, S
    <2> QED
      BY <2>1, SeqOfTwo, SeqOfThree
  <1>5. Append(<<a>>, b) = <<a>> \o <<b>> /\ Append(<<a, b>>, c) = <<a, b>> \o <<c>>
    BY <1>1, AppendIsConcat
  <1> QED
    BY <1>4, <1>5

LEMMA ShortHeads ==
  ASSUME NEW a, NEW b, NEW c
  PROVE  /\ <<a>> \o <<>> = <<a>> /\ <<a, b>> \o <<>> = <<a, b>>
         /\ <<a, b, c>> \o <<>> = <<a, b, c>> /\ Append(<<>>, a) = <<a>>
         /\ Head(<<a>>) = a /\ Tail(<<a>>) = <<>>
         /\ Head(<<a, b>>) = a /\ Tail(<<a, b>>) = <<b>>
  OBVIOUS

LEMMA DueShapes ==
  ASSUME NEW r, NEW a, NEW b, NEW x
  PROVE  LET outcome(o) == Entry(r, o.agent, "STEP_COMPLETE")
             branch     == Entry(r, "BRANCH", "BRANCH_COMPLETE")
             failure    == Entry(r, x.step, "HUMAN_REVIEW")
         IN  /\ \A passed \in BOOLEAN : DueOf(r, <<>>, passed, <<>>) = <<>>
             /\ \A passed \in BOOLEAN : DueOf(r, <<>>, passed, <<x>>) = <<failure>>
             /\ DueOf(r, <<a>>, FALSE, <<>>) = <<outcome(a)>>
             /\ DueOf(r, <<a>>, TRUE, <<>>) = <<outcome(a), branch>>
             /\ DueOf(r, <<a>>, FALSE, <<x>>) = <<outcome(a), failure>>
             /\ DueOf(r, <<a>>, TRUE, <<x>>) = <<outcome(a), branch, failure>>
             /\ DueOf(r, <<a, b>>, FALSE, <<>>) = <<outcome(a), outcome(b)>>
             /\ DueOf(r, <<a, b>>, TRUE, <<>>) = <<outcome(a), branch, outcome(b)>>
  <1> DEFINE outcome(o) == Entry(r, o.agent, "STEP_COMPLETE")
             branch     == Entry(r, "BRANCH", "BRANCH_COMPLETE")
             failure    == Entry(r, x.step, "HUMAN_REVIEW")
  <1>1. /\ [i \in DOMAIN <<>> |-> Entry(r, <<>>[i].agent, "STEP_COMPLETE")] = <<>>
        /\ [i \in DOMAIN <<a>> |-> Entry(r, <<a>>[i].agent, "STEP_COMPLETE")] = <<outcome(a)>>
        /\ [i \in DOMAIN <<a, b>> |-> Entry(r, <<a, b>>[i].agent, "STEP_COMPLETE")]
             = <<outcome(a), outcome(b)>>
    OBVIOUS
  <1>2. /\ [i \in DOMAIN <<>> |-> Entry(r, <<>>[i].step, "HUMAN_REVIEW")] = <<>>
        /\ [i \in DOMAIN <<x>> |-> Entry(r, <<x>>[i].step, "HUMAN_REVIEW")] = <<failure>>
    OBVIOUS
  <1> HIDE DEF outcome, branch, failure
  <1>3. <<outcome(a)>> # <<>> /\ <<outcome(a), outcome(b)>> # <<>>
    OBVIOUS
  <1>4. \A passed \in BOOLEAN : /\ DueOf(r, <<>>, passed, <<>>) = <<>>
                                /\ DueOf(r, <<>>, passed, <<x>>) = <<failure>>
    BY <1>1, <1>2 DEF DueOf
  <1> DEFINE oa == outcome(a)
             ob == outcome(b)
  <1>5. /\ DueOf(r, <<a>>, FALSE, <<>>) = <<oa>> \o <<>> \o <<>> \o <<>>
        /\ DueOf(r, <<a>>, TRUE, <<>>) = <<oa>> \o <<branch>> \o <<>> \o <<>>
        /\ DueOf(r, <<a>>, FALSE, <<x>>) = <<oa>> \o <<>> \o <<>> \o <<failure>>
        /\ DueOf(r, <<a>>, TRUE, <<x>>) = <<oa>> \o <<branch>> \o <<>> \o <<failure>>
    BY <1>1, <1>2, <1>3, ShortHeads DEF DueOf, branch
  <1>6. /\ Head(<<oa, ob>>) = oa /\ Tail(<<oa, ob>>) = <<ob>>
    BY ShortHeads
  <1>7. /\ DueOf(r, <<a, b>>, FALSE, <<>>) = <<oa>> \o <<>> \o <<ob>> \o <<>>
        /\ DueOf(r, <<a, b>>, TRUE, <<>>) = <<oa>> \o <<branch>> \o <<ob>> \o <<>>
    BY <1>1, <1>2, <1>3, <1>6 DEF DueOf, branch
  <1> HIDE DEF oa, ob
  <1>8. <<oa>> \o <<>> = <<oa>> /\ <<oa>> \o <<branch>> = <<oa, branch>>
        /\ <<oa>> \o <<failure>> = <<oa, failure>> /\ <<oa>> \o <<ob>> = <<oa, ob>>
        /\ <<oa, branch>> \o <<>> = <<oa, branch>> /\ <<oa, ob>> \o <<>> = <<oa, ob>>
        /\ <<oa, branch>> \o <<failure>> = <<oa, branch, failure>>
        /\ <<oa, branch>> \o <<ob>> = <<oa, branch, ob>>
        /\ <<oa, branch, ob>> \o <<>> = <<oa, branch, ob>>
    <2>1. <<oa>> \o <<branch>> = <<oa, branch>>
          /\ <<oa, branch>> \o <<failure>> = <<oa, branch, failure>>
      BY ShortConcats
    <2>2. <<oa>> \o <<ob>> = <<oa, ob>>
      BY ShortConcats
    <2>3. <<oa>> \o <<failure>> = <<oa, failure>>
      BY ShortConcats
    <2>4. <<oa, branch>> \o <<ob>> = <<oa, branch, ob>>
      BY ShortConcats
    <2>5. /\ <<oa>> \o <<>> = <<oa>> /\ <<oa, branch>> \o <<>> = <<oa, branch>>
          /\ <<oa, branch, ob>> \o <<>> = <<oa, branch, ob>>
      BY ShortHeads
    <2>6. <<oa, ob>> \o <<>> = <<oa, ob>>
      BY ShortHeads
    <2> QED
      BY <2>1, <2>2, <2>3, <2>4, <2>5, <2>6
  <1>9. /\ DueOf(r, <<a>>, FALSE, <<>>) = <<oa>>
        /\ DueOf(r, <<a>>, TRUE, <<>>) = <<oa, branch>>
        /\ DueOf(r, <<a>>, FALSE, <<x>>) = <<oa, failure>>
        /\ DueOf(r, <<a>>, TRUE, <<x>>) = <<oa, branch, failure>>
    BY <1>5, <1>8
  <1>10. /\ DueOf(r, <<a, b>>, FALSE, <<>>) = <<oa, ob>>
         /\ DueOf(r, <<a, b>>, TRUE, <<>>) = <<oa, branch, ob>>
    BY <1>7, <1>8
  <1> QED
    BY <1>4, <1>9, <1>10 DEF outcome, branch, failure, oa, ob

\* The runs that do not step keep what is due of them.
LEMMA OthersDue ==
  ASSUME NEW q \in Run, at'[q] = at[q], outputs'[q] = outputs[q], reviews'[q] = reviews[q]
  PROVE  Due(q)' = Due(q) /\ Severe(q)' = Severe(q)
  BY DueIs DEF Passed, Severe

\* An appended checkpoint comes last.
LEMMA Appended ==
  ASSUME NEW S, NEW D \in Seq(S), NEW e \in S
  PROVE  /\ Len(D) \in Nat
         /\ DOMAIN D = 1..Len(D) /\ DOMAIN Append(D, e) = 1..(Len(D) + 1)
         /\ Len(Append(D, e)) = Len(D) + 1
         /\ Append(D, e)[Len(D) + 1] = e
         /\ \A k \in 1..Len(D) : Append(D, e)[k] = D[k]
  OBVIOUS

\* A step that takes the next index for one more checkpoint that is due.
LEMMA CheckpointTrails ==
  ASSUME OrchestratorInv, TrailInv, TrailInv', KeysApart, TrailsInv, NEW r \in Run,
         Under(r), pc[r] # "saving", NEW name, NEW status, Checkpoint(r, name, status),
         \A q \in Run \ {r} : Due(q)' = Due(q),
         NEW S, NEW D \in Seq(S), Entry(r, name, status) \in S,
         Due(r) = D, Due(r)' = Append(D, Entry(r, name, status))
  PROVE  /\ \A q \in Run : TrailSoFar(q)'
         /\ OwnKeys'
  <1> DEFINE m == ManagerOf[r]
             s == SessionOf[r]
             index == counts[m][s] + 1
  <1>1. /\ counts' = [counts EXCEPT ![m][s] = index]
        /\ unsaved' = [unsaved EXCEPT ![r] = [index |-> index, name |-> name, status |-> status]]
        /\ pc' = [pc EXCEPT ![r] = "saving"] /\ UNCHANGED stored
    BY DEF Checkpoint, Goto
  <1>2. /\ counts \in [Manager -> [Session -> 0..MaxIndex]]
        /\ m \in Manager /\ s \in Session /\ MaxIndex \in Nat
        /\ \A q \in Run : ManagerOf[q] \in Manager /\ SessionOf[q] \in Session
    BY SpentIsBounded, StepsBounded DEF TrailInv, TrailTypes, Manager, Session
  <1>3. index \in Nat /\ counts[m][s] \in Nat /\ counts[m][s] < index
    <2>1. counts[m][s] \in 0..MaxIndex
      BY <1>2
    <2> DEFINE c == counts[m][s]
    <2>2. c \in Nat
      BY <1>2, <2>1
    <2> HIDE DEF c
    <2>3. c + 1 \in Nat /\ c < c + 1
      BY <2>2
    <2> QED
      BY <2>2, <2>3 DEF c
  <1>4. /\ pc'[r] = "saving"
        /\ unsaved'[r] = [index |-> index, name |-> name, status |-> status]
        /\ \A q \in Run \ {r} : pc'[q] = pc[q] /\ unsaved'[q] = unsaved[q]
    BY <1>1 DEF OrchestratorInv, RunTypes, UnsavedPerRun
  <1>5. counts'[m][s] = index
    BY <1>1, <1>2
  <1>6. \A n \in Manager, t \in Session :
          counts[n][t] \in Nat /\ counts'[n][t] \in Nat /\ counts[n][t] <= counts'[n][t]
    <2> SUFFICES ASSUME NEW n \in Manager, NEW t \in Session
                 PROVE  counts[n][t] \in Nat /\ counts'[n][t] \in Nat
                        /\ counts[n][t] <= counts'[n][t]
      OBVIOUS
    <2>1. counts[n][t] \in Nat
      BY <1>2
    <2>2. counts'[n][t] = IF n = m /\ t = s THEN index ELSE counts[n][t]
      BY <1>1, <1>2
    <2> HIDE DEF m, s, index
    <2> QED
      BY <1>3, <2>1, <2>2
  <1> HIDE DEF index
  <1>7. \A q \in Run : Filed(q)' = Filed(q) /\ Filed(q) \subseteq 1..MaxIndex
    BY <1>1 DEF Filed
  <1>8. TrailSoFar(r)'
    <2>1. PICK n, place : n \in Nat /\ Placed(r, place, n) /\ n = Len(D)
      BY DEF TrailsInv, TrailSoFar
    <2>2. \A i \in Filed(r) : i \in Nat /\ i <= counts[m][s]
      <3>1. TrailSoFar(r)
        BY DEF TrailsInv
      <3>2. \A i \in Filed(r) : i <= counts[ManagerOf[r]][SessionOf[r]]
        BY <3>1 DEF TrailSoFar
      <3>3. \A i \in 1..MaxIndex : i \in Nat
        BY <1>2
      <3> QED
        BY <1>7, <3>2, <3>3
    <2>3. Placed(r, place, n)'
      BY <1>1, <1>7, <2>1, Appended DEF Placed
    <2>4. \A k \in 1..n : place[k] < index
      <3>1. \A k \in 1..n : place[k] \in Filed(r)
        BY <2>1 DEF Placed
      <3> DEFINE c == counts[m][s]
      <3>2. \A k \in 1..n : place[k] \in Nat /\ place[k] <= c
        BY <2>2, <3>1
      <3> HIDE DEF c
      <3>3. c \in Nat /\ c < index
        BY <1>3 DEF c
      <3> QED
        BY <1>3, <3>2, <3>3
    <2>5. /\ n + 1 = Len(Append(D, Entry(r, name, status)))
          /\ Append(D, Entry(r, name, status))[n + 1] = Entry(r, name, status)
      BY <2>1, Appended
    <2>6. /\ n + 1 = Len(Due(r))'
          /\ Due(r)'[n + 1] =
               [run |-> r, name |-> unsaved'[r].name, status |-> unsaved'[r].status]
          /\ unsaved'[r].index = index
      BY <1>4, <2>5 DEF Entry
    <2>7. \A i \in Filed(r)' : i <= counts'[m][s]
      BY <1>3, <1>5, <1>7, <2>2
    <2>8. \A k \in 1..n : place[k] < unsaved'[r].index
      BY <2>4, <2>6
    <2>9. unsaved'[r].index <= counts'[m][s]
      BY <1>3, <1>5, <2>6
    <2> QED
      BY <1>4, <2>1, <2>3, <2>6, <2>7, <2>8, <2>9 DEF TrailSoFar
  <1>9. ASSUME NEW q \in Run \ {r} PROVE TrailSoFar(q)'
    <2>1. TrailSoFar(q) /\ Due(q)' = Due(q)
      BY <1>9 DEF TrailsInv
    <2>2. pc'[q] = pc[q] /\ unsaved'[q] = unsaved[q] /\ Filed(q)' = Filed(q)
      BY <1>4, <1>7, <1>9
    <2>3. \A n \in Nat : \A place : Placed(q, place, n) => Placed(q, place, n)'
      BY <1>1, <2>1, <2>2 DEF Placed
    <2> DEFINE c == counts[ManagerOf[q]][SessionOf[q]]
               d == counts'[ManagerOf[q]][SessionOf[q]]
    <2>4. c \in Nat /\ d \in Nat /\ c <= d
      BY <1>2, <1>6, <1>9
    <2>5. CASE ~Under(q)
      BY <2>1, <2>2, <2>5 DEF TrailSoFar, Under
    <2>6. CASE Under(q)
      <3>1. PICK n, place :
              /\ n \in Nat /\ Placed(q, place, n)
              /\ IF pc[q] # "saving" THEN n = Len(Due(q))
                 ELSE /\ n + 1 = Len(Due(q))
                      /\ Due(q)[n + 1] =
                           [run |-> q, name |-> unsaved[q].name, status |-> unsaved[q].status]
                      /\ \A k \in 1..n : place[k] < unsaved[q].index
        BY <2>1, <2>6 DEF TrailSoFar
      <3>2. /\ \A i \in Filed(q) : i \in Nat /\ i <= c
            /\ pc[q] = "saving" => unsaved[q].index \in Nat /\ unsaved[q].index <= c
        BY <1>2, <1>7, <2>1, <2>6, <1>9 DEF TrailSoFar, TrailInv, Unwritten
      <3>3. /\ \A i \in Filed(q) : i <= d
            /\ pc[q] = "saving" => unsaved[q].index <= d
        <4> HIDE DEF c, d
        <4> QED
          BY <2>4, <3>2
      <3> QED
        BY <2>1, <2>2, <2>3, <2>6, <3>1, <3>3 DEF TrailSoFar, Under
    <2> QED
      BY <2>5, <2>6
  <1>10. OwnKeys'
    <2> SUFFICES ASSUME ~Durable PROVE OwnKeys'
      BY DEF OwnKeys
    <2>1. /\ \A q \in Run, i \in 1..MaxIndex :
               stored[SessionOf[q]][i] # None => i <= counts[ManagerOf[q]][SessionOf[q]]
          /\ \A q \in Run : pc[q] = "saving" =>
               /\ unsaved[q].index \in Nat
               /\ unsaved[q].index <= counts[ManagerOf[q]][SessionOf[q]]
               /\ stored[SessionOf[q]][unsaved[q].index] = None
      BY <1>2 DEF TrailsInv, OwnKeys, TrailInv, Unwritten
    <2>2. \A q \in Run : SessionOf[q] = s => ManagerOf[q] = m
      BY DEF KeysApart
    <2>3. \A q \in Run, i \in 1..MaxIndex :
            stored'[SessionOf[q]][i] # None => i <= counts'[ManagerOf[q]][SessionOf[q]]
      <3> SUFFICES ASSUME NEW q \in Run, NEW i \in 1..MaxIndex, stored[SessionOf[q]][i] # None
                   PROVE  i <= counts'[ManagerOf[q]][SessionOf[q]]
        BY <1>1
      <3> DEFINE c == counts[ManagerOf[q]][SessionOf[q]]
                 d == counts'[ManagerOf[q]][SessionOf[q]]
      <3>1. i <= c /\ i \in Nat
        BY <1>2, <2>1
      <3>2. c \in Nat /\ d \in Nat /\ c <= d
        BY <1>2, <1>6
      <3> HIDE DEF c, d
      <3>3. i <= d
        BY <3>1, <3>2
      <3> QED
        BY <3>3 DEF d
    <2>4. index \in 1..MaxIndex
      <3>1. unsaved'[r] \in Unwritten'
        BY <1>4 DEF TrailInv
      <3> QED
        BY <1>4, <3>1 DEF Unwritten
    <2>5. stored[s][index] = None
      <3> DEFINE c == counts[m][s]
      <3>1. stored[s][index] # None => index <= c
        BY <2>1, <2>4
      <3> HIDE DEF c
      <3>2. c \in Nat /\ c < index
        BY <1>3 DEF c
      <3> QED
        BY <1>3, <3>1, <3>2
    <2>6. ASSUME NEW q \in Run, pc'[q] = "saving"
          PROVE  /\ unsaved'[q].index <= counts'[ManagerOf[q]][SessionOf[q]]
                 /\ stored'[SessionOf[q]][unsaved'[q].index] = None
      <3>1. CASE q = r
        BY <1>1, <1>3, <1>4, <1>5, <2>5, <3>1
      <3>2. CASE q # r
        <4> DEFINE c == counts[ManagerOf[q]][SessionOf[q]]
                   d == counts'[ManagerOf[q]][SessionOf[q]]
                   u == unsaved[q].index
        <4>1. unsaved'[q].index = u /\ u \in Nat /\ u <= c /\ stored'[SessionOf[q]][u] = None
          BY <1>1, <1>4, <2>1, <2>6, <3>2
        <4>2. c \in Nat /\ d \in Nat /\ c <= d
          BY <1>2, <1>6
        <4> HIDE DEF c, d, u
        <4>3. u <= d
          BY <4>1, <4>2
        <4> QED
          BY <4>1, <4>3 DEF d, u
      <3> QED
        BY <3>1, <3>2
    <2>7. ASSUME NEW q \in Run \ {r}, pc'[q] = "saving", SessionOf[q] = s
          PROVE  unsaved'[q].index # index
      <3> DEFINE u == unsaved[q].index
                 c == counts[m][s]
      <3>1. unsaved'[q].index = u /\ u \in Nat /\ u <= c
        BY <1>4, <2>1, <2>2, <2>7
      <3>2. c \in Nat /\ c < index
        BY <1>3
      <3> HIDE DEF u, c
      <3> QED
        BY <1>3, <3>1, <3>2
    <2>8. ASSUME NEW q \in Run, NEW p \in Run, pc'[q] = "saving", pc'[p] = "saving",
                 SessionOf[q] = SessionOf[p], q # p
          PROVE  unsaved'[q].index # unsaved'[p].index
      <3>1. CASE q = r
        BY <1>4, <2>7, <2>8, <3>1
      <3>2. CASE p = r
        BY <1>4, <2>7, <2>8, <3>2
      <3>3. CASE q # r /\ p # r
        BY <1>4, <2>8, <3>3 DEF TrailsInv, OwnKeys
      <3> QED
        BY <3>1, <3>2, <3>3
    <2> QED
      BY <2>3, <2>6, <2>8 DEF OwnKeys
  <1> QED
    BY <1>8, <1>9, <1>10

\* What a run files, and keeps filed, under a key that was free.
LEMMA SavedTrail ==
  ASSUME TrailTypes, NEW r \in Run, NEW i \in 1..MaxIndex,
         NEW c, c # None, c.run = r, stored[SessionOf[r]][i] = None,
         stored' = [stored EXCEPT ![SessionOf[r]][i] = c]
  PROVE  /\ Filed(r)' = Filed(r) \cup {i} /\ i \notin Filed(r)
         /\ stored'[SessionOf[r]][i] = c
         /\ \A k \in 1..MaxIndex : k # i => stored'[SessionOf[r]][k] = stored[SessionOf[r]][k]
         /\ \A q \in Run : SessionOf[q] # SessionOf[r] => stored'[SessionOf[q]] = stored[SessionOf[q]]
         /\ \A q \in Run \ {r} : Filed(q)' = Filed(q)
  <1> DEFINE s == SessionOf[r]
  <1> DEFINE V == {None} \cup CheckpointRecord
  <1>0. stored \in [Session -> [1..MaxIndex -> V]] /\ \A q \in Run : SessionOf[q] \in Session
    BY DEF TrailTypes, Session
  <1> HIDE DEF V
  <1>1. stored'[s] = [stored[s] EXCEPT ![i] = c]
    BY <1>0
  <1>2. stored[s] \in [1..MaxIndex -> V]
    BY <1>0
  <1>3. stored'[s][i] = c /\ \A k \in 1..MaxIndex : k # i => stored'[s][k] = stored[s][k]
    BY <1>1, <1>2
  <1>4. \A q \in Run : SessionOf[q] # s => stored'[SessionOf[q]] = stored[SessionOf[q]]
    BY <1>0
  <1>5. Filed(r)' = Filed(r) \cup {i} /\ i \notin Filed(r)
    <2>1. /\ Filed(r) = {k \in 1..MaxIndex : stored[s][k] # None /\ stored[s][k].run = r}
          /\ Filed(r)' = {k \in 1..MaxIndex : stored'[s][k] # None /\ stored'[s][k].run = r}
      BY DEF Filed
    <2>2. i \in Filed(r)' /\ i \notin Filed(r)
      BY <1>3, <2>1
    <2>3. \A k \in 1..MaxIndex : k # i => (k \in Filed(r)' <=> k \in Filed(r))
      BY <1>3, <2>1
    <2>4. Filed(r) \subseteq 1..MaxIndex /\ Filed(r)' \subseteq 1..MaxIndex
      BY <2>1
    <2> QED
      BY <2>2, <2>3, <2>4
  <1>6. ASSUME NEW q \in Run \ {r} PROVE Filed(q)' = Filed(q)
    <2>1. CASE SessionOf[q] = s
      BY <1>3, <2>1 DEF Filed
    <2>2. CASE SessionOf[q] # s
      BY <1>4, <2>2 DEF Filed
    <2> QED
      BY <2>1, <2>2
  <1> QED
    BY <1>3, <1>4, <1>5, <1>6

\* One more checkpoint is filed, after those before it.
LEMMA PlacedNext ==
  ASSUME NEW r \in Run, NEW n \in Nat, NEW place, Placed(r, place, n), MaxIndex \in Nat,
         NEW i \in 1..MaxIndex, \A k \in 1..n : place[k] < i,
         Filed(r)' = Filed(r) \cup {i}, i \notin Filed(r),
         \A k \in 1..MaxIndex : k # i => stored'[SessionOf[r]][k] = stored[SessionOf[r]][k],
         stored'[SessionOf[r]][i] = Due(r)[n + 1], Due(r)' = Due(r)
  PROVE  \E next : Placed(r, next, n + 1)'
  <1> DEFINE next == [k \in 1..(n + 1) |-> IF k = n + 1 THEN i ELSE place[k]]
  <1>1. /\ place \in [1..n -> 1..MaxIndex]
        /\ \A j, k \in 1..n : j < k => place[j] < place[k]
        /\ Filed(r) = {place[k] : k \in 1..n}
        /\ \A k \in 1..n : stored[SessionOf[r]][place[k]] = Due(r)[k]
    BY DEF Placed
  <1>2. 1..(n + 1) = 1..n \cup {n + 1} /\ n + 1 \notin 1..n
    OBVIOUS
  <1>3. next[n + 1] = i /\ \A k \in 1..n : next[k] = place[k]
    BY <1>2
  <1>4. next \in [1..(n + 1) -> 1..MaxIndex]
    BY <1>1, <1>2
  <1> HIDE DEF next
  <1>5. ASSUME NEW j \in 1..(n + 1), NEW k \in 1..(n + 1), j < k PROVE next[j] < next[k]
    <2>1. j \in 1..n
      BY <1>5
    <2>2. CASE k = n + 1
      BY <1>3, <2>1, <2>2
    <2>3. CASE k \in 1..n
      BY <1>1, <1>3, <1>5, <2>1, <2>3
    <2> QED
      BY <1>2, <2>2, <2>3
  <1>6. Filed(r)' = {next[k] : k \in 1..(n + 1)}
    <2> DEFINE old == {place[k] : k \in 1..n}
               new == {next[k] : k \in 1..(n + 1)}
    <2>1. old \cup {i} \subseteq new
      BY <1>2, <1>3
    <2>2. new \subseteq old \cup {i}
      BY <1>2, <1>3
    <2> QED
      BY <1>1, <2>1, <2>2
  <1>7. ASSUME NEW k \in 1..(n + 1) PROVE stored'[SessionOf[r]][next[k]] = Due(r)[k]
    <2>1. CASE k = n + 1
      BY <1>3, <2>1
    <2>2. CASE k \in 1..n
      <3>1. next[k] \in 1..MaxIndex /\ next[k] # i
        BY <1>1, <1>3, <2>2
      <3> QED
        BY <1>1, <1>3, <2>2, <3>1
    <2> QED
      BY <1>2, <2>1, <2>2
  <1>8. Placed(r, next, n + 1)'
    BY <1>4, <1>5, <1>6, <1>7 DEF Placed
  <1> QED
    BY <1>8

\* The write of a checkpoint returns: under a key of its own, or not at all.
LEMMA SaveTrails ==
  ASSUME OrchestratorInv, TrailInv, KeysApart, TrailsInv, NEW r \in Run, Save(r)
  PROVE  /\ \A q \in Run : TrailSoFar(q)'
         /\ OwnKeys'
  <1> DEFINE s == SessionOf[r]
  <1>0. PICK i, c :
          /\ i = unsaved[r].index
          /\ c = [run |-> r, name |-> unsaved[r].name, status |-> unsaved[r].status]
    OBVIOUS
  <1>1. /\ pc[r] = "saving" /\ unsaved' = [unsaved EXCEPT ![r] = None]
        /\ UNCHANGED <<agents, counts, reviews>>
    BY DEF Save, Refused
  <1>2. PICK next \in {"returning", "stepping", "raised"} : pc' = [pc EXCEPT ![r] = next]
    BY DEF Save, Refused, Goto, AfterSave
  <1>3. /\ pc'[r] = next /\ pc'[r] # "saving"
        /\ \A q \in Run \ {r} : pc'[q] = pc[q] /\ unsaved'[q] = unsaved[q]
    BY <1>1, <1>2 DEF OrchestratorInv, RunTypes, UnsavedPerRun
  <1>4. \A q \in Run : Due(q)' = Due(q)
    BY <1>1, OthersDue DEF agents
  <1>5. MaxIndex \in Nat /\ s \in Session /\ \A q \in Run : SessionOf[q] \in Session
    BY SpentIsBounded, StepsBounded DEF Session
  <1>6. i \in 1..MaxIndex
    BY <1>0, <1>1 DEF TrailInv, Unwritten
  <1>7. stored[s][i] = None \/ UNCHANGED stored
    <2>1. CASE Durable
      BY <1>0, <2>1 DEF Save, Refused
    <2>2. CASE ~Durable
      BY <1>0, <1>1, <2>2 DEF TrailsInv, OwnKeys
    <2> QED
      BY <2>1, <2>2
  <1>8. CASE UNCHANGED stored /\ next = "raised"
    <2>1. \A q \in Run : Filed(q)' = Filed(q)
      BY <1>8 DEF Filed
    <2>2. ASSUME NEW q \in Run \ {r} PROVE TrailSoFar(q)'
      <3>1. TrailSoFar(q)
        BY DEF TrailsInv
      <3>2. \A n \in Nat : \A place : Placed(q, place, n) => Placed(q, place, n)'
        BY <1>4, <1>8, <2>1 DEF Placed
      <3> QED
        BY <1>1, <1>3, <1>4, <2>1, <3>1, <3>2 DEF TrailSoFar, Under
    <2>3. TrailSoFar(r)'
      BY <1>3, <1>8 DEF TrailSoFar, Under
    <2>4. OwnKeys'
      BY <1>1, <1>3, <1>8 DEF TrailsInv, OwnKeys
    <2> QED
      BY <2>2, <2>3, <2>4
  <1>9. CASE stored[s][i] = None /\ stored' = [stored EXCEPT ![s][i] = c]
    <2>1. TrailTypes
      BY DEF TrailInv
    <2>2. c # None /\ c.run = r
      <3>1. c.run = r
        BY <1>0
      <3>2. c \in CheckpointRecord
        BY <1>0, <1>1 DEF TrailInv, Unwritten, CheckpointRecord
      <3> QED
        BY <3>1, <3>2, OrchestratorAssumption
    <2>3. /\ Filed(r)' = Filed(r) \cup {i} /\ i \notin Filed(r)
          /\ stored'[s][i] = c
          /\ \A k \in 1..MaxIndex : k # i => stored'[s][k] = stored[s][k]
          /\ \A q \in Run : SessionOf[q] # s => stored'[SessionOf[q]] = stored[SessionOf[q]]
          /\ \A q \in Run \ {r} : Filed(q)' = Filed(q)
      BY <1>6, <1>9, <2>1, <2>2, SavedTrail
    <2>4. TrailSoFar(r)'
      <3>1. TrailSoFar(r) /\ Under(r)
        BY <1>1 DEF TrailsInv, Under
      <3>2. PICK n, place :
              /\ n \in Nat /\ Placed(r, place, n)
              /\ n + 1 = Len(Due(r)) /\ Due(r)[n + 1] = c
              /\ \A k \in 1..n : place[k] < i
        BY <1>0, <1>1, <3>1 DEF TrailSoFar
      <3>3. \E after : Placed(r, after, n + 1)'
        BY <1>4, <1>5, <1>6, <2>3, <3>2, PlacedNext
      <3>4. n + 1 \in Nat /\ n + 1 = Len(Due(r))'
        BY <1>4, <3>2
      <3>5. \A k \in Filed(r)' : k <= counts'[ManagerOf[r]][SessionOf[r]]
        BY <1>0, <1>1, <2>3, <3>1 DEF TrailSoFar
      <3> QED
        BY <1>1, <1>2, <1>3, <3>3, <3>4, <3>5 DEF TrailSoFar, Under
    <2>5. ASSUME NEW q \in Run \ {r} PROVE TrailSoFar(q)'
      <3>1. TrailSoFar(q) /\ Filed(q)' = Filed(q) /\ Filed(q) \subseteq 1..MaxIndex
        BY <2>3 DEF TrailsInv, Filed
      <3>2. \A k \in Filed(q) : stored'[SessionOf[q]][k] = stored[SessionOf[q]][k]
        <4>1. CASE SessionOf[q] # s
          BY <2>3, <4>1
        <4>2. CASE SessionOf[q] = s
          <5>1. i \notin Filed(q)
            BY <1>9, <4>2 DEF Filed
          <5> QED
            BY <2>3, <3>1, <4>2, <5>1
        <4> QED
          BY <4>1, <4>2
      <3>3. \A n \in Nat : \A place : Placed(q, place, n) => Placed(q, place, n)'
        BY <1>4, <3>1, <3>2 DEF Placed
      <3> QED
        BY <1>1, <1>3, <1>4, <3>1, <3>3 DEF TrailSoFar, Under
    <2>6. OwnKeys'
      <3> SUFFICES ASSUME ~Durable PROVE OwnKeys'
        BY DEF OwnKeys
      <3>1. /\ \A q \in Run, k \in 1..MaxIndex :
                 stored[SessionOf[q]][k] # None => k <= counts[ManagerOf[q]][SessionOf[q]]
            /\ \A q \in Run : pc[q] = "saving" =>
                 /\ unsaved[q].index <= counts[ManagerOf[q]][SessionOf[q]]
                 /\ stored[SessionOf[q]][unsaved[q].index] = None
                 /\ unsaved[q].index \in 1..MaxIndex
            /\ \A q, p \in Run :
                 pc[q] = "saving" /\ pc[p] = "saving" /\ SessionOf[q] = SessionOf[p] /\ q # p =>
                   unsaved[q].index # unsaved[p].index
        BY DEF TrailsInv, OwnKeys, TrailInv, Unwritten
      <3>2. \A q \in Run : SessionOf[q] = s => ManagerOf[q] = ManagerOf[r]
        BY DEF KeysApart
      <3>3. ASSUME NEW q \in Run, NEW k \in 1..MaxIndex, stored'[SessionOf[q]][k] # None
            PROVE  k <= counts'[ManagerOf[q]][SessionOf[q]]
        <4>1. CASE SessionOf[q] = s /\ k = i
          BY <1>0, <1>1, <3>1, <3>2, <4>1
        <4>2. CASE ~(SessionOf[q] = s /\ k = i)
          BY <1>1, <2>3, <3>1, <3>3, <4>2
        <4> QED
          BY <4>1, <4>2
      <3>4. ASSUME NEW q \in Run, pc'[q] = "saving"
            PROVE  /\ unsaved'[q].index <= counts'[ManagerOf[q]][SessionOf[q]]
                   /\ stored'[SessionOf[q]][unsaved'[q].index] = None
        <4>1. q # r /\ unsaved'[q] = unsaved[q] /\ pc[q] = "saving"
          BY <1>3, <3>4
        <4>2. SessionOf[q] = s => unsaved[q].index # i
          BY <1>0, <1>1, <3>1, <4>1
        <4>3. stored'[SessionOf[q]][unsaved[q].index] = None
          BY <2>3, <3>1, <4>1, <4>2
        <4> QED
          BY <1>1, <3>1, <4>1, <4>3
      <3>5. ASSUME NEW q \in Run, NEW p \in Run, pc'[q] = "saving", pc'[p] = "saving",
                   SessionOf[q] = SessionOf[p], q # p
            PROVE  unsaved'[q].index # unsaved'[p].index
        BY <1>3, <3>1, <3>5
      <3> QED
        BY <3>3, <3>4, <3>5 DEF OwnKeys
    <2> QED
      BY <2>4, <2>5, <2>6
  <1>10. \/ UNCHANGED stored /\ next = "raised"
         \/ stored[s][i] = None /\ stored' = [stored EXCEPT ![s][i] = c]
    <2>1. CASE UNCHANGED stored /\ Goto(r, "raised")
      <3>1. pc'[r] = "raised"
        BY <2>1 DEF Goto, OrchestratorInv, RunTypes
      <3> QED
        BY <1>3, <2>1, <3>1
    <2>2. CASE /\ Durable => stored[s][i] = None
               /\ stored' = [stored EXCEPT ![s][i] = c]
      <3>1. CASE Durable
        BY <2>2, <3>1
      <3>2. CASE ~Durable
        BY <1>0, <1>1, <2>2, <3>2 DEF TrailsInv, OwnKeys
      <3> QED
        BY <3>1, <3>2
    <2> QED
      BY <1>0, <2>1, <2>2 DEF Save, Refused
  <1> QED
    BY <1>8, <1>9, <1>10

\* A step that neither takes an index nor writes a checkpoint.
LEMMA TrailsStay ==
  ASSUME TrailsInv, UNCHANGED <<at, outputs, reviews, unsaved, counts, stored>>,
         \A q \in Run : /\ pc'[q] = "saving" <=> pc[q] = "saving"
                        /\ pc'[q] = "idle" => pc[q] = "idle"
                        /\ Under(q)' => Under(q) \/ (pc[q] = "idle" /\ Due(q) = <<>>
                                                     /\ at[q] = 1 /\ Known(q))
  PROVE  TrailsInv'
  <1>1. \A q \in Run : Due(q)' = Due(q) /\ Severe(q)' = Severe(q)
    BY OthersDue
  <1>2. \A q \in Run : Filed(q)' = Filed(q)
    BY DEF Filed
  <1>3. ASSUME NEW q \in Run PROVE TrailSoFar(q)' /\ InterventionSoFar(q)'
    <2>1. TrailSoFar(q) /\ InterventionSoFar(q)
      BY DEF TrailsInv
    <2>2. \A n \in Nat : \A place : Placed(q, place, n) => Placed(q, place, n)'
      BY <1>1, <1>2 DEF Placed
    <2>3. CASE ~Under(q)'
      BY <1>2, <2>1, <2>3 DEF TrailSoFar, InterventionSoFar
    <2>4. CASE Under(q)
      BY <1>1, <1>2, <2>1, <2>2, <2>4 DEF TrailSoFar, InterventionSoFar, Under, Current
    <2>5. CASE Under(q)' /\ pc[q] = "idle" /\ Due(q) = <<>> /\ at[q] = 1 /\ Known(q)
      <3>1. Filed(q)' = {} /\ Len(Due(q)) = 0 /\ DOMAIN Due(q) = {}
        BY <1>2, <2>1, <2>5 DEF TrailSoFar
      <3>2. Placed(q, <<>>, 0)'
        <4>1. 1..0 = {} /\ <<>> \in [1..0 -> 1..MaxIndex]
          OBVIOUS
        <4> QED
          BY <3>1, <4>1 DEF Placed
      <3>3. TrailSoFar(q)'
        BY <1>1, <2>5, <3>1, <3>2 DEF TrailSoFar, Under
      <3>4. Steps(q)[1].agent # "InterventionAgent"
        BY <2>5, PipelineShapes DEF Assessors
      <3>5. InterventionSoFar(q)'
        BY <1>1, <2>5, <3>1, <3>4 DEF InterventionSoFar, Current
      <3> QED
        BY <3>3, <3>5
    <2> QED
      BY <2>3, <2>4, <2>5
  <1>4. OwnKeys'
    BY DEF TrailsInv, OwnKeys
  <1> QED
    BY <1>3, <1>4 DEF TrailsInv

\* What the pipelines say of interventions.
LEMMA InterventionSteps ==
  ASSUME NEW r \in Run, Known(r)
  PROVE  /\ Len(Steps(r)) = 3 => Steps(r)[2].true_values = {"HIGH", "CRITICAL"}
         /\ Len(Steps(r)) = 2 => Steps(r)[2].agent # "InterventionAgent"
         /\ Len(Steps(r)) = 2 => Steps(r)[2].kind = "agent"
  <1>1. CASE ScenarioOf[r] = "payment_risk_intervention"
    BY <1>1 DEF Known, Steps, PIPELINES, Agent, Branch
  <1>2. CASE ScenarioOf[r] = "billing_dispute_resolution"
    BY <1>2 DEF Known, Steps, PIPELINES, Agent, Branch
  <1>3. CASE ScenarioOf[r] = "churn_prevention"
    BY <1>3 DEF Known, Steps, PIPELINES, Agent, Branch
  <1>4. DOMAIN PIPELINES = {"payment_risk_intervention", "billing_dispute_resolution",
                            "churn_prevention"}
    BY DEF PIPELINES
  <1> QED
    BY <1>1, <1>2, <1>3, <1>4 DEF Known

\* Which branches a run has passed, from where it is.
LEMMA PassedAt ==
  ASSUME NEW r \in Run, Known(r)
  PROVE  /\ at[r] \in {1, 2} => Passed(r) = FALSE
         /\ at'[r] \in {1, 2} => Passed(r)' = FALSE
         /\ at[r] \in {3, 4} /\ Len(Steps(r)) = 3 => Passed(r) = TRUE
         /\ at'[r] \in {3, 4} /\ Len(Steps(r)) = 3 => Passed(r)' = TRUE
         /\ at[r] = 3 /\ Len(Steps(r)) = 2 => Passed(r) = FALSE
         /\ at'[r] = 3 /\ Len(Steps(r)) = 2 => Passed(r)' = FALSE
  <1>1. /\ Steps(r)[1].kind = "agent"
        /\ Len(Steps(r)) = 3 => Steps(r)[2].kind = "branch"
        /\ Len(Steps(r)) = 2 => Steps(r)[2].kind = "agent"
    BY PipelineShapes, InterventionSteps
  <1>2. /\ 1..(1 - 1) = {} /\ 1..(2 - 1) = {1} /\ 1..(3 - 1) = {1, 2}
        /\ 2 \in 1..(3 - 1) /\ 2 \in 1..(4 - 1)
    OBVIOUS
  <1> QED
    BY <1>1, <1>2 DEF Passed

\* What is due once one more is: nothing else changes for interventions.
LEMMA InterventionAppended ==
  ASSUME NEW r \in Run, InterventionSoFar(r), Under(r), NEW S, NEW D \in Seq(S), NEW e \in S,
         Due(r) = D, Due(r)' = Append(D, e), Severe(r) => Severe(r)',
         e.name = "InterventionAgent" => Severe(r)'
  PROVE  \A k \in DOMAIN Due(r)' : Due(r)'[k].name = "InterventionAgent" => Severe(r)'
  <1>1. \A k \in DOMAIN D : D[k].name = "InterventionAgent" => Severe(r)
    BY DEF InterventionSoFar
  <1>2. \A k \in DOMAIN Append(D, e) :
          \/ k \in DOMAIN D /\ Append(D, e)[k] = D[k]
          \/ Append(D, e)[k] = e
    <2>1. /\ DOMAIN D = 1..Len(D) /\ DOMAIN Append(D, e) = 1..(Len(D) + 1) /\ Len(D) \in Nat
          /\ Append(D, e)[Len(D) + 1] = e
          /\ \A k \in 1..Len(D) : Append(D, e)[k] = D[k]
      BY Appended
    <2>2. \A k \in 1..(Len(D) + 1) : k \in 1..Len(D) \/ k = Len(D) + 1
      BY <2>1
    <2> QED
      BY <2>1, <2>2
  <1> QED
    BY <1>1, <1>2

\* A checkpoint of one run keeps the trails of all.
LEMMA CheckpointKeeps ==
  ASSUME OrchestratorInv, TrailInv, TrailInv', KeysApart, TrailsInv, NEW r \in Run,
         pc[r] \in {"stepping", "waiting"},
         NEW name, NEW status, Checkpoint(r, name, status),
         \A q \in Run \ {r} :
           at'[q] = at[q] /\ outputs'[q] = outputs[q] /\ reviews'[q] = reviews[q],
         NEW S, NEW D \in Seq(S), Entry(r, name, status) \in S,
         Due(r) = D, Due(r)' = Append(D, Entry(r, name, status)),
         Severe(r) => Severe(r)', name = "InterventionAgent" => Severe(r)',
         at'[r] <= Len(Steps(r)) /\ Steps(r)[at'[r]].kind = "agent"
           /\ Steps(r)[at'[r]].agent = "InterventionAgent" => Severe(r)'
  PROVE  TrailsInv'
  <1>1. Under(r) /\ pc[r] # "saving" /\ InterventionSoFar(r)
    BY DEF Under, TrailsInv
  <1>2. \A q \in Run \ {r} : Due(q)' = Due(q) /\ Severe(q)' = Severe(q)
    BY OthersDue
  <1>3. (\A q \in Run : TrailSoFar(q)') /\ OwnKeys'
    BY <1>1, <1>2, CheckpointTrails
  <1>4. pc' = [pc EXCEPT ![r] = "saving"]
    BY DEF Checkpoint, Goto
  <1>5. ASSUME NEW q \in Run \ {r} PROVE InterventionSoFar(q)'
    <2>1. InterventionSoFar(q) /\ pc'[q] = pc[q] /\ at'[q] = at[q]
      BY <1>4 DEF TrailsInv, OrchestratorInv, RunTypes
    <2>2. Due(q)' = Due(q) /\ Severe(q)' = Severe(q)
      BY <1>2
    <2> QED
      BY <2>1, <2>2 DEF InterventionSoFar, Under, Current
  <1>6. \A k \in DOMAIN Due(r)' : Due(r)'[k].name = "InterventionAgent" => Severe(r)'
    <2>1. Entry(r, name, status).name = name
      BY DEF Entry
    <2> QED
      BY <1>1, <2>1, InterventionAppended
  <1>7. InterventionSoFar(r)'
    BY <1>6 DEF InterventionSoFar, Current
  <1> QED
    BY <1>3, <1>5, <1>7 DEF TrailsInv

\* A branch leads to the intervention after a severe assessment only.
LEMMA BranchTrails ==
  ASSUME OrchestratorInv, TrailInv, TrailInv', KeysApart, TrailsInv, NEW r \in Run, TakeBranch(r)
  PROVE  TrailsInv'
  <1> DEFINE level == Last(outputs[r]).risk_level
             target == Routed(r, level)
  <1>1. /\ pc[r] = "stepping" /\ at[r] <= Len(Steps(r)) /\ Current(r).kind = "branch"
        /\ Checkpoint(r, "BRANCH", "BRANCH_COMPLETE") /\ UNCHANGED <<outputs, reviews>>
        /\ at' = [at EXCEPT ![r] = StepFor(r, target)]
    BY DEF TakeBranch, AtStep
  <1>2. Under(r) /\ Known(r) /\ reviews[r] = <<>>
    BY <1>1, InvAt DEF Under, Progress, Escalation
  <1>3. at[r] = 2 /\ Len(Steps(r)) = 3 /\ StepFor(r, target) \in {3, 4}
    BY <1>1, <1>2, BranchTargets
  <1>4. PICK a \in Assessment : outputs[r] = <<a>>
    BY <1>2, <1>3, InvAt DEF Progress
  <1>5. at'[r] = StepFor(r, target) /\ \A q \in Run \ {r} : at'[q] = at[q]
    BY <1>1 DEF OrchestratorInv, RunTypes
  <1>6. Passed(r) = FALSE /\ Passed(r)' = TRUE
    BY <1>2, <1>3, <1>5, PassedAt
  <1> DEFINE outcome == Entry(r, a.agent, "STEP_COMPLETE")
             branch == Entry(r, "BRANCH", "BRANCH_COMPLETE")
  <1>7. Due(r) = <<outcome>> /\ Due(r)' = <<outcome, branch>>
    <2>1. /\ DueOf(r, <<a>>, FALSE, <<>>) = <<outcome>>
          /\ DueOf(r, <<a>>, TRUE, <<>>) = <<outcome, branch>>
      BY DueShapes
    <2>2. /\ Due(r) = DueOf(r, outputs[r], Passed(r), reviews[r])
          /\ Due(r)' = DueOf(r, outputs'[r], Passed(r)', reviews'[r])
      BY DueIs
    <2> HIDE DEF outcome, branch
    <2> QED
      BY <1>1, <1>2, <1>4, <1>6, <2>1, <2>2
  <1>8. Due(r)' = Append(<<outcome>>, branch)
    <2>1. Append(<<outcome>>, branch) = <<outcome, branch>>
      BY ShortConcats
    <2> QED
      BY <1>7, <2>1
  <1>9. <<outcome>> \in Seq({outcome, branch}) /\ branch \in {outcome, branch}
    OBVIOUS
  <1>10. Severe(r)' = Severe(r)
    BY <1>1 DEF Severe
  <1>11. at'[r] <= Len(Steps(r)) => Severe(r)
    <2> SUFFICES ASSUME StepFor(r, target) # 4 PROVE Severe(r)
      BY <1>3, <1>5
    <2>1. target # None
      BY <1>3 DEF StepFor
    <2>2. level \in {"HIGH", "CRITICAL"}
      BY <1>2, <1>3, <2>1, PipelineShapes, InterventionSteps DEF Routed, Current
    <2>3. level = a.risk_level
      <3>1. Last(<<a>>) = a
        BY DEF Last
      <3> QED
        BY <1>4, <3>1
    <2> QED
      BY <1>4, <2>2, <2>3 DEF Severe
  <1>12. \A q \in Run \ {r} :
           at'[q] = at[q] /\ outputs'[q] = outputs[q] /\ reviews'[q] = reviews[q]
    BY <1>1, <1>5
  <1>13. Severe(r) => Severe(r)'
    BY <1>10
  <1>14. at'[r] <= Len(Steps(r)) /\ Steps(r)[at'[r]].kind = "agent"
           /\ Steps(r)[at'[r]].agent = "InterventionAgent" => Severe(r)'
    BY <1>10, <1>11
  <1> DEFINE D == <<outcome>>
             S == {outcome, branch}
  <1>15. D \in Seq(S) /\ Entry(r, "BRANCH", "BRANCH_COMPLETE") \in S
         /\ Due(r) = D /\ Due(r)' = Append(D, Entry(r, "BRANCH", "BRANCH_COMPLETE"))
    BY <1>7, <1>8, <1>9
  <1> HIDE DEF outcome, target, level, D, S
  <1> QED
    BY <1>1, <1>12, <1>13, <1>14, <1>15, CheckpointKeeps

\* The outcome of an agent comes last, an intervention's after a severe assessment.
LEMMA ReturnedTrails ==
  ASSUME OrchestratorInv, TrailInv, TrailInv', KeysApart, TrailsInv, NEW r \in Run,
         pc[r] = "waiting", NEW backend, NEW server, Returned(r, backend, server)
  PROVE  TrailsInv'
  <1>1. /\ Checkpoint(r, Current(r).agent, "STEP_COMPLETE") /\ UNCHANGED reviews
        /\ at' = [at EXCEPT ![r] = @ + 1]
    BY DEF Returned
  <1>2. PICK output \in Output(Current(r).agent, backend, server) :
          outputs' = [outputs EXCEPT ![r] = Append(@, output)]
    BY DEF Returned
  <1>3. /\ Under(r) /\ Known(r) /\ reviews[r] = <<>>
        /\ at[r] <= Len(Steps(r)) /\ Current(r).kind = "agent"
    BY InvAt DEF Under, Progress, Escalation
  <1>4. /\ at[r] \in 1..Len(Steps(r)) /\ Len(Steps(r)) \in {2, 3}
        /\ at[r] # Len(Steps(r)) => at[r] = 1 /\ Current(r).agent \in Assessors
    BY <1>3, CurrentAgent, PipelineShapes
  <1>5. PICK agent : agent = Current(r).agent /\ output.agent = agent
    BY DEF Output
  <1>6. /\ at'[r] = at[r] + 1
        /\ outputs'[r] = Append(outputs[r], output)
        /\ \A q \in Run \ {r} : at'[q] = at[q] /\ outputs'[q] = outputs[q]
    BY <1>1, <1>2 DEF OrchestratorInv, RunTypes
  <1>7. agent = "InterventionAgent" => Severe(r)
    BY <1>3, <1>5 DEF TrailsInv, InterventionSoFar
  <1> DEFINE new == Entry(r, agent, "STEP_COMPLETE")
  <1>8. CASE at[r] # Len(Steps(r))
    <2>1. at[r] = 1 /\ agent \in Assessors /\ outputs[r] = <<>> /\ outputs'[r] = <<output>>
      <3>1. at[r] = 1 /\ agent \in Assessors
        BY <1>4, <1>5, <1>8
      <3>2. outputs[r] = <<>>
        BY <1>3, <3>1, InvAt DEF Progress
      <3>3. Append(<<>>, output) = <<output>>
        BY ShortHeads
      <3> QED
        BY <1>6, <3>1, <3>2, <3>3
    <2>2. Passed(r) \in BOOLEAN /\ Passed(r)' = FALSE
      BY <1>3, <1>6, <2>1, PassedAt DEF Passed
    <2>3. Due(r) = <<>> /\ Due(r)' = <<new>>
      <3>1. /\ \A passed \in BOOLEAN : DueOf(r, <<>>, passed, <<>>) = <<>>
            /\ DueOf(r, <<output>>, FALSE, <<>>) = <<Entry(r, output.agent, "STEP_COMPLETE")>>
        BY DueShapes
      <3>2. /\ Due(r) = DueOf(r, outputs[r], Passed(r), reviews[r])
            /\ Due(r)' = DueOf(r, outputs'[r], Passed(r)', reviews'[r])
        BY DueIs
      <3> QED
        BY <1>1, <1>3, <1>5, <2>1, <2>2, <3>1, <3>2
    <2> HIDE DEF new
    <2>4. Due(r)' = Append(<<>>, new) /\ <<>> \in Seq({new}) /\ new \in {new}
      BY <2>3
    <2>5. ~Severe(r) /\ agent # "InterventionAgent"
      BY <2>1 DEF Severe, Assessors
    <2>6. at'[r] = 2
      BY <1>6, <2>1
    <2>7. ~(Steps(r)[at'[r]].kind = "agent" /\ Steps(r)[at'[r]].agent = "InterventionAgent")
      BY <1>3, <1>4, <2>6, PipelineShapes, InterventionSteps
    <2>8. Checkpoint(r, agent, "STEP_COMPLETE")
      BY <1>1, <1>5
    <2> QED
      BY <1>1, <1>6, <2>3, <2>4, <2>5, <2>7, <2>8, CheckpointKeeps DEF new
  <1>9. CASE at[r] = Len(Steps(r))
    <2>1. at[r] \in 2..Len(Steps(r)) /\ at'[r] > Len(Steps(r)) /\ at'[r] \in {3, 4}
      <3> DEFINE n == Len(Steps(r))
      <3>1. n \in {2, 3} /\ at[r] = n /\ at'[r] = n + 1
        BY <1>4, <1>6, <1>9
      <3> HIDE DEF n
      <3>2. at[r] \in 2..n /\ at'[r] > n /\ at'[r] \in {3, 4}
        BY <3>1
      <3> QED
        BY <3>2 DEF n
    <2>2. PICK a \in Assessment : outputs[r] = <<a>>
      BY <1>3, <2>1, InvAt DEF Progress
    <2>3. outputs'[r] = <<a, output>>
      <3>1. Append(<<a>>, output) = <<a, output>>
        BY ShortConcats
      <3> QED
        BY <1>6, <2>2, <3>1
    <2>4. PICK passed \in BOOLEAN : Passed(r) = passed /\ Passed(r)' = passed
      <3>1. CASE Len(Steps(r)) = 2
        <4>1. at[r] = 2 /\ at'[r] = 3
          BY <1>6, <1>9, <3>1
        <4>2. Passed(r) = FALSE /\ Passed(r)' = FALSE
          BY <1>3, <3>1, <4>1, PassedAt
        <4> QED
          BY <4>2
      <3>2. CASE Len(Steps(r)) = 3
        <4>1. at[r] = 3 /\ at'[r] = 4
          BY <1>6, <1>9, <3>2
        <4>2. Passed(r) = TRUE /\ Passed(r)' = TRUE
          BY <1>3, <3>2, <4>1, PassedAt
        <4> QED
          BY <4>2
      <3> QED
        BY <1>4, <3>1, <3>2
    <2> DEFINE outcome == Entry(r, a.agent, "STEP_COMPLETE")
               branch == Entry(r, "BRANCH", "BRANCH_COMPLETE")
               due == IF passed THEN <<outcome, branch>> ELSE <<outcome>>
    <2>5. Due(r) = due /\ Due(r)' = Append(due, new)
      <3>1. /\ Due(r) = DueOf(r, <<a>>, passed, <<>>)
            /\ Due(r)' = DueOf(r, <<a, output>>, passed, <<>>)
        BY <1>1, <1>3, <2>2, <2>3, <2>4, DueIs
      <3>2. /\ DueOf(r, <<a>>, FALSE, <<>>) = <<outcome>>
            /\ DueOf(r, <<a>>, TRUE, <<>>) = <<outcome, branch>>
            /\ DueOf(r, <<a, output>>, FALSE, <<>>)
                 = <<outcome, Entry(r, output.agent, "STEP_COMPLETE")>>
            /\ DueOf(r, <<a, output>>, TRUE, <<>>)
                 = <<outcome, branch, Entry(r, output.agent, "STEP_COMPLETE")>>
        BY DueShapes, Zenon
      <3>3. Entry(r, output.agent, "STEP_COMPLETE") = new
        BY <1>5
      <3> HIDE DEF new, outcome, branch
      <3>4. /\ Append(<<outcome>>, new) = <<outcome, new>>
            /\ Append(<<outcome, branch>>, new) = <<outcome, branch, new>>
        <4>1. Append(<<outcome>>, new) = <<outcome, new>>
          BY ShortConcats
        <4>2. Append(<<outcome, branch>>, new) = <<outcome, branch, new>>
          BY ShortConcats
        <4> QED
          BY <4>1, <4>2
      <3>5. CASE passed
        BY <3>1, <3>2, <3>3, <3>4, <3>5
      <3>6. CASE ~passed
        BY <3>1, <3>2, <3>3, <3>4, <3>6
      <3> QED
        BY <3>5, <3>6
    <2> HIDE DEF new, outcome, branch
    <2>6. due \in Seq({outcome, branch, new}) /\ new \in {outcome, branch, new}
      <3>1. /\ <<outcome, branch>> \in Seq({outcome, branch, new})
            /\ <<outcome>> \in Seq({outcome, branch, new})
        OBVIOUS
      <3> QED
        BY <3>1
    <2>7. Severe(r) => Severe(r)'
      BY <2>2, <2>3 DEF Severe
    <2>8. Checkpoint(r, agent, "STEP_COMPLETE")
      BY <1>1, <1>5
    <2>9. ~(at'[r] <= Len(Steps(r)))
      BY <1>4, <2>1
    <2> HIDE DEF due
    <2> QED
      BY <1>1, <1>6, <1>7, <2>5, <2>6, <2>7, <2>8, <2>9, CheckpointKeeps DEF new
  <1> QED
    BY <1>8, <1>9

\* A failure comes last; what the agent would have been is on its checkpoint.
LEMMA EscalateTrails ==
  ASSUME OrchestratorInv, TrailInv, TrailInv', KeysApart, TrailsInv, NEW r \in Run,
         AgentRuns(r), NEW failure, Escalate(r, failure)
  PROVE  TrailsInv'
  <1>1. /\ Checkpoint(r, Current(r).agent, "HUMAN_REVIEW")
        /\ UNCHANGED <<at, outputs>>
    BY DEF Escalate, agents
  <1>2. PICK agent, item : /\ agent = Current(r).agent
                           /\ item = [step |-> agent, failure_type |-> failure]
    OBVIOUS
  <1>3. item.step = agent
    BY <1>2
  <1>4. /\ Under(r) /\ Known(r) /\ reviews[r] = <<>>
        /\ at[r] <= Len(Steps(r)) /\ Current(r).kind = "agent"
    BY AgentRunning, InvAt DEF Progress, Escalation
  <1>5. /\ at[r] \in 1..Len(Steps(r)) /\ Len(Steps(r)) \in {2, 3}
        /\ at[r] # Len(Steps(r)) => at[r] = 1
    BY <1>4, CurrentAgent, PipelineShapes
  <1>6. reviews'[r] = <<item>> /\ \A q \in Run \ {r} : reviews'[q] = reviews[q]
    <2>1. reviews' = [reviews EXCEPT ![r] = Append(@, item)]
      BY <1>2 DEF Escalate, Queued
    <2>2. Append(<<>>, item) = <<item>>
      BY ShortHeads
    <2> QED
      BY <1>4, <2>1, <2>2 DEF OrchestratorInv, RunTypes
  <1>7. agent = "InterventionAgent" => Severe(r)
    BY <1>2, <1>4 DEF TrailsInv, InterventionSoFar
  <1>8. PICK passed \in BOOLEAN : Passed(r) = passed /\ Passed(r)' = passed
    BY <1>1 DEF Passed
  <1>9. Severe(r)' = Severe(r)
    BY <1>1 DEF Severe
  <1>10. Checkpoint(r, agent, "HUMAN_REVIEW")
    BY <1>1, <1>2
  <1>11. /\ Due(r) = DueOf(r, outputs[r], passed, <<>>)
         /\ Due(r)' = DueOf(r, outputs[r], passed, <<item>>)
    BY <1>1, <1>4, <1>6, <1>8, DueIs
  <1> DEFINE new == Entry(r, agent, "HUMAN_REVIEW")
  <1>12. \E S : \E D \in Seq(S) : new \in S /\ Due(r) = D /\ Due(r)' = Append(D, new)
    <2>1. CASE outputs[r] = <<>>
      <3>1. /\ DueOf(r, <<>>, passed, <<>>) = <<>>
            /\ DueOf(r, <<>>, passed, <<item>>) = <<Entry(r, item.step, "HUMAN_REVIEW")>>
        BY DueShapes, Zenon
      <3>2. Due(r) = <<>> /\ Due(r)' = <<new>>
        BY <1>3, <1>11, <2>1, <3>1
      <3> HIDE DEF new
      <3>3. <<new>> = Append(<<>>, new)
        BY ShortHeads
      <3>4. <<>> \in Seq({new}) /\ new \in {new}
        OBVIOUS
      <3> QED
        BY <3>2, <3>3, <3>4
    <2>2. CASE outputs[r] # <<>>
      <3>1. PICK a \in Assessment : outputs[r] = <<a>>
        BY <1>4, <1>5, <2>2, InvAt DEF Progress
      <3> DEFINE outcome == Entry(r, a.agent, "STEP_COMPLETE")
                 branch == Entry(r, "BRANCH", "BRANCH_COMPLETE")
      <3>2. /\ DueOf(r, <<a>>, FALSE, <<>>) = <<outcome>>
            /\ DueOf(r, <<a>>, TRUE, <<>>) = <<outcome, branch>>
            /\ DueOf(r, <<a>>, FALSE, <<item>>)
                 = <<outcome, Entry(r, item.step, "HUMAN_REVIEW")>>
            /\ DueOf(r, <<a>>, TRUE, <<item>>)
                 = <<outcome, branch, Entry(r, item.step, "HUMAN_REVIEW")>>
        BY DueShapes, Zenon
      <3>3. Entry(r, item.step, "HUMAN_REVIEW") = new
        BY <1>3
      <3> HIDE DEF new, outcome, branch
      <3>4. CASE ~passed
        <4>1. Due(r) = <<outcome>> /\ Due(r)' = <<outcome, new>>
          BY <1>11, <3>1, <3>2, <3>3, <3>4
        <4>2. Append(<<outcome>>, new) = <<outcome, new>>
          BY ShortConcats
        <4>3. <<outcome>> \in Seq({outcome, new}) /\ new \in {outcome, new}
          OBVIOUS
        <4> QED
          BY <4>1, <4>2, <4>3
      <3>5. CASE passed
        <4>1. Due(r) = <<outcome, branch>> /\ Due(r)' = <<outcome, branch, new>>
          BY <1>11, <3>1, <3>2, <3>3, <3>5
        <4>2. Append(<<outcome, branch>>, new) = <<outcome, branch, new>>
          BY ShortConcats
        <4>3. <<outcome, branch>> \in Seq({outcome, branch, new})
              /\ new \in {outcome, branch, new}
          OBVIOUS
        <4> QED
          BY <4>1, <4>2, <4>3
      <3> QED
        BY <3>4, <3>5
    <2> QED
      BY <2>1, <2>2
  <1> HIDE DEF new
  <1>13. PICK S : \E D \in Seq(S) : new \in S /\ Due(r) = D /\ Due(r)' = Append(D, new)
    BY <1>12
  <1>14. PICK D \in Seq(S) : new \in S /\ Due(r) = D /\ Due(r)' = Append(D, new)
    BY <1>13
  <1>15. /\ at'[r] <= Len(Steps(r)) /\ Steps(r)[at'[r]].kind = "agent"
              /\ Steps(r)[at'[r]].agent = "InterventionAgent" => Severe(r)'
         /\ \A q \in Run \ {r} :
              at'[q] = at[q] /\ outputs'[q] = outputs[q] /\ reviews'[q] = reviews[q]
    BY <1>1, <1>2, <1>6, <1>7, <1>9 DEF Current
  <1> QED
    BY <1>7, <1>9, <1>10, <1>14, <1>15, AgentRunning, CheckpointKeeps DEF new

\* A write that returns changes no run's outputs.
LEMMA WrittenTrails ==
  ASSUME OrchestratorInv, TrailInv, KeysApart, TrailsInv, NEW r \in Run, Save(r)
  PROVE  TrailsInv'
  <1>1. (\A q \in Run : TrailSoFar(q)') /\ OwnKeys'
    BY SaveTrails
  <1>2. pc[r] = "saving" /\ UNCHANGED <<at, outputs, reviews>>
    BY DEF Save, Refused, agents
  <1>3. PICK next : pc' = [pc EXCEPT ![r] = next]
    BY DEF Save, Refused, Goto
  <1>4. ASSUME NEW q \in Run PROVE InterventionSoFar(q)'
    <2>1. InterventionSoFar(q) /\ Due(q)' = Due(q) /\ Severe(q)' = Severe(q)
      BY <1>2, OthersDue DEF TrailsInv
    <2>2. Under(q)' => Under(q)
      BY <1>2, <1>3 DEF OrchestratorInv, RunTypes, Under
    <2> QED
      BY <1>2, <2>1, <2>2 DEF InterventionSoFar, Current
  <1> QED
    BY <1>1, <1>4 DEF TrailsInv

LEMMA InitTrails == Init => TrailsInv
  <1> SUFFICES ASSUME Init PROVE TrailsInv
    OBVIOUS
  <1>1. \A r \in Run : pc[r] = "idle" /\ SessionOf[r] \in Session
    BY DEF Init, Session
  <1>2. \A s \in Session, i \in 1..MaxIndex : stored[s][i] = None
    BY DEF Init
  <1>3. \A r \in Run : TrailSoFar(r) /\ InterventionSoFar(r)
    BY <1>1, <1>2 DEF TrailSoFar, InterventionSoFar, Under, Filed
  <1>4. OwnKeys
    BY <1>1, <1>2 DEF OwnKeys
  <1> QED
    BY <1>3, <1>4 DEF TrailsInv

\* Every step preserves the trails.
LEMMA StepTrails ==
  OrchestratorInv /\ TrailInv /\ KeysApart /\ TrailsInv /\ [Next]_vars => TrailsInv'
  <1> SUFFICES ASSUME OrchestratorInv, TrailInv, KeysApart, TrailsInv, [Next]_vars
               PROVE  TrailsInv'
    OBVIOUS
  <1>0. TrailInv'
    BY StepTrail
  <1>1. ASSUME NEW r \in Run, CallAgent(r) \/ AgentRaises(r) \/ Conclude(r) \/ HandBack(r)
        PROVE  TrailsInv'
    <2>1. UNCHANGED <<at, outputs, reviews, unsaved, counts, stored>>
      BY <1>1 DEF CallAgent, AgentRaises, Conclude, HandBack, agents, trail
    <2>2. PICK next \in {"raised", "waiting", "done"} :
            pc' = [pc EXCEPT ![r] = next]
      BY <1>1 DEF CallAgent, AgentRaises, Conclude, HandBack, Goto
    <2>3. pc[r] \notin {"idle", "raised", "saving"}
      BY <1>1, AgentRunning DEF CallAgent, AgentRaises, Conclude, HandBack, AtStep
    <2>4. \A q \in Run : /\ pc'[q] = "saving" <=> pc[q] = "saving"
                         /\ pc'[q] = "idle" => pc[q] = "idle"
                         /\ Under(q)' => Under(q)
      BY <2>2, <2>3 DEF OrchestratorInv, RunTypes, Under
    <2> QED
      BY <2>1, <2>4, TrailsStay
  <1>2. ASSUME NEW r \in Run, Begin(r) PROVE TrailsInv'
    <2>1. UNCHANGED <<at, outputs, reviews, unsaved, counts, stored>>
      BY <1>2 DEF Begin, trail
    <2>2. PICK next \in {"stepping", "raised"} :
            pc' = [pc EXCEPT ![r] = next] /\ (next = "stepping" => Known(r))
      BY <1>2 DEF Begin, Goto, Known
    <2>3. pc[r] = "idle" /\ at[r] = 1 /\ outputs[r] = <<>> /\ reviews[r] = <<>>
      BY <1>2, InvAt DEF Begin, Progress, Escalation
    <2>4. Due(r) = <<>>
      <3>1. Passed(r) \in BOOLEAN
        BY DEF Passed
      <3>2. \A passed \in BOOLEAN : DueOf(r, <<>>, passed, <<>>) = <<>>
        BY DueShapes, Zenon
      <3> QED
        BY <2>3, <3>1, <3>2, DueIs
    <2>5. \A q \in Run : /\ pc'[q] = "saving" <=> pc[q] = "saving"
                         /\ pc'[q] = "idle" => pc[q] = "idle"
                         /\ Under(q)' => Under(q) \/ (pc[q] = "idle" /\ Due(q) = <<>>
                                                      /\ at[q] = 1 /\ Known(q))
      BY <2>2, <2>3, <2>4 DEF OrchestratorInv, RunTypes, Under
    <2> QED
      BY <2>1, <2>5, TrailsStay
  <1>3. ASSUME NEW r \in Run, TakeBranch(r) PROVE TrailsInv'
    BY <1>0, <1>3, BranchTrails
  <1>4. ASSUME NEW r \in Run, Answer(r) \/ FallBack(r) PROVE TrailsInv'
    <2>1. \/ Returned(r, route[r].backend, client[r])
          \/ Returned(r, "mock", "mock")
      BY <1>4 DEF Answer, FallBack
    <2>2. PICK backend, server : Returned(r, backend, server)
      BY <2>1
    <2>3. pc[r] = "waiting"
      BY <1>4 DEF Answer, FallBack
    <2> QED
      BY <1>0, <2>2, <2>3, ReturnedTrails
  <1>5. ASSUME NEW r \in Run, TimeOut(r) \/ AgentFails(r) PROVE TrailsInv'
    <2>1. AgentRuns(r) /\ \E failure : Escalate(r, failure)
      BY <1>5 DEF TimeOut, AgentFails, AgentRuns
    <2> QED
      BY <1>0, <2>1, EscalateTrails
  <1>6. ASSUME NEW r \in Run, Save(r) PROVE TrailsInv'
    BY <1>6, WrittenTrails
  <1>7. ASSUME SwitchBackend \/ HoldLoop \/ UNCHANGED vars PROVE TrailsInv'
    <2>1. UNCHANGED <<pc, at, outputs, reviews, unsaved, counts, stored>>
      BY <1>7 DEF SwitchBackend, HoldLoop, vars, agents, trail
    <2>2. \A q \in Run : Under(q)' => Under(q)
      BY <2>1 DEF Under
    <2> QED
      BY <2>1, <2>2, TrailsStay
  <1> QED
    BY <1>1, <1>2, <1>3, <1>4, <1>5, <1>6, <1>7 DEF Next, Step

LEMMA FunctionIsSeq ==
  ASSUME NEW S, NEW n \in Nat, NEW f \in [1..n -> S]
  PROVE  f \in Seq(S)
  BY SeqDef

\* What is due is a sequence.
LEMMA DueIsSequence ==
  ASSUME RunTypes, NEW r \in Run
  PROVE  DOMAIN Due(r) = 1..Len(Due(r))
  <1> DEFINE outcomes == [i \in DOMAIN outputs[r] |-> Entry(r, outputs[r][i].agent, "STEP_COMPLETE")]
             branch == IF Passed(r) THEN <<Entry(r, "BRANCH", "BRANCH_COMPLETE")>> ELSE <<>>
             failure == [i \in DOMAIN reviews[r] |-> Entry(r, reviews[r][i].step, "HUMAN_REVIEW")]
             S == [run : {r}, name : AgentName \cup {"BRANCH"}, status : Status]
  <1>1. \A name \in AgentName \cup {"BRANCH"}, status \in Status : Entry(r, name, status) \in S
    BY DEF Entry
  <1> HIDE DEF S
  <1>2. outcomes \in Seq(S)
    <2> DEFINE n == Len(outputs[r])
    <2>1. outputs[r] \in Seq(OutputType)
      BY DEF RunTypes
    <2>2. n \in Nat /\ DOMAIN outputs[r] = 1..n /\ \A i \in 1..n : outputs[r][i] \in OutputType
      BY <2>1, ElementOfSeq
    <2>3. \A i \in 1..n : outputs[r][i].agent \in AgentName
      BY <2>2 DEF OutputType
    <2>4. outcomes \in [1..n -> S]
      BY <1>1, <2>2, <2>3 DEF Status
    <2> HIDE DEF n
    <2> QED
      BY <2>2, <2>4, FunctionIsSeq
  <1>3. branch \in Seq(S)
    <2>1. Entry(r, "BRANCH", "BRANCH_COMPLETE") \in S
      BY <1>1 DEF Status
    <2> QED
      BY <2>1
  <1>4. failure \in Seq(S)
    <2> DEFINE n == Len(reviews[r])
               T == [step : AgentName, failure_type : {"TIMEOUT", "ERROR"}]
    <2>1. reviews[r] \in Seq(T)
      BY DEF RunTypes
    <2> HIDE DEF T
    <2>2. n \in Nat /\ DOMAIN reviews[r] = 1..n /\ \A i \in 1..n : reviews[r][i] \in T
      BY <2>1, ElementOfSeq
    <2>3. \A i \in 1..n : reviews[r][i].step \in AgentName
      BY <2>2 DEF T
    <2>4. failure \in [1..n -> S]
      BY <1>1, <2>2, <2>3 DEF Status
    <2> HIDE DEF n
    <2> QED
      BY <2>2, <2>4, FunctionIsSeq
  <1>5. Due(r) = IF outcomes = <<>> THEN failure
                 ELSE <<Head(outcomes)>> \o branch \o Tail(outcomes) \o failure
    BY DEF Due, Passed, Entry
  <1> HIDE DEF outcomes, branch, failure, S
  <1>6. Due(r) \in Seq(S)
    <2>1. CASE outcomes = <<>>
      BY <1>4, <1>5, <2>1
    <2>2. CASE outcomes # <<>>
      <3>1. Head(outcomes) \in S /\ Tail(outcomes) \in Seq(S)
        BY <1>2, <2>2
      <3>2. <<Head(outcomes)>> \o branch \in Seq(S)
        BY <1>3, <3>1
      <3>3. <<Head(outcomes)>> \o branch \o Tail(outcomes) \in Seq(S)
        BY <3>1, <3>2
      <3> QED
        BY <1>4, <1>5, <2>2, <3>3
    <2> QED
      BY <2>1, <2>2
  <1> QED
    BY <1>6

\* When a run hands over, all that is due is filed, and nothing else.
LEMMA FinishedTrails ==
  ASSUME OrchestratorInv, TrailsInv
  PROVE  TrailIsComplete
  <1> SUFFICES ASSUME NEW r \in Run, pc[r] = "done"
               PROVE  /\ \E place \in [DOMAIN Due(r) -> 1..MaxIndex] :
                           /\ \A j, k \in DOMAIN Due(r) : j < k => place[j] < place[k]
                           /\ Filed(r) = {place[k] : k \in DOMAIN Due(r)}
                           /\ \A k \in DOMAIN Due(r) : stored[SessionOf[r]][place[k]] = Due(r)[k]
                      /\ \A i \in Filed(r) :
                           stored[SessionOf[r]][i].name = "InterventionAgent" => Severe(r)
    BY DEF TrailIsComplete
  <1>1. TrailSoFar(r) /\ InterventionSoFar(r) /\ Under(r)
    BY DEF TrailsInv, Under
  <1>2. PICK n, place : n \in Nat /\ Placed(r, place, n) /\ n = Len(Due(r))
    BY <1>1 DEF TrailSoFar
  <1>3. DOMAIN Due(r) = 1..n
    BY <1>2, DueIsSequence DEF OrchestratorInv
  <1>4. /\ \A j, k \in DOMAIN Due(r) : j < k => place[j] < place[k]
        /\ Filed(r) = {place[k] : k \in DOMAIN Due(r)}
        /\ \A k \in DOMAIN Due(r) : stored[SessionOf[r]][place[k]] = Due(r)[k]
        /\ place \in [DOMAIN Due(r) -> 1..MaxIndex]
    BY <1>2, <1>3 DEF Placed
  <1>5. \A i \in Filed(r) : stored[SessionOf[r]][i].name = "InterventionAgent" => Severe(r)
    BY <1>1, <1>4 DEF InterventionSoFar
  <1> QED
    BY <1>4, <1>5

\* The trail of every run that hands over is complete and in order, whatever the
\* runs, their sessions and the size of the store, if the store refuses a key twice
\* or the runs of a session count their keys with one manager.
THEOREM TrailsAreComplete == ASSUME KeysApart PROVE Spec => []TrailIsComplete
  <1>1. Init => TrailInv /\ TrailsInv
    BY InitTrail, InitTrails
  <1>2. OrchestratorInv /\ TrailInv /\ TrailsInv /\ [Next]_vars => TrailInv' /\ TrailsInv'
    BY StepTrail, StepTrails
  <1>3. OrchestratorInv /\ TrailsInv => TrailIsComplete
    BY FinishedTrails
  <1> QED
    BY <1>1, <1>2, <1>3, OrchestratorInvariant, PTL DEF Spec
=============================================================================
