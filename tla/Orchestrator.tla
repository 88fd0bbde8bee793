------------------------------ MODULE Orchestrator ------------------------------
(***************************************************************************)
(* Layer 3: Orchestrator.run_pipeline (layer3_orchestration/orchestrator.py) *)
(* for several runs, with the checkpoints it writes (state_manager.py), the  *)
(* agents (agents/base_agent.py) and the routed LLM service they call        *)
(* (llm_inference/service.py), whose backend an operator may switch at run   *)
(* time (core/runtime_config.py, api/routers/config.py).                     *)
(*                                                                         *)
(* A step is the code between two awaits.                                  *)
(***************************************************************************)
EXTENDS LLMRouting, SequencesExt

CONSTANTS
  Run,
  SessionOf,     \* SessionOf[r]: the session of run r
  ScenarioOf,    \* ScenarioOf[r]: its scenario
  ManagerOf,     \* ManagerOf[r]: the state manager of its orchestrator
  ActionList,    \* the lists of actions an InterventionProposal may hold
  Levels,        \* bound: the risk levels a RiskAssessment has here
  Durable,       \* checkpoints go to Valkey (NX); FALSE: to the in-memory store
  MaxSwitches,   \* bounds: switches of the backend, injected faults
  MaxFaults

Session == {SessionOf[r] : r \in Run}
Manager == {ManagerOf[r] : r \in Run}

\* What run_pipeline hands over: None stands for no output yet.
HandedOver == [status : {"PENDING_GUARDRAILS", "HUMAN_REVIEW"}, actions : ActionList]

AgentName == Assessors \cup {"InterventionAgent", "ResolutionAgent", "RetentionOfferAgent"}

Status == {"STEP_COMPLETE", "BRANCH_COMPLETE", "HUMAN_REVIEW"}

\* What is kept of a checkpoint.
CheckpointRecord == [run : Run, name : AgentName \cup {"BRANCH"}, status : Status]

ASSUME OrchestratorAssumption ==
  /\ IsFiniteSet(Run)
  /\ <<>> \in ActionList
  /\ \A list \in ActionList : list \in Seq(ToSet(list))
  /\ None \notin HandedOver \cup CheckpointRecord
  /\ Levels \subseteq RiskLevel
  /\ Durable \in BOOLEAN
  /\ {MaxSwitches, MaxFaults} \subseteq Nat

VARIABLES
  pc,          \* pc[r]: what run r does next
  at,          \* at[r]: index of the pipeline step
  outputs,     \* prior_outputs: [agent, risk_level, actions, backend, served_by]
  client,      \* client[r]: the backend its LLM client was created for
  timeout,     \* timeout[r]: the limit of the agent call under way
  route,       \* route[r]: [backend, budget] of the LLM call under way
  late,        \* runs whose call under way got no turn before both its limits had passed
  unsaved,     \* unsaved[r]: the checkpoint being written: [index, name, status]
  result,      \* result[r]: the OrchestratorOutput: [status, actions], or None
  setting,     \* settings.LLM_BACKEND
  counts,      \* counts[m][s]: _checkpoint_counts of state manager m
  stored,      \* stored[s][i]: the checkpoint under index i, or None
  reviews,     \* reviews[r]: the HumanReviewQueue: [step, failure_type]
  audit,       \* runs with an ORCHESTRATION_COMPLETE record
  switches, faults

agents == <<at, outputs, client, timeout, route, late>>
trail == <<unsaved, counts, stored>>
vars == <<pc, agents, trail, result, setting, reviews, audit, switches, faults>>

\* Every step of a pipeline writes at most one checkpoint.
MaxIndex == 3 * Cardinality(Run)

Steps(r) ==
  IF ScenarioOf[r] \in DOMAIN PIPELINES THEN PIPELINES[ScenarioOf[r]] ELSE <<>>

Init ==
  /\ pc = [r \in Run |-> "idle"]
  /\ at = [r \in Run |-> 1]
  /\ outputs = [r \in Run |-> <<>>]
  /\ client = [r \in Run |-> None]
  /\ timeout = [r \in Run |-> 0]
  /\ route = [r \in Run |-> None]
  /\ late = {}
  /\ unsaved = [r \in Run |-> None]
  /\ result = [r \in Run |-> None]
  /\ setting \in Backend
  /\ counts = [m \in Manager |-> [s \in Session |-> 0]]
  /\ stored = [s \in Session |-> [i \in 1..MaxIndex |-> None]]
  /\ reviews = [r \in Run |-> <<>>]
  /\ audit = {}
  /\ switches = 0 /\ faults = 0

Goto(r, next) == pc' = [pc EXCEPT ![r] = next]

Fault == faults < MaxFaults /\ faults' = faults + 1

-----------------------------------------------------------------------------
(* Checkpoints.                                                            *)

AfterSaveRetrying(status) == "stepping"   \* faulty variant: a failure goes on

\* Where the code goes on once a checkpoint of this status is written.
AfterSave(status) == IF status = "HUMAN_REVIEW" THEN "returning" ELSE "stepping"

CheckpointDetached(r, name, status) ==   \* faulty variant: the write is not awaited
  /\ Goto(r, AfterSave(status))
  /\ UNCHANGED trail

\* PipelineStateManager.checkpoint up to its write: the index is taken at once.
Checkpoint(r, name, status) ==
  LET index == counts[ManagerOf[r]][SessionOf[r]] + 1 IN
  /\ counts' = [counts EXCEPT ![ManagerOf[r]][SessionOf[r]] = index]
  /\ unsaved' = [unsaved EXCEPT ![r] = [index |-> index, name |-> name, status |-> status]]
  /\ Goto(r, "saving")
  /\ UNCHANGED stored

RefusedAgain(r) ==   \* faulty variant: tried again until the store takes it
  UNCHANGED <<pc, unsaved, stored>>

\* No handler is around the write.
Refused(r) ==
  /\ Goto(r, "raised")
  /\ unsaved' = [unsaved EXCEPT ![r] = None]
  /\ UNCHANGED stored

\* The write returns, or raises: Valkey refuses a key that another run of the
\* session has written, or fails.
Save(r) ==
  LET mine == unsaved[r]
      free == stored[SessionOf[r]][mine.index] = None
  IN
  /\ pc[r] = "saving"
  /\ \/ /\ Durable => free
        /\ stored' = [stored EXCEPT ![SessionOf[r]][mine.index] =
                        [run |-> r, name |-> mine.name, status |-> mine.status]]
        /\ unsaved' = [unsaved EXCEPT ![r] = None]
        /\ Goto(r, AfterSave(mine.status))
        /\ UNCHANGED faults
     \/ /\ Durable
        /\ free => Fault
        /\ ~free => UNCHANGED faults
        /\ Refused(r)
  /\ UNCHANGED <<agents, counts, result, setting, reviews, audit, switches>>

-----------------------------------------------------------------------------
(* The pipeline of a run.                                                  *)

\* create_llm_client.
Bound(r) == client' = [client EXCEPT ![r] = setting]

\* The orchestrator is created, with a client for the backend configured now;
\* it raises if the profile has expired or the scenario has no pipeline.
Begin(r) ==
  /\ pc[r] = "idle"
  /\ Bound(r)
  /\ \/ ScenarioOf[r] \in DOMAIN PIPELINES /\ Goto(r, "stepping")
     \/ Goto(r, "raised")
  /\ UNCHANGED <<at, outputs, timeout, route, late, trail, result, setting, reviews, audit,
                 switches, faults>>

Current(r) == Steps(r)[at[r]]

AtStep(r, kind) ==
  pc[r] = "stepping" /\ at[r] <= Len(Steps(r)) /\ Current(r).kind = kind

\* Where the branch of _handle_branch leads.
Routed(r, level) ==
  IF level \in Current(r).true_values THEN Current(r).if_true ELSE Current(r).if_false

\* The loop goes on at the agent routed to, past the agents outside the branch;
\* without a target it ends.
StepFor(r, agent) ==
  LET ahead == {i \in (at[r] + 1)..Len(Steps(r)) :
                  Steps(r)[i].kind = "branch" \/ Steps(r)[i].agent = agent}
  IN  IF agent = None \/ ahead = {} THEN Len(Steps(r)) + 1 ELSE Min(ahead)

TakeBranch(r) ==
  /\ AtStep(r, "branch")
  /\ at' = [at EXCEPT ![r] = StepFor(r, Routed(r, Last(outputs[r]).risk_level))]
  /\ Checkpoint(r, "BRANCH", "BRANCH_COMPLETE")
  /\ UNCHANGED <<outputs, client, timeout, route, late, result, setting, reviews, audit,
                 switches, faults>>

\* _run_agent_step: wait_for runs the agent up to its first await, the call of the
\* primary client, so the limit of the step and the route (with its budget) of
\* RoutedLLMInferenceService.complete come from the same setting.
CallAgent(r) ==
  LET agent == Current(r).agent IN
  /\ AtStep(r, "agent")
  /\ Equipped(agent)
  /\ timeout' = [timeout EXCEPT ![r] = AgentTimeout(Current(r), setting)]
  /\ route' = [route EXCEPT ![r] =
                 [backend |-> setting, budget |-> LatencyBudget(agent, setting)]]
  /\ Goto(r, "waiting")
  /\ UNCHANGED <<at, outputs, client, late, trail, result, setting, reviews, audit, switches,
                 faults>>

\* Code that never awaits keeps the event loop (the evaluation pipeline's gates and
\* its calls of MLflow do) until both limits of the calls under way have passed.
HoldLoop ==
  /\ \E r \in Run : pc[r] = "waiting"
  /\ late' = late \cup {r \in Run : pc[r] = "waiting"}
  /\ Fault
  /\ UNCHANGED <<pc, at, outputs, client, timeout, route, trail, result, setting, reviews,
                 audit, switches>>

-----------------------------------------------------------------------------
(* How an agent step ends.                                                 *)

\* What an agent returns: an assessment, or a proposal.
Output(agent, backend, server) ==
  [agent : {agent},
   risk_level : IF agent \in Assessors THEN Levels ELSE {None},
   actions : IF agent \in Assessors THEN {<<>>} ELSE ActionList,
   backend : {backend}, served_by : {server}]

\* The output is appended and checkpointed, the loop goes on.
Returned(r, backend, server) ==
  /\ \E output \in Output(Current(r).agent, backend, server) :
       outputs' = [outputs EXCEPT ![r] = Append(@, output)]
  /\ Checkpoint(r, Current(r).agent, "STEP_COMPLETE")
  /\ at' = [at EXCEPT ![r] = @ + 1]
  /\ late' = late \ {r}
  /\ UNCHANGED <<client, timeout, route, result, setting, reviews, audit, switches>>

\* The primary client answers within its budget.
Answer(r) ==
  /\ pc[r] = "waiting"
  /\ Returned(r, route[r].backend, client[r])
  /\ UNCHANGED faults

\* Of the two limits of a slow call, the inner one gets its turn first.
BudgetEndsFirst(r) == route[r].budget < timeout[r] /\ r \notin late

\* The primary fails, returns what its schema rejects, or exceeds its budget: the
\* mock answers in its place.
FallBack(r) ==
  /\ pc[r] = "waiting"
  /\ client[r] # "mock"
  /\ Returned(r, "mock", "mock")
  /\ UNCHANGED faults

EscalateSilently(r, failure) ==   \* faulty variant: nothing is queued
  /\ Checkpoint(r, Current(r).agent, "HUMAN_REVIEW")
  /\ UNCHANGED <<agents, result, setting, reviews, audit, switches>>

\* HumanReviewQueue.enqueue; the queue is this orchestrator's own.
Queued(r, item) == reviews' = [reviews EXCEPT ![r] = Append(@, item)]

\* The loop's exception handlers: prior outputs go before a human, no later
\* agent runs.
Escalate(r, failure) ==
  /\ Queued(r, [step |-> Current(r).agent, failure_type |-> failure])
  /\ Checkpoint(r, Current(r).agent, "HUMAN_REVIEW")
  /\ UNCHANGED <<agents, result, setting, audit, switches>>

\* The model is slow and wait_for's limit ends the step: it comes no later than the
\* budget, or in the same turn of the event loop, where the outer cancellation wins.
TimeOut(r) ==
  /\ pc[r] = "waiting"
  /\ client[r] # "mock"
  /\ ~BudgetEndsFirst(r)
  /\ Escalate(r, "TIMEOUT")
  /\ UNCHANGED faults

\* The agent is called, or waits for its model.
AgentRuns(r) == AtStep(r, "agent") \/ pc[r] = "waiting"

\* The agent raises what the handlers name: a tool it may not use, an output
\* that is not valid, an agent that is not registered.
AgentFails(r) ==
  /\ AgentRuns(r)
  /\ IF Equipped(Current(r).agent) THEN Fault ELSE UNCHANGED faults
  /\ Escalate(r, "ERROR")

\* It raises anything else.
AgentRaises(r) ==
  /\ AgentRuns(r)
  /\ Fault
  /\ Goto(r, "raised")
  /\ UNCHANGED <<agents, trail, result, setting, reviews, audit, switches>>

\* _proposed_actions_from_outputs.
ProposedActions(list) == FlattenSeq([i \in DOMAIN list |-> list[i].actions])

-----------------------------------------------------------------------------
(* The end of run_pipeline.                                                *)

\* _write_audit.
Recorded(r) == audit' = audit \cup {r}

\* The record is written, the output returned; PostgreSQL may refuse.
Conclude(r) ==
  /\ pc[r] = "stepping"
  /\ at[r] > Len(Steps(r))
  /\ \/ /\ Recorded(r)
        /\ result' = [result EXCEPT ![r] =
             [status |-> "PENDING_GUARDRAILS", actions |-> ProposedActions(outputs[r])]]
        /\ Goto(r, "done")
        /\ UNCHANGED faults
     \/ /\ Durable
        /\ Fault
        /\ Goto(r, "raised")
        /\ UNCHANGED <<audit, result>>
  /\ UNCHANGED <<agents, trail, setting, reviews, switches>>

\* _route_failure returns: no record is written.
HandBack(r) ==
  /\ pc[r] = "returning"
  /\ result' = [result EXCEPT ![r] =
       [status |-> "HUMAN_REVIEW", actions |-> ProposedActions(outputs[r])]]
  /\ Goto(r, "done")
  /\ UNCHANGED <<agents, trail, setting, reviews, audit, switches, faults>>

\* RuntimeConfigStore.update_llm.
Configured(backend) == setting' = backend

\* POST /config/llm-backend: a backend other than the mock answers a test first; only
\* an update changes anything.
SwitchBackend ==
  /\ switches < MaxSwitches
  /\ switches' = switches + 1
  /\ \E backend \in Backend \ {setting} : Configured(backend)
  /\ UNCHANGED <<pc, agents, trail, result, reviews, audit, faults>>

Step(r) ==
  \/ Begin(r) \/ TakeBranch(r) \/ CallAgent(r) \/ Answer(r) \/ FallBack(r) \/ TimeOut(r)
  \/ AgentFails(r) \/ AgentRaises(r) \/ Save(r) \/ Conclude(r) \/ HandBack(r)

Next == (\E r \in Run : Step(r)) \/ SwitchBackend \/ HoldLoop

Spec == Init /\ [][Next]_vars

\* The event loop runs every task that can run, timers fire, awaited writes
\* return or raise, an agent without its tools is refused them.  A model need not
\* answer, an operator need not switch, nothing need hold the loop.
Fairness ==
  \A r \in Run :
    /\ WF_vars(TakeBranch(r) \/ CallAgent(r) \/ (AgentFails(r) /\ ~Equipped(Current(r).agent)))
    /\ WF_vars(client[r] = "mock" /\ Answer(r))
    /\ WF_vars((FallBack(r) /\ BudgetEndsFirst(r)) \/ TimeOut(r))
    /\ WF_vars(Save(r) \/ Conclude(r) \/ HandBack(r))

FairSpec == Spec /\ Fairness

-----------------------------------------------------------------------------
(* Properties.                                                             *)

OutputType ==
  [agent : AgentName, risk_level : Levels \cup {None}, actions : ActionList,
   backend : Backend, served_by : Backend]

\* What the runs hold: their agents, their results, their failures.
RunTypes ==
  /\ pc \in [Run -> {"idle", "stepping", "waiting", "saving", "returning", "done", "raised"}]
  /\ at \in [Run -> Nat] /\ \A r \in Run : at[r] \in 1..(Len(Steps(r)) + 1)
  /\ outputs \in [Run -> Seq(OutputType)]
  /\ client \in [Run -> Backend \cup {None}]
  /\ timeout \in [Run -> Nat]
  /\ route \in [Run -> [backend : Backend, budget : Nat] \cup {None}]
  /\ late \subseteq Run
  /\ result \in [Run -> {None} \cup HandedOver]
  /\ setting \in Backend
  /\ reviews \in [Run -> Seq([step : AgentName, failure_type : {"TIMEOUT", "ERROR"}])]
  /\ audit \subseteq Run
  /\ switches \in 0..MaxSwitches /\ faults \in 0..MaxFaults

\* What the state managers and the checkpoint store hold.
TrailTypes ==
  /\ unsaved \in [Run -> {None} \cup
        [index : 1..MaxIndex, name : AgentName \cup {"BRANCH"}, status : Status]]
  /\ counts \in [Manager -> [Session -> 0..MaxIndex]]
  /\ stored \in [Session -> [1..MaxIndex -> {None} \cup CheckpointRecord]]

TypeOK == RunTypes /\ TrailTypes

\* The indexes of a run's checkpoints.
Filed(r) ==
  {i \in 1..MaxIndex : stored[SessionOf[r]][i] # None /\ stored[SessionOf[r]][i].run = r}

\* The checkpoints a run should have left by now: one for each outcome of its agents,
\* the branch after the assessment it reads, the failure last.
Due(r) ==
  LET entry(name, status) == [run |-> r, name |-> name, status |-> status]
      outcomes == [i \in DOMAIN outputs[r] |-> entry(outputs[r][i].agent, "STEP_COMPLETE")]
      branch   == IF \E i \in 1..(at[r] - 1) : Steps(r)[i].kind = "branch"
                  THEN <<entry("BRANCH", "BRANCH_COMPLETE")>> ELSE <<>>
      failure  == [i \in DOMAIN reviews[r] |-> entry(reviews[r][i].step, "HUMAN_REVIEW")]
  IN  IF outcomes = <<>> THEN failure
      ELSE <<Head(outcomes)>> \o branch \o Tail(outcomes) \o failure

Severe(r) == outputs[r] # <<>> /\ outputs[r][1].risk_level \in {"HIGH", "CRITICAL"}

\* A run that hands over has left the trail of all it did, and of nothing else, in
\* order, under keys that no other run of the session took: its agents, each with
\* its outcome, and the branch after the assessment it reads (README.md:279).  An
\* intervention was asked for after a severe assessment only (pipeline_registry.py:57).
TrailIsComplete ==
  \A r \in Run : pc[r] = "done" =>
    /\ \E place \in [DOMAIN Due(r) -> 1..MaxIndex] :
         /\ \A j, k \in DOMAIN Due(r) : j < k => place[j] < place[k]
         /\ Filed(r) = {place[k] : k \in DOMAIN Due(r)}
         /\ \A k \in DOMAIN Due(r) : stored[SessionOf[r]][place[k]] = Due(r)[k]
    /\ \A i \in Filed(r) : stored[SessionOf[r]][i].name = "InterventionAgent" => Severe(r)

\* A run is put before a human once at most, and then it is handed back as such:
\* no failure is lost, none is reported twice.
EscalatedOnce ==
  \A r \in Run :
    /\ Len(reviews[r]) <= 1
    /\ pc[r] = "done" => (result[r].status = "HUMAN_REVIEW" <=> reviews[r] # <<>>)

\* README.md:353: a primary that exceeds its budget is replaced by the mock.  The
\* limit of a step leaves room for that whatever the agent and however the backend
\* is switched: a slow model alone never ends a run in human review, the event loop
\* must have been held up beyond both limits as well.
SlowModelsFallBack ==
  \A r \in Run : \A i \in DOMAIN reviews[r] :
    reviews[r][i].failure_type = "TIMEOUT" => r \in late

\* Every orchestration that has begun ends, also when no model ever answers.
OrchestrationsEnd == \A r \in Run : pc[r] = "stepping" ~> pc[r] \in {"done", "raised"}

\* Layer 3 implements what it promises the layers after it.
HandoverOutcome ==
  [r \in Run |-> CASE pc[r] = "raised"                                        -> "raised"
                   [] pc[r] = "done" /\ result[r].status = "HUMAN_REVIEW"      -> "review"
                   [] pc[r] = "done" /\ result[r].status = "PENDING_GUARDRAILS" -> "proposed"
                   [] OTHER                                                   -> "open"]

Handover == INSTANCE AgentHandover WITH
  Empty     <- <<>>,
  outcome   <- HandoverOutcome,
  handed    <- [r \in Run |-> IF result[r] = None THEN <<>> ELSE result[r].actions],
  evidenced <- audit,
  escalated <- {r \in Run : reviews[r] # <<>>}

\* Proposals go with evidence, a human review with none and with no proposal.
ImplementsHandover == Handover!Spec

=============================================================================
