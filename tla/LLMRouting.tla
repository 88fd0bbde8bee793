------------------------------ MODULE LLMRouting ------------------------------
(***************************************************************************)
(* The static tables of Layer 3 and of the LLM inference service: the       *)
(* pipelines (layer3_orchestration/pipeline_registry.py), the task and the  *)
(* tools of each agent (agents/), who may use a tool (tool_registry.py) and *)
(* the latency budgets by task and backend (llm_inference/router.py).       *)
(* Times are milliseconds.                                                  *)
(***************************************************************************)
EXTENDS Integers, Sequences

CONSTANT None

Agent(name, timeout) == [kind |-> "agent", agent |-> name, timeout_ms |-> timeout]

Branch(condition, if_true) ==
  [kind |-> "branch", true_values |-> condition, if_true |-> if_true, if_false |-> None]

PIPELINES ==
  [payment_risk_intervention |->
     << Agent("RiskScoringAgent", 8000),
        Branch({"HIGH", "CRITICAL"}, "InterventionAgent"),
        Agent("InterventionAgent", 10000) >>,
   billing_dispute_resolution |->
     << Agent("DisputeTriageAgent", 8000), Agent("ResolutionAgent", 10000) >>,
   churn_prevention |->
     << Agent("ChurnSignalAgent", 8000), Agent("RetentionOfferAgent", 10000) >>]

\* The agents whose output schema is RiskAssessment; the others propose.
Assessors == {"RiskScoringAgent", "DisputeTriageAgent", "ChurnSignalAgent"}

RiskLevel == {"LOW", "MEDIUM", "HIGH", "CRITICAL"}

Task(agent) ==
  CASE agent = "RiskScoringAgent"                             -> "RISK_SCORING"
    [] agent = "InterventionAgent"                            -> "INTERVENTION_REASONING"
    [] agent \in {"DisputeTriageAgent", "ResolutionAgent"}    -> "DISPUTE_ANALYSIS"
    [] agent \in {"ChurnSignalAgent", "RetentionOfferAgent"}  -> "CHURN_ASSESSMENT"

\* The agents TOOLS authorizes for a tool.
AuthorizedAgents ==
  [read_customer_profile      |-> {"RiskScoringAgent", "InterventionAgent",
                                   "DisputeTriageAgent", "ResolutionAgent",
                                   "ChurnSignalAgent", "RetentionOfferAgent"},
   query_transaction_history  |-> {"RiskScoringAgent"},
   compute_risk_signals       |-> {"RiskScoringAgent"},
   query_intervention_history |-> {"InterventionAgent"},
   propose_intervention       |-> {"InterventionAgent"},
   query_dispute_history      |-> {"DisputeTriageAgent", "ResolutionAgent"},
   propose_resolution         |-> {"ResolutionAgent"},
   compute_churn_signals      |-> {"ChurnSignalAgent"},
   propose_retention_offer    |-> {"RetentionOfferAgent"}]

\* authorized_tools_for_agent.
AuthorizedTools(agent) ==
  {tool \in DOMAIN AuthorizedAgents : agent \in AuthorizedAgents[tool]}

RequiredTools(agent) ==
  {"read_customer_profile"} \cup
  CASE agent = "RiskScoringAgent"    -> {"query_transaction_history", "compute_risk_signals"}
    [] agent = "InterventionAgent"   -> {"query_intervention_history", "propose_intervention"}
    [] agent = "DisputeTriageAgent"  -> {"query_dispute_history"}
    [] agent = "ResolutionAgent"     -> {"query_dispute_history", "propose_resolution"}
    [] agent = "ChurnSignalAgent"    -> {"compute_churn_signals"}
    [] agent = "RetentionOfferAgent" -> {"propose_retention_offer"}

\* _authorize_required_tools lets the agent go on to its model call.
Equipped(agent) == RequiredTools(agent) \subseteq AuthorizedTools(agent)

Backend == {"mock", "ollama", "api"}

Budgets ==
  [RISK_SCORING           |-> [mock |->  800, ollama |-> 15000, api |-> 20000],
   INTERVENTION_REASONING |-> [mock |-> 1200, ollama |-> 20000, api |-> 25000],
   DISPUTE_ANALYSIS       |-> [mock |-> 2000, ollama |-> 25000, api |-> 30000],
   CHURN_ASSESSMENT       |-> [mock |-> 1000, ollama |-> 18000, api |-> 22000]]

\* route_for_task(...).latency_budget_ms under the configured backend.
LatencyBudget(agent, backend) == Budgets[Task(agent)][backend]

AgentTimeoutOfStep(step, backend) == step.timeout_ms   \* faulty variant: no room for the model

\* Orchestrator._agent_timeout_ms.
AgentTimeout(step, backend) ==
  LET roomy == LatencyBudget(step.agent, backend) + 5000
  IN  IF backend = "mock" \/ step.timeout_ms > roomy THEN step.timeout_ms ELSE roomy
=============================================================================
