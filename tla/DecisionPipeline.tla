--------------------------- MODULE DecisionPipeline ---------------------------
(***************************************************************************)
(* BlueprintRunner (platform/layer6_sdk/blueprint_runner.py): concurrent   *)
(* pipeline runs taking a decision through the six layers, with the state  *)
(* they share - the context store, the approval queue, the audit log, the  *)
(* run status and the event log - and the faults the code handles.         *)
(*                                                                         *)
(* A step of a run is the code between two awaits that can suspend; the    *)
(* event loop interleaves the steps of different runs.                     *)
(***************************************************************************)
EXTENDS GuardrailRules, FiniteSets

CONSTANTS
  Run,            \* invocations of BlueprintRunner.run
  ApiRun,         \* those started by POST /pipeline/run; the rest call run() directly
  SessionOf,      \* SessionOf[r]: the session_id of run r
  TraceOf,        \* TraceOf[r]: its trace_id
  CustomerOf,     \* CustomerOf[r]: its customer_id
  Action,         \* actions agents may propose
  Proposals,      \* sequences of actions Layer 3 may hand over
  Confidence,     \* agent confidences, in thousandths
  Wording,        \* customer messages
  VariantWording, \* VariantWording[type]: messages of the experiment on an action
                  \* type; empty when there is none
  Durable,        \* TRUE: Valkey and PostgreSQL adapters; FALSE: in-memory ones
  MaxFaults       \* bound on injected faults

Session == {SessionOf[r] : r \in Run}

\* Layers 1 and 2 derive their trace id from the session ("trace_{session_id}"),
\* which is also the default of run(): a session and its derived trace share a name.
Trace == Session \cup {TraceOf[r] : r \in Run}

ASSUME PipelineAssumption ==
  /\ ApiRun \subseteq Run
  /\ Proposals \subseteq Seq(Action)
  /\ VariantWording \in [{a.action_type : a \in Action} -> SUBSET Wording]
  /\ Durable \in BOOLEAN
  /\ MaxFaults \in Nat
  /\ None # "completed"

\* The fields of a ProposedAction that the rules and Layer 5 read.
ASSUME ActionAssumption ==
  \A a \in Action :
    DOMAIN a = {"action_type", "requires_approval", "customer_message", "metadata"}

Profile == [assembled_by : Run, partial_context : BOOLEAN]

VARIABLES
  pc,         \* pc[r]: the step run r takes next
  context,    \* context[s]: the profile stored under session s, or None
  seen,       \* seen[r]: the profile the agents of r worked on
  reviewed,   \* reviewed[r]: the profile Layer 4 judges r against
  proposed,   \* proposed[r]: OrchestratorOutput.proposed_actions
  certainty,  \* certainty[r]: the agent confidence Layer 4 reads from the output
  cursor,     \* cursor[r]: index of the action Layer 4 judges next
  approved, flagged, blocked,   \* the three lists of GuardrailsResult
  chosen,     \* chosen[r]: approved actions after variant selection
  delivered,  \* delivered[r]: what the channel adapter sent, in order
  queue,      \* approval queue: entries [run, action]
  audit,      \* audit log: records [event, trace, run]
  status_by_trace, \* status_by_trace[t]: the status reported for trace t
  events,     \* retained events of each trace
  faults      \* faults injected so far

judged == <<cursor, approved, flagged, blocked>>
shared == <<context, queue, audit, status_by_trace, events>>
vars == <<pc, seen, reviewed, proposed, certainty, judged, chosen, delivered,
          shared, faults>>

Init ==
  /\ pc         = [r \in Run |-> "idle"]
  /\ context    = [s \in Session |-> None]
  /\ seen       = [r \in Run |-> None]
  /\ reviewed   = [r \in Run |-> None]
  /\ proposed   = [r \in Run |-> <<>>]
  /\ certainty = [r \in Run |-> 0]
  /\ cursor     = [r \in Run |-> 1]
  /\ approved   = [r \in Run |-> <<>>]
  /\ flagged    = [r \in Run |-> <<>>]
  /\ blocked    = [r \in Run |-> <<>>]
  /\ chosen     = [r \in Run |-> <<>>]
  /\ delivered  = [r \in Run |-> <<>>]
  /\ queue      = <<>>
  /\ audit      = {}
  /\ status_by_trace = [t \in Trace |-> None]
  /\ events     = [t \in Trace |-> <<>>]
  /\ faults     = 0

-----------------------------------------------------------------------------
(* Steps every layer is made of.                                           *)

Event(type, layer) == [type |-> type, layer |-> layer]

Publish(r, new) == events' = [events EXCEPT ![TraceOf[r]] = @ \o new]

Report(r, new) == status_by_trace' = [status_by_trace EXCEPT ![TraceOf[r]] = new]

Goto(r, step) == pc' = [pc EXCEPT ![r] = step]

\* Something outside the modelled state fails (a source, a model, a database,
\* a channel), at most MaxFaults times.
Fault == faults < MaxFaults /\ faults' = faults + 1

AbortUnreported(r, layer) ==   \* faulty variant: the status is left as it was
  /\ Goto(r, "failed")
  /\ Publish(r, <<Event("layer_error", layer)>>)
  /\ UNCHANGED status_by_trace

\* The operation of a layer raises: layer_error, the exception leaves run(),
\* and only the API's background task turns it into a "failed" status.
Abort(r, layer) ==
  /\ Goto(r, "failed")
  /\ Publish(r, <<Event("layer_error", layer)>>)
  /\ IF r \in ApiRun THEN Report(r, "failed") ELSE UNCHANGED status_by_trace

AdvanceUnannounced(r, layer, next) ==   \* faulty variant: no layer_completed
  /\ Goto(r, next)
  /\ Publish(r, <<Event("layer_started", next)>>)
  /\ UNCHANGED status_by_trace

\* A layer returns and the next one begins.
Advance(r, layer, next) ==
  /\ Goto(r, next)
  /\ Publish(r, <<Event("layer_completed", layer), Event("layer_started", next)>>)
  /\ UNCHANGED status_by_trace

RecordForCustomer(r, event, trace) ==   \* faulty variant: filed under the customer
  [event |-> event, trace |-> CustomerOf[r], run |-> r]

Record(r, event, trace) == [event |-> event, trace |-> trace, run |-> r]

StoredUnawaited(r, event, trace, layer, next) ==   \* faulty variant: write not awaited
  /\ Advance(r, layer, next)
  /\ UNCHANGED <<audit, faults>>

\* A layer closes with its audit write...
Stored(r, event, trace, layer, next) ==
  /\ audit' = audit \cup {Record(r, event, trace)}
  /\ Advance(r, layer, next)
  /\ UNCHANGED faults

\* ... which PostgreSQL may refuse.
Refused(r, layer) ==
  /\ Durable
  /\ Fault
  /\ Abort(r, layer)
  /\ UNCHANGED audit

Audited(r, event, trace, layer, next) ==
  Stored(r, event, trace, layer, next) \/ Refused(r, layer)

-----------------------------------------------------------------------------
(* Starting a run.                                                         *)

\* POST /pipeline/run answers before the background task runs.
Submit(r) ==
  /\ r \in ApiRun
  /\ pc[r] = "idle"
  /\ Goto(r, "submitted")
  /\ Report(r, "started")
  /\ UNCHANGED <<context, seen, reviewed, proposed, certainty, judged, chosen,
                 delivered, queue, audit, events, faults>>

Begin(r) ==
  /\ pc[r] = IF r \in ApiRun THEN "submitted" ELSE "idle"
  /\ Goto(r, "L1")
  /\ Report(r, "running")
  /\ Publish(r, <<Event("layer_started", "L1")>>)
  /\ UNCHANGED <<context, seen, reviewed, proposed, certainty, judged, chosen,
                 delivered, queue, audit, faults>>

-----------------------------------------------------------------------------
(* Layers 1 to 3.                                                          *)

\* PostgreSQL drops a record whose audit_id exists.  The id of a context
\* assembly has a resolution of one second per customer.
ContextAuditDropped(r) ==
  /\ Durable
  /\ \E a \in audit : a.event = "CONTEXT_ASSEMBLY" /\ CustomerOf[a.run] = CustomerOf[r]
  /\ Advance(r, "L1", "L2")
  /\ UNCHANGED <<audit, faults>>

StoreForCustomer(r, profile) ==   \* faulty variant: keyed by the customer
  context' = [s \in Session |->
                IF \E q \in Run : SessionOf[q] = s /\ CustomerOf[q] = CustomerOf[r]
                THEN profile ELSE context[s]]

Store(r, profile) == context' = [context EXCEPT ![SessionOf[r]] = profile]

\* ContextAssemblyService.assemble: failing sources degrade the profile, other
\* exceptions (an unknown customer) end the run; Valkey's NX refuses to
\* overwrite a session's profile, the in-memory store overwrites it.
AssembleContext(r) ==
  LET s == SessionOf[r] IN
  /\ pc[r] = "L1"
  /\ \/ /\ Durable => context[s] = None
        /\ \E partial \in BOOLEAN :
             Store(r, [assembled_by |-> r, partial_context |-> partial])
        /\ Audited(r, "CONTEXT_ASSEMBLY", s, "L1", "L2") \/ ContextAuditDropped(r)
     \/ /\ Durable /\ context[s] # None
        /\ Abort(r, "L1")
        /\ UNCHANGED <<context, audit, faults>>
     \/ /\ Fault
        /\ Abort(r, "L1")
        /\ UNCHANGED <<context, audit>>
  /\ UNCHANGED <<seen, reviewed, proposed, certainty, judged, chosen, delivered, queue>>

\* The profile's time to live ends (Valkey EX).
ExpireContext(s) ==
  /\ Durable
  /\ context[s] # None
  /\ context' = [context EXCEPT ![s] = None]
  /\ UNCHANGED <<pc, seen, reviewed, proposed, certainty, judged, chosen, delivered,
                 queue, audit, status_by_trace, events, faults>>

\* A layer that finds no profile raises SessionExpiredError.
SessionExpired(r, layer) ==
  /\ context[SessionOf[r]] = None
  /\ Abort(r, layer)
  /\ UNCHANGED <<audit, faults>>

\* VectorSearchService.retrieve.
RetrievePolicy(r) ==
  /\ pc[r] = "L2"
  /\ \/ SessionExpired(r, "L2")
     \/ /\ context[SessionOf[r]] # None
        /\ Audited(r, "VECTOR_RETRIEVAL", SessionOf[r], "L2", "L3")
  /\ UNCHANGED <<context, seen, reviewed, proposed, certainty, judged, chosen,
                 delivered, queue>>

\* Valkey refuses a checkpoint under the key of another run of the session, whose
\* checkpoints outlive the profile (state_manager.py:38).
CheckpointTaken(r) ==
  Durable /\ \E q \in Run \ {r} : SessionOf[q] = SessionOf[r] /\ seen[q] # None

\* Orchestrator.run_pipeline: the agents work on one profile.  A failing agent
\* step routes to human review, which hands over the proposals of the earlier
\* steps - none, in the three static pipelines - and writes no audit record.
\* An exception no handler names (a scenario without a pipeline, a checkpoint or
\* the audit record refused) ends the run.
Orchestrate(r) ==
  LET profile == context[SessionOf[r]] IN
  /\ pc[r] = "L3"
  /\ \/ /\ SessionExpired(r, "L3")
        /\ UNCHANGED <<seen, proposed, certainty>>
     \/ /\ profile # None
        /\ seen' = [seen EXCEPT ![r] = profile]
        /\ \/ /\ \E actions \in Proposals : proposed' = [proposed EXCEPT ![r] = actions]
              /\ \E c \in Confidence : certainty' = [certainty EXCEPT ![r] = c]
              /\ Stored(r, "ORCHESTRATION_COMPLETE", TraceOf[r], "L3", "L4")
           \/ /\ Fault
              /\ Advance(r, "L3", "L4") \/ Abort(r, "L3")
              /\ UNCHANGED <<proposed, certainty, audit>>
           \/ /\ CheckpointTaken(r)
              /\ Abort(r, "L3")
              /\ UNCHANGED <<proposed, certainty, audit, faults>>
  /\ UNCHANGED <<context, reviewed, judged, chosen, delivered, queue>>

-----------------------------------------------------------------------------
(* Layer 4.                                                                *)

\* GuardrailsService.evaluate, up to its loop: the profile is read again.
LoadReview(r) ==
  LET profile == context[SessionOf[r]] IN
  /\ pc[r] = "L4"
  /\ \/ /\ SessionExpired(r, "L4")
        /\ UNCHANGED reviewed
     \/ /\ profile # None
        /\ reviewed' = [reviewed EXCEPT ![r] = profile]
        /\ Goto(r, "judging")
        /\ UNCHANGED <<audit, status_by_trace, events, faults>>
     \/ /\ Fault                                   \* the rules cannot be loaded
        /\ Abort(r, "L4")
        /\ UNCHANGED <<reviewed, audit>>
  /\ UNCHANGED <<context, seen, proposed, certainty, judged, chosen, delivered, queue>>

Entries(list) == {list[i] : i \in DOMAIN list}

\* What Layer 4 can meet here, by the outcome GuardrailRules gives it.
Case == Action \X Profile \X (Confidence \cup {0})
Approvable == {x \in Case : Verdict(x[1], x[2], x[3]) = "APPROVED"}
Blockable == {x \in Case : Verdict(x[1], x[2], x[3]) = "BLOCKED"}

VerdictOf(r, action) ==
  LET x == <<action, reviewed[r], certainty[r]>>
  IN  CASE x \in Approvable -> "APPROVED"
        [] x \in Blockable  -> "BLOCKED"
        [] OTHER            -> "FLAGGED"

Judging(r) == pc[r] = "judging" /\ cursor[r] <= Len(proposed[r])

\* One iteration of the loop over the proposed actions.
JudgeAction(r) ==
  LET action == proposed[r][cursor[r]]
      verdict == VerdictOf(r, action)
  IN
  /\ Judging(r)
  /\ cursor' = [cursor EXCEPT ![r] = @ + 1]
  /\ \/ /\ verdict = "BLOCKED"
        /\ blocked' = [blocked EXCEPT ![r] = Append(@, action)]
        /\ UNCHANGED <<approved, flagged>>
     \/ /\ verdict = "APPROVED"
        /\ approved' = [approved EXCEPT ![r] = Append(@, action)]
        /\ UNCHANGED <<flagged, blocked>>
  /\ UNCHANGED <<pc, seen, reviewed, proposed, certainty, chosen, delivered, shared,
                 faults>>

EnqueueOnce(r, action) ==   \* faulty variant: one approval per run
  queue' = IF \E i \in DOMAIN queue : queue[i].run = r
           THEN queue ELSE Append(queue, [run |-> r, action |-> action])

Enqueue(r, action) == queue' = Append(queue, [run |-> r, action |-> action])

\* A flagged action is queued for a reviewer inside the loop; if the queue
\* store refuses it, the entry stays in memory and the exception ends the run.
FlagAction(r) ==
  LET action == proposed[r][cursor[r]] IN
  /\ Judging(r)
  /\ VerdictOf(r, action) = "FLAGGED"
  /\ cursor' = [cursor EXCEPT ![r] = @ + 1]
  /\ flagged' = [flagged EXCEPT ![r] = Append(@, action)]
  /\ Enqueue(r, action)
  /\ \/ UNCHANGED <<pc, status_by_trace, events, faults>>
     \/ /\ Durable
        /\ Fault
        /\ Abort(r, "L4")
  /\ UNCHANGED <<context, seen, reviewed, proposed, certainty, approved, blocked,
                 chosen, delivered, audit>>

AllJudgedAtApproval(r) ==   \* faulty variant: the loop stops at an approval
  cursor[r] > Len(proposed[r]) \/ approved[r] # <<>>

AllJudged(r) == cursor[r] > Len(proposed[r])

FinishReview(r) ==
  /\ pc[r] = "judging"
  /\ AllJudged(r)
  /\ Audited(r, "GUARDRAILS_EVALUATION", TraceOf[r], "L4", "L5")
  /\ UNCHANGED <<context, seen, reviewed, proposed, certainty, judged, chosen,
                 delivered, queue>>

-----------------------------------------------------------------------------
(* Layers 5 and 6.                                                         *)

VariantsRetyped(action) ==   \* faulty variant: the experiment's channel wins
  LET texts == VariantWording[action.action_type]
  IN  IF texts = {} THEN {[action EXCEPT !.action_type = "SEND_SMS"]}
      ELSE {[action EXCEPT !.customer_message = w] : w \in texts}

\* The actions _select_variants can return for one approved action: the text
\* of some variant, or the action itself when no experiment matches.
Variants(action) ==
  LET texts == VariantWording[action.action_type]
  IN  IF texts = {} THEN {action}
      ELSE {[action EXCEPT !.customer_message = w] : w \in texts}

SelectVariants(r) ==
  /\ pc[r] = "L5"
  /\ \/ /\ \E choice \in [DOMAIN approved[r] -> UNION {Variants(a) : a \in Entries(approved[r])}] :
             /\ \A i \in DOMAIN choice : choice[i] \in Variants(approved[r][i])
             /\ chosen' = [chosen EXCEPT ![r] = choice]
        /\ Stored(r, "AB_ASSIGNMENT", TraceOf[r], "L5", "L6")
     \/ /\ Refused(r, "L5")
        /\ UNCHANGED chosen
  /\ UNCHANGED <<context, seen, reviewed, proposed, certainty, judged, delivered, queue>>

ActionToSendRaw(r) == proposed[r][1]   \* faulty variant: not the approved list

ActionToSend(r) == chosen[r][1]

\* _execute_actions: the first action goes to the channel adapter.
SendAction(r) ==
  /\ pc[r] = "L6"
  /\ chosen[r] # <<>>
  /\ \/ /\ delivered' = [delivered EXCEPT ![r] = Append(@, ActionToSend(r))]
        /\ Goto(r, "sent")
        /\ UNCHANGED <<status_by_trace, events, faults>>
     \/ /\ Fault
        /\ Abort(r, "L6")
        /\ UNCHANGED delivered
  /\ UNCHANGED <<context, seen, reviewed, proposed, certainty, judged, chosen, queue, audit>>

\* The execution record is written after the send (or for NO_ACTION); run()
\* then publishes the end of the run and reports it completed.
RecordExecution(r) ==
  /\ \/ pc[r] = "sent"
     \/ pc[r] = "L6" /\ chosen[r] = <<>>
  /\ \/ /\ audit' = audit \cup {Record(r, "ACTION_EXECUTED", TraceOf[r])}
        /\ Goto(r, "done")
        /\ Publish(r, <<Event("layer_completed", "L6"), Event("pipeline_done", "L6")>>)
        /\ Report(r, "completed")
        /\ UNCHANGED faults
     \/ /\ Durable
        /\ Fault
        /\ Abort(r, "L6")
        /\ UNCHANGED audit
  /\ UNCHANGED <<context, seen, reviewed, proposed, certainty, judged, chosen,
                 delivered, queue>>

-----------------------------------------------------------------------------
Step(r) ==
  \/ Begin(r) \/ AssembleContext(r) \/ RetrievePolicy(r) \/ Orchestrate(r)
  \/ LoadReview(r) \/ JudgeAction(r) \/ FlagAction(r) \/ FinishReview(r)
  \/ SelectVariants(r) \/ SendAction(r) \/ RecordExecution(r)

Next ==
  \/ \E r \in Run : Submit(r) \/ Step(r)
  \/ \E s \in Session : ExpireContext(s)

Spec == Init /\ [][Next]_vars

\* The event loop schedules every task that can run; submitting is up to clients
\* and expiry to the clock.
Fairness ==
  /\ \A r \in ApiRun : WF_vars(Begin(r))
  /\ \A r \in Run :
       /\ WF_vars(AssembleContext(r) \/ RetrievePolicy(r) \/ Orchestrate(r))
       /\ WF_vars(LoadReview(r) \/ JudgeAction(r) \/ FlagAction(r) \/ FinishReview(r))
       /\ WF_vars(SelectVariants(r) \/ SendAction(r) \/ RecordExecution(r))

FairSpec == Spec /\ Fairness

-----------------------------------------------------------------------------
(* Properties.                                                             *)

Layers == <<"L1", "L2", "L3", "L4", "L5", "L6">>

Finished == {"done", "failed"}

Steps ==
  {"idle", "submitted", "L1", "L2", "L3", "L4", "judging", "L5", "L6", "sent"} \cup Finished

Statuses == {None, "started", "running", "completed", "failed"}

AuditEvents ==
  {"CONTEXT_ASSEMBLY", "VECTOR_RETRIEVAL", "ORCHESTRATION_COMPLETE",
   "GUARDRAILS_EVALUATION", "AB_ASSIGNMENT", "ACTION_EXECUTED"}

Reworded(action, wording) == [action EXCEPT !.customer_message = wording]

\* An action as it may be sent: in the agent's wording or in another one.
SendableAs(action) == {action} \cup {Reworded(action, w) : w \in Wording}
Sendable == UNION {SendableAs(a) : a \in Action}

\* Types, with the range of the loop cursor.
TypeOK ==
  /\ pc \in [Run -> Steps]
  /\ context \in [Session -> Profile \cup {None}]
  /\ seen \in [Run -> Profile \cup {None}]
  /\ reviewed \in [Run -> Profile \cup {None}]
  /\ proposed \in [Run -> Seq(Action)]
  /\ certainty \in [Run -> Confidence \cup {0}]
  /\ cursor \in [Run -> Nat]
  /\ \A r \in Run : cursor[r] \in 1..(Len(proposed[r]) + 1)
  /\ approved \in [Run -> Seq(Action)]
  /\ flagged \in [Run -> Seq(Action)]
  /\ blocked \in [Run -> Seq(Action)]
  /\ chosen \in [Run -> Seq(Sendable)]
  /\ delivered \in [Run -> Seq(Sendable)]
  /\ queue \in Seq([run : Run, action : Action])
  /\ audit \subseteq [event : AuditEvents, trace : Trace, run : Run]
  /\ status_by_trace \in [Trace -> Statuses]
  /\ faults \in 0..MaxFaults

\* What reaches a customer is the first action that Layer 4 approved, against
\* the profile it reviewed, in the wording of a variant at most: no agent
\* output, flagged or blocked action is ever delivered (service.py:98, runner 442).
OnlyApprovedDelivered ==
  \A r \in Run : \A i \in DOMAIN delivered[r] :
    /\ approved[r] # <<>>
    /\ delivered[r][i] \in SendableAs(approved[r][1])
    /\ VerdictOf(r, approved[r][1]) = "APPROVED"

\* No account is changed on incomplete information: an account action that is
\* delivered was proposed by agents that saw every source.  It needs the agents
\* and Layer 4 to have read the same profile.
NoAccountActionOnPartialContext ==
  \A r \in Run : \A i \in DOMAIN delivered[r] :
    delivered[r][i].action_type \in AccountActions => ~seen[r].partial_context

\* The texts of the experiments, as seed_experiments has them, carry no
\* prohibited phrase; nothing checks the text of an experiment.
VariantsAreClean ==
  \A type \in DOMAIN VariantWording : \A text \in VariantWording[type] :
    text \cap ProhibitedPhrases = {}

\* Delivered texts carry no prohibited phrase, although Layer 5 replaces the
\* text that R-001 checked.
DeliveredWordingClean ==
  \A r \in Run : \A i \in DOMAIN delivered[r] :
    delivered[r][i].customer_message \cap ProhibitedPhrases = {}

Unreviewed == {"idle", "submitted", "L1", "L2", "L3", "L4"}
Executed == {"sent"} \cup Finished

\* How the state of a run fits the step it has reached: nothing is approved
\* before the review, what is approved has that verdict, what Layer 6 receives
\* are variants of what is approved, nothing is delivered before Layer 6 sends,
\* and what is delivered is one variant of the first approved action.
RunStage(r) ==
  /\ pc[r] \in Unreviewed => cursor[r] = 1 /\ approved[r] = <<>>
  /\ \A i \in DOMAIN approved[r] : VerdictOf(r, approved[r][i]) = "APPROVED"
  /\ pc[r] = "L6" =>
       /\ DOMAIN chosen[r] = DOMAIN approved[r]
       /\ \A i \in DOMAIN approved[r] : chosen[r][i] \in Variants(approved[r][i])
  /\ pc[r] \notin Executed => delivered[r] = <<>>
  /\ delivered[r] # <<>> =>
       /\ Len(delivered[r]) = 1
       /\ approved[r] # <<>>
       /\ delivered[r][1] \in Variants(approved[r][1])

\* The stages of all runs fit: with TypeOK, the inductive invariant behind
\* OnlyApprovedDelivered.
StageConsistency == \A r \in Run : RunStage(r)

RecordedEvents(r) == {a.event : a \in {b \in audit : b.run = r}}

\* Nothing is delivered before the evidence for it is stored: retrieval,
\* orchestration, guardrails and assignment of this run, and a context assembly
\* of this customer.
EvidenceBeforeDelivery ==
  \A r \in Run : delivered[r] # <<>> =>
    /\ {"VECTOR_RETRIEVAL", "ORCHESTRATION_COMPLETE", "GUARDRAILS_EVALUATION",
        "AB_ASSIGNMENT"} \subseteq RecordedEvents(r)
    /\ \E a \in audit : a.event = "CONTEXT_ASSEMBLY" /\ CustomerOf[a.run] = CustomerOf[r]

QueuedFor(r) == {i \in DOMAIN queue : queue[i].run = r}

\* Every flagged action of a run waits in the approval queue exactly once, even
\* when the run failed later.
FlaggedAreQueuedOnce ==
  \A r \in Run :
    /\ Cardinality(QueuedFor(r)) = Len(flagged[r])
    /\ \A i \in QueuedFor(r) : queue[i].action \in Entries(flagged[r])

\* The profile Layer 4 judges against is the one the agents reasoned on.
SameSnapshot ==
  \A r \in Run : seen[r] # None /\ reviewed[r] # None => reviewed[r] = seen[r]

\* The events of a run that nothing interrupts.
FullLog ==
  [i \in 1..13 |->
     CASE i = 13     -> Event("pipeline_done", "L6")
       [] i % 2 = 0  -> Event("layer_completed", Layers[i \div 2])
       [] OTHER      -> Event("layer_started", Layers[(i + 1) \div 2])]

\* The event log of a run is a prefix of the full log, or such a prefix ending
\* in a started layer and then that layer's layer_error; pipeline_done and the
\* status "completed" appear together.  (Traces that one run owns.)
LogMatchesStatus ==
  \A r \in Run :
    (\A q \in Run \ {r} : TraceOf[q] # TraceOf[r]) =>
      LET log == events[TraceOf[r]]
          n   == Len(log)
          ok  == \/ n <= 13 /\ log = SubSeq(FullLog, 1, n)
                 \/ /\ n \in {2 * k : k \in 1..6}
                    /\ log = Append(SubSeq(FullLog, 1, n - 1),
                                    Event("layer_error", Layers[n \div 2]))
      IN  /\ ok
          /\ status_by_trace[TraceOf[r]] = "completed" <=> log = FullLog
          /\ pc[r] = "failed" <=> n > 0 /\ log[n].type = "layer_error"

\* Every run that was submitted or begun ends, completed or failed, whatever
\* faults happen, and a run of the API is reported as such.
RunsEnd ==
  \A r \in Run :
    pc[r] # "idle" ~>
      /\ pc[r] \in Finished
      /\ r \in ApiRun => status_by_trace[TraceOf[r]] \in {"completed", "failed"}

\* Refinement: the pipeline implements the gate between proposing and acting.
Permitted ==
  [c \in Profile \X (Confidence \cup {0}) |->
     {a \in Action : <<a, c[1], c[2]>> \in Approvable}]

StageOf(step) ==
  CASE step \in {"idle", "submitted", "L1", "L2", "L3"} -> "open"
    [] step \in {"L4", "judging"}                       -> "proposed"
    [] step \in {"L5", "L6"}                            -> "cleared"
    [] step = "sent"                                    -> "contacted"
    [] OTHER                                            -> "closed"

GateStage == [r \in Run |-> StageOf(pc[r])]

GateProposals == [r \in Run |-> Entries(proposed[r])]

\* A clearance takes effect when Layer 4's evidence is stored.
Evaluated(r) == "GUARDRAILS_EVALUATION" \in RecordedEvents(r)

GateCleared == [r \in Run |-> IF Evaluated(r) THEN Entries(approved[r]) ELSE {}]

Gate == INSTANCE DecisionGate WITH
  Context   <- DOMAIN Permitted,
  stage     <- GateStage,
  proposals <- GateProposals,
  cleared   <- GateCleared,
  contacts  <- delivered

\* Agents propose, Layer 4 clears under one context, and at most one cleared
\* action, possibly reworded, reaches the customer.
ImplementsGate == Gate!Spec

=============================================================================
