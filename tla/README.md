# A TLA+ model of the agentic banking platform

TLA+ modules, TLC configurations and TLAPS proofs about the code in `platform/`,
`rules/` and the event hooks of `ui/src/`. The platform turns a customer signal into
an intervention: six layers assemble a profile, retrieve policy, let agents propose
actions, judge the proposals, pick a wording and execute at most one action. Agents
propose and a separate layer decides; this project is about whether that separation,
and the evidence for it, survive concurrency and failures.

## 1. Inventory

| Component | State it keeps | Operations | Interacts through |
|---|---|---|---|
| Blueprint runner, `layer6_sdk/blueprint_runner.py` | status by trace, retained runs, event bus, shared in-memory stores | `run`: the six layers in order; `_run_layer`; `_select_variants`; `_execute_actions` | calls every service, publishes events, writes `AB_ASSIGNMENT` and `ACTION_EXECUTED` |
| Pipeline API, `api/routers/pipeline.py` | - | `POST /pipeline/run` answers at once and runs in a background task; `GET .../status` | runner's status and event bus |
| Layer 1, `layer1_context/` | context store: a profile by session | `assemble`: concurrent fetches with timeouts, features, scores, memory; store; audit | context store, audit log |
| Layer 2, `layer2_vector/` | vector collections | `retrieve`: filter, dense and sparse search, rank fusion, audit | reads the profile, audit log |
| Layer 3, `layer3_orchestration/` | checkpoints, agent call log, human-review list | `run_pipeline`: agent steps, branches, retries, timeouts, degradation | reads the profile, LLM service, audit log |
| Layer 4, `layer4_guardrails/service.py`, `rule_engine.py`, `checks/` | the loaded rules, the snapshot of their files | `evaluate`: every proposed action through three categories; `get_rules`, `load_rules` | reads the profile again, approval queue, audit log |
| Approval queue, `layer4_guardrails/approval_queue.py` | a list in memory, an optional table | `enqueue`, `get_pending`, `record_decision` | Layer 4, reviewers' pages over HTTP |
| Layer 5 experiments, `layer5_ab/experiment_service.py` | variants with counts, status, winner | `select_variant`, `record_outcome` (on worker threads) | runner, outcome router |
| Layer 5 model registry and evaluation, `layer5_ab/model_registry.py`, `evaluation/` | versions and stages, runs | `register`, `promote`, gates | API |
| Outcome routing, `layer6_sdk/outcome_router.py` | - | `route`: experiment, memory, audit at once | experiment, memory, audit log |
| LLM inference, `llm_inference/`, `core/runtime_config.py` | backend settings, clients | routing, fallback, schema retries | agents |
| Event bus and SSE, `blueprint_runner.py:88-118`, `api/routers/sse.py` | retained events, queues of subscribers | `publish`, `stream` | browser |
| Browser store, `ui/src/hooks/` | layer states, event log, completion | listeners, `appendEventLog` | EventSource |
| Storage adapters, `adapters/` | Valkey (NX, expiry), PostgreSQL (`ON CONFLICT DO NOTHING`), Qdrant | get, set, write | all layers |

What is hard in it, and what makes it correct:

- **Runner and layers.** Runs interleave at every await over shared stores; any layer
  may raise; the profile of a session may expire or be replaced between two layers.
  Correct when only what Layer 4 approved is delivered, on the profile the agents saw,
  with the evidence stored before, and when every run ends and is reported.
- **Rules.** Order of categories, early returns, partial metadata, float thresholds.
  Correct when exactly the permitted actions are approved.
- **Approval queue.** A list replaced after an await while others append to it.
  Correct when nothing is dropped and a decided item stays decided.
- **Experiments.** Read-modify-write without a lock on worker threads. Correct when no
  count claims what did not happen, and winners have their sample.
- **Event stream.** Subscribers join in the middle of a run, connections drop, logs are
  replayed into a store that has part of them. Correct when a page ends up with the run.
- **Orchestrator and LLM inference.** Two nested limits on every model call, a fallback,
  a backend switched at run time, an event loop that other code may hold up, checkpoints that another run's may collide with.
  Correct when a run ends, leaves the trail of what it did, and hands over either
  proposals with evidence or a human review, never both.
- **Context assembly.** Concurrent fetches with limits of their own, optional stages that
  may fail, records written inside the `try` they report on, a write-once store whose reply
  may be lost. Correct when a profile owns up to every gap, its memories are on record, the
  log attests only what was published, and the assembly ends whatever its sources do.
- **Rule loading.** A snapshot of modification times taken before the files are read, on
  threads, while files, days and other calls go on. Correct when a call that nothing
  disturbed, given rules that nothing disturbed either, returns the active ones of the files there are.
- **Outcome routing.** Four concurrent destinations of which one may raise first. Correct
  when a confirmed report has reached all of them, a failure of one keeps no other from being
  served, and the log claims no memory that was not kept.
- **Model governance.** Promotions call by call in the process and in MLflow, with failures
  and restarts; evaluations, some of them reruns, of an artifact that trainings rewrite. Correct
  when there are never two champions, both sides agree on it, and the history shows first what
  holds of the artifact there is.

`PROJECT.json` lists every component with its status, the hazards by line, the runs,
the mutated definitions each property was seen to reject, and the source lines of each
definition.

## 2. Modules

| Module | Models | State and actions |
|---|---|---|
| `GuardrailRules` | The condition matcher, the YAML rules, the two responsible-AI checks and the classification of one action | operators only: `ConditionMatches`, `Evaluate` (one category), `EvaluateAction`, `Classify`, `Verdict` |
| `ActionReview` | One action through Layer 4 | every bounded input is an initial state; `Review` evaluates it |
| `DecisionPipeline` | The runner and its six layers | one action per piece of code between two awaits: `Submit`, `Begin`, `AssembleContext`, `RetrievePolicy`, `Orchestrate`, `LoadReview`, `JudgeAction`, `FlagAction`, `FinishReview`, `SelectVariants`, `SendAction`, `RecordExecution`, and `ExpireContext` for Valkey |
| `DecisionGate` | What the platform promises (abstract) | `Propose`, `Clear`, `Contact`, `Close` |
| `Orchestrator` | Layer 3 step by step, with its checkpoints and the routed LLM service | `Begin`, `TakeBranch`, `CallAgent` (up to the model call's await), `Answer`, `FallBack`, `TimeOut`, `AgentFails`, `AgentRaises`, `Save` (a checkpoint's write), `Conclude`, `HandBack`; around them `SwitchBackend` and `HoldLoop` |
| `LLMRouting` | The pipelines, tasks, latency budgets and step limits | operators only |
| `AgentHandover` | What Layer 3 promises the layers after it (abstract) | `Propose`, `Escalate`, `HandBack`, `Raise` |
| `EventStream` | Event bus, SSE endpoint, EventSource, page store | `Publish`, `Accept`, `Replay`, `CatchUp`, `Forward`, `Handle`, `Mount`, `Unmount`, `Drop` |
| `ApprovalQueue` | The queue, its store, reviewers, restarts | `Enqueue`, `Insert`, `Refresh`, `Decide`, `Update`, `Apply`, `FailUpdate`, `Restart`, `Tick` |
| `Experiment` | Outcome threads and variant selection, one access per step | `Report`, `ReadCounts`, `WriteCounts`, `Evaluate`, `Conclude`, `NameWinner`, `SelectWinner`, `SelectByStatus`, `SelectByCounts` |
| `ContextAssembly` | `ContextAssemblyService.assemble`, with the store and the audit log its calls share | `Begin`, `FetchAnswers`, `FetchTimesOut`, `FetchRaises`, `PullSignals`, `LoseSignals`, `NormalizeFails`, `Score`, `RetrieveMemory`, `NoteRetrieval`, `NoteLoss`, `StoreProfile`, `StoreRefuses`, `RecordAssembly`, `Expire` |
| `ContextSnapshot` | What Layer 1 promises the layers after it (abstract) | `Publish`, `Attest`, `Expire` |
| `RuleLoading` | `RuleLoader.get_rules` and `load_rules`, read by read | `Begin`, `List`, `Stat`, `Compare`, `Open`, `Scan`, `Read`, `Install`, `Replace`, `FinishLoad`; the world: `Edit`, `Deploy`, `Midnight` |
| `OutcomeRouting` | A report over the API or the client, its four destinations, the answer and a second report | `Submit`, `CountOutcome`, `Govern`, `WriteAudit`, `StoreMemory`, `NoteMemory`, `Confirm`, `Fail`, `LoseAnswer` |
| `ModelGovernance` | `ModelRegistry` with MLflow, trainings, `EvaluationPipeline` with its store | `CallRegister`, `CallPromote`, `Register`, `RegisterFails`, `Demote`, `Crown`, `Train`, `TrainEnds`, `Load`, `Judge`, `Save`, `Restart` |
| `DecisionPipelineProofs` | theorems about the rules and `ActionReview`, about the pipeline that applies them, and its refinement of `DecisionGate` | `ReviewInv`, `PipelineInv`, `RecordInv`, `SnapshotInv`, `LogInv`, `FlagInv`, `GateInv` |
| `ContextAssemblyProofs`, `OrchestratorProofs` | theorems about Layers 1 and 3, and the refinements of `ContextSnapshot` and `AgentHandover` | `AssemblyInv`; `OrchestratorInv`, `TrailInv`, `TrailsInv` |
| `GuardrailProofs` | theorems about `ApprovalQueue` and `RuleLoading` | `QueueInv`; `LoadInv` |
| `EventStreamProofs`, `ExperimentProofs`, `OutcomeRoutingProofs`, `ModelGovernanceProofs` | theorems about these components | `StreamInv`; `ExperimentInv`; `RoutingInv`; `RegistryInv`, `VerdictInv` |
| `MC...` | bounded constants for TLC | |

`DecisionPipeline` extends `GuardrailRules`: the verdict of its Layer 4 is the one the
rules give. It instantiates `DecisionGate` under a refinement mapping. Its `Orchestrate` is
the handover of Layer 3 in one step; `Orchestrator` shows in detail, by a refinement of
`AgentHandover`, that proposals come with a record, that a human review comes without
either, and that anything else raises. `EventStream`
takes the order of events from the runner (`Upcoming`), which `LogMatchesStatus` of
the pipeline checks. `ApprovalQueue` is in detail what the pipeline sees as one append,
`ContextAssembly` what it sees as `AssembleContext`, `RuleLoading` how the constant `Rules`
of `GuardrailRules` comes about, and `OutcomeRouting` who starts the threads of
`Experiment`, whose count it takes as one step.

Several modules keep variables the code does not have, marked `history`: they remember what
a property asks about (what a profile called degraded when it was published, whether
anything disturbed a call) and guard no action.

### How the pipeline corresponds to the code

`pc[r]` is the position in `BlueprintRunner.run`. A layer begins with `layer_started`
and ends with its audit write followed by `layer_completed`; `Advance`, `Stored`,
`Refused` and `Abort` are those common pieces, and `Audited` is "write or be refused".
`context`, `queue`, `audit`, `status_by_trace` and `events` are shared by all runs;
`seen` and `reviewed` are the profiles that Layers 3 and 4 read separately. A run
started through the API is `submitted` first, and only the API's background task turns
an exception into the status `failed`; a direct caller gets the exception instead.
`Durable` chooses between the in-memory stores (the runner's default, used by the API)
and Valkey with PostgreSQL: `NX`, expiry, refused writes, dropped duplicates.

Abstractions: a profile is who assembled it and whether it is partial; a message is
the set of prohibited phrases (and framing) in it; metadata is a partial function, so
an absent key is distinguishable from a false one; confidences are thousandths, with the
one threshold where binary floating point differs from decimal (0.80 + 0.05) modelled
as what it does. Retrieved policy texts, prompts, scores and tracing are left out. In
`ContextAssembly` a source's data is whether the parts of the profile made from it hold
customer data or the normaliser's defaults; a score is what defaults it was computed from.
In `ModelGovernance` a trained artifact is what a benchmark of it gives (AUC, precision,
recall, approvals by segment, in percent), and the gates are computed from that; the clock is a
counter that every reading advances. Training is a process of its own, so it may rewrite the file
between an evaluation's reading of it and its report; no other evaluation comes in between,
since there is no await there. In
`RuleLoading` a file is its modification time and whether its rule is in effect, later in
effect or no rule; the rules directory may go away between the test that it exists and the
listing of its files (`rule_engine.py:80-85`).

## 3. What the runs check

| Run | Instance | Shows |
|---|---|---|
| `action_review` | 7 action types, up to one metadata entry, messages with and without a phrase, 11 confidences | `ApprovedExactlyWhenPermitted` against a statement of the policies independent of the matcher; `ShortCircuitKeepsVerdict`; `DegradedNeverLoosens` |
| `pipeline` | 2 runs with sessions of their own, one from the API, in-memory stores, 5 proposals of up to 2 actions, 1 fault | `TypeOK`, `OnlyApprovedDelivered`, `NoAccountActionOnPartialContext`, `DeliveredWordingClean`, `SameSnapshot`, `StageConsistency`, and the refinement `ImplementsGate` |
| `pipeline_durable` | 2 runs of one session, Valkey and PostgreSQL, 1 fault, expiry at any time, fair | `EvidenceBeforeDelivery`, `FlaggedAreQueuedOnce`, `LogMatchesStatus`, and `RunsEnd`: every run ends and is reported |
| `event_stream` | 3 layers, 1 tab, 2 visits, 1 lost connection, fair | `ShownIsPrefix` (all of the run, once the page calls it complete), `NothingLost`, `ViewSettles` |
| `approval_queue` | 2 items, 2 reviewers, pages of 1, with and without a store, 1 store failure, 1 restart, 1 hour | `NothingDropped`, `ListFollowsStore`, `NeverPendingAgain`, `MostUrgentListed` |
| `experiment` | 3 outcomes on threads of their own, 1 customer, minimum of 4 samples, fair | `NeverOvercounts`, `SwitchNeedsSamples`, `ConclusionNamesWinner` |
| `orchestrator` | a payment risk and a billing dispute in one session, Valkey, 3 backends, 1 switch, 1 fault (a failing call, or an event loop held up), risk levels on both sides of the branch, fair | `TrailIsComplete` (and of the branch its risk level calls for), `EscalatedOnce`, `SlowModelsFallBack`, `OrchestrationsEnd`, and the refinement `ImplementsHandover` |
| `context_assembly` | one session assembled twice, by a service with both optional stages and by one without, 2 sources that answer with data, with gaps, not at all or raise, 1 failing call, expiry at any time, 2 seconds, fair | `ProfilesTellTheirGaps`, `MemoriesAreOnRecord`, `AssembliesEnd`, and the refinement `ImplementsSnapshot` |
| `outcome_routing` | an outcome of a seeded experiment, reported up to twice with a memory, one for an experiment that does not exist, without; 2 failing writes, fair | `RecordedEverywhere`, `MemoryRecordsAreTrue`, `OthersAreServed` |
| `model_governance` | 2 versions, 3 MLflow runs, calls to MLflow that fail anywhere, 1 restart, 2 trainings (one well, one unfair), 2 evaluations of one version under 2 trace ids or one, symmetry of evaluations and trace ids | `AtMostOneChampion`, `ChampionAgreed`, `LatestVerdictIsCurrent` |
| `rule_loading` | 2 files, 2 `get_rules` and a `load_rules`, 2 changes of files, directory or date | `RulesFollowFiles` |
| `every_outcome_counted` | as `experiment`, 2 threads at once | the divergence of section 6 that has a run |

Every property states in its comment what it says and which code it is about. Each module
with a specification of its own code has a `TypeOK` as documentation of its state; `pipeline`
checks its own. The others state nothing beyond types, were evaluated once on the instances
above and, for most of the modules, are proved (section 5); they are
not part of the runs. Neither are the inductive invariants of the proofs, each of which TLC
found to hold on these instances before it was proved.

**Why these bounds.** Two runs give every pairwise interleaving over the shared stores,
and the proofs cover any number. Proposals of two actions contain every ordered pair of
verdicts that matters (blocked or flagged before approved, two flagged); the runner
sends one action only. One fault reaches every error path of one run beside an
undisturbed one; a second fault would end the other run in the same way. Three layers
make a first, a middle and a last one, and two visits with one lost connection replay a
run into a store that holds part of it twice. Tabs share nothing but the run's log, so
one tab stands for any. Two items and two reviewers are what a decision that replaces
the list can lose an append or a decision to. Three outcomes let two overlap while a
third is between concluding and naming; the seed is one outcome below the minimum and
a few below and above significance, so that the leader changes within the bound. Two
orchestrations with state managers of their own are the least that take one index twice;
one switch is enough to fall between the two moments at which the backend is read (the client's
creation; an agent's call, which reads it for the limit and for the budget), and all pairs of
backends occur. The churn pipeline has the shape of
the dispute's and differs in its budgets only. In an assembly the sources do not depend on
each other: two of them make every pair of outcomes, and scores are computed
from both. The retry of a
session is what meets its first attempt's profile, its lost reply or its expiry; two seconds
let the two share the id of their record or not. Two failing writes reach both calls of a
memory, and a report and its repetition. Three MLflow runs are two versions and one
registered again; two evaluations and two trainings are what a verdict can be outdated or
replaced by. The evaluations are asked for alike and the trace ids are any, hence their symmetry.
Two `get_rules` and a `load_rules` are one slow call of each kind and one that comes after.

**Deadlock** is not checked: runs, views and outcomes end, and reviewers may be done.

## 4. Fairness

Weak fairness of the steps of a run that has begun: the event loop schedules every task
that can run, and every await of the code has an outcome (a result, an exception or a
timeout), each of which is a disjunct of the step. Submitting, expiry, opening a
view, losing a connection, deciding and restarting are not fair: nobody has to do them.
The background task of an API run is started by the framework after the answer, hence
fair. In the stream, the run goes on or fails, the server resumes its generators and the
browser handles what arrives. A worker thread that was started runs on. In the orchestrator a model need
not answer, nor need it fail in time: what is fair is that the first of the code's two limits to
get its turn ends the call - the budget, or, where that ends no earlier or the event loop was held
up beyond both, the limit of the step - and that a mock answers at once. The order in that last case
is that of `asyncio.timeout` in Python 3.12 and later, on which `wait_for` rests: timers that are due in one
turn of the loop cancel the task once each, and while a second cancellation is pending the inner
timeout passes `CancelledError` on, which the service's `except Exception` does not catch. From 3.12 on,
`wait_for` also runs the agent in the task it is called from, so nothing suspends between
`orchestrator.py:285` (the limit) and `llm_inference/service.py:52` (the route): they are one step. No strong
fairness is used. In an assembly the limits of the fetches and the code after them are
fair, the sources are not: none has to answer. A report that was submitted is routed on, also
when its reporter has given up. In both modules one weak fairness covers the steps of all
calls, and the properties say that again and again nothing is left under way. Nothing is
fair in model governance and rule loading: what they promise is safety.

## 5. What is proved

TLAPS checks the following for all values of the constants that satisfy the named
assumptions: any set of runs, sessions shared or not, any proposals and experiments, both
kinds of stores, any number of faults, restarts, calls and clients. Every invariant below is
proved the same way: it holds initially, every action keeps it (one lemma for each), and it
implies the property. Types are proved too (`TypeCorrect`, `ContextTypes`, `OrchestratorTypes`,
`StreamTypes`, `GovernanceTypes`, `CountsStayPossible`, `PagesHoldItems`, `LoaderHoldsRules`);
of `OutcomeRouting`'s all but the bound on `counted`, as part of `RoutingInv`. Every safety
invariant and action property of a passing run is the subject of a theorem, and so are the
three refinements.

**The rules** (`DecisionPipelineProofs`, first section), for every action, profile and
confidence, without any assumption on them:

- `ProhibitedLanguageIsBlocked`: an action whose message carries a prohibited phrase is
  BLOCKED. R-001 is the first rule and matches any type; the regulatory results end at its
  block, and the other categories are not evaluated.
- `AccountActionsNeedContext`: no account action is APPROVED on a profile that misses a
  source. Either the regulatory results end in a block, or AI-002 is among the results.

**The review of an action** (`DecisionPipelineProofs`, next section), for any actions, profiles and
confidences of the kinds `ReviewAssumption` names: flags are Boolean, a number of contacts is a
natural number, `None` is neither, and a message has no data beyond the phrases R-001 looks for.

- `ReviewsApproveThePermitted` (`ApprovedExactlyWhenPermitted`). `RulesMatch` takes the matcher
  away: each of the six rules matches exactly what its policy names, an absent key included.
  What a category returns of its rules (`RegulatoryChecks`, `BusinessChecks`) then gives the
  verdict in closed form (`VerdictIsOutcome`): a rule that blocks, or else one that flags or a lack of
  confidence or of sources, or else approval. The property is that form, compared with the policies.
- `ShortCircuitsAreHarmless` (`ShortCircuitKeepsVerdict`): the list that is classified begins with
  the block in both cases, however it goes on.
- `DegradedContextNeverLoosens` (`DegradedNeverLoosens`): the closed form on both profiles; the
  threshold only rises, and AI-002 only adds.

**The pipeline** (`DecisionPipelineProofs`):

- `InvariantHolds`, `TypeCorrect`, `StagesConsistent`: `PipelineInv == TypeOK /\
  StageConsistency` is inductive. `StageConsistency` says what each step of a run may rely
  on: nothing is approved before the review, what is approved has that verdict, what Layer 6
  receives are variants of what is approved, nothing is delivered before the send, and what
  is delivered is one variant of the first approved action. `ApprovalGatesDelivery`
  (`OnlyApprovedDelivered`) follows; alone it is not inductive, since it does not say what
  `chosen` holds when the send happens.
- `WordingStaysClean`: if the texts of the experiments carry no prohibited phrase
  (`VariantsAreClean`, which nothing in the code enforces), no delivered text does. It
  joins the rule lemma with the invariant: a delivered text is the text of a variant or
  the text R-001 passed.
- `EvidenceComesFirst` (`EvidenceBeforeDelivery`): `RecordInv` adds to each step the records
  that the layers before it have left. An orchestration without a record (the human-review
  path) goes on, so the invariant ties that record to the proposals and not to the step.
- `AgentsAndReviewAgree` (`SameSnapshot`) and `AccountsNeedEverySource`
  (`NoAccountActionOnPartialContext`), under `OwnSessions`: no two runs share a session. Runs
  of the API do not (`pipeline.py:51`); with a shared session the properties fail, since
  the in-memory store overwrites. `SnapshotInv` says that a profile a run has seen stays that
  of its session, or expires, until Layer 4 has read it too.
- `LogTellsTheStatus` (`LogMatchesStatus`): `LogInv` gives the exact log of a run for each of
  its steps, and for a failed one the layer that failed.
- `FlaggedWaitOnce` (`FlaggedAreQueuedOnce`): what the list gains and what the run notes
  grow in the same step; the invariant counts both.
- `PipelineImplementsGate`: the refinement. The mapping takes the steps of a
  run to four stages, the proposals to a set, and lets a clearance take effect when
  Layer 4's evidence is stored. `GateInv` adds to the invariant that this evidence exists
  exactly once the review is over, and that the approved list is, so far, exactly the
  judged proposals with verdict APPROVED; so `FinishReview` maps to `Clear` under the
  profile reviewed, `SendAction` to `Contact`, and everything else to `Propose`, `Close`
  or a stutter.

**Context assembly** (`ContextAssemblyProofs`): `AssemblyInv` describes the unfinished profile at
each await - which part of the world it has reported on so far, and that what it calls degraded
is what stands on defaults. `GapsAreTold` and `MemoriesOnRecord` follow for any number of
assemblies of a session. The latter needs that a retrieval's record cannot be
dropped as a duplicate: the identities of memory records belong to one assembly.
`SnapshotImplemented` maps the store to the assembly whose profile it holds and the rows of the
log to what they attest; `LogTellsWhatWasStored` is what makes a row map to `Attest`.

**Orchestration** (`OrchestratorProofs`): `OrchestratorInv` says how far each run is: the outputs
are those of the steps before `at[r]`, the review list is empty until the failure that ends
the run, and limit and budget of a call under way belong to one backend, however often it was
switched. `FailuresEscalateOnce` and `SlowModelsNeverEscalate` follow; the latter comes down to
`LLMRouting`: for every step and backend the budget ends before the limit, so that only a call
that was kept from its turn beyond both ends by the limit.
`HandoverImplemented` is the refinement of `AgentHandover`. `OrchestratorTypes` needs an argument
of its own: the index of a checkpoint stays within `MaxIndex` however many runs share a
session, because each index taken uses up a step of some run (`Spent`, counted).

`TrailsAreComplete` (`TrailIsComplete`) rests on `TrailsInv`: the checkpoints a run has filed are an
initial part of those that are due, with places that grow, and all of them but one that is
still being written; every place is at most the count of the run's state manager, so that the next one is
beyond them. An intervention is due after a severe assessment only, and its step is reached only then.
The theorem has a hypothesis, `KeysApart`: the store refuses a key it has, or the runs of
a session count their checkpoints in one state manager. In the memory of one process a run with
a manager of its own would write over the checkpoints of an earlier run of its session, and
the property fails; runs of the API have sessions of their own, for which `KeysApart` holds.

**Approval queue** (`GuardrailProofs`): `EntriesMatchCalls` (one entry for each item that was
enqueued, at one place of the list) gives `EnqueuedItemsStay`; `DecidedRowsAreUnderway` (a decided row
with a pending entry belongs to a request between the store and the list) gives
`DecisionsReachTheList`. `DecisionsAreFinal` is an action property and needs the types only:
every action that replaces the list keeps or decides each entry.
`PagesListTheMostUrgent` (`MostUrgentListed`) is about the ranks by which a page sorts: `RanksAreTheOrder`
says that the pending entries have the ranks from 0 on, each once and without a gap, in the order of
deadline and arrival. The rank of an entry is a cardinality, and that no rank is left out is
proved by it: distinct ranks within that range take up all of it. `EntriesAreUnique` (no item is twice in
the list) turns places into items.

**Rule loading** (`GuardrailProofs`): `RulesAreFollowed` (`RulesFollowFiles`) for any number of
files, calls, changes and days. It is about calls during which nothing changed, and asks about the files
there are. It promises nothing to a call that is given rules kept on another day, or kept by a
`load_rules` that a change or another load overlapped: the code does return wrong rules then (section
6). What it does cover are rules kept by a `get_rules` that was itself slow and disturbed, or
overlapped others, and loads that failed. The loader compares times only, so the invariant is about
which times can still be trusted. `TimesPast`: nobody has seen a time later than the last change, hence
a file that changes has a time unlike any seen before. `RulesKept`: unless the rules kept are
doubtful, they are right about every file whose time in the snapshot is still its own, and about all
files while a `load_rules` that nothing overlapped is between keeping the rules and its
snapshot. `CallSoFar`: a `get_rules` that reads is right about each file it has read whose time is
still the one it saw before reading, *whether or not* it was disturbed - a slow and
disturbed call also keeps its rules and its snapshot, and later calls trust them. That clause is
why the snapshot has to be the one from before the load, which is what the mutant of the run
changes. A change of the world (`DisturbInv`) takes files out of these statements and
never makes one of them false.

**Experiments** (`ExperimentProofs`): `ExperimentInv` says of the *copies* that threads hold what
`NeverOvercounts` says of the counts, since a copy becomes the counts; writing a copy plus
one claims at most what was true when it was read, plus the outcome written. This gives
`NothingIsInvented`, and, as what happened only grows, `SwitchesAreSampled` for leaders and
winners found on counts that others were changing. That the written outcomes are finite is
part of the invariant, not assumed.

**Event stream** (`EventStreamProofs`): `StreamInv` relates four places of one log for each page: what is
shown is a prefix; an event on the wire comes after all those before it have been shown or
are ahead of it on the wire; the queue is the end of the log; what the server has passed on is shown
or on the wire. `PagesShowPrefixes` and `NoEventIsLost` follow. A page shows a replayed event
once because the events of a log differ from each other (`LogShape`).

**Outcome routing** (`OutcomeRoutingProofs`): `RoutingInv` says what each finished destination
has left behind; `RecordedMeansAll` and `MemoryRecordsHold` follow.

**Model governance** (`ModelGovernanceProofs`): `LeftHoldsChampions` - while a promotion demotes,
every champion on either side is among the versions it still has to demote - makes
`ChampionIsUnique` inductive, and `AgreedOutsidePromotion` gives `ChampionIsAgreed`.
`LatestVerdictsAreCurrent` (`LatestVerdictIsCurrent`) rests on `VerdictInv`, which is about the
dates of reports. `FreshAgree`: from the report of an evaluation of the present artifact on, every
report, stored or not, has that artifact's verdict, and once such an evaluation is answered there
is a row to tell so. Stamping keeps this because one evaluation measures at a time (`OneMeasures`),
saving because a report only replaces an older row (`RowsAreOlder`) and no two evaluations
under way have one id (`IdsApart`). That a history with rows has a first one is
`HistoryHasAFirstRow`, by the least of the rows' ages (`LeastNatural`).

**Assumptions.** The `ASSUME`s of the modules, which TLC evaluates in every run:
types and bounds of the constants; `ActionAssumption` (the four fields of an action that
the rules and Layer 5 read); `ReviewAssumption`, above; of the calls of a rule loader that a
`get_rules` is no `load_rules`; of the sources that they are among the four adapters; of the layers of a
stream that they are distinct; of the runs of `Orchestrator` that they are finitely many; and
that a `None` differs from what it stands beside. `OwnSessions`, `KeysApart` and
`VariantsAreClean` are hypotheses of the theorems that need them, not assumptions.

**Only model-checked, and why.**

- Liveness (`RunsEnd`, `ViewSettles`, `OrchestrationsEnd`, `AssembliesEnd`, `OthersAreServed`,
  `ConclusionNamesWinner`): fairness and ENABLED are beyond the prover.
- `EveryOutcomeCounted`, which is false (section 6).
- That lists sorted by rank are what the code's `sorted` returns, that trails given by their places are what
  filtering the store returns, and the like: `SortSeq` and `SelectSeq` are defined by recursion with an
  operator argument, whose induction the provers cannot instantiate. The models say what those
  functions return by ranks and places instead. Induction in the form of a least element of a set of
  numbers can be used, and is (`LeastNatural`).

No module here declares a RECURSIVE operator.

## 6. Where code and documentation part

`EveryOutcomeCounted` has a run whose counterexample TLC finds: two overlapping outcomes of
one variant leave the count of one (`experiment_service.py:106`).

Met while modelling, without a run of their own. The paths of the code are under `platform/`.

In the pipeline and its layers:

- A Layer 3 step that fails degrades to human review without an `ORCHESTRATION_COMPLETE` record,
  and the run completes (`layer3_orchestration/orchestrator.py:365`);
  `docs/logical-architecture.md:155` has every layer write audit evidence.
- `README.md:337` calls the profile of a session immutable: in Valkey it is (`NX`), the in-memory
  store that the API's runner uses overwrites it (`layer6_sdk/blueprint_runner.py:60`).
- The orchestrator's client is bound when it is created, the backend written to the record is read
  at the call (`llm_inference/service.py:52`); after a switch the record names a backend that did
  not serve, where `docs/code-calling-guide.md:643` promises the served one.
- Layers 1 and 2 file their records under `trace_{session_id}`, the others under the
  `trace_id` of the run: the same only when the caller gives none.
- A refused `ACTION_EXECUTED` write leaves a delivered action without a record.
- R-002 reads `metadata.sms_ok` of the action, never the consent in the profile: an agent
  that leaves it out sends.
- `POST` of a decision takes any string as its status (`api/routers/guardrails.py:20`), and
  `record_decision` stores it: a request with `PENDING` would reopen a decided item
  (`layer4_guardrails/approval_queue.py:89`). `ApprovalQueue` has the two decisions that the page sends,
  and `NeverPendingAgain` is about those.
- `record_decision` decides items that are no longer pending, and a decision that arrives
  while the row is being inserted updates no row.
- The API's approval queue has no store: a restart loses it. `escalation_at` is never read.
- `select_variant` prefers a leader or winner to the customer's bucket, so that a
  customer may be switched; an experiment is concluded on the leader's sample alone.
- A slow primary is replaced by the mock (`README.md:353`) only if the event loop gets a turn
  between the budget and the limit of the step. Code on the loop that never awaits - the
  evaluation pipeline's gates and its calls of MLflow (`evaluation/pipeline.py:51`) - may hold it
  beyond both, and then the run ends in human review. `SlowModelsFallBack` says that nothing
  else brings that about.
- A checkpoint expires (`layer3_orchestration/state_manager.py:48`), so the trail of a run is there for a
  while; `Orchestrator` leaves the time to live out, and `TrailIsComplete` is about the moment
  of the handover.
- Checkpoint keys are numbered by session and written once: a later run of a session, with a
  state manager of its own, is refused and raises, outside the failure routing; in memory it
  writes over the checkpoints of the first.
- Layer 3's human-review queue lives and dies with the orchestrator, which the runner creates
  for each run.
- A replayed `layer_started` makes a completed layer active again until the replay
  reaches its completion.
- `pipeline_done` ends the stream of a trace, so that a second run of the trace is cut.

In context assembly:

- Only `SourceUnavailableError` and the time limit degrade a source. Any other exception of an
  adapter (a `KeyError` for an unknown customer) leaves `gather()` and ends the assembly, where
  `README.md:256` and `docs/code-calling-guide.md:567` say that any failing source degrades.
- Two assemblies of a customer within a second share an `audit_id`, and the second record is
  dropped (`layer1_context/service.py:177`; its docstring promises a record for each).
- The fixtures that replace a missing or incomplete row of the feature store count as available.
- A service without a scoring service or a memory store (`layer1_context/service.py:133` and `146`;
  the API's runner has neither, `api/dependencies.py:13`) lists that stage neither as available nor
  as degraded: its profiles do not say that there are no scores or memories.
- If the acknowledgement of a retrieval's record is lost, the row says that memories were retrieved
  while the profile calls the memory degraded: the second row has the same id and is dropped.

In outcomes and memory:

- The API's outcome router has no memory writer (`api/dependencies.py:15`): what is reported over
  the API is never remembered, against `README.md:62` and `README.md:315`.
- A report has no identity but its `outcome_id`, which every report gets anew: a report repeated
  after an error is counted and remembered twice, and the copies take places among the memories
  that a retrieval returns.
- A caller of the SDK that cancels its report cancels the destinations that are not threads
  (`layer6_sdk/outcome_router.py:43`); over the API an answer that nobody waits for cancels nothing, which
  is what `LoseAnswer` and `OthersAreServed` are about.
- Outcomes without a scenario are stored under `unknown`; `get_recent` scrolls arbitrary
  points and sorts those by time.

In model governance:

- `promote_to_champion` asks no gate, and nothing but the seeds calls it; `README.md:300` and
  `README.md:345` have all gates, four of them, passed first. There are three offline gates, and
  the third always passes: `champion_version` and the champion's AUC are `None`.
- `evaluation/store.py:96` calls a report's id deterministic, so that rerunning the same candidate
  updates its evidence. It contains a trace id that `POST /evaluation/run` draws afresh
  (`api/routers/evaluation.py:77`): a rerun adds a row. The command line repeats its trace id
  (`evaluation/pipeline.py:130`) but has no store. `ModelGovernance` has both, rows of their own and reruns
  that take the row of an earlier evaluation, provided that one is over: of two at once with
  one id, the older report could be saved last. That the history shows the right one of several rows
  rests on a clock that does not go back.
- An evaluation measures the artifact on disk, whichever `candidate_version` it is asked for.
  The names of the models in the registry and in the evaluation never match. The default version
  depends on the latest hundred reports over all models.
- The loop that demotes knows the versions of the process only (`layer5_ab/model_registry.py:69`):
  after a restart, and for a run whose version was registered again, MLflow keeps the old run
  tagged as champion. `AtMostOneChampion` speaks of the runs the registry knows.

In rule loading:

- Without its directory `get_rules` returns the empty set of rules before the first load: the
  snapshots are equal. `load_rules` raises (`layer4_guardrails/rule_engine.py:81`).
- `load_rules` takes its snapshot after loading: a change in between is never noticed, and an
  overlapping `get_rules` may leave old rules under a new snapshot, for good. Nothing in the
  repository's code calls `load_rules`.
- A file that was added after a snapshot and is gone before the next one stays in the rules when
  `get_rules` read it in between.
- An edit that leaves `st_mtime` as it was (`layer4_guardrails/rule_engine.py:77`; a copy that keeps times, a
  directory moved away and back) is not noticed. `RuleLoading` gives every change a new time.
- If the directory goes away between `exists()` and `rglob` (`layer4_guardrails/rule_engine.py:80-85`), the
  loader keeps the empty set of rules, as if there were none.
- Rules are kept past their expiry, and kept out past their effective date, until a file changes.

## 7. Not modelled, and why

- **Numeric components**: drift statistics, training data, the models' scores, embeddings, ranking
  of memories, rank fusion and reranking of policies. Pure functions over floating-point numbers
  without shared state; their outcomes are choices in the modules that use them.
- **Observability, the audit reader, the models, history and options pages**, page layout: they
  report and change nothing.
- **Fairness, consistency and anomaly checks of Layer 4**: no code path of the service calls them.
- **The LLM judge and the clients' retries of schema failures**: text in and out; the latter are
  inside the `Answer` to one `CallAgent`.
- **A second run in the page's store** (`ArchitectureView.tsx:248`): the stream with one trace is
  near the bound of a run already.
- **Migrations, seeds, demo, prototype, dashboards**: preparation and display of data.

## 8. Plan

Done: the components of section 1, apart from what section 7 leaves out, and the theorems of
section 5, which include every safety property of the runs. What would come next:

1. A second run in the page's store, with a stream of its own and one page only, so that the run
   stays within its bound.
2. A weaker hypothesis than `OwnSessions` for `AgentsAndReviewAgree`: with Valkey and no expiry, runs
   may share a session.
3. Liveness stays with TLC; larger instances than those of section 3 would be the way to more confidence.
