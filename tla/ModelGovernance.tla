---------------------------- MODULE ModelGovernance ----------------------------
(***************************************************************************)
(* Layer 5's governance of one model: ModelRegistry                        *)
(* (platform/layer5_ab/model_registry.py), which keeps the champion in the *)
(* process and in tags of MLflow runs, and EvaluationPipeline              *)
(* (platform/evaluation/pipeline.py) with its durable store, which judges  *)
(* candidate versions.                                                     *)
(*                                                                         *)
(* Every call to MLflow and to the store may fail.  A restart of the       *)
(* process loses the registry's versions; MLflow and the store keep theirs.*)
(* Training (platform/ml/train_models.py) is a process of its own.         *)
(***************************************************************************)
EXTENDS Integers, FiniteSets, Functions, FiniteSetsExt

CONSTANTS
  Version,       \* versions of the model
  Build,         \* what a training may leave in the artifact file, by what a
                 \* benchmark of it gives: records of auc, precision and recall
                 \* in percent, and how many percent of each segment it approves
  Evaluation,    \* evaluations asked for
  CandidateOf,   \* CandidateOf[e]: the candidate_version it is asked for
  Trace,         \* trace ids an evaluation may be given
  MaxRuns,       \* bound on MLflow runs
  MaxRestarts,   \* bound on restarts
  MaxTrainings   \* bound on trainings

Run == 1 .. MaxRuns

ASSUME GovernanceAssumption ==
  /\ \A b \in Build : {b.auc, b.precision, b.recall} \subseteq 0 .. 100
  /\ \A b \in Build : Range(b.approved) \subseteq 0 .. 100
  /\ CandidateOf \in [Evaluation -> Version]
  /\ MaxRuns \in Nat /\ MaxRestarts \in Nat /\ MaxTrainings \in Nat

Untracked == [run |-> 0, champion |-> FALSE]
Idle == [at |-> "idle"]
Missing == [at |-> "missing"]

VARIABLES
  models,      \* models[v]: the registry's entry of v
  role,        \* role[r]: the tag "role" of MLflow run r, "none" before it exists
  call,        \* where the registry is: Idle, or in the call for a version
  promoted,    \* history: how the latest promotion that had its version ended
  artifact,    \* the artifact file
  evaluation,  \* evaluation[e]: what became of it
  reports,     \* rows of evaluation_reports: [report, created_at]
  clock,       \* readings of the clock so far; each is later than those before
  fresh,       \* history: the evaluations of what the artifact file holds now
  restarts,
  trainings

registry == <<models, role, call, promoted>>
offline == <<artifact, evaluation, reports, clock, fresh>>
vars == <<registry, offline, restarts, trainings>>

Tracked == {v \in Version : models[v] # Untracked}

Init ==
  /\ models     = [v \in Version |-> Untracked]
  /\ role       = [r \in Run |-> "none"]
  /\ call       = Idle
  /\ promoted   = "never"
  /\ artifact   = Missing
  /\ evaluation = [e \in Evaluation |-> Idle]
  /\ reports    = {}
  /\ clock      = 0
  /\ fresh      = {}
  /\ restarts   = 0
  /\ trainings  = 0

Tag(r, what) == role' = [role EXCEPT ![r] = what]

-----------------------------------------------------------------------------
(* The registry.  Its methods run on the event loop, one call to MLflow    *)
(* after another; a call that fails leaves the method.                     *)

Demoting(v) == [at |-> "demoting", version |-> v, left |-> Tracked]

\* register_model and seed_initial_models: the latter promotes what it registered.
CallRegister(v) ==
  /\ call = Idle
  /\ \E promote \in BOOLEAN :
       call' = [at |-> "registering", version |-> v, promote |-> promote]
  /\ UNCHANGED <<models, role, promoted, offline, restarts, trainings>>

\* promote_to_champion registers a version the registry does not know.
CallPromote(v) ==
  /\ call = Idle
  /\ call' = IF v \in Tracked
             THEN Demoting(v)
             ELSE [at |-> "registering", version |-> v, promote |-> TRUE]
  /\ UNCHANGED <<models, role, promoted, offline, restarts, trainings>>

\* MLflow runs have ids of their own.
NewRun(r) == role[r] = "none" /\ \A other \in Run : other < r => role[other] # "none"

\* register_model: a new run tagged as challenger takes the place of the entry the
\* version had, champion or not.
Register ==
  /\ call.at = "registering"
  /\ \E r \in Run :
       /\ NewRun(r)
       /\ Tag(r, "challenger")
       /\ models' = [models EXCEPT ![call.version] = [run |-> r, champion |-> FALSE]]
       /\ call' = IF call.promote
                  THEN [at |-> "demoting", version |-> call.version,
                        left |-> Tracked \cup {call.version}]
                  ELSE Idle
  /\ UNCHANGED <<promoted, offline, restarts, trainings>>

\* MLflow fails before there is a run, before its role is tagged or after that.
RegisterFails ==
  /\ call.at = "registering"
  /\ \/ UNCHANGED role
     \/ \E r \in Run, what \in {"untagged", "challenger"} : NewRun(r) /\ Tag(r, what)
  /\ call' = Idle
  /\ UNCHANGED <<models, promoted, offline, restarts, trainings>>

\* One turn of promote_to_champion's loop: every version the registry knows is
\* demoted, in the process first and then in MLflow.
Demote ==
  /\ call.at = "demoting"
  /\ \E v \in call.left :
       /\ models' = [models EXCEPT ![v].champion = FALSE]
       /\ \/ /\ Tag(models[v].run, "challenger")
             /\ call' = [call EXCEPT !.left = @ \ {v}]
             /\ UNCHANGED promoted
          \/ /\ role' \in {role, [role EXCEPT ![models[v].run] = "challenger"]}
             /\ call' = Idle
             /\ promoted' = "failed"
  /\ UNCHANGED <<offline, restarts, trainings>>

CrownReadyEarly ==   \* faulty variant: the champion may be crowned before the rest is demoted
  call.at = "demoting"

CrownReady == call.at = "demoting" /\ call.left = {}

CrownedQuietly(v) ==   \* faulty variant: the process alone knows its champion
  UNCHANGED role

CrownTagged(v) == Tag(models[v].run, "champion")

\* The version becomes the champion, in the process first and then in MLflow.
Crown ==
  LET v == call.version
  IN /\ CrownReady
     /\ models' = [models EXCEPT ![v].champion = TRUE]
     /\ \/ CrownTagged(v) /\ promoted' = "done"
        \/ /\ UNCHANGED role \/ CrownTagged(v)     \* the reply, or the other tag, is lost
           /\ promoted' = "failed"
     /\ call' = Idle
     /\ UNCHANGED <<offline, restarts, trainings>>

\* get_current_champion.
Champions == {v \in Version : models[v].champion}

-----------------------------------------------------------------------------
(* Training and evaluation.                                                *)

\* _train_one fits a model and truncates the artifact file.
Train ==
  /\ trainings < MaxTrainings
  /\ trainings' = trainings + 1
  /\ artifact' = [at |-> "partial"]
  /\ fresh' = {}
  /\ UNCHANGED <<registry, evaluation, reports, clock, restarts>>

\* The file is complete; what else is logged of the training concerns nobody here.
TrainEnds ==
  /\ artifact.at = "partial"
  /\ \E b \in Build : artifact' = [at |-> "trained", build |-> b]
  /\ UNCHANGED <<registry, evaluation, reports, clock, fresh, restarts, trainings>>

\* run_benchmark_gate.
BenchmarkGate(b) == b.auc >= 72 /\ b.precision >= 60 /\ b.recall >= 55

\* run_fairness_gate: the adverse impact ratio of the segments is at least 0.8.
FairnessGate(b) ==
  LET rates == Range(b.approved)
  IN Max(rates) # 0 => 100 * Min(rates) >= 80 * Max(rates)

\* run_regression_gate: at most two points of AUC below the champion, if there is one.
RegressionGate(b, champions) == \A champion \in champions : b.auc - champion.auc >= -2

\* overall = all(gate.passed for gate in gates); no champion is ever given.
PromotionAllowed(b) == BenchmarkGate(b) /\ FairnessGate(b) /\ RegressionGate(b, {})

\* From reading the artifact to stamping its report, an evaluation keeps the event
\* loop: no other evaluation, and no save, comes in between.  (Nor does a step of
\* the registry, which has nothing to do with either.)
LoopFree == \A e \in Evaluation : evaluation[e].at # "measuring"

\* _report_id.
ReportId(report) == <<report.version, report.trace_id>>

\* A report that is still being saved has the id.
UnderWay(id) ==
  \E e \in Evaluation : evaluation[e].at = "saving" /\ ReportId(evaluation[e].report) = id

\* EvaluationPipeline.run reads the artifact file; without one, or with half of
\* one, it raises.  A trace id may be given again, but to a rerun, once the
\* evaluation it repeats is over (POST /evaluation/run never gives one again).
Load(e) ==
  /\ evaluation[e] = Idle
  /\ LoopFree
  /\ \/ /\ artifact.at = "trained"
        /\ \E trace \in Trace :
             /\ ~UnderWay(<<CandidateOf[e], trace>>)
             /\ evaluation' = [evaluation EXCEPT ![e] =
                  [at |-> "measuring", build |-> artifact.build, trace |-> trace]]
        /\ fresh' = fresh \cup {e}
     \/ /\ artifact.at # "trained"
        /\ evaluation' = [evaluation EXCEPT ![e] = [at |-> "failed"]]
        /\ UNCHANGED fresh
  /\ UNCHANGED <<registry, artifact, reports, clock, restarts, trainings>>

\* EvaluationReport.
ReportOf(e, b, trace, time) ==
  [trace_id |-> trace, version |-> CandidateOf[e], evaluated_at |-> time,
   promotion_allowed |-> PromotionAllowed(b)]

\* The gates have measured what was read, whatever the file holds by now, under the
\* version that was asked for.  MLflow is tagged if it can be; then run awaits the store.
Judge(e) ==
  /\ evaluation[e].at = "measuring"
  /\ clock' = clock + 1
  /\ evaluation' = [evaluation EXCEPT ![e] =
       [at |-> "saving",
        report |-> ReportOf(e, evaluation[e].build, evaluation[e].trace, clock')]]
  /\ UNCHANGED <<registry, artifact, reports, fresh, restarts, trainings>>

Row(report, time) == [report |-> report, created_at |-> time]

\* save_report: INSERT ... ON CONFLICT (report_id) DO UPDATE, which leaves created_at.
Upserted(report, time) ==
  LET same == {row \in reports : ReportId(row.report) = ReportId(report)}
  IN  (reports \ same) \cup
      IF same = {} THEN {Row(report, time)} ELSE {Row(report, row.created_at) : row \in same}

Save(e) ==
  /\ evaluation[e].at = "saving"
  /\ LoopFree
  /\ clock' = clock + 1
  /\ LET report == evaluation[e].report
     IN \/ /\ reports' = Upserted(report, clock')
           /\ evaluation' = [evaluation EXCEPT ![e] = [at |-> "answered"]]
        \/ /\ reports' \in {reports, Upserted(report, clock')}      \* the store fails
           /\ evaluation' = [evaluation EXCEPT ![e] = [at |-> "failed"]]
  /\ UNCHANGED <<registry, artifact, fresh, restarts, trainings>>

NewerByCreation(row, other) ==   \* faulty variant: ordered like the judge's history
  row.created_at >= other.created_at

\* history: ORDER BY evaluated_at DESC.
Newer(row, other) == row.report.evaluated_at >= other.report.evaluated_at

\* What the history shows first.
Latest == {row \in reports : \A other \in reports : Newer(row, other)}

-----------------------------------------------------------------------------
Restart ==
  /\ restarts < MaxRestarts
  /\ restarts' = restarts + 1
  /\ models' = [v \in Version |-> Untracked]
  /\ call' = Idle
  /\ promoted' = "never"
  /\ evaluation' = [e \in Evaluation |->
       IF evaluation[e].at \in {"measuring", "saving"} THEN [at |-> "failed"] ELSE evaluation[e]]
  /\ UNCHANGED <<role, artifact, reports, clock, fresh, trainings>>

Next ==
  \/ \E v \in Version : CallRegister(v) \/ CallPromote(v)
  \/ Register \/ RegisterFails \/ Demote \/ Crown
  \/ Train \/ TrainEnds
  \/ \E e \in Evaluation : Load(e) \/ Judge(e) \/ Save(e)
  \/ Restart

Spec == Init /\ [][Next]_vars

-----------------------------------------------------------------------------
(* Properties.                                                             *)

Roles == {"none", "untagged", "challenger", "champion"}

Reports ==
  [trace_id : Trace, version : Version, evaluated_at : Nat,
   promotion_allowed : BOOLEAN]

Calls ==
  {Idle} \cup [at : {"registering"}, version : Version, promote : BOOLEAN]
         \cup [at : {"demoting"}, version : Version, left : SUBSET Version]

\* Every variable holds a value of its kind.
TypeOK ==
  /\ models \in [Version -> [run : Run \cup {0}, champion : BOOLEAN]]
  /\ role \in [Run -> Roles]
  /\ call \in Calls
  /\ promoted \in {"never", "failed", "done"}
  /\ artifact \in {Missing, [at |-> "partial"]} \cup [at : {"trained"}, build : Build]
  /\ evaluation \in [Evaluation ->
       {Idle, [at |-> "failed"], [at |-> "answered"]}
         \cup [at : {"measuring"}, build : Build, trace : Trace]
         \cup [at : {"saving"}, report : Reports]]
  /\ reports \subseteq [report : Reports, created_at : Nat]
  /\ clock \in Nat
  /\ fresh \subseteq Evaluation
  /\ restarts \in 0 .. MaxRestarts
  /\ trainings \in 0 .. MaxTrainings

\* Whatever call of a promotion fails, and whatever is registered again meanwhile,
\* the registry never knows two champions, and of the runs it knows of no two are
\* champions in MLflow.
AtMostOneChampion ==
  LET one(S) == \A v, w \in S : v = w
  IN /\ one(Champions)
     /\ one({v \in Tracked : role[models[v].run] = "champion"})

\* Unless the latest promotion failed, the process and MLflow agree on which of
\* the versions the process knows is the champion; between calls, that is.
ChampionAgreed ==
  call = Idle /\ promoted # "failed" =>
    \A v \in Tracked : v \in Champions <=> role[models[v].run] = "champion"

\* README.md:306, "every model version has a complete, replayable evaluation
\* record": once an evaluation of what the artifact file holds has been answered,
\* the history shows the verdict of that artifact first - whatever evaluations of
\* earlier artifacts are saved after it, or stamped while the file is trained anew,
\* and whether it takes a row of its own or, as a rerun, that of an earlier one.
LatestVerdictIsCurrent ==
  (\E e \in fresh : evaluation[e].at = "answered") =>
    /\ Latest # {}
    /\ \A row \in Latest : row.report.promotion_allowed <=> PromotionAllowed(artifact.build)
=============================================================================
