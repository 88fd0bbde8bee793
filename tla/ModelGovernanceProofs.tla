------------------------- MODULE ModelGovernanceProofs -------------------------
(***************************************************************************)
(* What holds of ModelGovernance for any versions, builds, evaluations,    *)
(* MLflow runs, trainings and restarts.                                    *)
(***************************************************************************)
EXTENDS ModelGovernance, WellFoundedInduction, TLAPS

\* MLflow runs the registry knows of: each belongs to one version, and is tagged.
\* Only a version that has a run is a champion.
RunsAreOwn ==
  /\ \A v \in Version : models[v].run = 0 => ~models[v].champion
  /\ \A v \in Tracked : role[models[v].run] \in {"challenger", "champion"}
  /\ \A v, w \in Tracked : models[v].run = models[w].run => v = w

\* While a version is promoted, every champion there still is - in the process or
\* in MLflow - is one that promote_to_champion's loop has not reached.
LeftHoldsChampions ==
  call.at = "demoting" =>
    /\ call.version \in Tracked
    /\ call.left \subseteq Tracked
    /\ \A v \in Version : models[v].champion => v \in call.left
    /\ \A v \in Tracked : role[models[v].run] = "champion" => v \in call.left

\* No two champions, version by version.
OneEach ==
  /\ \A v, w \in Version : models[v].champion /\ models[w].champion => v = w
  /\ \A v, w \in Tracked :
       role[models[v].run] = "champion" /\ role[models[w].run] = "champion" => v = w

\* ChampionAgreed, which a registration under way does not disturb either.
AgreedOutsidePromotion ==
  call.at # "demoting" /\ promoted # "failed" =>
    \A v \in Tracked : models[v].champion <=> role[models[v].run] = "champion"

\* The inductive invariant of the registry.
RegistryInv ==
  TypeOK /\ RunsAreOwn /\ LeftHoldsChampions /\ OneEach /\ AgreedOutsidePromotion

-----------------------------------------------------------------------------
(* Types.                                                                  *)

\* Where a call may be.
LEMMA CallShapes ==
  ASSUME call \in Calls
  PROVE  /\ call.at \in {"idle", "registering", "demoting"}
         /\ call = Idle <=> call.at = "idle"
         /\ call.at = "registering" =>
              call.version \in Version /\ call.promote \in BOOLEAN
         /\ call.at = "demoting" =>
              call.version \in Version /\ call.left \in SUBSET Version
  BY DEF Calls, Idle

\* The shapes of new calls.
LEMMA NewCalls ==
  /\ Idle \in Calls /\ Idle.at = "idle"
  /\ \A v \in Version, promote \in BOOLEAN :
       [at |-> "registering", version |-> v, promote |-> promote] \in Calls
  /\ \A v \in Version, left \in SUBSET Version :
       [at |-> "demoting", version |-> v, left |-> left] \in Calls
  BY DEF Calls, Idle

RegistryTypes ==
  /\ models \in [Version -> [run : Run \cup {0}, champion : BOOLEAN]]
  /\ role \in [Run -> Roles]
  /\ call \in Calls
  /\ promoted \in {"never", "failed", "done"}

EvaluationStates ==
  {Idle, [at |-> "failed"], [at |-> "answered"]}
    \cup [at : {"measuring"}, build : Build, trace : Trace]
    \cup [at : {"saving"}, report : Reports]

Rows == [report : Reports, created_at : Nat]

OfflineTypes ==
  /\ artifact \in {Missing, [at |-> "partial"]} \cup [at : {"trained"}, build : Build]
  /\ evaluation \in [Evaluation -> EvaluationStates]
  /\ reports \subseteq Rows
  /\ clock \in Nat
  /\ fresh \subseteq Evaluation

CounterTypes == restarts \in 0 .. MaxRestarts /\ trainings \in 0 .. MaxTrainings

LEMMA TypesSplit == TypeOK <=> RegistryTypes /\ OfflineTypes /\ CounterTypes
  BY DEF TypeOK, RegistryTypes, OfflineTypes, CounterTypes, EvaluationStates, Rows

LEMMA InitTypes == Init => TypeOK
  <1> SUFFICES ASSUME Init PROVE TypeOK
    OBVIOUS
  <1>1. RegistryTypes
    BY NewCalls DEF Init, RegistryTypes, Untracked, Roles
  <1>2. OfflineTypes
    BY DEF Init, OfflineTypes, EvaluationStates
  <1>3. CounterTypes
    BY GovernanceAssumption DEF Init, CounterTypes
  <1> QED
    BY <1>1, <1>2, <1>3, TypesSplit

\* The calls of the registry keep the types of what it holds.
LEMMA RegistryTypesKept ==
  ASSUME TypeOK, [Next]_vars
  PROVE  RegistryTypes'
  <1>0. RegistryTypes
    BY TypesSplit
  <1>1. ASSUME NEW v \in Version, CallRegister(v) PROVE RegistryTypes'
    BY <1>0, <1>1, NewCalls DEF CallRegister, RegistryTypes
  <1>2. ASSUME NEW v \in Version, CallPromote(v) PROVE RegistryTypes'
    <2>1. Tracked \in SUBSET Version
      BY DEF Tracked
    <2>2. call' \in Calls
      BY <1>2, <2>1, NewCalls DEF CallPromote, Demoting
    <2> QED
      BY <1>0, <1>2, <2>2 DEF CallPromote, RegistryTypes
  <1>3. ASSUME Register PROVE RegistryTypes'
    <2>1. call.version \in Version
      BY <1>0, <1>3, CallShapes DEF Register, RegistryTypes
    <2>2. Tracked \cup {call.version} \in SUBSET Version
      BY <2>1 DEF Tracked
    <2>3. call' \in Calls
      BY <1>3, <2>1, <2>2, NewCalls DEF Register
    <2>4. role' \in [Run -> Roles]
      BY <1>0, <1>3 DEF Register, RegistryTypes, Tag, Roles
    <2>5. models' \in [Version -> [run : Run \cup {0}, champion : BOOLEAN]]
      BY <1>0, <1>3, <2>1 DEF Register, RegistryTypes
    <2> QED
      BY <1>0, <1>3, <2>3, <2>4, <2>5 DEF Register, RegistryTypes
  <1>4. ASSUME RegisterFails PROVE RegistryTypes'
    <2>1. role' \in [Run -> Roles]
      BY <1>0, <1>4 DEF RegisterFails, RegistryTypes, Tag, Roles
    <2> QED
      BY <1>0, <1>4, <2>1, NewCalls DEF RegisterFails, RegistryTypes
  <1>5. ASSUME Demote PROVE RegistryTypes'
    <2>1. PICK v \in call.left :
            /\ models' = [models EXCEPT ![v].champion = FALSE]
            /\ \/ /\ Tag(models[v].run, "challenger")
                  /\ call' = [call EXCEPT !.left = @ \ {v}]
                  /\ UNCHANGED promoted
               \/ /\ role' \in {role, [role EXCEPT ![models[v].run] = "challenger"]}
                  /\ call' = Idle
                  /\ promoted' = "failed"
      BY <1>5 DEF Demote
    <2>2. call \in [at : {"demoting"}, version : Version, left : SUBSET Version]
      BY <1>0, <1>5 DEF Demote, RegistryTypes, Calls, Idle
    <2>3. [call EXCEPT !.left = @ \ {v}] \in Calls
      BY <2>2 DEF Calls
    <2>4. call' \in Calls /\ promoted' \in {"never", "failed", "done"}
      BY <1>0, <2>1, <2>3, NewCalls DEF RegistryTypes
    <2>5. role' \in [Run -> Roles]
      BY <1>0, <2>1 DEF RegistryTypes, Tag, Roles
    <2>6. v \in Version
      BY <2>2
    <2>7. models' \in [Version -> [run : Run \cup {0}, champion : BOOLEAN]]
      <3>1. [models[v] EXCEPT !.champion = FALSE] \in [run : Run \cup {0}, champion : BOOLEAN]
        BY <1>0, <2>6 DEF RegistryTypes
      <3>2. models' = [models EXCEPT ![v] = [models[v] EXCEPT !.champion = FALSE]]
        BY <2>1
      <3> QED
        BY <1>0, <2>6, <3>1, <3>2 DEF RegistryTypes
    <2> QED
      BY <2>4, <2>5, <2>7 DEF RegistryTypes
  <1>6. ASSUME Crown PROVE RegistryTypes'
    <2>1. role' \in [Run -> Roles]
      BY <1>0, <1>6 DEF Crown, CrownTagged, RegistryTypes, Tag, Roles
    <2>2. models' \in [Version -> [run : Run \cup {0}, champion : BOOLEAN]]
      BY <1>0, <1>6 DEF Crown, RegistryTypes
    <2> QED
      BY <1>0, <1>6, <2>1, <2>2, NewCalls DEF Crown, RegistryTypes
  <1>7. ASSUME Restart PROVE RegistryTypes'
    BY <1>0, <1>7, NewCalls DEF Restart, RegistryTypes, Untracked
  <1>8. ASSUME UNCHANGED registry PROVE RegistryTypes'
    BY <1>0, <1>8 DEF registry, RegistryTypes
  <1> QED
    BY <1>1, <1>2, <1>3, <1>4, <1>5, <1>6, <1>7, <1>8
    DEF Next, vars, Train, TrainEnds, Load, Judge, Save

\* What the gates yield is a report, what is stored are rows.
LEMMA ReportTypes ==
  ASSUME NEW e \in Evaluation, NEW b, NEW trace \in Trace, NEW time \in Nat
  PROVE  ReportOf(e, b, trace, time) \in Reports
  <1>1. CandidateOf[e] \in Version
    BY GovernanceAssumption
  <1>2. PromotionAllowed(b) \in BOOLEAN
    BY DEF PromotionAllowed, BenchmarkGate
  <1> QED
    BY <1>1, <1>2 DEF ReportOf, Reports

LEMMA UpsertedTypes ==
  ASSUME reports \subseteq Rows, NEW report \in Reports, NEW time \in Nat
  PROVE  Upserted(report, time) \subseteq Rows
  BY DEF Upserted, Row, Rows

\* So do a training, an evaluation and a restart with what they hold.
LEMMA OfflineTypesKept ==
  ASSUME TypeOK, [Next]_vars
  PROVE  OfflineTypes'
  <1>0. OfflineTypes
    BY TypesSplit
  <1>1. ASSUME Train \/ TrainEnds PROVE OfflineTypes'
    BY <1>0, <1>1 DEF Train, TrainEnds, OfflineTypes
  <1>2. ASSUME NEW e \in Evaluation, Load(e) PROVE OfflineTypes'
    <2>1. CASE artifact.at = "trained"
      <3>1. artifact.build \in Build
        BY <1>0, <2>1 DEF OfflineTypes, Missing
      <3>2. \A trace \in Trace :
              [at |-> "measuring", build |-> artifact.build, trace |-> trace] \in EvaluationStates
        BY <3>1 DEF EvaluationStates
      <3> QED
        BY <1>0, <1>2, <2>1, <3>2 DEF Load, OfflineTypes
    <2>2. CASE artifact.at # "trained"
      <3>1. [at |-> "failed"] \in EvaluationStates
        BY DEF EvaluationStates
      <3> QED
        BY <1>0, <1>2, <2>2, <3>1 DEF Load, OfflineTypes
    <2> QED
      BY <2>1, <2>2
  <1>3. ASSUME NEW e \in Evaluation, Judge(e) PROVE OfflineTypes'
    <2>1. clock' = clock + 1 /\ clock' \in Nat
      BY <1>0, <1>3 DEF Judge, OfflineTypes
    <2>2. evaluation[e].trace \in Trace
      BY <1>0, <1>3 DEF Judge, OfflineTypes, EvaluationStates, Idle
    <2>3. ReportOf(e, evaluation[e].build, evaluation[e].trace, clock') \in Reports
      BY <2>1, <2>2, ReportTypes
    <2>4. [at |-> "saving",
           report |-> ReportOf(e, evaluation[e].build, evaluation[e].trace, clock')]
            \in EvaluationStates
      BY <2>3 DEF EvaluationStates
    <2> QED
      BY <1>0, <1>3, <2>1, <2>4 DEF Judge, OfflineTypes
  <1>4. ASSUME NEW e \in Evaluation, Save(e) PROVE OfflineTypes'
    <2>1. evaluation[e].report \in Reports
      BY <1>0, <1>4 DEF Save, OfflineTypes, EvaluationStates, Idle
    <2>2. [at |-> "answered"] \in EvaluationStates
      BY DEF EvaluationStates
    <2>3. [at |-> "failed"] \in EvaluationStates
      BY DEF EvaluationStates
    <2>4. clock' = clock + 1 /\ clock' \in Nat
      BY <1>0, <1>4 DEF Save, OfflineTypes
    <2>5. Upserted(evaluation[e].report, clock') \subseteq Rows
      BY <1>0, <2>1, <2>4, UpsertedTypes DEF OfflineTypes
    <2> QED
      BY <1>0, <1>4, <2>2, <2>3, <2>4, <2>5 DEF Save, OfflineTypes
  <1>5. ASSUME Restart PROVE OfflineTypes'
    <2>1. [at |-> "failed"] \in EvaluationStates
      BY DEF EvaluationStates
    <2> QED
      BY <1>0, <1>5, <2>1 DEF Restart, OfflineTypes
  <1>6. ASSUME UNCHANGED offline PROVE OfflineTypes'
    BY <1>0, <1>6 DEF offline, OfflineTypes
  <1> QED
    BY <1>1, <1>2, <1>3, <1>4, <1>5, <1>6
    DEF Next, vars, CallRegister, CallPromote, Register, RegisterFails, Demote, Crown

LEMMA TypesKept ==
  ASSUME TypeOK, [Next]_vars
  PROVE  TypeOK'
  <1>1. CounterTypes
    BY TypesSplit
  <1>2. CounterTypes'
    BY <1>1, GovernanceAssumption DEF CounterTypes, Next, vars, CallRegister, CallPromote,
       Register, RegisterFails, Demote, Crown, Train, TrainEnds, Load, Judge, Save, Restart
  <1> QED
    BY <1>2, RegistryTypesKept, OfflineTypesKept, TypesSplit
    DEF TypeOK, RegistryTypes, OfflineTypes, CounterTypes, EvaluationStates, Rows

\* Every variable of the governance of a model keeps to the values of its kind.
THEOREM GovernanceTypes == Spec => []TypeOK
  BY InitTypes, TypesKept, PTL DEF Spec

-----------------------------------------------------------------------------
(* The registry.                                                           *)

\* An entry with a run is an entry.
LEMMA TrackedEntry ==
  ASSUME NEW m \in [run : Run \cup {0}, champion : BOOLEAN], m.run = 0 => ~m.champion
  PROVE  m # Untracked <=> m.run \in Run
  <1>1. 0 \notin Run
    BY DEF Run
  <1>2. CASE m.run = 0
    <2>1. m.champion = FALSE
      BY <1>2
    <2>2. m = [run |-> 0, champion |-> FALSE]
      BY <1>2, <2>1
    <2> QED
      BY <1>1, <2>2 DEF Untracked
  <1>3. CASE m.run \in Run
    BY <1>1, <1>3 DEF Untracked
  <1> QED
    BY <1>2, <1>3

\* A version the registry knows is one with an MLflow run.
LEMMA TrackedRuns ==
  ASSUME TypeOK, RunsAreOwn
  PROVE  /\ Tracked = {v \in Version : models[v].run \in Run}
         /\ \A v \in Version : models[v].champion => v \in Tracked
  <1>1. ASSUME NEW v \in Version
        PROVE  /\ models[v] # Untracked <=> models[v].run \in Run
               /\ models[v].champion => models[v].run \in Run
    <2>1. models[v] \in [run : Run \cup {0}, champion : BOOLEAN]
      BY DEF TypeOK
    <2>2. models[v].run = 0 => ~models[v].champion
      BY DEF RunsAreOwn
    <2>3. models[v] # Untracked <=> models[v].run \in Run
      BY <2>1, <2>2, TrackedEntry
    <2> QED
      BY <2>1, <2>2, <2>3
  <1> QED
    BY <1>1 DEF Tracked

\* What a turn of promote_to_champion's loop, and its end, do to the entries.
LEMMA EntryAfter ==
  ASSUME TypeOK, NEW v \in Version, NEW b \in BOOLEAN,
         models' = [models EXCEPT ![v].champion = b]
  PROVE  /\ \A w \in Version : models'[w].run = models[w].run
         /\ models'[v].champion = b
         /\ \A w \in Version \ {v} : models'[w].champion = models[w].champion
  BY DEF TypeOK

\* Without a new entry the registry knows the versions it knew.
LEMMA SameRunsSameTracked ==
  ASSUME TypeOK, TypeOK', RunsAreOwn,
         \A w \in Version : models'[w].run = models[w].run,
         \A w \in Version : models'[w].champion => w \in Tracked
  PROVE  Tracked' = Tracked
  <1>1. Tracked = {v \in Version : models[v].run \in Run} /\ 0 \notin Run
    BY TrackedRuns DEF Run
  <1>2. ASSUME NEW v \in Version
        PROVE  models'[v] # Untracked <=> models'[v].run \in Run
    <2>1. models'[v] \in [run : Run \cup {0}, champion : BOOLEAN]
      BY DEF TypeOK
    <2>2. models'[v].run = 0 => ~models'[v].champion
      BY <1>1
    <2> QED
      BY <2>1, <2>2, TrackedEntry
  <1> QED
    BY <1>1, <1>2 DEF Tracked

LEMMA InitRegistry == Init => RegistryInv
  <1> SUFFICES ASSUME Init PROVE RegistryInv
    OBVIOUS
  <1>1. Tracked = {} /\ \A v \in Version : ~models[v].champion
    BY DEF Init, Tracked, Untracked
  <1>2. RunsAreOwn /\ OneEach /\ AgreedOutsidePromotion
    BY <1>1 DEF RunsAreOwn, OneEach, AgreedOutsidePromotion
  <1>3. LeftHoldsChampions
    BY DEF Init, LeftHoldsChampions, Idle
  <1> QED
    BY <1>2, <1>3, InitTypes DEF RegistryInv

\* A call begins.
LEMMA CallsKeepRegistry ==
  ASSUME RegistryInv, NEW v \in Version, CallRegister(v) \/ CallPromote(v), TypeOK'
  PROVE  RegistryInv'
  <1>1. UNCHANGED <<models, role, promoted>> /\ Tracked' = Tracked
    BY DEF CallRegister, CallPromote, Tracked
  <1>2. RunsAreOwn' /\ OneEach'
    BY <1>1 DEF RegistryInv, RunsAreOwn, OneEach
  <1>3. call.at = "idle"
    BY DEF CallRegister, CallPromote, Idle
  <1>4. AgreedOutsidePromotion'
    BY <1>1, <1>3 DEF RegistryInv, AgreedOutsidePromotion
  <1>5. call'.at = "demoting" => v \in Tracked /\ call' = Demoting(v)
    BY DEF CallRegister, CallPromote
  <1>6. \A w \in Version : models[w].champion => w \in Tracked
    BY TrackedRuns DEF RegistryInv
  <1>7. LeftHoldsChampions'
    BY <1>1, <1>5, <1>6 DEF LeftHoldsChampions, Demoting
  <1> QED
    BY <1>2, <1>4, <1>7 DEF RegistryInv

\* The entry of a registration: a run of its own, no champion.
LEMMA RegisterKeepsRegistry ==
  ASSUME RegistryInv, Register, TypeOK'
  PROVE  RegistryInv'
  <1> DEFINE v == call.version
  <1>1. /\ TypeOK /\ RunsAreOwn /\ OneEach /\ AgreedOutsidePromotion
        /\ call.at = "registering" /\ v \in Version
    BY CallShapes DEF RegistryInv, Register, TypeOK
  <1>2. PICK r \in Run :
          /\ NewRun(r)
          /\ Tag(r, "challenger")
          /\ models' = [models EXCEPT ![v] = [run |-> r, champion |-> FALSE]]
          /\ call' = IF call.promote
                     THEN [at |-> "demoting", version |-> v, left |-> Tracked \cup {v}]
                     ELSE Idle
          /\ UNCHANGED promoted
    BY DEF Register
  <1> HIDE DEF v
  <1>3. /\ role[r] = "none" /\ role'[r] = "challenger"
        /\ \A q \in Run \ {r} : role'[q] = role[q]
        /\ models'[v].run = r /\ models'[v].champion = FALSE
        /\ \A w \in Version \ {v} : models'[w] = models[w]
    BY <1>1, <1>2 DEF NewRun, Tag, TypeOK
  <1>4. r # 0
    BY DEF Run
  <1>5. Tracked' = Tracked \cup {v}
    BY <1>1, <1>3, <1>4 DEF Tracked, Untracked
  <1>6. \A w \in Tracked : models[w].run \in Run /\ role[models[w].run] # "none"
    BY <1>1, TrackedRuns DEF RunsAreOwn
  <1>7. \A w \in Tracked : models[w].run \in Run \ {r}
    BY <1>3, <1>6
  <1>8. /\ \A w \in Tracked' \ {v} : /\ w \in Tracked
                                     /\ models'[w] = models[w]
                                     /\ models[w].run \in Run \ {r}
                                     /\ role'[models'[w].run] = role[models[w].run]
        /\ role'[models'[v].run] = "challenger"
    BY <1>1, <1>3, <1>5, <1>7 DEF Tracked
  <1>9. \A w \in Version : models'[w].champion => w # v /\ models[w].champion
    BY <1>1, <1>3
  <1>10. RunsAreOwn'
    <2>1. \A w \in Version : models'[w].run = 0 => ~models'[w].champion
      BY <1>1, <1>3, <1>9 DEF RunsAreOwn
    <2>2. \A w \in Tracked' : role'[models'[w].run] \in {"challenger", "champion"}
      BY <1>1, <1>8 DEF RunsAreOwn
    <2>3. ASSUME NEW w \in Tracked', NEW x \in Tracked', models'[w].run = models'[x].run
          PROVE  w = x
      BY <1>1, <1>3, <1>8, <2>3 DEF RunsAreOwn
    <2> QED
      BY <2>1, <2>2, <2>3 DEF RunsAreOwn
  <1>11. OneEach'
    <2>1. \A w \in Tracked' : role'[models'[w].run] = "champion" =>
             w \in Tracked /\ role[models[w].run] = "champion"
      BY <1>8
    <2> QED
      BY <1>1, <1>9, <2>1 DEF OneEach
  <1>12. LeftHoldsChampions'
    <2> SUFFICES ASSUME call'.at = "demoting" PROVE LeftHoldsChampions'
      BY DEF LeftHoldsChampions
    <2>1. call'.version = v /\ call'.left = Tracked'
      BY <1>2, <1>5 DEF Idle
    <2>2. \A w \in Version : models'[w].champion => w \in Tracked'
      BY <1>1, <1>5, <1>9, TrackedRuns
    <2> QED
      BY <1>5, <2>1, <2>2 DEF LeftHoldsChampions
  <1>13. AgreedOutsidePromotion'
    <2> SUFFICES ASSUME promoted # "failed", NEW w \in Tracked'
                 PROVE  models'[w].champion <=> role'[models'[w].run] = "champion"
      BY <1>2 DEF AgreedOutsidePromotion
    <2>1. CASE w = v
      BY <1>3, <1>8, <2>1
    <2>2. CASE w # v
      BY <1>1, <1>8, <2>2 DEF AgreedOutsidePromotion
    <2> QED
      BY <2>1, <2>2
  <1> QED
    BY <1>10, <1>11, <1>12, <1>13 DEF RegistryInv

\* A run that MLflow has and the registry does not know of disturbs nothing.
LEMMA FailedRegistrationKeepsRegistry ==
  ASSUME RegistryInv, RegisterFails, TypeOK'
  PROVE  RegistryInv'
  <1>1. /\ TypeOK /\ RunsAreOwn /\ OneEach /\ AgreedOutsidePromotion
        /\ UNCHANGED <<models, promoted>> /\ Tracked' = Tracked
        /\ call.at = "registering" /\ call'.at = "idle"
    BY DEF RegistryInv, RegisterFails, Tracked, Idle
  <1>2. \A r \in Run : role[r] # "none" => role'[r] = role[r]
    BY DEF RegistryInv, TypeOK, RegisterFails, NewRun, Tag
  <1>3. \A w \in Tracked : models[w].run \in Run /\ role[models[w].run] # "none"
    BY <1>1, TrackedRuns DEF RunsAreOwn
  <1>4. \A w \in Tracked : role'[models'[w].run] = role[models[w].run]
    BY <1>1, <1>2, <1>3
  <1>5. RunsAreOwn'
    BY <1>1, <1>4 DEF RunsAreOwn
  <1>6. OneEach'
    BY <1>1, <1>4 DEF OneEach
  <1>7. AgreedOutsidePromotion'
    BY <1>1, <1>4 DEF AgreedOutsidePromotion
  <1>8. LeftHoldsChampions'
    BY <1>1 DEF LeftHoldsChampions
  <1> QED
    BY <1>5, <1>6, <1>7, <1>8 DEF RegistryInv

\* Where only one version's entry and the tag of its run change, the others keep
\* their runs and tags.
LEMMA OthersKeepTheirTags ==
  ASSUME TypeOK, RunsAreOwn, NEW v \in Tracked, NEW b \in BOOLEAN, TypeOK',
         models' = [models EXCEPT ![v].champion = b],
         \A q \in Run \ {models[v].run} : role'[q] = role[q]
  PROVE  /\ Tracked' = Tracked
         /\ \A w \in Version : models'[w].run = models[w].run
         /\ \A w \in Version \ {v} : models'[w].champion = models[w].champion
         /\ models'[v].champion = b
         /\ \A w \in Tracked \ {v} : role'[models'[w].run] = role[models[w].run]
         /\ role'[models'[v].run] = role'[models[v].run]
  <1>1. v \in Version
    BY DEF Tracked
  <1>2. /\ \A w \in Version : models'[w].run = models[w].run
        /\ \A w \in Version \ {v} : models'[w].champion = models[w].champion
        /\ models'[v].champion = b
    BY <1>1, EntryAfter
  <1>3. \A w \in Version : models'[w].champion => w \in Tracked
    BY <1>2, TrackedRuns
  <1>4. Tracked' = Tracked
    BY <1>2, <1>3, SameRunsSameTracked
  <1>5. \A w \in Tracked \ {v} : models[w].run \in Run \ {models[v].run} /\ w \in Version
    BY TrackedRuns DEF RunsAreOwn
  <1> QED
    BY <1>1, <1>2, <1>4, <1>5

\* A version demoted keeps its run; whatever MLflow answers, it is no champion of
\* the process, and no champion of MLflow if the loop goes on.
LEMMA DemoteKeepsRegistry ==
  ASSUME RegistryInv, Demote, TypeOK'
  PROVE  RegistryInv'
  <1>1. /\ TypeOK /\ RunsAreOwn /\ OneEach /\ LeftHoldsChampions
        /\ call.at = "demoting"
    BY DEF RegistryInv, Demote
  <1>2. PICK v \in call.left :
          /\ models' = [models EXCEPT ![v].champion = FALSE]
          /\ \/ /\ Tag(models[v].run, "challenger")
                /\ call' = [call EXCEPT !.left = @ \ {v}]
                /\ UNCHANGED promoted
             \/ /\ role' \in {role, [role EXCEPT ![models[v].run] = "challenger"]}
                /\ call' = Idle
                /\ promoted' = "failed"
    BY DEF Demote
  <1>3. v \in Tracked /\ call.left \subseteq Tracked /\ call.version \in Tracked
    BY <1>1, <1>2 DEF LeftHoldsChampions
  <1>4. models[v].run \in Run
    BY <1>1, <1>3, TrackedRuns
  <1>5. /\ \A q \in Run \ {models[v].run} : role'[q] = role[q]
        /\ role'[models[v].run] \in {role[models[v].run], "challenger"}
        /\ call' # Idle => role'[models[v].run] = "challenger"
    BY <1>1, <1>2, <1>4 DEF TypeOK, Tag
  <1>6. /\ Tracked' = Tracked
        /\ \A w \in Version : models'[w].run = models[w].run
        /\ \A w \in Version \ {v} : models'[w].champion = models[w].champion
        /\ models'[v].champion = FALSE
        /\ \A w \in Tracked \ {v} : role'[models'[w].run] = role[models[w].run]
        /\ role'[models'[v].run] = role'[models[v].run]
    BY <1>1, <1>2, <1>3, <1>5, OthersKeepTheirTags
  <1>7. /\ \A w \in Version : models'[w].champion => w # v /\ models[w].champion
        /\ \A w \in Tracked : role'[models'[w].run] = "champion" => role[models[w].run] = "champion"
        /\ \A w \in Tracked : role'[models'[w].run] \in {role[models[w].run], "challenger"}
    BY <1>1, <1>5, <1>6
  <1>8. RunsAreOwn'
    BY <1>1, <1>6, <1>7 DEF RunsAreOwn, Tracked
  <1>9. OneEach'
    BY <1>1, <1>6, <1>7 DEF OneEach
  <1>10. CASE call' = Idle
    <2>1. promoted' = "failed"
      <3>1. CASE call' = [call EXCEPT !.left = @ \ {v}]
        <4>1. call \in [at : {"demoting"}, version : Version, left : SUBSET Version]
          BY <1>1 DEF TypeOK, Calls, Idle
        <4>2. call'.at = "demoting"
          BY <3>1, <4>1
        <4> QED
          BY <1>10, <4>2, NewCalls
      <3> QED
        BY <1>2, <3>1
    <2>2. LeftHoldsChampions' /\ AgreedOutsidePromotion'
      BY <1>10, <2>1, NewCalls DEF LeftHoldsChampions, AgreedOutsidePromotion
    <2> QED
      BY <1>8, <1>9, <2>2 DEF RegistryInv
  <1>11. CASE call' # Idle
    <2>1. call \in [at : {"demoting"}, version : Version, left : SUBSET Version]
      BY <1>1 DEF TypeOK, Calls, Idle
    <2>2. /\ call'.at = "demoting" /\ call'.version = call.version
          /\ call'.left = call.left \ {v}
      BY <1>2, <1>11, <2>1
    <2>3. role'[models'[v].run] = "challenger"
      BY <1>5, <1>6, <1>11
    <2>4. \A w \in Tracked : role'[models'[w].run] = "champion" => w \in call.left \ {v}
      BY <1>1, <1>7, <2>3 DEF LeftHoldsChampions
    <2>5. \A w \in Version : models'[w].champion => w \in call.left \ {v}
      BY <1>1, <1>7 DEF LeftHoldsChampions
    <2>6. LeftHoldsChampions'
      BY <1>3, <1>6, <2>2, <2>4, <2>5 DEF LeftHoldsChampions
    <2>7. AgreedOutsidePromotion'
      BY <2>2 DEF AgreedOutsidePromotion
    <2> QED
      BY <1>8, <1>9, <2>6, <2>7 DEF RegistryInv
  <1> QED
    BY <1>10, <1>11

\* The champion of a promotion is crowned when there is no other one left.
LEMMA CrownKeepsRegistry ==
  ASSUME RegistryInv, Crown, TypeOK'
  PROVE  RegistryInv'
  <1> DEFINE v == call.version
  <1>1. /\ TypeOK /\ RunsAreOwn /\ OneEach /\ LeftHoldsChampions
        /\ call.at = "demoting" /\ call.left = {}
    BY DEF RegistryInv, Crown, CrownReady
  <1>2. /\ v \in Tracked
        /\ \A w \in Version : ~models[w].champion
        /\ \A w \in Tracked : role[models[w].run] # "champion"
    BY <1>1 DEF LeftHoldsChampions
  <1>3. /\ models' = [models EXCEPT ![v].champion = TRUE]
        /\ \/ Tag(models[v].run, "champion") /\ promoted' = "done"
           \/ (UNCHANGED role \/ Tag(models[v].run, "champion")) /\ promoted' = "failed"
        /\ call' = Idle
    BY DEF Crown, CrownTagged
  <1> HIDE DEF v
  <1>4. models[v].run \in Run
    BY <1>1, <1>2, TrackedRuns
  <1>5. /\ \A q \in Run \ {models[v].run} : role'[q] = role[q]
        /\ role'[models[v].run] \in {role[models[v].run], "champion"}
        /\ promoted' # "failed" => role'[models[v].run] = "champion"
    BY <1>1, <1>3, <1>4 DEF TypeOK, Tag
  <1>6. /\ Tracked' = Tracked
        /\ \A w \in Version : models'[w].run = models[w].run
        /\ \A w \in Version \ {v} : models'[w].champion = models[w].champion
        /\ models'[v].champion = TRUE
        /\ \A w \in Tracked \ {v} : role'[models'[w].run] = role[models[w].run]
        /\ role'[models'[v].run] = role'[models[v].run]
    BY <1>1, <1>2, <1>3, <1>5, OthersKeepTheirTags
  <1>7. /\ \A w \in Version : models'[w].champion => w = v
        /\ \A w \in Tracked : role'[models'[w].run] = "champion" => w = v
    BY <1>2, <1>6
  <1>8. RunsAreOwn'
    <2>1. \A w \in Version : models'[w].run = 0 => ~models'[w].champion
      BY <1>2, <1>4, <1>6, <1>7 DEF Run
    <2>2. \A w \in Tracked : role'[models'[w].run] \in {"challenger", "champion"}
      BY <1>1, <1>5, <1>6 DEF RunsAreOwn
    <2>3. \A w, x \in Tracked : models'[w].run = models'[x].run => w = x
      BY <1>1, <1>6 DEF RunsAreOwn, Tracked
    <2> QED
      BY <1>6, <2>1, <2>2, <2>3 DEF RunsAreOwn
  <1>9. OneEach'
    BY <1>6, <1>7 DEF OneEach
  <1>10. LeftHoldsChampions'
    BY <1>3, NewCalls DEF LeftHoldsChampions
  <1>11. AgreedOutsidePromotion'
    <2> SUFFICES ASSUME promoted' # "failed", NEW w \in Tracked
                 PROVE  models'[w].champion <=> role'[models'[w].run] = "champion"
      BY <1>6 DEF AgreedOutsidePromotion
    <2>1. CASE w = v
      BY <1>5, <1>6, <2>1
    <2>2. CASE w # v
      <3>1. w \in Version
        BY DEF Tracked
      <3> QED
        BY <1>7, <2>2, <3>1
    <2> QED
      BY <2>1, <2>2
  <1> QED
    BY <1>8, <1>9, <1>10, <1>11 DEF RegistryInv

LEMMA RegistryKept ==
  ASSUME RegistryInv, [Next]_vars
  PROVE  RegistryInv'
  <1>1. TypeOK'
    BY TypesKept DEF RegistryInv
  <1>2. ASSUME Restart PROVE RegistryInv'
    <2>1. Tracked' = {} /\ (\A v \in Version : ~models'[v].champion) /\ call'.at = "idle"
      BY <1>2, NewCalls DEF Restart, Tracked, Untracked
    <2>2. RunsAreOwn' /\ OneEach' /\ AgreedOutsidePromotion' /\ LeftHoldsChampions'
      BY <2>1 DEF RunsAreOwn, OneEach, AgreedOutsidePromotion, LeftHoldsChampions
    <2> QED
      BY <1>1, <2>2 DEF RegistryInv
  <1>3. ASSUME UNCHANGED registry PROVE RegistryInv'
    <2>1. UNCHANGED <<models, role, call, promoted>> /\ Tracked' = Tracked
      BY <1>3 DEF registry, Tracked
    <2>2. RunsAreOwn' /\ OneEach' /\ AgreedOutsidePromotion' /\ LeftHoldsChampions'
      BY <2>1 DEF RegistryInv, RunsAreOwn, OneEach, AgreedOutsidePromotion, LeftHoldsChampions
    <2> QED
      BY <1>1, <2>2 DEF RegistryInv
  <1>4. (Train \/ TrainEnds \/ \E e \in Evaluation : Load(e) \/ Judge(e) \/ Save(e))
          => UNCHANGED registry
    BY DEF Train, TrainEnds, Load, Judge, Save
  <1>5. UNCHANGED vars => UNCHANGED registry
    BY DEF vars
  <1> QED
    BY <1>1, <1>2, <1>3, <1>4, <1>5, CallsKeepRegistry, RegisterKeepsRegistry,
       FailedRegistrationKeepsRegistry, DemoteKeepsRegistry, CrownKeepsRegistry DEF Next

\* The registry and its runs in MLflow stay in order whatever fails.
THEOREM RegistryInvariant == Spec => []RegistryInv
  BY InitRegistry, RegistryKept, PTL DEF Spec

\* Whatever promotions, failures and registrations follow one another, neither
\* the process nor MLflow, of the runs the process knows, has two champions.
THEOREM ChampionIsUnique == Spec => []AtMostOneChampion
  <1>1. RegistryInv => AtMostOneChampion
    BY DEF RegistryInv, OneEach, AtMostOneChampion, Champions
  <1> QED
    BY <1>1, RegistryInvariant, PTL

\* Between calls, the process and MLflow name the same champion unless the latest
\* promotion failed.
THEOREM ChampionIsAgreed == Spec => []ChampionAgreed
  <1>1. RegistryInv => ChampionAgreed
    <2> SUFFICES ASSUME RegistryInv, call = Idle, promoted # "failed", NEW v \in Tracked
                 PROVE  v \in Champions <=> role[models[v].run] = "champion"
      BY DEF ChampionAgreed
    <2>1. v \in Version /\ call.at = "idle"
      BY DEF Tracked, Idle
    <2> QED
      BY <2>1 DEF RegistryInv, AgreedOutsidePromotion, Champions
  <1> QED
    BY <1>1, RegistryInvariant, PTL

-----------------------------------------------------------------------------
(* Verdicts.                                                               *)

\* The order of the naturals, as a relation.
Below == {pair \in Nat \X Nat : pair[1] < pair[2]}

\* A set of natural numbers has a least one.
LEMMA LeastNatural ==
  ASSUME NEW T, T \subseteq Nat, T # {}
  PROVE  \E m \in T : \A n \in T : m <= n
  <1>1. IsWellFoundedOn(Below, Nat)
    BY NatLessThanWellFounded DEF OpToRel, Below
  <1>2. PICK m \in T : \A n \in T : ~(<<n, m>> \in Below)
    BY <1>1, WFMin
  <1>3. \A n \in T : ~(n < m) /\ m \in Nat /\ n \in Nat
    BY <1>2 DEF Below
  <1>4. \A n \in T : m <= n
    BY <1>3
  <1> QED
    BY <1>4

Measuring(e) == evaluation[e].at = "measuring"
Saving(e) == evaluation[e].at = "saving"

\* A report has the verdict of what the artifact file holds.
Agrees(report, file) == report.promotion_allowed <=> PromotionAllowed(file.build)

\* Reports, stored or not, are of times gone by.
ReportsAreDated ==
  /\ \A e \in Evaluation : Saving(e) => evaluation[e].report.evaluated_at <= clock
  /\ \A row \in reports : row.report.evaluated_at <= clock

\* Evaluations under way have report ids of their own.
IdsApart ==
  /\ \A e, f \in Evaluation :
       Saving(e) /\ Saving(f) /\ ReportId(evaluation[e].report) = ReportId(evaluation[f].report)
         => e = f
  /\ \A e, f \in Evaluation :
       Measuring(e) /\ Saving(f)
         => ReportId(evaluation[f].report) # <<CandidateOf[e], evaluation[e].trace>>

\* A row is replaced by a newer report.
RowsAreOlder ==
  \A e \in Evaluation, row \in reports :
    Saving(e) /\ ReportId(row.report) = ReportId(evaluation[e].report)
      => row.report.evaluated_at <= evaluation[e].report.evaluated_at

\* One evaluation measures at a time, and while one measures what the file held
\* before, none has read the file since.
OneMeasures ==
  /\ \A e, f \in Evaluation : Measuring(e) /\ Measuring(f) => e = f
  /\ \A e \in Evaluation : Measuring(e) /\ e \notin fresh => fresh = {}

\* Every report from that time on, stored or not, has the verdict of the file.
AgreedFrom(time) ==
  /\ \A f \in Evaluation :
       Saving(f) /\ evaluation[f].report.evaluated_at >= time =>
         Agrees(evaluation[f].report, artifact)
  /\ \A row \in reports :
       row.report.evaluated_at >= time => Agrees(row.report, artifact)

\* Evaluations of what the file holds measure that; nothing stamped after one of
\* them disagrees, and when one is answered there is a row to tell.
FreshAgree ==
  \A e \in fresh :
    /\ artifact.at = "trained"
    /\ Measuring(e) => evaluation[e].build = artifact.build
    /\ Saving(e) => AgreedFrom(evaluation[e].report.evaluated_at)
    /\ evaluation[e].at = "answered" =>
         \E row \in reports : AgreedFrom(row.report.evaluated_at)

\* The inductive invariant of the verdicts.
ReportsInOrder == ReportsAreDated /\ IdsApart /\ RowsAreOlder /\ OneMeasures /\ FreshAgree

VerdictInv == TypeOK /\ ReportsInOrder

LEMMA InitVerdict == Init => VerdictInv
  <1> SUFFICES ASSUME Init PROVE VerdictInv
    OBVIOUS
  <1>1. \A e \in Evaluation : evaluation[e].at = "idle"
    BY DEF Init, Idle
  <1>2. ReportsAreDated /\ IdsApart /\ RowsAreOlder /\ OneMeasures
    BY <1>1 DEF Init, ReportsAreDated, IdsApart, RowsAreOlder, OneMeasures, Saving, Measuring
  <1>3. FreshAgree
    BY DEF Init, FreshAgree
  <1> QED
    BY <1>2, <1>3, InitTypes DEF VerdictInv, ReportsInOrder

\* The times of reports are numbers, so that they can be compared.
LEMMA ReportTimes ==
  ASSUME VerdictInv
  PROVE  /\ clock \in Nat
         /\ \A e \in Evaluation : Saving(e) =>
              /\ evaluation[e].report.evaluated_at \in Nat
              /\ evaluation[e].report.evaluated_at <= clock
         /\ \A row \in reports :
              row.report.evaluated_at \in Nat /\ row.report.evaluated_at <= clock
  <1>1. /\ evaluation \in [Evaluation -> EvaluationStates] /\ reports \subseteq Rows
        /\ clock \in Nat
    BY TypesSplit DEF VerdictInv, OfflineTypes
  <1>2. \A e \in Evaluation : Saving(e) => evaluation[e].report \in Reports
    BY <1>1 DEF Saving, EvaluationStates, Idle
  <1>3. \A row \in reports : row.report \in Reports
    BY <1>1 DEF Rows
  <1>4. \A report \in Reports : report.evaluated_at \in Nat
    BY DEF Reports
  <1> QED
    BY <1>1, <1>2, <1>3, <1>4 DEF VerdictInv, ReportsInOrder, ReportsAreDated

\* A training makes every evaluation one of an earlier file.
LEMMA TrainingKeepsVerdicts ==
  ASSUME VerdictInv, Train \/ TrainEnds
  PROVE  ReportsInOrder'
  <1>1. UNCHANGED <<evaluation, reports, clock>>
    BY DEF Train, TrainEnds
  <1>2. fresh' = {}
    BY DEF Train, TrainEnds, VerdictInv, ReportsInOrder, FreshAgree
  <1>3. ReportsAreDated' /\ IdsApart' /\ RowsAreOlder'
    BY <1>1 DEF VerdictInv, ReportsInOrder, ReportsAreDated, IdsApart, RowsAreOlder, Saving,
       Measuring
  <1>4. OneMeasures'
    BY <1>1, <1>2 DEF VerdictInv, ReportsInOrder, OneMeasures, Measuring
  <1>5. FreshAgree'
    BY <1>2 DEF FreshAgree
  <1> QED
    BY <1>3, <1>4, <1>5 DEF ReportsInOrder

\* The file is read while nothing else measures, under an id not under way.
LEMMA LoadKeepsVerdicts ==
  ASSUME VerdictInv, NEW e \in Evaluation, Load(e)
  PROVE  ReportsInOrder'
  <1>1. /\ evaluation \in [Evaluation -> EvaluationStates]
        /\ UNCHANGED <<artifact, reports, clock>> /\ fresh \subseteq Evaluation
        /\ \A f \in Evaluation : ~Measuring(f)
        /\ evaluation[e].at = "idle"
    BY TypesSplit DEF VerdictInv, OfflineTypes, Load, LoopFree, Measuring, Idle
  <1>2. \A f \in Evaluation \ {e} : evaluation'[f] = evaluation[f]
    BY <1>1 DEF Load
  <1>3. \/ /\ artifact.at = "trained" /\ fresh' = fresh \cup {e}
           /\ evaluation'[e].at = "measuring" /\ evaluation'[e].build = artifact.build
           /\ ~UnderWay(<<CandidateOf[e], evaluation'[e].trace>>)
        \/ fresh' = fresh /\ evaluation'[e].at = "failed"
    <2>1. CASE artifact.at = "trained"
      <3>1. PICK trace \in Trace :
              /\ ~UnderWay(<<CandidateOf[e], trace>>)
              /\ evaluation' = [evaluation EXCEPT ![e] =
                   [at |-> "measuring", build |-> artifact.build, trace |-> trace]]
        BY <2>1 DEF Load
      <3> QED
        BY <1>1, <2>1, <3>1 DEF Load
    <2> QED
      BY <1>1, <2>1 DEF Load
  <1>4. /\ \A f \in Evaluation : Saving(f)' <=> Saving(f)
        /\ \A f \in Evaluation : Saving(f) => f # e /\ evaluation'[f] = evaluation[f]
        /\ \A f \in Evaluation : Measuring(f)' => f = e /\ e \in fresh'
    BY <1>1, <1>2, <1>3 DEF Saving, Measuring
  <1>5. ReportsAreDated' /\ RowsAreOlder'
    BY <1>1, <1>4 DEF VerdictInv, ReportsInOrder, ReportsAreDated, RowsAreOlder
  <1>6. IdsApart'
    <2>1. \A f \in Evaluation :
            Measuring(e)' /\ Saving(f)
              => ReportId(evaluation[f].report) # <<CandidateOf[e], evaluation'[e].trace>>
      BY <1>3 DEF UnderWay, Saving, Measuring
    <2>2. \A f \in Evaluation : Saving(f) => evaluation'[f].report = evaluation[f].report
      BY <1>4
    <2> QED
      BY <1>4, <2>1, <2>2 DEF VerdictInv, ReportsInOrder, IdsApart, ReportId
  <1>7. OneMeasures'
    BY <1>4 DEF OneMeasures
  <1>8. ASSUME NEW time, AgreedFrom(time) PROVE AgreedFrom(time)'
    BY <1>1, <1>4, <1>8 DEF AgreedFrom
  <1>9. FreshAgree'
    <2> SUFFICES ASSUME NEW f \in fresh'
                 PROVE  /\ artifact'.at = "trained"
                        /\ Measuring(f)' => evaluation'[f].build = artifact'.build
                        /\ Saving(f)' => AgreedFrom(evaluation[f].report.evaluated_at)'
                        /\ evaluation'[f].at = "answered" =>
                             \E row \in reports' : AgreedFrom(row.report.evaluated_at)'
      BY DEF FreshAgree
    <2>1. CASE f = e /\ evaluation'[e].at = "measuring"
      BY <1>1, <1>3, <2>1 DEF Saving
    <2>2. CASE f \in fresh /\ ~(f = e /\ evaluation'[e].at = "measuring")
      <3>1. /\ artifact.at = "trained" /\ f \in Evaluation
            /\ Saving(f) => AgreedFrom(evaluation[f].report.evaluated_at)
            /\ evaluation[f].at = "answered" =>
                 \E row \in reports : AgreedFrom(row.report.evaluated_at)
        BY <1>1, <2>2 DEF VerdictInv, ReportsInOrder, FreshAgree
      <3>2. evaluation'[f].at = "answered" => evaluation[f].at = "answered"
        BY <1>1, <1>2, <1>3, <3>1
      <3>3. ~Measuring(f)'
        BY <1>4, <2>2, <3>1 DEF Measuring
      <3>4. Saving(f)' => AgreedFrom(evaluation[f].report.evaluated_at)'
        BY <1>4, <1>8, <3>1
      <3>5. evaluation'[f].at = "answered" =>
              \E row \in reports' : AgreedFrom(row.report.evaluated_at)'
        BY <1>1, <1>8, <3>1, <3>2
      <3> QED
        BY <1>1, <3>1, <3>3, <3>4, <3>5
    <2> QED
      BY <1>3, <2>1, <2>2
  <1> QED
    BY <1>5, <1>6, <1>7, <1>9 DEF ReportsInOrder

\* The report of an evaluation is newer than all there are; while one of the file
\* as it is has been stamped, what measures measures that file.
LEMMA JudgeKeepsVerdicts ==
  ASSUME VerdictInv, NEW e \in Evaluation, Judge(e)
  PROVE  ReportsInOrder'
  <1> DEFINE report == ReportOf(e, evaluation[e].build, evaluation[e].trace, clock')
  <1>1. /\ evaluation \in [Evaluation -> EvaluationStates]
        /\ UNCHANGED <<artifact, reports, fresh>> /\ fresh \subseteq Evaluation
        /\ evaluation[e].at = "measuring" /\ Measuring(e) /\ ~Saving(e)
        /\ clock \in Nat /\ clock' = clock + 1
    BY TypesSplit DEF VerdictInv, OfflineTypes, Judge, Saving, Measuring
  <1>2. /\ evaluation'[e].at = "saving" /\ evaluation'[e].report = report
        /\ \A f \in Evaluation \ {e} : evaluation'[f] = evaluation[f]
    BY <1>1 DEF Judge
  <1>3. /\ ReportId(report) = <<CandidateOf[e], evaluation[e].trace>>
        /\ report.evaluated_at = clock + 1
        /\ report.promotion_allowed = PromotionAllowed(evaluation[e].build)
    BY <1>1 DEF ReportOf, ReportId
  <1> HIDE DEF report
  <1>4. /\ \A f \in Evaluation : Saving(f)' <=> f = e \/ Saving(f)
        /\ \A f \in Evaluation : Saving(f) =>
             /\ f # e /\ evaluation'[f].report = evaluation[f].report
             /\ evaluation[f].report.evaluated_at \in Nat
             /\ evaluation[f].report.evaluated_at <= clock
        /\ \A row \in reports :
             row.report.evaluated_at \in Nat /\ row.report.evaluated_at <= clock
    BY <1>1, <1>2, ReportTimes DEF Saving
  <1>5. ReportsAreDated'
    <2>1. \A f \in Evaluation : Saving(f)' => evaluation'[f].report.evaluated_at <= clock'
      BY <1>1, <1>2, <1>3, <1>4
    <2>2. \A row \in reports' : row.report.evaluated_at <= clock'
      BY <1>1, <1>4
    <2> QED
      BY <2>1, <2>2 DEF ReportsAreDated
  <1>6. \A f \in Evaluation : ~Measuring(f)'
    BY <1>1, <1>2 DEF VerdictInv, ReportsInOrder, OneMeasures, Measuring
  <1>7. IdsApart'
    <2>1. \A f \in Evaluation :
            Saving(f) => ReportId(evaluation[f].report) # ReportId(report)
      BY <1>1, <1>3 DEF VerdictInv, ReportsInOrder, IdsApart
    <2>2. ASSUME NEW f \in Evaluation, NEW g \in Evaluation, Saving(f)', Saving(g)',
                 ReportId(evaluation'[f].report) = ReportId(evaluation'[g].report)
          PROVE  f = g
      <3>1. CASE f = e
        BY <1>2, <1>4, <2>1, <2>2, <3>1
      <3>2. CASE g = e
        BY <1>2, <1>4, <2>1, <2>2, <3>2
      <3>3. CASE f # e /\ g # e
        BY <1>4, <2>2, <3>3 DEF VerdictInv, ReportsInOrder, IdsApart
      <3> QED
        BY <3>1, <3>2, <3>3
    <2> QED
      BY <1>6, <2>2 DEF IdsApart, ReportId
  <1>8. RowsAreOlder'
    <2> SUFFICES ASSUME NEW f \in Evaluation, NEW row \in reports, Saving(f)',
                        ReportId(row.report) = ReportId(evaluation'[f].report)
                 PROVE  row.report.evaluated_at <= evaluation'[f].report.evaluated_at
      BY <1>1 DEF RowsAreOlder, ReportId
    <2>1. CASE f = e
      BY <1>1, <1>2, <1>3, <1>4, <2>1
    <2>2. CASE f # e
      BY <1>4, <2>2 DEF VerdictInv, ReportsInOrder, RowsAreOlder
    <2> QED
      BY <2>1, <2>2
  <1>9. fresh # {} => Agrees(report, artifact')
    <2>1. fresh # {} => e \in fresh
      BY <1>1 DEF VerdictInv, ReportsInOrder, OneMeasures
    <2>2. fresh # {} => evaluation[e].build = artifact.build
      BY <1>1, <2>1 DEF VerdictInv, ReportsInOrder, FreshAgree
    <2> QED
      BY <1>1, <1>3, <2>2 DEF Agrees
  <1>10. ASSUME NEW time, AgreedFrom(time), fresh # {} PROVE AgreedFrom(time)'
    <2>1. ASSUME NEW f \in Evaluation, Saving(f)', evaluation'[f].report.evaluated_at >= time
          PROVE  Agrees(evaluation'[f].report, artifact')
      BY <1>1, <1>2, <1>4, <1>9, <1>10, <2>1 DEF AgreedFrom
    <2>2. \A row \in reports' :
            row.report.evaluated_at >= time => Agrees(row.report, artifact')
      BY <1>1, <1>10 DEF AgreedFrom
    <2> QED
      BY <2>1, <2>2 DEF AgreedFrom
  <1>11. ASSUME fresh # {}, NEW time, time = clock + 1 PROVE AgreedFrom(time)'
    <2>1. ASSUME NEW f \in Evaluation, Saving(f)', evaluation'[f].report.evaluated_at >= time
          PROVE  Agrees(evaluation'[f].report, artifact')
      <3>1. f = e
        BY <1>1, <1>4, <1>11, <2>1
      <3> QED
        BY <1>2, <1>9, <1>11, <3>1
    <2>2. \A row \in reports' : ~(row.report.evaluated_at >= time)
      BY <1>1, <1>4, <1>11
    <2> QED
      BY <2>1, <2>2 DEF AgreedFrom
  <1>12. FreshAgree'
    <2> SUFFICES ASSUME NEW f \in fresh
                 PROVE  /\ artifact'.at = "trained"
                        /\ Measuring(f)' => evaluation'[f].build = artifact'.build
                        /\ Saving(f)' => AgreedFrom(evaluation[f].report.evaluated_at)'
                        /\ evaluation'[f].at = "answered" =>
                             \E row \in reports' : AgreedFrom(row.report.evaluated_at)'
      BY <1>1 DEF FreshAgree
    <2>1. /\ artifact.at = "trained" /\ f \in Evaluation
          /\ Saving(f) => AgreedFrom(evaluation[f].report.evaluated_at)
          /\ evaluation[f].at = "answered" =>
               \E row \in reports : AgreedFrom(row.report.evaluated_at)
      BY <1>1 DEF VerdictInv, ReportsInOrder, FreshAgree
    <2>2. CASE f = e
      <3>0. PICK time : time = clock + 1
        OBVIOUS
      <3>1. AgreedFrom(time)' /\ evaluation'[f].report.evaluated_at = time
        BY <1>2, <1>3, <1>11, <2>2, <3>0
      <3>2. AgreedFrom(evaluation[f].report.evaluated_at)'
        BY <3>1
      <3> QED
        BY <1>1, <1>2, <1>6, <2>1, <2>2, <3>2
    <2>3. CASE f # e
      <3>1. Saving(f)' => AgreedFrom(evaluation[f].report.evaluated_at)'
        BY <1>4, <1>10, <2>1, <2>3
      <3>2. evaluation'[f].at = "answered" =>
              \E row \in reports' : AgreedFrom(row.report.evaluated_at)'
        BY <1>1, <1>2, <1>10, <2>1, <2>3
      <3> QED
        BY <1>1, <1>6, <2>1, <3>1, <3>2
    <2> QED
      BY <2>2, <2>3
  <1> QED
    BY <1>5, <1>6, <1>7, <1>8, <1>12 DEF ReportsInOrder, OneMeasures

\* What a save leaves: rows there were, and this report; the rows of other
\* evaluations stay.
LEMMA RowsAfterSave ==
  ASSUME NEW report, NEW time
  PROVE  /\ \A row \in Upserted(report, time) : row \in reports \/ row.report = report
         /\ \E row \in Upserted(report, time) : row.report = report
         /\ \A row \in reports :
              ReportId(row.report) # ReportId(report) => row \in Upserted(report, time)
  <1> DEFINE same == {row \in reports : ReportId(row.report) = ReportId(report)}
             new == IF same = {} THEN {Row(report, time)}
                    ELSE {Row(report, row.created_at) : row \in same}
  <1>1. Upserted(report, time) = (reports \ same) \cup new
    BY DEF Upserted
  <1>2. (\A row \in new : row.report = report) /\ new # {}
    <2>1. \A at : Row(report, at).report = report
      BY DEF Row
    <2>2. CASE same = {}
      <3>1. new = {Row(report, time)}
        BY <2>2
      <3> QED
        BY <2>1, <3>1
    <2>3. CASE same # {}
      <3>1. new = {Row(report, row.created_at) : row \in same}
        BY <2>3
      <3> HIDE DEF same
      <3> QED
        BY <2>1, <2>3, <3>1
    <2> QED
      BY <2>2, <2>3
  <1>3. \A row \in reports : ReportId(row.report) # ReportId(report) => row \notin same
    OBVIOUS
  <1> HIDE DEF same, new
  <1> QED
    BY <1>1, <1>2, <1>3

LEMMA SaveKeepsVerdicts ==
  ASSUME VerdictInv, NEW e \in Evaluation, Save(e)
  PROVE  ReportsInOrder'
  <1> DEFINE report == evaluation[e].report
  <1>1. /\ evaluation \in [Evaluation -> EvaluationStates]
        /\ UNCHANGED <<artifact, fresh>> /\ fresh \subseteq Evaluation
        /\ evaluation[e].at = "saving" /\ Saving(e)
        /\ \A f \in Evaluation : ~Measuring(f)
        /\ clock \in Nat /\ clock' = clock + 1
    BY TypesSplit DEF VerdictInv, OfflineTypes, Save, LoopFree, Saving, Measuring
  <1>2. /\ \A f \in Evaluation \ {e} : evaluation'[f] = evaluation[f]
        /\ \/ reports' = Upserted(report, clock') /\ evaluation'[e].at = "answered"
           \/ /\ reports' = reports \/ reports' = Upserted(report, clock')
              /\ evaluation'[e].at = "failed"
    BY <1>1 DEF Save
  <1> HIDE DEF report
  <1>3. /\ \A row \in reports' : row \in reports \/ row.report = report
        /\ evaluation'[e].at = "answered" => \E row \in reports' : row.report = report
        /\ \A row \in reports : row \in reports' \/
             (ReportId(row.report) = ReportId(report) /\ \E new \in reports' : new.report = report)
    BY <1>2, RowsAfterSave
  <1>4. /\ \A f \in Evaluation : Saving(f)' =>
             f # e /\ Saving(f) /\ evaluation'[f].report = evaluation[f].report
        /\ \A f \in Evaluation : ~Measuring(f)'
    BY <1>1, <1>2 DEF Saving, Measuring
  <1>5. /\ report.evaluated_at \in Nat /\ report.evaluated_at <= clock
        /\ \A row \in reports :
             row.report.evaluated_at \in Nat /\ row.report.evaluated_at <= clock
        /\ \A f \in Evaluation : Saving(f) =>
             /\ evaluation[f].report.evaluated_at \in Nat
             /\ evaluation[f].report.evaluated_at <= clock
    BY <1>1, ReportTimes DEF report
  <1>6. ReportsAreDated'
    <2>1. \A f \in Evaluation : Saving(f)' => evaluation'[f].report.evaluated_at <= clock'
      BY <1>1, <1>4, <1>5
    <2>2. \A row \in reports' : row.report.evaluated_at <= clock'
      BY <1>1, <1>3, <1>5
    <2> QED
      BY <2>1, <2>2 DEF ReportsAreDated
  <1>7. IdsApart'
    BY <1>4 DEF VerdictInv, ReportsInOrder, IdsApart, ReportId
  <1>8. RowsAreOlder'
    <2> SUFFICES ASSUME NEW f \in Evaluation, NEW row \in reports', Saving(f)',
                        ReportId(row.report) = ReportId(evaluation'[f].report)
                 PROVE  row.report.evaluated_at <= evaluation'[f].report.evaluated_at
      BY DEF RowsAreOlder, ReportId
    <2>1. row.report # report
      BY <1>1, <1>4 DEF VerdictInv, ReportsInOrder, IdsApart, report
    <2>2. row \in reports
      BY <1>3, <2>1
    <2> QED
      BY <1>4, <2>2 DEF VerdictInv, ReportsInOrder, RowsAreOlder
  <1>9. ASSUME NEW time, AgreedFrom(time) PROVE AgreedFrom(time)'
    <2>1. \A f \in Evaluation :
            Saving(f)' /\ evaluation'[f].report.evaluated_at >= time =>
              Agrees(evaluation'[f].report, artifact')
      BY <1>1, <1>4, <1>9 DEF AgreedFrom
    <2>2. report.evaluated_at >= time => Agrees(report, artifact')
      BY <1>1, <1>9 DEF AgreedFrom, report
    <2>3. \A row \in reports' :
            row.report.evaluated_at >= time => Agrees(row.report, artifact')
      BY <1>1, <1>3, <1>9, <2>2 DEF AgreedFrom
    <2> QED
      BY <2>1, <2>3 DEF AgreedFrom
  <1>10. ASSUME NEW row \in reports, AgreedFrom(row.report.evaluated_at)
         PROVE  \E new \in reports' : AgreedFrom(new.report.evaluated_at)'
    <2>1. CASE row \in reports'
      BY <1>9, <1>10, <2>1
    <2>2. CASE row \notin reports'
      <3>1. ReportId(row.report) = ReportId(report)
        BY <1>3, <2>2
      <3>2. row.report.evaluated_at <= report.evaluated_at
        BY <1>1, <3>1 DEF VerdictInv, ReportsInOrder, RowsAreOlder, report
      <3>3. AgreedFrom(report.evaluated_at)
        BY <1>5, <1>10, <3>2 DEF AgreedFrom
      <3>4. PICK new \in reports' : new.report = report
        BY <1>3, <2>2
      <3>5. AgreedFrom(new.report.evaluated_at)'
        <4>1. new.report.evaluated_at = report.evaluated_at
          BY <3>4
        <4>2. AgreedFrom(new.report.evaluated_at)
          BY <3>3, <4>1
        <4> QED
          BY <1>9, <4>2
      <3> QED
        BY <3>5
    <2> QED
      BY <2>1, <2>2
  <1>11. FreshAgree'
    <2> SUFFICES ASSUME NEW f \in fresh
                 PROVE  /\ artifact'.at = "trained"
                        /\ Measuring(f)' => evaluation'[f].build = artifact'.build
                        /\ Saving(f)' => AgreedFrom(evaluation[f].report.evaluated_at)'
                        /\ evaluation'[f].at = "answered" =>
                             \E row \in reports' : AgreedFrom(row.report.evaluated_at)'
      BY <1>1 DEF FreshAgree
    <2>1. /\ artifact.at = "trained" /\ f \in Evaluation
          /\ Saving(f) => AgreedFrom(evaluation[f].report.evaluated_at)
          /\ evaluation[f].at = "answered" =>
               \E row \in reports : AgreedFrom(row.report.evaluated_at)
      BY <1>1 DEF VerdictInv, ReportsInOrder, FreshAgree
    <2>2. Saving(f)' => AgreedFrom(evaluation[f].report.evaluated_at)'
      BY <1>4, <1>9, <2>1
    <2>3. CASE f = e
      <3>1. AgreedFrom(report.evaluated_at)
        BY <1>1, <2>1, <2>3 DEF report
      <3>2. ASSUME NEW row \in reports', row.report = report
            PROVE  AgreedFrom(row.report.evaluated_at)'
        <4>1. AgreedFrom(row.report.evaluated_at)
          BY <3>1, <3>2
        <4> QED
          BY <1>9, <4>1
      <3> QED
        BY <1>1, <1>3, <1>4, <2>1, <2>2, <2>3, <3>2
    <2>4. CASE f # e
      <3>1. evaluation'[f] = evaluation[f]
        BY <1>2, <2>1, <2>4
      <3> QED
        BY <1>1, <1>4, <1>10, <2>1, <2>2, <3>1
    <2> QED
      BY <2>3, <2>4
  <1> QED
    BY <1>4, <1>6, <1>7, <1>8, <1>11 DEF ReportsInOrder, OneMeasures

\* A restart ends the evaluations under way.
LEMMA RestartKeepsVerdicts ==
  ASSUME VerdictInv, Restart
  PROVE  ReportsInOrder'
  <1>1. /\ UNCHANGED <<artifact, reports, clock, fresh>> /\ fresh \subseteq Evaluation
        /\ \A f \in Evaluation :
             evaluation'[f] = IF evaluation[f].at \in {"measuring", "saving"}
                              THEN [at |-> "failed"] ELSE evaluation[f]
    BY TypesSplit DEF VerdictInv, OfflineTypes, Restart
  <1>2. \A f \in Evaluation :
          /\ ~Measuring(f)' /\ ~Saving(f)'
          /\ evaluation'[f].at = "answered" => evaluation[f].at = "answered"
    BY <1>1 DEF Measuring, Saving
  <1>3. ReportsAreDated' /\ IdsApart' /\ RowsAreOlder' /\ OneMeasures'
    BY <1>1, <1>2
    DEF VerdictInv, ReportsInOrder, ReportsAreDated, IdsApart, RowsAreOlder, OneMeasures
  <1>4. ASSUME NEW time, AgreedFrom(time) PROVE AgreedFrom(time)'
    BY <1>1, <1>2, <1>4 DEF AgreedFrom
  <1>5. FreshAgree'
    <2>1. ASSUME NEW f \in fresh
          PROVE  /\ f \in Evaluation /\ artifact'.at = "trained"
                 /\ evaluation[f].at = "answered" =>
                      \E row \in reports' : AgreedFrom(row.report.evaluated_at)'
      BY <1>1, <1>4 DEF VerdictInv, ReportsInOrder, FreshAgree
    <2> QED
      BY <1>1, <1>2, <2>1 DEF FreshAgree
  <1> QED
    BY <1>3, <1>5 DEF ReportsInOrder

\* The registry leaves them alone.
LEMMA RegistryKeepsVerdicts ==
  ASSUME VerdictInv, UNCHANGED offline
  PROVE  ReportsInOrder'
  <1>1. UNCHANGED <<artifact, evaluation, reports, clock, fresh>>
    BY DEF offline
  <1> QED
    BY <1>1 DEF VerdictInv, ReportsInOrder, ReportsAreDated, IdsApart, RowsAreOlder, OneMeasures,
       FreshAgree, AgreedFrom, Saving, Measuring

LEMMA VerdictKept ==
  ASSUME VerdictInv, [Next]_vars
  PROVE  VerdictInv'
  <1>1. TypeOK'
    BY TypesKept DEF VerdictInv
  <1>2. \/ UNCHANGED offline \/ Train \/ TrainEnds \/ Restart
        \/ \E e \in Evaluation : Load(e) \/ Judge(e) \/ Save(e)
    BY DEF Next, vars, CallRegister, CallPromote, Register, RegisterFails, Demote, Crown
  <1> QED
    BY <1>1, <1>2, TrainingKeepsVerdicts, LoadKeepsVerdicts, JudgeKeepsVerdicts,
       SaveKeepsVerdicts, RestartKeepsVerdicts, RegistryKeepsVerdicts DEF VerdictInv

\* Reports and their verdicts stay in order, whatever is trained, evaluated or lost.
THEOREM VerdictInvariant == Spec => []VerdictInv
  BY InitVerdict, VerdictKept, PTL DEF Spec

\* A history that is not empty has a first row.
LEMMA HistoryHasAFirstRow ==
  ASSUME reports \subseteq Rows, reports # {}, clock \in Nat,
         \A row \in reports : row.report.evaluated_at <= clock
  PROVE  Latest # {}
  <1> DEFINE Age(row) == clock - row.report.evaluated_at
             Ages == {Age(row) : row \in reports}
  <1>1. \A row \in reports : row.report.evaluated_at \in Nat
    BY DEF Rows, Reports
  <1>2. Ages \subseteq Nat /\ Ages # {}
    BY <1>1
  <1>3. PICK age \in Ages : \A other \in Ages : age <= other
    <2> HIDE DEF Ages
    <2> QED
      BY <1>2, LeastNatural
  <1>4. PICK row \in reports : age = Age(row)
    BY <1>3
  <1>5. \A other \in reports : Age(row) <= Age(other)
    BY <1>3, <1>4
  <1>6. \A other \in reports : Newer(row, other)
    BY <1>1, <1>4, <1>5 DEF Newer
  <1> QED
    BY <1>6 DEF Latest

\* Once an evaluation of what the artifact file holds has been answered, the first
\* row of the history has the verdict of that artifact: evaluations overlap, and
\* those of earlier artifacts may be stored after it.
THEOREM LatestVerdictsAreCurrent == Spec => []LatestVerdictIsCurrent
  <1>1. VerdictInv => LatestVerdictIsCurrent
    <2> SUFFICES ASSUME VerdictInv, NEW e \in fresh, evaluation[e].at = "answered"
                 PROVE  /\ Latest # {}
                        /\ \A row \in Latest :
                             row.report.promotion_allowed <=> PromotionAllowed(artifact.build)
      BY DEF LatestVerdictIsCurrent
    <2>1. reports \subseteq Rows
      BY TypesSplit DEF VerdictInv, OfflineTypes
    <2>2. PICK stored \in reports : AgreedFrom(stored.report.evaluated_at)
      BY DEF VerdictInv, ReportsInOrder, FreshAgree
    <2>3. Latest # {}
      BY <2>1, <2>2, ReportTimes, HistoryHasAFirstRow
    <2>4. ASSUME NEW row \in Latest
          PROVE  row.report.promotion_allowed <=> PromotionAllowed(artifact.build)
      <3>1. row \in reports /\ row.report.evaluated_at >= stored.report.evaluated_at
        BY DEF Latest, Newer
      <3> QED
        BY <2>2, <3>1 DEF AgreedFrom, Agrees
    <2> QED
      BY <2>3, <2>4
  <1> QED
    BY <1>1, VerdictInvariant, PTL
=============================================================================
