---------------------------- MODULE ContextAssembly ----------------------------
(***************************************************************************)
(* ContextAssemblyService.assemble (platform/layer1_context/service.py):   *)
(* assemblies that fetch a customer's sources concurrently, score the      *)
(* normalised profile, look up the long-term memory, store the profile     *)
(* under its session and record what they did, with the context store and  *)
(* the audit log they share.                                               *)
(*                                                                         *)
(* The stores are ValkeyContextStore (EX, NX) and PostgresAuditWriter.  A  *)
(* step is the code between two awaits; every await may also raise.        *)
(***************************************************************************)
EXTENDS Naturals, FiniteSets

CONSTANTS
  Assembly,      \* calls of assemble()
  SessionOf,     \* SessionOf[a]: its session_id
  CustomerOf,    \* CustomerOf[a]: its customer_id
  Source,        \* names of the source adapters
  StagesOf,      \* StagesOf[a]: the optional stages its service was built with
  MaxSecond,     \* bound on the clock, in seconds
  MaxRefusals    \* bound on store calls that fail

ASSUME AssemblyAssumption ==
  /\ MaxSecond \in Nat
  /\ MaxRefusals \in Nat
  /\ Source \cap {"ml_scoring", "memory", "feature_store"} = {}
  /\ Source \subseteq {"card", "banking", "crm", "behavioral"}
  /\ StagesOf \in [Assembly -> SUBSET {"ml_scoring", "memory"}]

Session == {SessionOf[a] : a \in Assembly}

None == [assembled_by |-> "nobody"]

\* The two optional stages of assemble(), which are None unless they are given;
\* what the profile of an assembly reports on, and all that any profile can.
Stage == {"ml_scoring", "memory"}
Reported(a) == Source \cup StagesOf[a] \cup {"feature_store"}
Reportable == Source \cup Stage \cup {"feature_store"}

VARIABLES
  pc,             \* pc[a]: the await assemble() is at
  fetch,          \* fetch[a][s]: what became of the fetch from source s
  profile,        \* profile[a]: the CustomerProfile a builds
  assembled_at,   \* assembled_at[a]: its timestamp, in seconds
  context,        \* context[s]: the profile under session s, or None
  audit_log,      \* rows of the audit log
  stored,         \* history: stored[a] holds what a's profile called degraded when
                  \* it reached the store, and nothing before
  second,         \* the clock, read when a profile is timestamped
  refusals        \* store calls that failed so far

local == <<pc, fetch, profile, assembled_at>>
shared == <<context, audit_log, stored, refusals>>
vars == <<local, shared, second>>

\* CustomerProfile: which parts hold the normaliser's defaults instead of
\* customer data, which defaults the model scores were computed from, whether
\* memories came along, and what the profile says about all that.
Blank ==
  [defaulted |-> {}, scored_from |-> {}, memories |-> FALSE,
   available |-> {}, degraded |-> {}, partial_context |-> FALSE]

NoneFetched == [s \in Source |-> "pending"]

Init ==
  /\ pc           = [a \in Assembly |-> "idle"]
  /\ fetch        = [a \in Assembly |-> NoneFetched]
  /\ profile      = [a \in Assembly |-> Blank]
  /\ assembled_at = [a \in Assembly |-> 0]
  /\ context      = [s \in Session |-> None]
  /\ audit_log    = {}
  /\ stored       = [a \in Assembly |-> {}]
  /\ second       = 0
  /\ refusals     = 0

Goto(a, step) == pc' = [pc EXCEPT ![a] = step]

\* assemble() returns or an exception leaves it: what it built is gone, what it
\* wrote stays.
Leave(a, how) ==
  /\ Goto(a, how)
  /\ fetch' = [fetch EXCEPT ![a] = NoneFetched]
  /\ profile' = [profile EXCEPT ![a] = Blank]
  /\ assembled_at' = [assembled_at EXCEPT ![a] = 0]

Raise(a) == Leave(a, "failed")

Refusal == refusals < MaxRefusals /\ refusals' = refusals + 1

-----------------------------------------------------------------------------
(* The sources, fetched concurrently.                                      *)

Begin(a) ==
  /\ pc[a] = "idle"
  /\ Goto(a, "fetching")
  /\ UNCHANGED <<fetch, profile, assembled_at, shared, second>>

Fetching(a, s) == pc[a] = "fetching" /\ fetch[a][s] = "pending"

Answer(a, s, outcome) ==
  /\ fetch' = [fetch EXCEPT ![a][s] = outcome]
  /\ UNCHANGED <<pc, profile, assembled_at, shared, second>>

\* The adapter answers: with the customer's data, in the fields the normaliser
\* reads or without one of them, or with SourceUnavailableError.
FetchAnswers(a, s) ==
  /\ Fetching(a, s)
  /\ \E outcome \in {"data", "malformed", "lost"} : Answer(a, s, outcome)

NeverTimesOut(a, s) ==   \* faulty variant: the fetch is awaited without a limit
  FALSE /\ Answer(a, s, "lost")

\* asyncio.wait_for: the limit of a source has passed.
FetchTimesOut(a, s) == Fetching(a, s) /\ Answer(a, s, "lost")

\* Any other exception (KeyError for a customer the source does not know) goes
\* through gather(), which does not wait for the other fetches.
FetchRaises(a, s) ==
  /\ Fetching(a, s)
  /\ Raise(a)
  /\ UNCHANGED <<shared, second>>

Gathered(a) == pc[a] = "fetching" /\ \A s \in Source : fetch[a][s] # "pending"

Degraded(a) == {s \in Source : fetch[a][s] = "lost"}

-----------------------------------------------------------------------------
(* Signals, normalisation and scores.                                      *)

UpdatedForSources(p) ==   \* faulty variant: only the source systems count
  [p EXCEPT !.partial_context = p.degraded \cap Source # {}]

\* profile.model_copy: whether the context is partial is computed anew.
Updated(p) == [p EXCEPT !.partial_context = p.degraded # {}]

\* normalize_card, _banking, _crm and _behavioral give defaults for no data.
Defaults(a) == {s \in Source : fetch[a][s] # "data"}

\* normalize_customer_profile.
Normalize(a) ==
  Updated([Blank EXCEPT !.defaulted = Defaults(a),
                        !.available = (Source \ Degraded(a)) \cup {"feature_store"},
                        !.degraded  = Degraded(a)])

\* if self._memory_store is not None.
AfterScores(a) == IF "memory" \in StagesOf[a] THEN "remembering" ELSE "storing"

\* if self._ml_scoring_service is not None.
AfterSignals(a) == IF "ml_scoring" \in StagesOf[a] THEN "scoring" ELSE AfterScores(a)

\* pull_signals: the feature store, or the fixtures where it has no (complete)
\* row for the customer; both count as available.
PullSignals(a) ==
  /\ Gathered(a)
  /\ \A s \in Source : fetch[a][s] # "malformed"
  /\ profile' = [profile EXCEPT ![a] = Normalize(a)]
  /\ second' \in second .. MaxSecond             \* time has passed
  /\ assembled_at' = [assembled_at EXCEPT ![a] = second']
  /\ fetch' = [fetch EXCEPT ![a] = NoneFetched]   \* the profile has it all
  /\ Goto(a, AfterSignals(a))
  /\ UNCHANGED shared

\* get_signals fails otherwise than for an incomplete row, or there is no fixture.
LoseSignals(a) ==
  /\ Gathered(a)
  /\ Raise(a)
  /\ UNCHANGED <<shared, second>>

\* The normaliser misses a field it reads without a default.
NormalizeFails(a) ==
  /\ Gathered(a)
  /\ \E s \in Source : fetch[a][s] = "malformed"
  /\ Raise(a)
  /\ UNCHANGED <<shared, second>>

\* What extract_payment_risk_features and extract_churn_features read.
Features == {"card", "banking", "crm"}

Gain(p, stage) == [p EXCEPT !.available = @ \cup {stage}]
Lose(p, stage) == [p EXCEPT !.degraded = @ \cup {stage}]

\* _score_sync: scores computed on a thread from whatever the profile holds,
\* defaults included.
Scored(p) == [Gain(p, "ml_scoring") EXCEPT !.scored_from = p.defaulted \cap Features]

\* score raises: no artifact, or one that does not fit; the signals stay as they are.
Unscored(p) == Lose(p, "ml_scoring")

\* _score_profile.
Score(a) ==
  /\ pc[a] = "scoring"
  /\ \E p \in {Scored(profile[a]), Unscored(profile[a])} :
       profile' = [profile EXCEPT ![a] = Updated(p)]
  /\ Goto(a, AfterScores(a))
  /\ UNCHANGED <<fetch, assembled_at, shared, second>>

-----------------------------------------------------------------------------
(* The long-term memory.                                                   *)

MemoryId(a) == <<"memory", a>>   \* its timestamp has microseconds

\* ON CONFLICT (audit_id) DO NOTHING.
Inserted(row) ==
  IF \E other \in audit_log : other.audit_id = row.audit_id
  THEN audit_log
  ELSE audit_log \cup {row}

MemoryRow(a, missing) ==
  [audit_id |-> MemoryId(a), event |-> "MEMORY_RETRIEVED", about |-> a, missing |-> missing]

\* QdrantMemoryStore.retrieve finds memories, or none, or fails.
RetrieveMemory(a) ==
  /\ pc[a] = "remembering"
  /\ \/ \E found \in BOOLEAN : profile' = [profile EXCEPT ![a].memories = found]
        /\ Goto(a, "noting")
     \/ Goto(a, "noting_loss") /\ UNCHANGED profile
  /\ UNCHANGED <<fetch, assembled_at, shared, second>>

\* A write to the log that fails, before the row is there or after.
WriteFails(row) == Refusal /\ audit_log' \in {audit_log, Inserted(row)}

NoteUnawaited(a) ==   \* faulty variant: the record is left to a task of its own
  /\ pc[a] = "noting"
  /\ profile' = [profile EXCEPT ![a] = Updated(Gain(@, "memory"))]
  /\ Goto(a, "storing")
  /\ UNCHANGED <<fetch, assembled_at, shared, second>>

\* The record of a retrieval is written inside the try of the retrieval: if the
\* write fails, the memories are given up.
NoteRetrieval(a) ==
  LET row == MemoryRow(a, {})
  IN /\ pc[a] = "noting"
     /\ \/ /\ audit_log' = Inserted(row)
           /\ profile' = [profile EXCEPT ![a] = Updated(Gain(@, "memory"))]
           /\ Goto(a, "storing")
           /\ UNCHANGED refusals
        \/ /\ WriteFails(row)
           /\ profile' = [profile EXCEPT ![a].memories = FALSE]
           /\ Goto(a, "noting_loss")
     /\ UNCHANGED <<fetch, assembled_at, context, stored, second>>

\* The record of a loss has the same id; if it fails too, so does assemble().
NoteLoss(a) ==
  LET row == MemoryRow(a, {"memory"})
  IN /\ pc[a] = "noting_loss"
     /\ \/ /\ audit_log' = Inserted(row)
           /\ profile' = [profile EXCEPT ![a] = Updated(Lose(@, "memory"))]
           /\ Goto(a, "storing")
           /\ UNCHANGED <<fetch, assembled_at, refusals>>
        \/ WriteFails(row) /\ Raise(a)
     /\ UNCHANGED <<context, stored, second>>

-----------------------------------------------------------------------------
(* The profile and its record.                                             *)

Written(a) ==
  context' = [context EXCEPT ![SessionOf[a]] =
                [assembled_by |-> a, profile |-> profile[a]]]

FreeAlways(a) == TRUE   \* faulty variant: SET without NX

\* SET NX of ValkeyContextStore.
Free(a) == context[SessionOf[a]] = None

StoreProfile(a) ==
  /\ pc[a] = "storing"
  /\ Free(a)
  /\ Written(a)
  /\ stored' = [stored EXCEPT ![a] = {profile[a].degraded}]
  /\ \/ /\ Goto(a, "recording")
        /\ UNCHANGED <<fetch, profile, assembled_at, refusals>>
     \/ Raise(a) /\ Refusal                  \* the reply is lost
  /\ UNCHANGED <<audit_log, second>>

\* DuplicateSessionError, or the store fails.
StoreRefuses(a) ==
  /\ pc[a] = "storing"
  /\ Refusal \/ (~Free(a) /\ UNCHANGED refusals)
  /\ Raise(a)
  /\ UNCHANGED <<context, audit_log, stored, second>>

\* The id of the record has a resolution of one second per customer.
ContextRow(a) ==
  [audit_id |-> <<"context", CustomerOf[a], assembled_at[a]>>,
   event    |-> "CONTEXT_ASSEMBLY",
   about    |-> a,
   missing  |-> profile[a].degraded]

RecordAssembly(a) ==
  /\ pc[a] = "recording"
  /\ \/ /\ audit_log' = Inserted(ContextRow(a))
        /\ Leave(a, "done")
        /\ UNCHANGED refusals
     \/ WriteFails(ContextRow(a)) /\ Raise(a)
  /\ UNCHANGED <<context, stored, second>>

\* The time to live of a profile ends (EX).
Expire(s) ==
  /\ context[s] # None
  /\ context' = [context EXCEPT ![s] = None]
  /\ UNCHANGED <<local, audit_log, stored, second, refusals>>

-----------------------------------------------------------------------------
\* What assemble() does by itself, whatever the sources do.
Proceed(a) ==
  \/ \E s \in Source : FetchTimesOut(a, s)
  \/ PullSignals(a) \/ LoseSignals(a) \/ NormalizeFails(a) \/ Score(a)
  \/ RetrieveMemory(a) \/ NoteRetrieval(a) \/ NoteLoss(a)
  \/ StoreProfile(a) \/ StoreRefuses(a) \/ RecordAssembly(a)

Next ==
  \/ \E a \in Assembly :
       \/ Begin(a)
       \/ \E s \in Source : FetchAnswers(a, s) \/ FetchRaises(a, s)
       \/ Proceed(a)
  \/ \E s \in Session : Expire(s)

Spec == Init /\ [][Next]_vars

\* Timers fire, threads finish and the stores answer or fail: while an assembly
\* can proceed, one does.  No source has to answer, nobody has to begin an
\* assembly and no profile has to expire.
FairSpec == Spec /\ WF_vars(\E a \in Assembly : Proceed(a))

-----------------------------------------------------------------------------
(* Properties.                                                             *)

Steps == {"idle", "fetching", "scoring", "remembering", "noting", "noting_loss",
          "storing", "recording", "done", "failed"}

Profiles ==
  [defaulted : SUBSET Source, scored_from : SUBSET Source, memories : BOOLEAN,
   available : SUBSET Reportable, degraded : SUBSET Reportable, partial_context : BOOLEAN]

\* Every variable holds a value of its kind; a stored profile names its assembly.
TypeOK ==
  /\ pc \in [Assembly -> Steps]
  /\ fetch \in [Assembly -> [Source -> {"pending", "data", "malformed", "lost"}]]
  /\ profile \in [Assembly -> Profiles]
  /\ assembled_at \in [Assembly -> 0 .. MaxSecond]
  /\ context \in [Session -> {None} \cup [assembled_by : Assembly, profile : Profiles]]
  /\ audit_log \subseteq
       [audit_id : {<<"memory", a>> : a \in Assembly}
                     \cup {<<"context", CustomerOf[a], t>> : a \in Assembly, t \in 0 .. MaxSecond},
        event    : {"MEMORY_RETRIEVED", "CONTEXT_ASSEMBLY"},
        about    : Assembly,
        missing  : SUBSET Reportable]
  /\ stored \in [Assembly -> SUBSET SUBSET Reportable]
  /\ second \in 0 .. MaxSecond
  /\ refusals \in 0 .. MaxRefusals

\* The later layers reason on a profile without seeing how it was assembled: it
\* must tell them its gaps.  The parts that hold invented defaults are those of
\* the sources it calls degraded, everything its service consults is reported
\* once, and nothing else, whichever stages that service was built with, and
\* only a profile without any gap - also in scores and memory - passes for
\* complete, so scores computed from defaults never come on a complete profile.
TellsItsGaps(a, p) ==
  /\ p.defaulted = p.degraded \cap Source
  /\ p.available \cap p.degraded = {}
  /\ p.available \cup p.degraded = Reported(a)
  /\ p.partial_context <=> p.degraded # {}
  /\ p.scored_from # {} => p.partial_context
  /\ p.memories => "memory" \in p.available

ProfilesTellTheirGaps ==
  \A s \in Session :
    context[s] # None => TellsItsGaps(context[s].assembled_by, context[s].profile)

\* Long-term memory is customer data: a profile that may carry memories has the
\* record of their retrieval in the log before anybody can read it, also when
\* writes to the log fail or fail after the fact.
MemoriesAreOnRecord ==
  \A s \in Session :
    context[s] # None /\ "memory" \in context[s].profile.available =>
      \E row \in audit_log :
        /\ row.event = "MEMORY_RETRIEVED"
        /\ row.about = context[s].assembled_by
        /\ row.missing = {}

\* An assembly that has begun ends, although none of its sources may ever answer:
\* again and again no assembly is under way.
AssembliesEnd == []<>(\A a \in Assembly : pc[a] \in {"idle", "done", "failed"})

\* The assemblies, retries of a session included, implement the snapshot the
\* other layers rely on: published once per session, with its gaps, until it
\* expires, and attested only after it was published, as it was published.
Snapshot ==
  INSTANCE ContextSnapshot WITH
    Missing   <- Reportable,
    snapshot  <- [s \in Session |-> IF context[s] = None THEN {} ELSE {context[s].assembled_by}],
    published <- stored,
    evidence  <- [a \in Assembly |->
                    {row.missing : row \in {r \in audit_log :
                                               r.event = "CONTEXT_ASSEMBLY" /\ r.about = a}}]

ImplementsSnapshot == Snapshot!Spec
=============================================================================
