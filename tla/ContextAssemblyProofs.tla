------------------------- MODULE ContextAssemblyProofs -------------------------
(***************************************************************************)
(* What holds of ContextAssembly for any assemblies, sessions, customers,  *)
(* sources, timestamps and number of store calls that fail.                *)
(***************************************************************************)
EXTENDS ContextAssembly, TLAPS

\* A profile tells its gaps among the parts that were consulted so far.
GapsAmong(p, consulted) ==
  /\ p.defaulted = p.degraded \cap Source
  /\ p.available \cap p.degraded = {}
  /\ p.available \cup p.degraded = consulted
  /\ p.partial_context <=> p.degraded # {}
  /\ p.scored_from # {} => p.partial_context

\* The profile under construction: which parts it reports on at each await, and
\* that it carries memories only between their retrieval and its record.
ProfileSoFar(a) ==
  /\ pc[a] = "scoring" =>
       "ml_scoring" \in StagesOf[a] /\ GapsAmong(profile[a], Source \cup {"feature_store"})
  /\ pc[a] \in {"remembering", "noting", "noting_loss"} =>
       "memory" \in StagesOf[a] /\ GapsAmong(profile[a], Reported(a) \ {"memory"})
  /\ pc[a] \in {"scoring", "remembering", "noting_loss"} => ~profile[a].memories
  /\ pc[a] \in {"storing", "recording"} => TellsItsGaps(a, profile[a])

\* The log has the record of a retrieval that found its memories.
RetrievalOnRecord(a) ==
  \E row \in audit_log :
    row.event = "MEMORY_RETRIEVED" /\ row.about = a /\ row.missing = {}

\* The record of a retrieval is free until the retrieval is noted, because the
\* record of a loss takes the same id; a profile that reports memories has it.
MemorySoFar(a) ==
  /\ pc[a] \in {"idle", "fetching", "scoring", "remembering", "noting"} =>
       \A row \in audit_log : row.audit_id # MemoryId(a)
  /\ pc[a] \in {"storing", "recording"} /\ "memory" \in profile[a].available =>
       RetrievalOnRecord(a)

\* Nothing is published before StoreProfile, and what waits for its record is
\* the profile that was published.
StoredSoFar(a) ==
  /\ pc[a] \notin {"recording", "done", "failed"} => stored[a] = {}
  /\ pc[a] = "recording" => stored[a] = {profile[a].degraded}

\* What the log says of an assembly is what its published profile said.
LogTellsWhatWasStored ==
  \A row \in audit_log : row.event = "CONTEXT_ASSEMBLY" => row.missing \in stored[row.about]

SoFar(a) == ProfileSoFar(a) /\ MemorySoFar(a) /\ StoredSoFar(a)

AssembliesSoFar == \A a \in Assembly : SoFar(a)

\* The inductive invariant: the two properties speak of stored profiles, which
\* are what the assemblies were building.
AssemblyInv ==
  /\ TypeOK
  /\ AssembliesSoFar
  /\ LogTellsWhatWasStored
  /\ ProfilesTellTheirGaps
  /\ MemoriesAreOnRecord

-----------------------------------------------------------------------------
(* Types.                                                                  *)

\* What the normaliser and the stages build is a profile.
LEMMA NormalizedTypes ==
  ASSUME TypeOK, NEW a \in Assembly
  PROVE  Normalize(a) \in Profiles
  BY DEF Normalize, Updated, Blank, Defaults, Degraded, Profiles, Reportable, Stage

\* Recomputing whether the context is partial, and reporting a stage as
\* available or as degraded, keeps a profile a profile.
LEMMA ReportTypes ==
  ASSUME NEW p \in Profiles, NEW stage \in Stage
  PROVE  /\ Updated(p) \in Profiles
         /\ Gain(p, stage) \in Profiles
         /\ Lose(p, stage) \in Profiles
  BY DEF Updated, Gain, Lose, Profiles, Reportable

\* Both outcomes of scoring are profiles.
LEMMA ScoreTypes ==
  ASSUME NEW p \in Profiles
  PROVE  Updated(Scored(p)) \in Profiles /\ Updated(Unscored(p)) \in Profiles
  <1>1. "ml_scoring" \in Stage
    BY DEF Stage
  <1>2. Gain(p, "ml_scoring") \in Profiles
    BY <1>1, ReportTypes
  <1>3. p.defaulted \cap Features \in SUBSET Source
    BY DEF Profiles
  <1>4. Scored(p) \in Profiles
    BY <1>2, <1>3 DEF Scored, Profiles
  <1>5. Unscored(p) \in Profiles
    BY <1>1, ReportTypes DEF Unscored
  <1> QED
    BY <1>1, <1>4, <1>5, ReportTypes

\* An insertion keeps the rows there are and adds at most its own.
LEMMA InsertedRows ==
  ASSUME NEW row
  PROVE  audit_log \subseteq Inserted(row) /\ Inserted(row) \subseteq audit_log \cup {row}
  BY DEF Inserted

\* The rows of the log.
Rows ==
  [audit_id : {<<"memory", a>> : a \in Assembly}
                \cup {<<"context", CustomerOf[a], t>> : a \in Assembly, t \in 0 .. MaxSecond},
   event    : {"MEMORY_RETRIEVED", "CONTEXT_ASSEMBLY"},
   about    : Assembly,
   missing  : SUBSET Reportable]

\* What the assemblies write are rows.
LEMMA RowTypes ==
  ASSUME TypeOK, NEW a \in Assembly
  PROVE  /\ MemoryRow(a, {}) \in Rows
         /\ MemoryRow(a, {"memory"}) \in Rows
         /\ ContextRow(a) \in Rows
  <1>1. MemoryRow(a, {}) \in Rows /\ MemoryRow(a, {"memory"}) \in Rows
    BY DEF MemoryRow, MemoryId, Rows, Reportable, Stage
  <1>2. assembled_at[a] \in 0 .. MaxSecond /\ profile[a].degraded \in SUBSET Reportable
    BY DEF TypeOK, Profiles
  <1>3. <<"context", CustomerOf[a], assembled_at[a]>>
          \in {<<"context", CustomerOf[b], t>> : b \in Assembly, t \in 0 .. MaxSecond}
    BY <1>2
  <1> QED
    BY <1>1, <1>2, <1>3 DEF ContextRow, Rows

\* A store call that fails counts within the bound.
LEMMA RefusalTypes ==
  ASSUME TypeOK, Refusal
  PROVE  refusals' \in 0 .. MaxRefusals
  BY AssemblyAssumption DEF TypeOK, Refusal, AssemblyAssumption

\* A log that grew by a row at most stays a log.
LEMMA LogTypes ==
  ASSUME TypeOK, NEW row \in Rows, audit_log' \in {audit_log, Inserted(row)}
  PROVE  audit_log' \subseteq Rows
  BY InsertedRows DEF TypeOK, Rows

\* Leaving assemble() keeps what the assemblies hold typed.
LEMMA LeaveTypes ==
  ASSUME TypeOK, NEW a \in Assembly, NEW how \in {"done", "failed"}, Leave(a, how)
  PROVE  /\ pc' \in [Assembly -> Steps]
         /\ fetch' \in [Assembly -> [Source -> {"pending", "data", "malformed", "lost"}]]
         /\ profile' \in [Assembly -> Profiles]
         /\ assembled_at' \in [Assembly -> 0 .. MaxSecond]
  <1>1. Blank \in Profiles
    BY DEF Blank, Profiles
  <1>2. NoneFetched \in [Source -> {"pending", "data", "malformed", "lost"}]
    BY DEF NoneFetched
  <1>3. 0 \in 0 .. MaxSecond
    BY AssemblyAssumption DEF AssemblyAssumption
  <1> QED
    BY <1>1, <1>2, <1>3 DEF TypeOK, Leave, Goto, Steps

\* Every step of an assembly, and the expiry of a profile, keeps the types.
LEMMA BeginTypes ==
  ASSUME TypeOK, NEW a \in Assembly, Begin(a)
  PROVE  TypeOK'
  BY DEF TypeOK, Begin, Goto, Steps, shared

LEMMA FetchTypes ==
  ASSUME TypeOK, NEW a \in Assembly, NEW s \in Source,
         FetchAnswers(a, s) \/ FetchTimesOut(a, s)
  PROVE  TypeOK'
  <1>1. PICK outcome \in {"data", "malformed", "lost"} : Answer(a, s, outcome)
    BY DEF FetchAnswers, FetchTimesOut
  <1> QED
    BY <1>1 DEF TypeOK, Answer, shared

LEMMA RaiseTypes ==
  ASSUME TypeOK, NEW a \in Assembly, Raise(a), UNCHANGED <<shared, second>>
  PROVE  TypeOK'
  BY LeaveTypes DEF TypeOK, Raise, shared

LEMMA PullSignalsTypes ==
  ASSUME TypeOK, NEW a \in Assembly, PullSignals(a)
  PROVE  TypeOK'
  <1>1. NoneFetched \in [Source -> {"pending", "data", "malformed", "lost"}]
    BY DEF NoneFetched
  <1>2. second' \in 0 .. MaxSecond
    BY AssemblyAssumption DEF TypeOK, PullSignals, AssemblyAssumption
  <1>3. profile' \in [Assembly -> Profiles]
    BY NormalizedTypes DEF TypeOK, PullSignals
  <1>4. pc' \in [Assembly -> Steps]
    BY DEF TypeOK, PullSignals, Goto, AfterSignals, AfterScores, Steps
  <1> QED
    BY <1>1, <1>2, <1>3, <1>4 DEF TypeOK, PullSignals, shared

LEMMA ScoreStepTypes ==
  ASSUME TypeOK, NEW a \in Assembly, Score(a)
  PROVE  TypeOK'
  <1>1. profile[a] \in Profiles
    BY DEF TypeOK
  <1>2. profile' \in [Assembly -> Profiles]
    BY <1>1, ScoreTypes DEF TypeOK, Score
  <1>3. pc' \in [Assembly -> Steps]
    BY DEF TypeOK, Score, Goto, AfterScores, Steps
  <1> QED
    BY <1>2, <1>3 DEF TypeOK, Score, shared

\* A profile stays one with or without memories.
LEMMA MemoriesTypes ==
  ASSUME NEW p \in Profiles, NEW found \in BOOLEAN
  PROVE  [p EXCEPT !.memories = found] \in Profiles
  BY DEF Profiles

LEMMA RetrieveMemoryTypes ==
  ASSUME TypeOK, NEW a \in Assembly, RetrieveMemory(a)
  PROVE  TypeOK'
  <1>1. profile' \in [Assembly -> Profiles]
    <2>1. \A found \in BOOLEAN : [profile[a] EXCEPT !.memories = found] \in Profiles
      BY MemoriesTypes DEF TypeOK
    <2> QED
      BY <2>1 DEF TypeOK, RetrieveMemory
  <1>2. pc' \in [Assembly -> Steps]
    BY DEF TypeOK, RetrieveMemory, Goto, Steps
  <1> QED
    BY <1>1, <1>2 DEF TypeOK, RetrieveMemory, shared

LEMMA NoteRetrievalTypes ==
  ASSUME TypeOK, NEW a \in Assembly, NoteRetrieval(a)
  PROVE  TypeOK'
  <1>1. profile[a] \in Profiles /\ "memory" \in Stage
    BY DEF TypeOK, Stage
  <1>2. Updated(Gain(profile[a], "memory")) \in Profiles
    BY <1>1, ReportTypes
  <1>3. [profile[a] EXCEPT !.memories = FALSE] \in Profiles
    BY <1>1, MemoriesTypes
  <1>4. profile' \in [Assembly -> Profiles]
    <2>1. \/ profile' = [profile EXCEPT ![a] = Updated(Gain(@, "memory"))]
          \/ profile' = [profile EXCEPT ![a].memories = FALSE]
      BY DEF NoteRetrieval
    <2>2. CASE profile' = [profile EXCEPT ![a] = Updated(Gain(@, "memory"))]
      BY <1>2, <2>2 DEF TypeOK
    <2>3. CASE profile' = [profile EXCEPT ![a].memories = FALSE]
      BY <1>3, <2>3 DEF TypeOK
    <2> QED
      BY <2>1, <2>2, <2>3
  <1>5. pc' \in [Assembly -> Steps]
    BY DEF TypeOK, NoteRetrieval, Goto, Steps
  <1>6. audit_log' \subseteq Rows
    BY RowTypes, LogTypes DEF NoteRetrieval, WriteFails
  <1>7. refusals' \in 0 .. MaxRefusals
    BY RefusalTypes DEF TypeOK, NoteRetrieval, WriteFails
  <1> QED
    BY <1>4, <1>5, <1>6, <1>7 DEF TypeOK, NoteRetrieval, Rows

LEMMA NoteLossTypes ==
  ASSUME TypeOK, NEW a \in Assembly, NoteLoss(a)
  PROVE  TypeOK'
  <1>1. profile[a] \in Profiles /\ "memory" \in Stage
    BY DEF TypeOK, Stage
  <1>2. Updated(Lose(profile[a], "memory")) \in Profiles
    BY <1>1, ReportTypes
  <1>3. audit_log' \subseteq Rows
    BY RowTypes, LogTypes DEF NoteLoss, WriteFails
  <1>4. CASE Goto(a, "storing") /\ profile' = [profile EXCEPT ![a] = Updated(Lose(@, "memory"))]
             /\ UNCHANGED <<fetch, assembled_at, refusals>>
    <2>1. profile' \in [Assembly -> Profiles]
      BY <1>2, <1>4 DEF TypeOK
    <2>2. pc' \in [Assembly -> Steps]
      BY <1>4 DEF TypeOK, Goto, Steps
    <2> QED
      BY <1>3, <1>4, <2>1, <2>2 DEF TypeOK, NoteLoss, Rows
  <1>5. CASE Refusal /\ Raise(a)
    BY <1>3, <1>5, LeaveTypes, RefusalTypes DEF TypeOK, NoteLoss, Raise, Rows
  <1> QED
    BY <1>4, <1>5 DEF NoteLoss, WriteFails

LEMMA StoreProfileTypes ==
  ASSUME TypeOK, NEW a \in Assembly, StoreProfile(a)
  PROVE  TypeOK'
  <1>1. profile[a] \in Profiles /\ profile[a].degraded \in SUBSET Reportable
    BY DEF TypeOK, Profiles
  <1>2. context' \in [Session -> {None} \cup [assembled_by : Assembly, profile : Profiles]]
    <2>1. [assembled_by |-> a, profile |-> profile[a]]
            \in [assembled_by : Assembly, profile : Profiles]
      BY <1>1
    <2>2. SessionOf[a] \in Session
      BY DEF Session
    <2> QED
      BY <2>1, <2>2 DEF TypeOK, StoreProfile, Written
  <1>3. stored' \in [Assembly -> SUBSET SUBSET Reportable]
    BY <1>1 DEF TypeOK, StoreProfile
  <1>4. CASE Goto(a, "recording") /\ UNCHANGED <<fetch, profile, assembled_at, refusals>>
    BY <1>2, <1>3, <1>4 DEF TypeOK, StoreProfile, Goto, Steps
  <1>5. CASE Raise(a) /\ Refusal
    BY <1>2, <1>3, <1>5, LeaveTypes, RefusalTypes DEF TypeOK, StoreProfile, Raise
  <1> QED
    BY <1>4, <1>5 DEF StoreProfile

LEMMA StoreRefusesTypes ==
  ASSUME TypeOK, NEW a \in Assembly, StoreRefuses(a)
  PROVE  TypeOK'
  <1>1. refusals' \in 0 .. MaxRefusals
    BY RefusalTypes DEF TypeOK, StoreRefuses
  <1>2. Leave(a, "failed") /\ UNCHANGED <<context, audit_log, stored, second>>
    BY DEF StoreRefuses, Raise
  <1> QED
    BY <1>1, <1>2, LeaveTypes DEF TypeOK

LEMMA RecordAssemblyTypes ==
  ASSUME TypeOK, NEW a \in Assembly, RecordAssembly(a)
  PROVE  TypeOK'
  <1>1. audit_log' \subseteq Rows
    BY RowTypes, LogTypes DEF RecordAssembly, WriteFails
  <1>2. refusals' \in 0 .. MaxRefusals
    BY RefusalTypes DEF TypeOK, RecordAssembly, WriteFails
  <1>3. \E how \in {"done", "failed"} : Leave(a, how)
    BY DEF RecordAssembly, Raise
  <1> QED
    BY <1>1, <1>2, <1>3, LeaveTypes DEF TypeOK, RecordAssembly, Rows

LEMMA ExpireTypes ==
  ASSUME TypeOK, NEW s \in Session, Expire(s)
  PROVE  TypeOK'
  BY DEF TypeOK, Expire, local

-----------------------------------------------------------------------------
(* What a step of one assembly leaves alone.                               *)

\* The records of different assemblies' memories, and of assemblies, have
\* different ids.
LEMMA RecordIds ==
  ASSUME NEW a \in Assembly, NEW b \in Assembly, a # b
  PROVE  /\ MemoryId(a) # MemoryId(b)
         /\ ContextRow(a).audit_id # MemoryId(b)
         /\ ContextRow(a).audit_id # MemoryId(a)
  <1>1. \A c \in Assembly : ContextRow(a).audit_id[1] = "context" /\ MemoryId(c)[1] = "memory"
    BY DEF ContextRow, MemoryId
  <1>2. MemoryId(a)[2] = a /\ MemoryId(b)[2] = b
    BY DEF MemoryId
  <1> QED
    BY <1>1, <1>2

\* A step of assembly a: the others stay where they are and the log keeps its
\* rows; a new one is one of a's.
StepOf(a) ==
  /\ \A b \in Assembly \ {a} :
       pc'[b] = pc[b] /\ profile'[b] = profile[b] /\ stored'[b] = stored[b]
  /\ audit_log \subseteq audit_log'
  /\ \A row \in audit_log' \ audit_log :
       row.audit_id \in {MemoryId(a), ContextRow(a).audit_id}

\* Whatever a does, the others' part of the invariant stays.
LEMMA OthersSoFar ==
  ASSUME AssembliesSoFar, NEW a \in Assembly, StepOf(a), SoFar(a)'
  PROVE  AssembliesSoFar'
  <1> SUFFICES ASSUME NEW b \in Assembly, b # a PROVE SoFar(b)'
    BY DEF AssembliesSoFar
  <1>1. SoFar(b) /\ pc'[b] = pc[b] /\ profile'[b] = profile[b] /\ stored'[b] = stored[b]
    BY DEF AssembliesSoFar, StepOf
  <1>2. ProfileSoFar(b)'
    BY <1>1 DEF SoFar, ProfileSoFar, GapsAmong, TellsItsGaps
  <1>3. StoredSoFar(b)'
    BY <1>1 DEF SoFar, StoredSoFar
  <1>4. \A row \in audit_log' \ audit_log : row.audit_id # MemoryId(b)
    BY RecordIds DEF StepOf
  <1>5. RetrievalOnRecord(b) => RetrievalOnRecord(b)'
    BY DEF RetrievalOnRecord, StepOf
  <1>6. MemoryId(b)' = MemoryId(b)
    BY DEF MemoryId
  <1>7. MemorySoFar(b)'
    BY <1>1, <1>4, <1>5, <1>6 DEF SoFar, MemorySoFar
  <1> QED
    BY <1>2, <1>3, <1>7 DEF SoFar

\* While the stored profiles stay, a log that keeps its rows keeps both properties.
LEMMA ContextStays ==
  ASSUME ProfilesTellTheirGaps, MemoriesAreOnRecord,
         UNCHANGED context, audit_log \subseteq audit_log'
  PROVE  ProfilesTellTheirGaps' /\ MemoriesAreOnRecord'
  <1>1. ProfilesTellTheirGaps'
    BY DEF ProfilesTellTheirGaps, TellsItsGaps
  <1>2. MemoriesAreOnRecord'
    BY DEF MemoriesAreOnRecord
  <1> QED
    BY <1>1, <1>2

\* While nothing is published and no assembly is recorded, the log stays true.
LEMMA LogStays ==
  ASSUME LogTellsWhatWasStored, UNCHANGED stored,
         \A row \in audit_log' \ audit_log : row.event # "CONTEXT_ASSEMBLY"
  PROVE  LogTellsWhatWasStored'
  BY DEF LogTellsWhatWasStored

\* An assembly that has left asks for nothing.
LEMMA LeftSoFar ==
  ASSUME NEW a \in Assembly, TypeOK, NEW how \in {"done", "failed"}, Leave(a, how)
  PROVE  SoFar(a)'
  <1>1. pc'[a] = how
    BY DEF Leave, Goto, TypeOK
  <1> QED
    BY <1>1 DEF SoFar, ProfileSoFar, MemorySoFar, StoredSoFar

\* The initial states satisfy the invariant.
LEMMA InitInv == Init => AssemblyInv
  <1> SUFFICES ASSUME Init PROVE AssemblyInv
    OBVIOUS
  <1>1. Blank \in Profiles
    BY DEF Blank, Profiles
  <1>2. NoneFetched \in [Source -> {"pending", "data", "malformed", "lost"}]
    BY DEF NoneFetched
  <1>3. TypeOK
    BY <1>1, <1>2, AssemblyAssumption DEF Init, TypeOK, Steps, AssemblyAssumption
  <1>4. AssembliesSoFar
    BY DEF Init, AssembliesSoFar, SoFar, ProfileSoFar, MemorySoFar, StoredSoFar
  <1>5. LogTellsWhatWasStored
    BY DEF Init, LogTellsWhatWasStored
  <1>6. ProfilesTellTheirGaps /\ MemoriesAreOnRecord
    BY DEF Init, ProfilesTellTheirGaps, MemoriesAreOnRecord
  <1> QED
    BY <1>3, <1>4, <1>5, <1>6 DEF AssemblyInv

-----------------------------------------------------------------------------
(* One lemma per operation: it preserves the inductive invariant.          *)

\* What the invariant says of one assembly.
LEMMA InvAt ==
  ASSUME AssemblyInv, NEW a \in Assembly
  PROVE  profile[a] \in Profiles /\ ProfileSoFar(a) /\ MemorySoFar(a) /\ StoredSoFar(a)
  <1>1. profile[a] \in Profiles
    BY DEF AssemblyInv, TypeOK
  <1> QED
    BY <1>1 DEF AssemblyInv, AssembliesSoFar, SoFar

\* Before it pulls its signals an assembly has promised nothing yet.
LEMMA BeginInv ==
  ASSUME AssemblyInv, NEW a \in Assembly, Begin(a)
  PROVE  AssemblyInv'
  <1>1. pc'[a] = "fetching" /\ UNCHANGED <<audit_log, context, stored>>
    BY DEF AssemblyInv, TypeOK, Begin, Goto, shared
  <1>2. StepOf(a)
    BY DEF AssemblyInv, TypeOK, Begin, Goto, StepOf, shared
  <1>3. SoFar(a)'
    BY <1>1 DEF AssemblyInv, AssembliesSoFar, SoFar, ProfileSoFar, MemorySoFar,
                StoredSoFar, MemoryId, Begin
  <1> QED
    BY <1>1, <1>2, <1>3, BeginTypes, OthersSoFar, ContextStays, LogStays DEF AssemblyInv

\* An answer changes nothing the invariant speaks of.
LEMMA FetchInv ==
  ASSUME AssemblyInv, NEW a \in Assembly, NEW s \in Source,
         FetchAnswers(a, s) \/ FetchTimesOut(a, s)
  PROVE  AssemblyInv'
  <1>1. pc[a] = "fetching" /\ UNCHANGED <<pc, profile, audit_log, context, stored>>
    BY DEF FetchAnswers, FetchTimesOut, Fetching, Answer, shared
  <1>2. StepOf(a)
    BY <1>1 DEF StepOf
  <1>3. SoFar(a)'
    BY <1>1 DEF AssemblyInv, AssembliesSoFar, SoFar, ProfileSoFar, MemorySoFar,
                StoredSoFar, MemoryId
  <1> QED
    BY <1>1, <1>2, <1>3, FetchTypes, OthersSoFar, ContextStays, LogStays DEF AssemblyInv

\* An exception before the stores are written leaves no trace of the assembly.
LEMMA RaiseInv ==
  ASSUME AssemblyInv, NEW a \in Assembly, Raise(a), UNCHANGED <<shared, second>>
  PROVE  AssemblyInv'
  <1>1. UNCHANGED <<audit_log, context, stored>>
    BY DEF shared
  <1>2. StepOf(a)
    BY <1>1 DEF AssemblyInv, TypeOK, StepOf, Raise, Leave, Goto
  <1>3. SoFar(a)'
    BY LeftSoFar DEF AssemblyInv, Raise
  <1> QED
    BY <1>1, <1>2, <1>3, RaiseTypes, OthersSoFar, ContextStays, LogStays DEF AssemblyInv

\* What the normaliser reports: where nothing is malformed, the parts that hold
\* defaults are those of the sources that were lost.
LEMMA NormalizedGaps ==
  ASSUME TypeOK, NEW a \in Assembly, Gathered(a),
         \A s \in Source : fetch[a][s] # "malformed"
  PROVE  GapsAmong(Normalize(a), Source \cup {"feature_store"}) /\ ~Normalize(a).memories
  <1>1. \A s \in Source : fetch[a][s] \in {"data", "lost"}
    BY DEF TypeOK, Gathered
  <1>2. Defaults(a) = Degraded(a) /\ Degraded(a) \subseteq Source
    BY <1>1 DEF Defaults, Degraded
  <1>3. /\ Normalize(a).defaulted = Defaults(a)
        /\ Normalize(a).available = (Source \ Degraded(a)) \cup {"feature_store"}
        /\ Normalize(a).degraded = Degraded(a)
        /\ Normalize(a).scored_from = {}
    BY DEF Normalize, Updated, Blank
  <1>4. Normalize(a).partial_context <=> Normalize(a).degraded # {}
    BY DEF Normalize, Updated, Blank
  <1>5. ~Normalize(a).memories
    BY DEF Normalize, Updated, Blank
  <1>6. "feature_store" \notin Source
    BY AssemblyAssumption DEF AssemblyAssumption
  <1> QED
    BY <1>2, <1>3, <1>4, <1>5, <1>6 DEF GapsAmong

\* Once signals and scores are there, what is left to report on is the memory, if
\* the service has one.
LEMMA MemoryIsLeft ==
  ASSUME AssemblyInv, NEW a \in Assembly, UNCHANGED <<audit_log, context, stored>>,
         pc[a] \in {"fetching", "scoring"}, pc'[a] = AfterScores(a),
         GapsAmong(profile'[a], Reported(a) \ {"memory"}), ~profile'[a].memories
  PROVE  SoFar(a)'
  <1>1. stored'[a] = {} /\ \A row \in audit_log' : row.audit_id # MemoryId(a)
    BY InvAt DEF MemorySoFar, StoredSoFar
  <1>2. CASE "memory" \in StagesOf[a]
    <2>1. pc'[a] = "remembering"
      BY <1>2 DEF AfterScores
    <2> QED
      BY <1>1, <1>2, <2>1
      DEF SoFar, ProfileSoFar, MemorySoFar, StoredSoFar, GapsAmong, Reported, MemoryId
  <1>3. CASE "memory" \notin StagesOf[a]
    <2>1. pc'[a] = "storing"
      BY <1>3 DEF AfterScores
    <2>2. "memory" \notin Reported(a) /\ Reported(a) \ {"memory"} = Reported(a)
      BY <1>3, AssemblyAssumption DEF AssemblyAssumption, Reported
    <2>3. "memory" \notin profile'[a].available /\ GapsAmong(profile'[a], Reported(a))
      BY <2>2 DEF GapsAmong
    <2>4. TellsItsGaps(a, profile'[a])
      BY <2>3 DEF GapsAmong, TellsItsGaps
    <2>5. ProfileSoFar(a)'
      BY <2>1, <2>4 DEF ProfileSoFar, TellsItsGaps, Reported
    <2>6. MemorySoFar(a)' /\ StoredSoFar(a)'
      BY <1>1, <2>1, <2>3 DEF MemorySoFar, StoredSoFar
    <2> QED
      BY <2>5, <2>6 DEF SoFar
  <1> QED
    BY <1>2, <1>3

LEMMA PullSignalsInv ==
  ASSUME AssemblyInv, NEW a \in Assembly, PullSignals(a)
  PROVE  AssemblyInv'
  <1>1. UNCHANGED <<audit_log, context, stored>>
    BY DEF PullSignals, shared
  <1>2. StepOf(a)
    BY <1>1 DEF AssemblyInv, TypeOK, StepOf, PullSignals, Goto
  <1>3. pc[a] = "fetching" /\ pc'[a] = AfterSignals(a) /\ profile'[a] = Normalize(a)
    BY DEF AssemblyInv, TypeOK, PullSignals, Gathered, Goto
  <1>4. GapsAmong(profile'[a], Source \cup {"feature_store"}) /\ ~profile'[a].memories
    BY <1>3, NormalizedGaps DEF AssemblyInv, PullSignals
  <1>5. ASSUME "ml_scoring" \in StagesOf[a] PROVE SoFar(a)'
    <2>1. pc'[a] = "scoring"
      BY <1>3, <1>5 DEF AfterSignals
    <2>2. ProfileSoFar(a)'
      BY <1>4, <1>5, <2>1 DEF ProfileSoFar, GapsAmong
    <2>3. MemorySoFar(a)' /\ StoredSoFar(a)'
      BY <1>1, <1>3, <2>1
      DEF AssemblyInv, AssembliesSoFar, SoFar, MemorySoFar, StoredSoFar, MemoryId
    <2> QED
      BY <2>2, <2>3 DEF SoFar
  <1>6. ASSUME "ml_scoring" \notin StagesOf[a] PROVE SoFar(a)'
    <2>1. Reported(a) \ {"memory"} = Source \cup {"feature_store"}
      BY <1>6, AssemblyAssumption DEF AssemblyAssumption, Reported
    <2> QED
      BY <1>1, <1>3, <1>4, <1>6, <2>1, MemoryIsLeft DEF AfterSignals
  <1>7. SoFar(a)'
    BY <1>5, <1>6
  <1> QED
    BY <1>1, <1>2, <1>7, PullSignalsTypes, OthersSoFar, ContextStays, LogStays DEF AssemblyInv

\* A stage that reports itself, available or degraded, closes its own gap.
LEMMA StageGaps ==
  ASSUME NEW p \in Profiles, NEW consulted, NEW stage \in Stage, stage \notin consulted,
         GapsAmong(p, consulted)
  PROVE  /\ GapsAmong(Updated(Gain(p, stage)), consulted \cup {stage})
         /\ GapsAmong(Updated(Lose(p, stage)), consulted \cup {stage})
  <1>1. stage \notin Source
    BY AssemblyAssumption DEF AssemblyAssumption, Stage
  <1>2. /\ Updated(Gain(p, stage)).defaulted = p.defaulted
        /\ Updated(Gain(p, stage)).available = p.available \cup {stage}
        /\ Updated(Gain(p, stage)).degraded = p.degraded
        /\ Updated(Gain(p, stage)).scored_from = p.scored_from
    BY DEF Updated, Gain, Profiles
  <1>3. Updated(Gain(p, stage)).partial_context <=> p.degraded # {}
    BY DEF Updated, Gain, Profiles
  <1>4. /\ Updated(Lose(p, stage)).defaulted = p.defaulted
        /\ Updated(Lose(p, stage)).available = p.available
        /\ Updated(Lose(p, stage)).degraded = p.degraded \cup {stage}
        /\ Updated(Lose(p, stage)).scored_from = p.scored_from
    BY DEF Updated, Lose, Profiles
  <1>5. Updated(Lose(p, stage)).partial_context
    BY DEF Updated, Lose, Profiles
  <1>6. GapsAmong(Updated(Gain(p, stage)), consulted \cup {stage})
    BY <1>1, <1>2, <1>3 DEF GapsAmong
  <1>7. GapsAmong(Updated(Lose(p, stage)), consulted \cup {stage})
    BY <1>1, <1>4, <1>5 DEF GapsAmong
  <1> QED
    BY <1>6, <1>7

\* Scores: computed from what the profile holds, the defaults of lost sources
\* included, so scores made from defaults come on a partial profile.
LEMMA ScoredGaps ==
  ASSUME NEW p \in Profiles, GapsAmong(p, Source \cup {"feature_store"}), ~p.memories
  PROVE  LET consulted == (Source \cup {"feature_store"}) \cup {"ml_scoring"}
         IN  /\ GapsAmong(Updated(Scored(p)), consulted) /\ ~Updated(Scored(p)).memories
             /\ GapsAmong(Updated(Unscored(p)), consulted) /\ ~Updated(Unscored(p)).memories
  <1> DEFINE consulted == (Source \cup {"feature_store"}) \cup {"ml_scoring"}
  <1>1. "ml_scoring" \in Stage /\ "ml_scoring" \notin Source \cup {"feature_store"}
    BY AssemblyAssumption DEF AssemblyAssumption, Stage
  <1>3. GapsAmong(Updated(Unscored(p)), consulted)
    BY <1>1, StageGaps DEF Unscored
  <1>4. GapsAmong(Updated(Gain(p, "ml_scoring")), consulted)
    BY <1>1, StageGaps
  <1> HIDE DEF consulted
  <1>5. LET q == Updated(Gain(p, "ml_scoring"))
            u == Updated(Scored(p))
        IN  /\ u.defaulted = q.defaulted /\ u.available = q.available
            /\ u.degraded = q.degraded
            /\ u.scored_from = p.defaulted \cap Features
            /\ q.defaulted = p.defaulted
    BY DEF Updated, Scored, Gain, Profiles
  <1>6. /\ Updated(Scored(p)).partial_context <=> p.degraded # {}
        /\ Updated(Gain(p, "ml_scoring")).partial_context <=> p.degraded # {}
        /\ ~Updated(Scored(p)).memories
    BY DEF Updated, Scored, Gain, Profiles
  <1>7. ~Updated(Unscored(p)).memories
    BY DEF Updated, Unscored, Lose, Profiles
  <1>8. p.defaulted \subseteq p.degraded
    BY DEF GapsAmong
  <1>9. GapsAmong(Updated(Scored(p)), consulted)
    BY <1>4, <1>5, <1>6, <1>8 DEF GapsAmong
  <1> QED
    BY <1>3, <1>6, <1>7, <1>9 DEF consulted

LEMMA ScoreInv ==
  ASSUME AssemblyInv, NEW a \in Assembly, Score(a)
  PROVE  AssemblyInv'
  <1>1. UNCHANGED <<audit_log, context, stored>>
    BY DEF Score, shared
  <1>2. StepOf(a)
    BY <1>1 DEF AssemblyInv, TypeOK, StepOf, Score, Goto
  <1>3. pc[a] = "scoring" /\ pc'[a] = AfterScores(a)
    BY DEF AssemblyInv, TypeOK, Score, Goto
  <1>4. profile'[a] \in {Updated(Scored(profile[a])), Updated(Unscored(profile[a]))}
    <2>1. PICK p \in {Scored(profile[a]), Unscored(profile[a])} :
            profile' = [profile EXCEPT ![a] = Updated(p)]
      BY DEF Score
    <2>2. profile'[a] = Updated(p)
      BY <2>1 DEF AssemblyInv, TypeOK
    <2> QED
      BY <2>1, <2>2
  <1>5. /\ profile[a] \in Profiles /\ ~profile[a].memories
        /\ GapsAmong(profile[a], Source \cup {"feature_store"}) /\ "ml_scoring" \in StagesOf[a]
    BY <1>3, InvAt DEF ProfileSoFar
  <1>6. Reported(a) \ {"memory"} = (Source \cup {"feature_store"}) \cup {"ml_scoring"}
    BY <1>5, AssemblyAssumption DEF AssemblyAssumption, Reported
  <1>7. GapsAmong(profile'[a], Reported(a) \ {"memory"}) /\ ~profile'[a].memories
    BY <1>4, <1>5, <1>6, ScoredGaps
  <1>9. SoFar(a)'
    BY <1>1, <1>3, <1>7, MemoryIsLeft
  <1> QED
    BY <1>1, <1>2, <1>9, ScoreStepTypes, OthersSoFar, ContextStays, LogStays DEF AssemblyInv

\* Found or not, memories close no gap before their retrieval is noted.
LEMMA MemoriesGaps ==
  ASSUME NEW p \in Profiles, NEW found \in BOOLEAN, NEW consulted, GapsAmong(p, consulted)
  PROVE  /\ GapsAmong([p EXCEPT !.memories = found], consulted)
         /\ [p EXCEPT !.memories = found].memories = found
  <1>1. LET q == [p EXCEPT !.memories = found]
        IN  /\ q.defaulted = p.defaulted /\ q.available = p.available
            /\ q.degraded = p.degraded /\ q.scored_from = p.scored_from
            /\ q.partial_context = p.partial_context
            /\ q.memories = found
    BY DEF Profiles
  <1> QED
    BY <1>1 DEF GapsAmong

LEMMA RetrieveMemoryInv ==
  ASSUME AssemblyInv, NEW a \in Assembly, RetrieveMemory(a)
  PROVE  AssemblyInv'
  <1>1. UNCHANGED <<audit_log, context, stored>>
    BY DEF RetrieveMemory, shared
  <1>2. StepOf(a)
    BY <1>1 DEF AssemblyInv, TypeOK, StepOf, RetrieveMemory, Goto
  <1>3. pc[a] = "remembering" /\ pc'[a] \in {"noting", "noting_loss"}
    BY DEF AssemblyInv, TypeOK, RetrieveMemory, Goto
  <1>4. /\ profile[a] \in Profiles /\ ~profile[a].memories /\ "memory" \in StagesOf[a]
        /\ GapsAmong(profile[a], Reported(a) \ {"memory"})
    BY <1>3, InvAt DEF ProfileSoFar
  <1>5. ASSUME pc'[a] = "noting_loss" PROVE ProfileSoFar(a)'
    <2>1. profile'[a] = profile[a]
      BY <1>5 DEF RetrieveMemory, Goto, AssemblyInv, TypeOK
    <2> QED
      BY <1>4, <1>5, <2>1 DEF ProfileSoFar, GapsAmong
  <1>6. ASSUME pc'[a] = "noting" PROVE ProfileSoFar(a)'
    <2>1. \E found \in BOOLEAN : profile' = [profile EXCEPT ![a].memories = found]
      BY <1>6 DEF AssemblyInv, TypeOK, RetrieveMemory, Goto
    <2>2. \E found \in BOOLEAN : profile'[a] = [profile[a] EXCEPT !.memories = found]
      BY <2>1 DEF AssemblyInv, TypeOK
    <2>3. GapsAmong(profile'[a], Reported(a) \ {"memory"})
      BY <1>4, <2>2, MemoriesGaps
    <2> QED
      BY <1>4, <1>6, <2>3 DEF ProfileSoFar, GapsAmong, Reported
  <1>7. ProfileSoFar(a)'
    BY <1>3, <1>5, <1>6
  <1>8. MemorySoFar(a)' /\ StoredSoFar(a)'
    BY <1>1, <1>3 DEF AssemblyInv, AssembliesSoFar, SoFar, MemorySoFar, StoredSoFar, MemoryId
  <1>9. SoFar(a)'
    BY <1>7, <1>8 DEF SoFar
  <1> QED
    BY <1>1, <1>2, <1>9, RetrieveMemoryTypes, OthersSoFar, ContextStays, LogStays DEF AssemblyInv

\* The insertion of a row that has a free id adds it.
LEMMA InsertedFresh ==
  ASSUME NEW row, \A other \in audit_log : other.audit_id # row.audit_id
  PROVE  row \in Inserted(row)
  BY DEF Inserted

\* What can be new in the log after a write of one row.
LEMMA WrittenRows ==
  ASSUME NEW row, audit_log' \in {audit_log, Inserted(row)}
  PROVE  audit_log \subseteq audit_log' /\ \A new \in audit_log' \ audit_log : new = row
  BY InsertedRows

\* The profile reports everything once its memory is noted, one way or the other.
LEMMA NotedGaps ==
  ASSUME NEW a \in Assembly, "memory" \in StagesOf[a],
         NEW p \in Profiles, GapsAmong(p, Reported(a) \ {"memory"})
  PROVE  /\ TellsItsGaps(a, Updated(Gain(p, "memory")))
         /\ ~p.memories => TellsItsGaps(a, Updated(Lose(p, "memory")))
         /\ "memory" \notin Updated(Lose(p, "memory")).available
  <1>1. "memory" \in Stage /\ (Reported(a) \ {"memory"}) \cup {"memory"} = Reported(a)
    BY DEF Stage, Reported
  <1>2. /\ GapsAmong(Updated(Gain(p, "memory")), Reported(a))
        /\ GapsAmong(Updated(Lose(p, "memory")), Reported(a))
    BY <1>1, StageGaps
  <1>3. "memory" \in Updated(Gain(p, "memory")).available
    BY DEF Updated, Gain, Profiles
  <1>4. Updated(Lose(p, "memory")).available = p.available
    BY DEF Updated, Lose, Profiles
  <1>5. Updated(Lose(p, "memory")).memories = p.memories
    BY DEF Updated, Lose, Profiles
  <1> QED
    BY <1>2, <1>3, <1>4, <1>5 DEF GapsAmong, TellsItsGaps

\* The memories count as available only with their record in the log, whose id
\* was still free; a write that fails, or fails after the fact, gives them up.
LEMMA NoteRetrievalInv ==
  ASSUME AssemblyInv, NEW a \in Assembly, NoteRetrieval(a)
  PROVE  AssemblyInv'
  <1> DEFINE row == MemoryRow(a, {})
  <1>1. /\ pc[a] = "noting" /\ UNCHANGED <<context, stored>>
        /\ audit_log' \in {audit_log, Inserted(row)}
    BY DEF NoteRetrieval, WriteFails
  <1>2. row.audit_id = MemoryId(a) /\ row.event = "MEMORY_RETRIEVED"
          /\ row.about = a /\ row.missing = {}
    BY DEF MemoryRow
  <1>3. audit_log \subseteq audit_log' /\ \A new \in audit_log' \ audit_log : new = row
    BY <1>1, WrittenRows
  <1>4. StepOf(a)
    BY <1>1, <1>2, <1>3 DEF AssemblyInv, TypeOK, StepOf, NoteRetrieval, Goto
  <1>5. /\ GapsAmong(profile[a], Reported(a) \ {"memory"}) /\ profile[a] \in Profiles
        /\ "memory" \in StagesOf[a]
    BY <1>1, InvAt DEF ProfileSoFar
  <1>6. StoredSoFar(a)'
    <2>1. pc'[a] \in {"storing", "noting_loss"} /\ stored'[a] = stored[a] /\ stored[a] = {}
      BY <1>1, InvAt DEF StoredSoFar, AssemblyInv, TypeOK, NoteRetrieval, Goto
    <2> QED
      BY <2>1 DEF StoredSoFar
  <1>7. ASSUME audit_log' = Inserted(row), Goto(a, "storing"),
               profile' = [profile EXCEPT ![a] = Updated(Gain(@, "memory"))]
        PROVE  ProfileSoFar(a)' /\ MemorySoFar(a)'
    <2>1. pc'[a] = "storing" /\ profile'[a] = Updated(Gain(profile[a], "memory"))
      BY <1>7 DEF AssemblyInv, TypeOK, Goto
    <2>2. ProfileSoFar(a)'
      <3>1. TellsItsGaps(a, profile'[a])
        BY <1>5, <2>1, NotedGaps
      <3> QED
        BY <2>1, <3>1 DEF ProfileSoFar, TellsItsGaps, Reported
    <2>3. row \in audit_log'
      BY <1>1, <1>2, <1>7, InvAt, InsertedFresh DEF MemorySoFar
    <2>4. RetrievalOnRecord(a)'
      BY <1>2, <2>3 DEF RetrievalOnRecord
    <2> QED
      BY <2>1, <2>2, <2>4 DEF MemorySoFar
  <1>8. ASSUME Goto(a, "noting_loss"), profile' = [profile EXCEPT ![a].memories = FALSE]
        PROVE  ProfileSoFar(a)' /\ MemorySoFar(a)'
    <2>1. pc'[a] = "noting_loss" /\ profile'[a] = [profile[a] EXCEPT !.memories = FALSE]
      BY <1>8 DEF AssemblyInv, TypeOK, Goto
    <2>2. GapsAmong(profile'[a], Reported(a) \ {"memory"}) /\ ~profile'[a].memories
      BY <1>5, <2>1, MemoriesGaps
    <2> QED
      BY <1>5, <2>1, <2>2 DEF ProfileSoFar, MemorySoFar, GapsAmong, Reported
  <1>9. SoFar(a)'
    BY <1>6, <1>7, <1>8 DEF NoteRetrieval, SoFar
  <1>10. \A new \in audit_log' \ audit_log : new.event # "CONTEXT_ASSEMBLY"
    BY <1>2, <1>3
  <1> QED
    BY <1>1, <1>3, <1>4, <1>9, <1>10, NoteRetrievalTypes, OthersSoFar, ContextStays, LogStays
    DEF AssemblyInv

\* A profile whose memory is lost carries none, whatever the log holds.
LEMMA NoteLossInv ==
  ASSUME AssemblyInv, NEW a \in Assembly, NoteLoss(a)
  PROVE  AssemblyInv'
  <1> DEFINE row == MemoryRow(a, {"memory"})
  <1>1. /\ pc[a] = "noting_loss" /\ UNCHANGED <<context, stored>>
        /\ audit_log' \in {audit_log, Inserted(row)}
    BY DEF NoteLoss, WriteFails
  <1>2. row.audit_id = MemoryId(a) /\ row.event = "MEMORY_RETRIEVED"
    BY DEF MemoryRow
  <1>3. audit_log \subseteq audit_log' /\ \A new \in audit_log' \ audit_log : new = row
    BY <1>1, WrittenRows
  <1>4. ASSUME Goto(a, "storing"), profile' = [profile EXCEPT ![a] = Updated(Lose(@, "memory"))]
        PROVE  SoFar(a)' /\ StepOf(a)
    <2>1. pc'[a] = "storing" /\ profile'[a] = Updated(Lose(profile[a], "memory"))
      BY <1>4 DEF AssemblyInv, TypeOK, Goto
    <2>2. /\ GapsAmong(profile[a], Reported(a) \ {"memory"}) /\ ~profile[a].memories
          /\ profile[a] \in Profiles /\ "memory" \in StagesOf[a]
      BY <1>1, InvAt DEF ProfileSoFar
    <2>3. TellsItsGaps(a, profile'[a]) /\ "memory" \notin profile'[a].available
      BY <2>1, <2>2, NotedGaps
    <2>4. ProfileSoFar(a)' /\ MemorySoFar(a)'
      BY <2>1, <2>3 DEF ProfileSoFar, MemorySoFar, TellsItsGaps
    <2>5. stored'[a] = {}
      BY <1>1, InvAt DEF StoredSoFar
    <2>6. StoredSoFar(a)'
      BY <2>1, <2>5 DEF StoredSoFar
    <2>7. StepOf(a)
      BY <1>1, <1>2, <1>3, <1>4 DEF AssemblyInv, TypeOK, StepOf, Goto
    <2> QED
      BY <2>4, <2>6, <2>7 DEF SoFar
  <1>5. ASSUME Raise(a) PROVE SoFar(a)' /\ StepOf(a)
    <2>1. SoFar(a)'
      BY <1>5, LeftSoFar DEF AssemblyInv, Raise
    <2>2. StepOf(a)
      BY <1>1, <1>2, <1>3, <1>5 DEF AssemblyInv, TypeOK, StepOf, Raise, Leave, Goto
    <2> QED
      BY <2>1, <2>2
  <1>6. SoFar(a)' /\ StepOf(a)
    BY <1>4, <1>5 DEF NoteLoss
  <1>7. \A new \in audit_log' \ audit_log : new.event # "CONTEXT_ASSEMBLY"
    BY <1>2, <1>3
  <1> QED
    BY <1>1, <1>3, <1>6, <1>7, NoteLossTypes, OthersSoFar, ContextStays, LogStays
    DEF AssemblyInv

\* What is published tells its gaps and has its memories on record, and its
\* assembly had published nothing before.
LEMMA StoreProfileInv ==
  ASSUME AssemblyInv, NEW a \in Assembly, StoreProfile(a)
  PROVE  AssemblyInv'
  <1>1. /\ pc[a] = "storing" /\ UNCHANGED audit_log
        /\ context' = [context EXCEPT ![SessionOf[a]] =
                         [assembled_by |-> a, profile |-> profile[a]]]
        /\ stored' = [stored EXCEPT ![a] = {profile[a].degraded}]
    BY DEF StoreProfile, Written
  <1>2. TellsItsGaps(a, profile[a]) /\ stored[a] = {}
          /\ ("memory" \in profile[a].available => RetrievalOnRecord(a))
    BY <1>1, InvAt DEF ProfileSoFar, MemorySoFar, StoredSoFar
  <1>3. SessionOf[a] \in Session
    BY DEF Session
  <1>4. \A s \in Session :
          \/ context'[s] = context[s]
          \/ context'[s] = [assembled_by |-> a, profile |-> profile[a]]
    BY <1>1 DEF AssemblyInv, TypeOK
  <1>5. ProfilesTellTheirGaps'
    <2> SUFFICES ASSUME NEW s \in Session, context'[s] # None
                 PROVE  TellsItsGaps(context'[s].assembled_by, context'[s].profile)
      BY DEF ProfilesTellTheirGaps, TellsItsGaps
    <2> QED
      BY <1>2, <1>4 DEF AssemblyInv, ProfilesTellTheirGaps
  <1>6. MemoriesAreOnRecord'
    <2> SUFFICES ASSUME NEW s \in Session, context'[s] # None,
                        "memory" \in context'[s].profile.available
                 PROVE  \E row \in audit_log : /\ row.event = "MEMORY_RETRIEVED"
                                               /\ row.about = context'[s].assembled_by
                                               /\ row.missing = {}
      BY <1>1 DEF MemoriesAreOnRecord
    <2>1. CASE context'[s] = context[s]
      BY <2>1 DEF AssemblyInv, MemoriesAreOnRecord
    <2>2. CASE context'[s] = [assembled_by |-> a, profile |-> profile[a]]
      BY <1>2, <2>2 DEF RetrievalOnRecord
    <2> QED
      BY <1>4, <2>1, <2>2
  <1>7. LogTellsWhatWasStored'
    <2>1. \A b \in Assembly : b # a => stored'[b] = stored[b]
      BY <1>1 DEF AssemblyInv, TypeOK
    <2>2. \A row \in audit_log : row.about \in Assembly
      BY DEF AssemblyInv, TypeOK
    <2> QED
      BY <1>1, <1>2, <2>1, <2>2 DEF AssemblyInv, LogTellsWhatWasStored
  <1>8. StepOf(a)
    <2>1. \E step, p : pc' = [pc EXCEPT ![a] = step] /\ profile' = [profile EXCEPT ![a] = p]
      <3>1. CASE Raise(a)
        BY <3>1 DEF Raise, Leave, Goto
      <3>2. CASE Goto(a, "recording") /\ UNCHANGED profile
        <4>1. profile' = [profile EXCEPT ![a] = profile[a]]
          BY <3>2 DEF AssemblyInv, TypeOK
        <4> QED
          BY <3>2, <4>1 DEF Goto
      <3> QED
        BY <3>1, <3>2 DEF StoreProfile
    <2> QED
      BY <1>1, <2>1 DEF AssemblyInv, TypeOK, StepOf
  <1>9. ASSUME Goto(a, "recording"), UNCHANGED profile
        PROVE  SoFar(a)'
    <2>1. pc'[a] = "recording" /\ profile'[a] = profile[a] /\ stored'[a] = {profile[a].degraded}
      BY <1>1, <1>9 DEF AssemblyInv, TypeOK, Goto
    <2>2. ProfileSoFar(a)'
      BY <1>2, <2>1 DEF ProfileSoFar, TellsItsGaps
    <2>3. MemorySoFar(a)'
      BY <1>1, <1>2, <2>1 DEF MemorySoFar, RetrievalOnRecord
    <2>4. StoredSoFar(a)'
      BY <2>1 DEF StoredSoFar
    <2> QED
      BY <2>2, <2>3, <2>4 DEF SoFar
  <1>10. ASSUME Raise(a) PROVE SoFar(a)'
    BY <1>10, LeftSoFar DEF AssemblyInv, Raise
  <1>11. SoFar(a)'
    BY <1>9, <1>10 DEF StoreProfile
  <1> QED
    BY <1>5, <1>6, <1>7, <1>8, <1>11, StoreProfileTypes, OthersSoFar DEF AssemblyInv

LEMMA StoreRefusesInv ==
  ASSUME AssemblyInv, NEW a \in Assembly, StoreRefuses(a)
  PROVE  AssemblyInv'
  <1>1. Leave(a, "failed") /\ UNCHANGED <<audit_log, context, stored>>
    BY DEF StoreRefuses, Raise
  <1>2. StepOf(a)
    BY <1>1 DEF AssemblyInv, TypeOK, StepOf, Leave, Goto
  <1>3. SoFar(a)'
    BY <1>1, LeftSoFar DEF AssemblyInv
  <1> QED
    BY <1>1, <1>2, <1>3, StoreRefusesTypes, OthersSoFar, ContextStays, LogStays DEF AssemblyInv

\* The record of an assembly says what its published profile said.
LEMMA RecordAssemblyInv ==
  ASSUME AssemblyInv, NEW a \in Assembly, RecordAssembly(a)
  PROVE  AssemblyInv'
  <1>1. /\ pc[a] = "recording" /\ UNCHANGED <<context, stored>>
        /\ audit_log' \in {audit_log, Inserted(ContextRow(a))}
    BY DEF RecordAssembly, WriteFails
  <1>2. audit_log \subseteq audit_log' /\ \A new \in audit_log' \ audit_log : new = ContextRow(a)
    BY <1>1, WrittenRows
  <1>3. \E how \in {"done", "failed"} : Leave(a, how)
    BY DEF RecordAssembly, Raise
  <1>4. SoFar(a)'
    BY <1>3, LeftSoFar DEF AssemblyInv
  <1>5. StepOf(a)
    BY <1>1, <1>2, <1>3 DEF AssemblyInv, TypeOK, StepOf, Leave, Goto
  <1>6. ContextRow(a).missing \in stored[ContextRow(a).about]
    BY <1>1, InvAt DEF StoredSoFar, ContextRow
  <1>7. LogTellsWhatWasStored'
    BY <1>1, <1>2, <1>6 DEF AssemblyInv, LogTellsWhatWasStored
  <1> QED
    BY <1>1, <1>2, <1>4, <1>5, <1>7, RecordAssemblyTypes, OthersSoFar, ContextStays
    DEF AssemblyInv

\* An expired profile makes no promise.
LEMMA ExpireInv ==
  ASSUME AssemblyInv, NEW s \in Session, Expire(s)
  PROVE  AssemblyInv'
  <1>1. /\ UNCHANGED <<pc, profile, audit_log, stored>>
        /\ context' = [context EXCEPT ![s] = None]
    BY DEF Expire, local
  <1>2. \A t \in Session : context'[t] = context[t] \/ context'[t] = None
    BY <1>1 DEF AssemblyInv, TypeOK
  <1>3. AssembliesSoFar'
    <2> SUFFICES ASSUME NEW a \in Assembly PROVE SoFar(a)'
      BY DEF AssembliesSoFar
    <2>1. ProfileSoFar(a)'
      BY <1>1, InvAt DEF ProfileSoFar, GapsAmong, TellsItsGaps
    <2>2. MemorySoFar(a)' /\ StoredSoFar(a)'
      BY <1>1, InvAt DEF MemorySoFar, StoredSoFar, RetrievalOnRecord, MemoryId
    <2> QED
      BY <2>1, <2>2 DEF SoFar
  <1>4. LogTellsWhatWasStored'
    BY <1>1 DEF AssemblyInv, LogTellsWhatWasStored
  <1>5. ProfilesTellTheirGaps'
    BY <1>2 DEF AssemblyInv, ProfilesTellTheirGaps, TellsItsGaps
  <1>6. MemoriesAreOnRecord'
    BY <1>1, <1>2 DEF AssemblyInv, MemoriesAreOnRecord
  <1> QED
    BY <1>3, <1>4, <1>5, <1>6, ExpireTypes DEF AssemblyInv

\* A stuttering step preserves it.
LEMMA StutterInv ==
  ASSUME AssemblyInv, UNCHANGED vars
  PROVE  AssemblyInv'
  <1>1. UNCHANGED <<pc, fetch, profile, assembled_at, context, audit_log, stored, second, refusals>>
    BY DEF vars, local, shared
  <1>2. TypeOK'
    BY <1>1 DEF AssemblyInv, TypeOK
  <1>3. AssembliesSoFar'
    BY <1>1 DEF AssemblyInv, AssembliesSoFar, SoFar, ProfileSoFar, MemorySoFar, StoredSoFar,
                GapsAmong, TellsItsGaps, RetrievalOnRecord, MemoryId
  <1> QED
    BY <1>1, <1>2, <1>3, ContextStays, LogStays DEF AssemblyInv

\* Every step preserves the invariant.
LEMMA StepInv == AssemblyInv /\ [Next]_vars => AssemblyInv'
  <1> SUFFICES ASSUME AssemblyInv, [Next]_vars PROVE AssemblyInv'
    OBVIOUS
  <1>1. ASSUME NEW a \in Assembly, Begin(a) PROVE AssemblyInv'
    BY <1>1, BeginInv
  <1>2. ASSUME NEW a \in Assembly, NEW s \in Source, FetchAnswers(a, s) \/ FetchTimesOut(a, s)
        PROVE  AssemblyInv'
    BY <1>2, FetchInv
  <1>3. ASSUME NEW a \in Assembly, NEW s \in Source, FetchRaises(a, s) PROVE AssemblyInv'
    BY <1>3, RaiseInv DEF FetchRaises
  <1>4. ASSUME NEW a \in Assembly, PullSignals(a) PROVE AssemblyInv'
    BY <1>4, PullSignalsInv
  <1>5. ASSUME NEW a \in Assembly, LoseSignals(a) \/ NormalizeFails(a) PROVE AssemblyInv'
    BY <1>5, RaiseInv DEF LoseSignals, NormalizeFails
  <1>6. ASSUME NEW a \in Assembly, Score(a) PROVE AssemblyInv'
    BY <1>6, ScoreInv
  <1>7. ASSUME NEW a \in Assembly, RetrieveMemory(a) PROVE AssemblyInv'
    BY <1>7, RetrieveMemoryInv
  <1>8. ASSUME NEW a \in Assembly, NoteRetrieval(a) PROVE AssemblyInv'
    BY <1>8, NoteRetrievalInv
  <1>9. ASSUME NEW a \in Assembly, NoteLoss(a) PROVE AssemblyInv'
    BY <1>9, NoteLossInv
  <1>10. ASSUME NEW a \in Assembly, StoreProfile(a) PROVE AssemblyInv'
    BY <1>10, StoreProfileInv
  <1>11. ASSUME NEW a \in Assembly, StoreRefuses(a) PROVE AssemblyInv'
    BY <1>11, StoreRefusesInv
  <1>12. ASSUME NEW a \in Assembly, RecordAssembly(a) PROVE AssemblyInv'
    BY <1>12, RecordAssemblyInv
  <1>13. ASSUME NEW s \in Session, Expire(s) PROVE AssemblyInv'
    BY <1>13, ExpireInv
  <1>14. CASE UNCHANGED vars
    BY <1>14, StutterInv
  <1> QED
    BY <1>1, <1>2, <1>3, <1>4, <1>5, <1>6, <1>7, <1>8, <1>9, <1>10, <1>11, <1>12, <1>13, <1>14
    DEF Next, Proceed

\* The invariant holds in every reachable state, and with it the types.
THEOREM AssemblyInvariant == Spec => []AssemblyInv
  BY InitInv, StepInv, PTL DEF Spec

\* Every variable keeps its type.
THEOREM ContextTypes == Spec => []TypeOK
  <1>1. AssemblyInv => TypeOK
    BY DEF AssemblyInv
  <1> QED
    BY <1>1, AssemblyInvariant, PTL

\* Whatever the sources, the scores, the memory and the stores do, a profile
\* that can be read tells its gaps.
THEOREM GapsAreTold == Spec => []ProfilesTellTheirGaps
  <1>1. AssemblyInv => ProfilesTellTheirGaps
    BY DEF AssemblyInv
  <1> QED
    BY <1>1, AssemblyInvariant, PTL

\* A profile that may carry memories can be read only once their retrieval is
\* in the log, however many writes fail and whether they took effect or not.
THEOREM MemoriesOnRecord == Spec => []MemoriesAreOnRecord
  <1>1. AssemblyInv => MemoriesAreOnRecord
    BY DEF AssemblyInv
  <1> QED
    BY <1>1, AssemblyInvariant, PTL

-----------------------------------------------------------------------------
(* The refinement of ContextSnapshot.                                      *)

\* The abstract variables, as Snapshot maps them.
SnapshotBar == [s \in Session |-> IF context[s] = None THEN {} ELSE {context[s].assembled_by}]

Attested(a) == {row.missing : row \in {r \in audit_log :
                                         r.event = "CONTEXT_ASSEMBLY" /\ r.about = a}}

EvidenceBar == [a \in Assembly |-> Attested(a)]

LEMMA BarsAreTheMapping ==
  Snapshot!vars = <<SnapshotBar, stored, EvidenceBar>>
  BY DEF Snapshot!vars, SnapshotBar, EvidenceBar, Attested

\* Rows of other events are no evidence.
LEMMA EvidenceStays ==
  ASSUME audit_log \subseteq audit_log',
         \A new \in audit_log' \ audit_log : new.event # "CONTEXT_ASSEMBLY"
  PROVE  UNCHANGED EvidenceBar
  <1>1. \A a \in Assembly : {r \in audit_log' : r.event = "CONTEXT_ASSEMBLY" /\ r.about = a}
                            = {r \in audit_log : r.event = "CONTEXT_ASSEMBLY" /\ r.about = a}
    OBVIOUS
  <1>2. \A a \in Assembly : Attested(a)' = Attested(a)
    BY <1>1 DEF Attested
  <1> QED
    BY <1>2 DEF EvidenceBar

\* A step that publishes, attests and expires nothing is a stutter.
LEMMA SnapshotStutters ==
  ASSUME UNCHANGED <<context, stored>>, audit_log \subseteq audit_log',
         \A new \in audit_log' \ audit_log : new.event # "CONTEXT_ASSEMBLY"
  PROVE  UNCHANGED Snapshot!vars
  <1>1. UNCHANGED SnapshotBar
    BY DEF SnapshotBar
  <1> QED
    BY <1>1, EvidenceStays, BarsAreTheMapping DEF Snapshot!vars, SnapshotBar, EvidenceBar, Attested

\* The store accepts a profile only for a session that has none: the snapshot is
\* published, reply or no reply.
LEMMA StorePublishes ==
  ASSUME AssemblyInv, NEW a \in Assembly, StoreProfile(a)
  PROVE  \E missing \in SUBSET Reportable : Snapshot!Publish(a, missing)
  <1>1. /\ pc[a] = "storing" /\ UNCHANGED audit_log
        /\ context[SessionOf[a]] = None
        /\ context' = [context EXCEPT ![SessionOf[a]] =
                         [assembled_by |-> a, profile |-> profile[a]]]
        /\ stored' = [stored EXCEPT ![a] = {profile[a].degraded}]
    BY DEF StoreProfile, Written, Free
  <1>2. stored[a] = {} /\ profile[a].degraded \in SUBSET Reportable
    BY <1>1, InvAt DEF StoredSoFar, Profiles
  <1>3. SessionOf[a] \in Session
    BY DEF Session
  <1>4. [assembled_by |-> a, profile |-> profile[a]] # None
    <2>1. [assembled_by |-> a, profile |-> profile[a]] = None =>
            DOMAIN [assembled_by |-> a, profile |-> profile[a]] = DOMAIN None
      OBVIOUS
    <2> QED
      BY <2>1 DEF None
  <1>5. context'[SessionOf[a]] = [assembled_by |-> a, profile |-> profile[a]]
    BY <1>1, <1>3 DEF AssemblyInv, TypeOK
  <1>6. \A s \in Session : s # SessionOf[a] => context'[s] = context[s]
    BY <1>1 DEF AssemblyInv, TypeOK
  <1>7. SnapshotBar' = [SnapshotBar EXCEPT ![SessionOf[a]] = {a}]
    <2>1. context'[SessionOf[a]] # None /\ context'[SessionOf[a]].assembled_by = a
      BY <1>4, <1>5
    <2>2. SnapshotBar'[SessionOf[a]] = {a}
      BY <1>3, <2>1 DEF SnapshotBar
    <2>3. \A s \in Session : s # SessionOf[a] => SnapshotBar'[s] = SnapshotBar[s]
      BY <1>6 DEF SnapshotBar
    <2>4. SnapshotBar \in [Session -> {SnapshotBar[s] : s \in Session}]
      BY DEF SnapshotBar
    <2>5. SnapshotBar' = [s \in Session |-> SnapshotBar'[s]]
      BY DEF SnapshotBar
    <2> QED
      BY <1>3, <2>2, <2>3, <2>4, <2>5
  <1>8. SnapshotBar[SessionOf[a]] = {}
    BY <1>1, <1>3 DEF SnapshotBar
  <1>9. UNCHANGED EvidenceBar
    BY <1>1, EvidenceStays
  <1> QED
    BY <1>1, <1>2, <1>7, <1>8, <1>9
    DEF Snapshot!Publish, SnapshotBar, EvidenceBar, Attested

\* The record of an assembly attests what it published; a record whose id is
\* taken, or that is lost, is no step of the snapshot.
LEMMA RecordAttests ==
  ASSUME AssemblyInv, NEW a \in Assembly, RecordAssembly(a)
  PROVE  Snapshot!Attest(a) \/ UNCHANGED Snapshot!vars
  <1>1. /\ pc[a] = "recording" /\ UNCHANGED <<context, stored>>
        /\ audit_log' \in {audit_log, audit_log \cup {ContextRow(a)}}
    BY DEF RecordAssembly, WriteFails, Inserted
  <1>2. CASE audit_log' = audit_log
    BY <1>1, <1>2, SnapshotStutters
  <1>3. CASE audit_log' = audit_log \cup {ContextRow(a)}
    <2>1. stored[a] = {profile[a].degraded}
      BY <1>1, InvAt DEF StoredSoFar
    <2>2. /\ ContextRow(a).event = "CONTEXT_ASSEMBLY" /\ ContextRow(a).about = a
          /\ ContextRow(a).missing = profile[a].degraded
      BY DEF ContextRow
    <2>3. Attested(a) \subseteq stored[a]
      BY DEF AssemblyInv, LogTellsWhatWasStored, Attested
    <2>4. Attested(a)' = Attested(a) \cup {profile[a].degraded}
      BY <1>3, <2>2 DEF Attested
    <2>5. Attested(a)' = stored[a]
      BY <2>1, <2>3, <2>4
    <2>6. \A b \in Assembly : b # a => Attested(b)' = Attested(b)
      BY <1>3, <2>2 DEF Attested
    <2>7. EvidenceBar' = [EvidenceBar EXCEPT ![a] = stored[a]]
      BY <2>5, <2>6 DEF EvidenceBar
    <2>8. UNCHANGED SnapshotBar
      BY <1>1 DEF SnapshotBar
    <2>9. Snapshot!Attest(a)
      BY <1>1, <2>1, <2>7, <2>8 DEF Snapshot!Attest, SnapshotBar, EvidenceBar, Attested
    <2> QED
      BY <2>9
  <1> QED
    BY <1>1, <1>2, <1>3

\* The time to live of a profile ends: so does the snapshot's.
LEMMA ExpiryExpires ==
  ASSUME AssemblyInv, NEW s \in Session, Expire(s)
  PROVE  Snapshot!Expire(s)
  <1>1. UNCHANGED <<audit_log, stored>> /\ context' = [context EXCEPT ![s] = None]
    BY DEF Expire, local
  <1>2. context'[s] = None /\ \A t \in Session : t # s => context'[t] = context[t]
    BY <1>1 DEF AssemblyInv, TypeOK
  <1>3. SnapshotBar' = [SnapshotBar EXCEPT ![s] = {}]
    BY <1>2 DEF SnapshotBar
  <1>4. UNCHANGED EvidenceBar
    BY <1>1, EvidenceStays
  <1> QED
    BY <1>1, <1>3, <1>4 DEF Snapshot!Expire, SnapshotBar, EvidenceBar, Attested

\* Initial states map to initial states.
LEMMA InitSnapshot == Init => Snapshot!Init
  <1> SUFFICES ASSUME Init PROVE Snapshot!Init
    OBVIOUS
  <1>1. Snapshot!Session = Session
    BY DEF Snapshot!Session, Session
  <1>2. SnapshotBar = [s \in Session |-> {}]
    BY DEF Init, SnapshotBar
  <1>3. EvidenceBar = [a \in Assembly |-> {}]
    BY DEF Init, EvidenceBar, Attested
  <1> QED
    BY <1>1, <1>2, <1>3 DEF Init, Snapshot!Init, SnapshotBar, EvidenceBar, Attested

\* Every step maps to a step or a stutter.
LEMMA StepSnapshot == AssemblyInv /\ [Next]_vars => [Snapshot!Next]_(Snapshot!vars)
  <1> SUFFICES ASSUME AssemblyInv, [Next]_vars PROVE Snapshot!Next \/ UNCHANGED Snapshot!vars
    OBVIOUS
  <1>1. ASSUME UNCHANGED <<context, audit_log, stored>> PROVE UNCHANGED Snapshot!vars
    BY <1>1, SnapshotStutters
  <1>2. ASSUME NEW a \in Assembly, Begin(a) PROVE UNCHANGED <<context, audit_log, stored>>
    BY <1>2 DEF Begin, shared
  <1>3. ASSUME NEW a \in Assembly, NEW s \in Source,
               FetchAnswers(a, s) \/ FetchTimesOut(a, s) \/ FetchRaises(a, s)
        PROVE  UNCHANGED <<context, audit_log, stored>>
    BY <1>3 DEF FetchAnswers, FetchTimesOut, FetchRaises, Answer, shared
  <1>4. ASSUME NEW a \in Assembly,
               PullSignals(a) \/ LoseSignals(a) \/ NormalizeFails(a) \/ Score(a)
                 \/ RetrieveMemory(a) \/ StoreRefuses(a)
        PROVE  UNCHANGED <<context, audit_log, stored>>
    BY <1>4 DEF PullSignals, LoseSignals, NormalizeFails, Score, RetrieveMemory, StoreRefuses, shared
  <1>5. ASSUME NEW a \in Assembly, NoteRetrieval(a) \/ NoteLoss(a)
        PROVE  UNCHANGED Snapshot!vars
    <2>1. PICK row \in {MemoryRow(a, {}), MemoryRow(a, {"memory"})} :
            /\ UNCHANGED <<context, stored>>
            /\ audit_log' \in {audit_log, Inserted(row)}
      BY <1>5 DEF NoteRetrieval, NoteLoss, WriteFails
    <2>2. row.event # "CONTEXT_ASSEMBLY"
      BY DEF MemoryRow
    <2> QED
      BY <2>1, <2>2, WrittenRows, SnapshotStutters
  <1>6. ASSUME NEW a \in Assembly, StoreProfile(a) PROVE Snapshot!Next
    BY <1>6, StorePublishes DEF Snapshot!Next
  <1>7. ASSUME NEW a \in Assembly, RecordAssembly(a)
        PROVE  Snapshot!Next \/ UNCHANGED Snapshot!vars
    BY <1>7, RecordAttests DEF Snapshot!Next
  <1>8. ASSUME NEW s \in Session, Expire(s) PROVE Snapshot!Next
    <2>1. s \in Snapshot!Session
      BY DEF Session, Snapshot!Session
    <2> QED
      BY <1>8, <2>1, ExpiryExpires DEF Snapshot!Next
  <1>9. CASE UNCHANGED vars
    BY <1>1, <1>9 DEF vars, shared
  <1> QED
    BY <1>1, <1>2, <1>3, <1>4, <1>5, <1>6, <1>7, <1>8, <1>9 DEF Next, Proceed

\* Layer 1 keeps its promise to the layers after it: one snapshot per session
\* until it expires, with its gaps, and a log that attests only what was published.
THEOREM SnapshotImplemented == Spec => ImplementsSnapshot
  BY InitSnapshot, StepSnapshot, AssemblyInvariant, PTL DEF Spec, ImplementsSnapshot, Snapshot!Spec
=============================================================================
