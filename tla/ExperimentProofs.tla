--------------------------- MODULE ExperimentProofs ---------------------------
(***************************************************************************)
(* What holds of an experiment for any outcomes, customers, seeds, minimum *)
(* sample and number of threads.                                           *)
(***************************************************************************)
EXTENDS Experiment, FiniteSetTheorems, TLAPS

Reported == [variant : Variant, converted : BOOLEAN]

\* The counts of v are possible and claim nothing that did not happen.
Backed(counts, v) ==
  /\ counts \in Counts
  /\ counts.conversions <= counts.samples
  /\ counts.samples <= Happened(v).samples
  /\ counts.conversions <= Happened(v).conversions

\* The variants with as many samples as a winner needs.
Sampled == {v \in Variant : Happened(v).samples >= MinSample}

\* What a thread works on: an outcome, a copy of the counts, a leader.
ThreadSoFar(o) ==
  /\ step[o] # "unreported" => outcome[o] \in Reported
  /\ step[o] = "write" => \A v \in Variant : outcome[o].variant = v => Backed(held[o], v)
  /\ step[o] \in {"conclude", "name"} => leader[o] \in Sampled

\* The invariant: the copies that threads hold are backed like the counts, since
\* a copy becomes the counts, and a leader stays sampled until it is named.
ExperimentInv ==
  /\ TypeOK
  /\ \A v \in Variant : IsFiniteSet(Written(v))
  /\ \A v \in Variant : Backed(variants[v], v)
  /\ \A o \in Outcome : ThreadSoFar(o)
  /\ winner # None => winner \in Sampled
  /\ SwitchNeedsSamples

-----------------------------------------------------------------------------
(* What happened only grows.                                               *)

Unwritten == {"unreported", "read", "write"}

\* Nothing is taken back of what happened.
Grows ==
  \A v \in Variant :
    /\ IsFiniteSet(Written(v)')
    /\ Happened(v)'.samples \in Nat /\ Happened(v)'.conversions \in Nat
    /\ Happened(v)'.samples >= Happened(v).samples
    /\ Happened(v)'.conversions >= Happened(v).conversions

\* What happened is counted by natural numbers.
LEMMA HappenedIsCounted ==
  ASSUME NEW v \in Variant, IsFiniteSet(Written(v))
  PROVE  /\ IsFiniteSet(Converted(v))
         /\ Happened(v).samples = Seed[v].samples + Cardinality(Written(v))
         /\ Happened(v).conversions = Seed[v].conversions + Cardinality(Converted(v))
         /\ Happened(v).samples \in Nat /\ Happened(v).conversions \in Nat
         /\ Seed[v].samples \in Nat /\ Seed[v].conversions \in Nat
         /\ Cardinality(Written(v)) \in Nat /\ Cardinality(Converted(v)) \in Nat
  <1>1. Converted(v) \subseteq Written(v)
    BY DEF Converted
  <1>2. IsFiniteSet(Converted(v))
    BY <1>1, FS_Subset
  <1>3. Cardinality(Written(v)) \in Nat /\ Cardinality(Converted(v)) \in Nat
    BY <1>2, FS_CardinalityType
  <1>4. Seed[v].samples \in Nat /\ Seed[v].conversions \in Nat
    BY ExperimentAssumption DEF ExperimentAssumption, Counts
  <1> QED
    BY <1>2, <1>3, <1>4 DEF Happened

\* A step that writes no counts leaves what happened as it is.
LEMMA NothingHappens ==
  ASSUME \A v \in Variant : IsFiniteSet(Written(v)),
         \A o \in Outcome : step'[o] \in Unwritten <=> step[o] \in Unwritten,
         \A o \in Outcome : step[o] \notin Unwritten => outcome'[o] = outcome[o]
  PROVE  Grows
  <1> SUFFICES ASSUME NEW v \in Variant
               PROVE  Written(v)' = Written(v) /\ Converted(v)' = Converted(v)
    <2>1. ASSUME NEW v \in Variant, Written(v)' = Written(v), Converted(v)' = Converted(v)
          PROVE  Happened(v)' = Happened(v)
      BY <2>1 DEF Happened
    <2> QED
      BY <2>1, HappenedIsCounted DEF Grows
  <1>1. Written(v)' = Written(v)
    BY DEF Written, Unwritten
  <1>2. \A o \in Written(v) : outcome'[o] = outcome[o]
    BY DEF Written, Unwritten
  <1> QED
    BY <1>1, <1>2 DEF Converted

\* Counts that were backed stay backed, a sampled variant stays sampled.
LEMMA StaysBacked ==
  ASSUME Grows, NEW v \in Variant, NEW counts, Backed(counts, v),
         IsFiniteSet(Written(v))
  PROVE  Backed(counts, v)'
  BY HappenedIsCounted DEF Grows, Backed, Counts

LEMMA StaysSampled ==
  ASSUME Grows, \A v \in Variant : IsFiniteSet(Written(v))
  PROVE  Sampled \subseteq Sampled'
  BY HappenedIsCounted, ExperimentAssumption DEF Grows, Sampled, ExperimentAssumption

-----------------------------------------------------------------------------
(* Every step keeps the invariant.                                         *)

\* What a thread works on stays good while others move.
LEMMA OthersKeep ==
  ASSUME Grows, ExperimentInv, NEW o \in Outcome,
         step'[o] = step[o], outcome'[o] = outcome[o], held'[o] = held[o],
         leader'[o] = leader[o]
  PROVE  ThreadSoFar(o)'
  <1>1. step[o] # "unreported" => outcome[o] \in Reported
    BY DEF ExperimentInv, ThreadSoFar
  <1>2. ASSUME step[o] = "write", NEW v \in Variant, outcome[o].variant = v
        PROVE  Backed(held[o], v)'
    <2>1. Backed(held[o], v) /\ IsFiniteSet(Written(v))
      BY <1>2 DEF ExperimentInv, ThreadSoFar
    <2>2. PICK counts : counts = held[o]
      OBVIOUS
    <2>3. Backed(counts, v)'
      BY <2>1, <2>2, StaysBacked
    <2>4. held'[o] = counts
      BY <2>2
    <2> QED
      BY <2>3, <2>4 DEF Backed
  <1>3. step[o] \in {"conclude", "name"} => leader[o] \in Sampled'
    BY StaysSampled DEF ExperimentInv, ThreadSoFar
  <1> QED
    BY <1>1, <1>2, <1>3 DEF ThreadSoFar

\* Customers stay where they are while variants keep their samples.
LEMMA SwitchesKeep ==
  ASSUME Grows, ExperimentInv, UNCHANGED assigned
  PROVE  SwitchNeedsSamples'
  <1> SUFFICES ASSUME NEW c \in Customer, NEW v \in assigned[c] \ {Bucketed(c)}
               PROVE  Happened(v)'.samples >= MinSample
    BY DEF SwitchNeedsSamples, Bucketed
  <1>1. v \in Variant /\ Happened(v).samples >= MinSample
    BY DEF ExperimentInv, SwitchNeedsSamples, TypeOK
  <1> QED
    BY <1>1, StaysSampled DEF Sampled, ExperimentInv

\* The counts stay backed while nobody writes them.
LEMMA CountsKeep ==
  ASSUME Grows, ExperimentInv, UNCHANGED variants
  PROVE  \A v \in Variant : Backed(variants[v], v)'
  <1> SUFFICES ASSUME NEW v \in Variant
               PROVE  Backed(variants[v], v)'
    OBVIOUS
  <1>1. PICK counts : counts = variants[v]
    OBVIOUS
  <1>2. Backed(counts, v)'
    BY <1>1, StaysBacked DEF ExperimentInv
  <1> QED
    BY <1>1, <1>2 DEF Backed

-----------------------------------------------------------------------------
(* Threads.                                                                *)

\* A qualified leader has the samples it needs, in the counts it was found on.
LEMMA LeaderQualifies ==
  ASSUME NEW counts, Qualified(counts) # None
  PROVE  Qualified(counts) \in Variant /\ counts[Qualified(counts)].samples >= MinSample
  BY DEF Qualified, Variant

\* ... and hence among what happened.
LEMMA LeaderIsSampled ==
  ASSUME ExperimentInv, Qualified(variants) # None
  PROVE  Qualified(variants) \in Sampled
  <1>1. PICK v \in Variant : v = Qualified(variants)
    BY LeaderQualifies
  <1>2. variants[v].samples >= MinSample /\ Backed(variants[v], v)
    BY <1>1, LeaderQualifies DEF ExperimentInv
  <1>3. Happened(v).samples \in Nat
    BY HappenedIsCounted DEF ExperimentInv
  <1> QED
    BY <1>1, <1>2, <1>3, ExperimentAssumption
    DEF Backed, Counts, Sampled, ExperimentAssumption

\* What is left to show of a step that writes no counts, switches nobody and names
\* no winner: the types and its own thread.
LEMMA QuietStep ==
  ASSUME ExperimentInv, TypeOK', UNCHANGED <<variants, winner, assigned>>, Grows,
         \A o \in Outcome : ThreadSoFar(o)'
  PROVE  ExperimentInv'
  <1>1. SwitchNeedsSamples'
    BY SwitchesKeep
  <1>2. \A v \in Variant : Backed(variants[v], v)'
    BY CountsKeep
  <1>3. winner' # None => winner' \in Sampled'
    BY StaysSampled DEF ExperimentInv
  <1> QED
    BY <1>1, <1>2, <1>3 DEF ExperimentInv, Grows

LEMMA ReportKeeps ==
  ASSUME ExperimentInv, NEW o \in Outcome, Report(o)
  PROVE  ExperimentInv'
  <1>1. PICK v \in Variant, converted \in BOOLEAN :
          outcome' = [outcome EXCEPT ![o] = [variant |-> v, converted |-> converted]]
    BY DEF Report
  <1>2. step[o] = "unreported" /\ step' = [step EXCEPT ![o] = "read"]
    BY DEF Report, Move
  <1>3. TypeOK'
    BY <1>1, <1>2 DEF ExperimentInv, TypeOK, Report
  <1>4. Grows
    BY <1>1, <1>2, NothingHappens DEF ExperimentInv, TypeOK, Unwritten
  <1>5. ASSUME NEW q \in Outcome
        PROVE  ThreadSoFar(q)'
    <2>1. CASE q = o
      BY <1>1, <1>2, <2>1 DEF ThreadSoFar, ExperimentInv, TypeOK, Reported
    <2>2. CASE q # o
      BY <1>1, <1>2, <1>4, <2>2, OthersKeep DEF Report, ExperimentInv, TypeOK
    <2> QED
      BY <2>1, <2>2
  <1> QED
    BY <1>3, <1>4, <1>5, QuietStep DEF Report

LEMMA ReadCountsKeeps ==
  ASSUME ExperimentInv, NEW o \in Outcome, ReadCounts(o)
  PROVE  ExperimentInv'
  <1>1. outcome[o] \in Reported /\ outcome[o].variant \in Variant
    BY DEF ReadCounts, ExperimentInv, ThreadSoFar, Reported
  <1>2. PICK v \in Variant : outcome[o].variant = v
    BY <1>1
  <1>3. step[o] = "read" /\ step' = [step EXCEPT ![o] = "write"]
    BY DEF ReadCounts, Move
  <1>4. held' = [held EXCEPT ![o] = variants[v]]
    BY <1>2 DEF ReadCounts
  <1>5. TypeOK'
    BY <1>3, <1>4 DEF ExperimentInv, TypeOK, ReadCounts
  <1>6. Grows
    BY <1>3, NothingHappens DEF ExperimentInv, TypeOK, Unwritten, ReadCounts
  <1>7. ASSUME NEW q \in Outcome
        PROVE  ThreadSoFar(q)'
    <2>1. CASE q = o
      <3>1. PICK counts : counts = variants[v]
        OBVIOUS
      <3>2. Backed(counts, v)'
        BY <1>6, <3>1, StaysBacked DEF ExperimentInv
      <3>3. held'[o] = counts /\ step'[o] = "write" /\ outcome'[o] = outcome[o]
        BY <1>3, <1>4, <3>1 DEF ReadCounts, ExperimentInv, TypeOK
      <3>4. Backed(held[o], v)'
        BY <3>2, <3>3 DEF Backed
      <3> QED
        BY <1>1, <1>2, <2>1, <3>3, <3>4 DEF ThreadSoFar
    <2>2. CASE q # o
      BY <1>3, <1>4, <1>6, <2>2, OthersKeep DEF ReadCounts, ExperimentInv, TypeOK
    <2> QED
      BY <2>1, <2>2
  <1> QED
    BY <1>5, <1>6, <1>7, QuietStep DEF ReadCounts

LEMMA EvaluateKeeps ==
  ASSUME ExperimentInv, NEW o \in Outcome, Evaluate(o)
  PROVE  ExperimentInv'
  <1>1. step[o] = "evaluate" /\ leader' = [leader EXCEPT ![o] = Qualified(variants)]
    BY DEF Evaluate
  <1>2. step' = [step EXCEPT ![o] = IF leader'[o] = None THEN "done" ELSE "conclude"]
    BY DEF Evaluate, Move
  <1>3. leader'[o] = Qualified(variants)
    BY <1>1 DEF ExperimentInv, TypeOK
  <1>4. Qualified(variants) \in {None} \cup Variant
    BY LeaderQualifies
  <1>5. TypeOK'
    BY <1>1, <1>2, <1>4 DEF ExperimentInv, TypeOK, Evaluate
  <1>6. Grows
    BY <1>1, <1>2, NothingHappens DEF ExperimentInv, TypeOK, Unwritten, Evaluate
  <1>7. ASSUME NEW q \in Outcome
        PROVE  ThreadSoFar(q)'
    <2>1. CASE q = o
      <3>1. step'[o] = "conclude" => leader'[o] \in Sampled'
        BY <1>2, <1>3, <1>6, LeaderIsSampled, StaysSampled DEF ExperimentInv, TypeOK
      <3>2. step'[o] \in {"done", "conclude"} /\ outcome'[o] = outcome[o]
        BY <1>1, <1>2 DEF Evaluate, ExperimentInv, TypeOK
      <3>3. outcome[o] \in Reported
        BY <1>1 DEF ExperimentInv, ThreadSoFar
      <3> QED
        BY <2>1, <3>1, <3>2, <3>3 DEF ThreadSoFar
    <2>2. CASE q # o
      BY <1>1, <1>2, <1>6, <2>2, OthersKeep DEF Evaluate, ExperimentInv, TypeOK
    <2> QED
      BY <2>1, <2>2
  <1> QED
    BY <1>5, <1>6, <1>7, QuietStep DEF Evaluate

LEMMA ConcludeKeeps ==
  ASSUME ExperimentInv, NEW o \in Outcome, Conclude(o)
  PROVE  ExperimentInv'
  <1>1. step[o] = "conclude" /\ step' = [step EXCEPT ![o] = "name"]
    BY DEF Conclude, Move
  <1>2. TypeOK'
    BY <1>1 DEF ExperimentInv, TypeOK, Conclude
  <1>3. Grows
    BY <1>1, NothingHappens DEF ExperimentInv, TypeOK, Unwritten, Conclude
  <1>4. ASSUME NEW q \in Outcome
        PROVE  ThreadSoFar(q)'
    <2>1. CASE q = o
      <3>1. outcome[o] \in Reported /\ leader[o] \in Sampled'
        BY <1>1, <1>3, StaysSampled DEF ExperimentInv, ThreadSoFar
      <3>2. step'[o] = "name" /\ outcome'[o] = outcome[o] /\ leader'[o] = leader[o]
        BY <1>1 DEF Conclude, ExperimentInv, TypeOK
      <3> QED
        BY <2>1, <3>1, <3>2 DEF ThreadSoFar
    <2>2. CASE q # o
      BY <1>1, <1>3, <2>2, OthersKeep DEF Conclude, ExperimentInv, TypeOK
    <2> QED
      BY <2>1, <2>2
  <1> QED
    BY <1>2, <1>3, <1>4, QuietStep DEF Conclude

\* The winner is the leader that was sampled when it was found.
LEMMA NameWinnerKeeps ==
  ASSUME ExperimentInv, NEW o \in Outcome, NameWinner(o)
  PROVE  ExperimentInv'
  <1>1. step[o] = "name" /\ step' = [step EXCEPT ![o] = "done"]
    BY DEF NameWinner, Move
  <1>2. winner' = leader[o] /\ leader' = [leader EXCEPT ![o] = None]
    BY DEF NameWinner, WinnerNamed
  <1>3. leader[o] \in Sampled /\ outcome[o] \in Reported
    BY <1>1 DEF ExperimentInv, ThreadSoFar
  <1>4. TypeOK'
    BY <1>1, <1>2, <1>3 DEF ExperimentInv, TypeOK, NameWinner, Sampled
  <1>5. Grows
    BY <1>1, NothingHappens DEF ExperimentInv, TypeOK, Unwritten, NameWinner
  <1>6. ASSUME NEW q \in Outcome
        PROVE  ThreadSoFar(q)'
    <2>1. CASE q = o
      <3>1. step'[o] = "done" /\ outcome'[o] = outcome[o]
        BY <1>1 DEF NameWinner, ExperimentInv, TypeOK
      <3> QED
        BY <1>3, <2>1, <3>1 DEF ThreadSoFar
    <2>2. CASE q # o
      BY <1>1, <1>2, <1>5, <2>2, OthersKeep DEF NameWinner, ExperimentInv, TypeOK
    <2> QED
      BY <2>1, <2>2
  <1>7. winner' \in Sampled'
    BY <1>2, <1>3, <1>5, StaysSampled DEF ExperimentInv
  <1>8. SwitchNeedsSamples' /\ \A v \in Variant : Backed(variants[v], v)'
    BY <1>5, SwitchesKeep, CountsKeep DEF NameWinner
  <1> QED
    BY <1>4, <1>5, <1>6, <1>7, <1>8 DEF ExperimentInv, Grows

-----------------------------------------------------------------------------
(* A write replaces counts by an old copy and one outcome more, and that    *)
(* outcome has happened: the copy plus one claims no more than what was      *)
(* true when it was read, plus one.                                         *)

\* The outcome that is written, and no other, joins what happened.
LEMMA OneMoreHappens ==
  ASSUME ExperimentInv, NEW o \in Outcome, WriteCounts(o), NEW v \in Variant
  PROVE  /\ IsFiniteSet(Written(v)')
         /\ outcome[o].variant = v =>
              /\ Happened(v)'.samples = Happened(v).samples + 1
              /\ Happened(v)'.conversions
                   = Happened(v).conversions + (IF outcome[o].converted THEN 1 ELSE 0)
         /\ outcome[o].variant # v => Happened(v)' = Happened(v)
  <1>1. step[o] = "write" /\ step' = [step EXCEPT ![o] = "evaluate"] /\ outcome' = outcome
    BY DEF WriteCounts, Move
  <1>2. Written(v)' = IF outcome[o].variant = v THEN Written(v) \cup {o} ELSE Written(v)
    BY <1>1 DEF Written, ExperimentInv, TypeOK
  <1>3. Converted(v)' = IF outcome[o].variant = v /\ outcome[o].converted
                          THEN Converted(v) \cup {o} ELSE Converted(v)
    BY <1>1, <1>2 DEF Converted
  <1>4. o \notin Written(v) /\ o \notin Converted(v)
    BY <1>1 DEF Written, Converted
  <1>5. IsFiniteSet(Written(v)) /\ IsFiniteSet(Converted(v))
    BY HappenedIsCounted DEF ExperimentInv
  <1>6. /\ IsFiniteSet(Written(v) \cup {o})
        /\ Cardinality(Written(v) \cup {o}) = Cardinality(Written(v)) + 1
        /\ Cardinality(Converted(v) \cup {o}) = Cardinality(Converted(v)) + 1
    BY <1>4, <1>5, FS_AddElement
  <1>7. Happened(v)' = [samples     |-> Seed[v].samples + Cardinality(Written(v)'),
                        conversions |-> Seed[v].conversions + Cardinality(Converted(v)')]
    BY DEF Happened
  <1>8. CASE outcome[o].variant # v
    BY <1>2, <1>3, <1>5, <1>7, <1>8 DEF Happened
  <1>9. CASE outcome[o].variant = v
    <2>1. Happened(v)'.samples = Seed[v].samples + (Cardinality(Written(v)) + 1)
      BY <1>2, <1>6, <1>7, <1>9
    <2>2. Happened(v)'.conversions = Seed[v].conversions
            + (Cardinality(Converted(v)) + (IF outcome[o].converted THEN 1 ELSE 0))
      BY <1>3, <1>5, <1>6, <1>7, <1>9, HappenedIsCounted
    <2> QED
      BY <1>2, <1>5, <1>6, <1>9, <2>1, <2>2, HappenedIsCounted
  <1> QED
    BY <1>8, <1>9

\* What is written is backed by what happened, the outcome included.
LEMMA WrittenIsBacked ==
  ASSUME ExperimentInv, NEW o \in Outcome, WriteCounts(o),
         NEW v \in Variant, outcome[o].variant = v
  PROVE  Backed(variants[v], v)'
  <1> DEFINE counts == Tallied(held[o], outcome[o].converted)
             more == IF outcome[o].converted THEN 1 ELSE 0
  <1>1. Backed(held[o], v) /\ outcome[o] \in Reported
    BY DEF WriteCounts, ExperimentInv, ThreadSoFar
  <1>2. variants'[v] = counts
    BY DEF WriteCounts, ExperimentInv, TypeOK
  <1>3. more \in 0..1
    OBVIOUS
  <1>4. counts = [samples |-> held[o].samples + 1, conversions |-> held[o].conversions + more]
    BY DEF Tallied
  <1>5. /\ Happened(v)'.samples = Happened(v).samples + 1
        /\ Happened(v)'.conversions = Happened(v).conversions + more
    BY OneMoreHappens
  <1>6. Happened(v).samples \in Nat /\ Happened(v).conversions \in Nat
    BY HappenedIsCounted DEF ExperimentInv
  <1> HIDE DEF counts, more
  <1>7. counts \in Counts /\ counts.conversions <= counts.samples
    BY <1>1, <1>3, <1>4 DEF Backed, Counts
  <1>8. /\ counts.samples <= Happened(v)'.samples
        /\ counts.conversions <= Happened(v)'.conversions
    BY <1>1, <1>3, <1>4, <1>5, <1>6 DEF Backed, Counts
  <1> QED
    BY <1>2, <1>7, <1>8 DEF Backed

LEMMA WriteCountsKeeps ==
  ASSUME ExperimentInv, NEW o \in Outcome, WriteCounts(o)
  PROVE  ExperimentInv'
  <1>1. outcome[o] \in Reported /\ outcome[o].variant \in Variant
    BY DEF WriteCounts, ExperimentInv, ThreadSoFar, Reported
  <1>2. step[o] = "write" /\ step' = [step EXCEPT ![o] = "evaluate"]
    BY DEF WriteCounts, Move
  <1>3. Grows
    <2> SUFFICES ASSUME NEW v \in Variant
                 PROVE  /\ IsFiniteSet(Written(v)')
                        /\ Happened(v)'.samples \in Nat /\ Happened(v)'.conversions \in Nat
                        /\ Happened(v)'.samples >= Happened(v).samples
                        /\ Happened(v)'.conversions >= Happened(v).conversions
      BY DEF Grows
    <2>1. Happened(v).samples \in Nat /\ Happened(v).conversions \in Nat
      BY HappenedIsCounted DEF ExperimentInv
    <2>2. CASE outcome[o].variant # v
      BY <2>1, <2>2, OneMoreHappens
    <2>3. CASE outcome[o].variant = v
      BY <2>1, <2>3, OneMoreHappens
    <2> QED
      BY <2>2, <2>3
  <1>4. ASSUME NEW v \in Variant
        PROVE  Backed(variants[v], v)'
    <2>1. CASE outcome[o].variant # v
      <3>1. PICK counts : counts = variants[v]
        OBVIOUS
      <3>2. Backed(counts, v)'
        BY <1>3, <3>1, StaysBacked DEF ExperimentInv
      <3>3. variants'[v] = counts
        BY <2>1, <3>1 DEF WriteCounts, ExperimentInv, TypeOK
      <3> QED
        BY <3>2, <3>3 DEF Backed
    <2>2. CASE outcome[o].variant = v
      BY <2>2, WrittenIsBacked
    <2> QED
      BY <2>1, <2>2
  <1>5. TypeOK'
    <2>1. variants' \in [Variant -> Counts]
      BY <1>4 DEF WriteCounts, ExperimentInv, TypeOK, Backed
    <2>2. \A v \in Variant : variants'[v].conversions <= variants'[v].samples
      BY <1>4 DEF Backed
    <2> QED
      BY <1>2, <2>1, <2>2 DEF WriteCounts, ExperimentInv, TypeOK
  <1>6. ASSUME NEW q \in Outcome
        PROVE  ThreadSoFar(q)'
    <2>1. CASE q = o
      <3>1. step'[o] = "evaluate" /\ outcome'[o] = outcome[o]
        BY <1>2 DEF WriteCounts, ExperimentInv, TypeOK
      <3> QED
        BY <1>1, <2>1, <3>1 DEF ThreadSoFar
    <2>2. CASE q # o
      BY <1>2, <1>3, <2>2, OthersKeep DEF WriteCounts, ExperimentInv, TypeOK
    <2> QED
      BY <2>1, <2>2
  <1>7. SwitchNeedsSamples'
    BY <1>3, SwitchesKeep DEF WriteCounts
  <1>8. winner' # None => winner' \in Sampled'
    BY <1>3, StaysSampled DEF WriteCounts, ExperimentInv
  <1> QED
    BY <1>3, <1>4, <1>5, <1>6, <1>7, <1>8 DEF ExperimentInv, Grows

-----------------------------------------------------------------------------
(* Customers.                                                              *)

\* Selections leave the threads and the counts alone.
LEMMA SelectionKeeps ==
  ASSUME ExperimentInv, UNCHANGED <<variants, status, winner, step, outcome, held, leader>>,
         selecting' \in {None} \cup [customer : Customer, next : {"status", "counts"}],
         assigned' \in [Customer -> SUBSET Variant],
         \A c \in Customer : \A v \in assigned'[c] \ assigned[c] :
           v \in Sampled \/ v = Bucketed(c)
  PROVE  ExperimentInv'
  <1>1. Grows
    BY NothingHappens DEF ExperimentInv
  <1>2. TypeOK'
    BY DEF ExperimentInv, TypeOK
  <1>3. \A o \in Outcome : ThreadSoFar(o)'
    BY <1>1, OthersKeep
  <1>4. \A v \in Variant : Backed(variants[v], v)'
    BY <1>1, CountsKeep
  <1>5. winner' # None => winner' \in Sampled'
    BY <1>1, StaysSampled DEF ExperimentInv
  <1>6. SwitchNeedsSamples'
    <2> SUFFICES ASSUME NEW c \in Customer, NEW v \in assigned'[c] \ {Bucketed(c)}
                 PROVE  Happened(v)'.samples >= MinSample
      BY DEF SwitchNeedsSamples, Bucketed
    <2>1. v \in Sampled
      BY DEF ExperimentInv, SwitchNeedsSamples, Sampled, TypeOK
    <2> QED
      BY <1>1, <2>1, StaysSampled DEF Sampled, ExperimentInv
  <1> QED
    BY <1>1, <1>2, <1>3, <1>4, <1>5, <1>6 DEF ExperimentInv, Grows

LEMMA SelectWinnerKeeps ==
  ASSUME ExperimentInv, NEW c \in Customer, SelectWinner(c)
  PROVE  ExperimentInv'
  <1>1. CASE winner # None /\ Assign(c, winner)
    <2>1. winner \in Sampled /\ winner \in Variant
      BY <1>1 DEF ExperimentInv, Sampled
    <2>2. assigned' = [assigned EXCEPT ![c] = @ \cup {winner}] /\ selecting' = None
      BY <1>1 DEF Assign
    <2> QED
      BY <2>1, <2>2, SelectionKeeps DEF SelectWinner, ExperimentInv, TypeOK
  <1>2. CASE selecting' = [customer |-> c, next |-> "status"] /\ UNCHANGED assigned
    BY <1>2, SelectionKeeps DEF SelectWinner, ExperimentInv, TypeOK
  <1> QED
    BY <1>1, <1>2 DEF SelectWinner

\* A bucket names a variant.
LEMMA BucketedVariant == \A c \in Customer : Bucketed(c) \in Variant
  BY DEF Bucketed, Variant

LEMMA SelectByStatusKeeps ==
  ASSUME ExperimentInv, SelectByStatus
  PROVE  ExperimentInv'
  <1>1. PICK c \in Customer : c = selecting.customer
    BY DEF SelectByStatus, ExperimentInv, TypeOK
  <1>2. CASE selecting' = [selecting EXCEPT !.next = "counts"] /\ UNCHANGED assigned
    BY <1>2, SelectionKeeps DEF SelectByStatus, ExperimentInv, TypeOK
  <1>3. CASE Assign(selecting.customer, Bucketed(selecting.customer))
    <2>1. assigned' = [assigned EXCEPT ![c] = @ \cup {Bucketed(c)}] /\ selecting' = None
      BY <1>1, <1>3 DEF Assign
    <2> QED
      BY <2>1, BucketedVariant, SelectionKeeps DEF SelectByStatus, ExperimentInv, TypeOK
  <1> QED
    BY <1>2, <1>3 DEF SelectByStatus

LEMMA SelectByCountsKeeps ==
  ASSUME ExperimentInv, SelectByCounts
  PROVE  ExperimentInv'
  <1> DEFINE best == Qualified(variants)
  <1>1. PICK c \in Customer : c = selecting.customer
    BY DEF SelectByCounts, ExperimentInv, TypeOK
  <1>2. PICK given : given = IF best # None THEN best ELSE Bucketed(c)
    OBVIOUS
  <1>3. assigned' = [assigned EXCEPT ![c] = @ \cup {given}] /\ selecting' = None
    BY <1>1, <1>2 DEF SelectByCounts, Assign
  <1>4. given \in Variant /\ (given \in Sampled \/ given = Bucketed(c))
    BY <1>2, LeaderIsSampled, BucketedVariant DEF Sampled
  <1> QED
    BY <1>3, <1>4, SelectionKeeps DEF SelectByCounts, ExperimentInv, TypeOK

-----------------------------------------------------------------------------
(* The invariant and what follows from it.                                 *)

LEMMA InitExperiment == Init => ExperimentInv
  <1> SUFFICES ASSUME Init
               PROVE  ExperimentInv
    OBVIOUS
  <1>1. TypeOK
    BY ExperimentAssumption DEF Init, TypeOK, ExperimentAssumption, Counts
  <1>2. ASSUME NEW v \in Variant
        PROVE  IsFiniteSet(Written(v)) /\ Backed(variants[v], v)
    <2>1. Written(v) = {}
      BY DEF Init, Written
    <2>2. IsFiniteSet(Written(v))
      BY <2>1, FS_EmptySet
    <2>3. Seed[v] \in Counts /\ Seed[v].conversions <= Seed[v].samples
      BY ExperimentAssumption DEF ExperimentAssumption
    <2> QED
      BY <2>2, <2>3, HappenedIsCounted DEF Init, Backed, Counts
  <1>3. \A o \in Outcome : ThreadSoFar(o)
    BY DEF Init, ThreadSoFar
  <1>4. SwitchNeedsSamples
    BY DEF Init, SwitchNeedsSamples
  <1> QED
    BY <1>1, <1>2, <1>3, <1>4 DEF Init, ExperimentInv

LEMMA StepExperiment ==
  ASSUME ExperimentInv, [Next]_vars
  PROVE  ExperimentInv'
  <1>1. CASE UNCHANGED vars
    BY <1>1, SelectionKeeps DEF vars, ExperimentInv, TypeOK
  <1>2. ASSUME NEW o \in Outcome, Report(o) \/ Record(o)
        PROVE  ExperimentInv'
    BY <1>2, ReportKeeps, ReadCountsKeeps, WriteCountsKeeps, EvaluateKeeps, ConcludeKeeps,
       NameWinnerKeeps DEF Record
  <1>3. ASSUME NEW c \in Customer, SelectWinner(c)
        PROVE  ExperimentInv'
    BY <1>3, SelectWinnerKeeps
  <1> QED
    BY <1>1, <1>2, <1>3, SelectByStatusKeeps, SelectByCountsKeeps DEF Next

\* The invariant holds however many threads and customers interleave.
THEOREM ExperimentInvariant == Spec => []ExperimentInv
  BY InitExperiment, StepExperiment, PTL DEF Spec

\* The counts are natural, and never more conversions than samples, although a
\* thread replaces them by a copy that others have overtaken.
THEOREM CountsStayPossible == Spec => []TypeOK
  <1>1. ExperimentInv => TypeOK
    BY DEF ExperimentInv
  <1> QED
    BY <1>1, ExperimentInvariant, PTL

\* However threads interleave, no sample and no conversion is counted that did
\* not happen: lost updates only lose (experiment_service.py:99-106).
THEOREM NothingIsInvented == Spec => []NeverOvercounts
  <1>1. ExperimentInv => NeverOvercounts
    BY DEF ExperimentInv, Backed, NeverOvercounts
  <1> QED
    BY <1>1, ExperimentInvariant, PTL

\* No customer leaves its bucket for a variant with fewer samples than the
\* minimum, whoever found the leader or named the winner, and on whatever counts.
THEOREM SwitchesAreSampled == Spec => []SwitchNeedsSamples
  <1>1. ExperimentInv => SwitchNeedsSamples
    BY DEF ExperimentInv
  <1> QED
    BY <1>1, ExperimentInvariant, PTL
=============================================================================
