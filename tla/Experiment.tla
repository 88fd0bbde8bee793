------------------------------ MODULE Experiment ------------------------------
(***************************************************************************)
(* ExperimentService (platform/layer5_ab/experiment_service.py): one       *)
(* experiment with two variants.  OutcomeRouter.route runs record_outcome  *)
(* on a thread of its own (asyncio.to_thread) for each outcome; the        *)
(* pipeline selects variants on the thread of the event loop.  No lock is  *)
(* taken: a step is one access to the shared experiment.                   *)
(***************************************************************************)
EXTENDS Integers, FiniteSets

CONSTANTS
  Outcome,        \* outcomes reported, a thread each
  Customer,
  Bucket,         \* Bucket[c]: assignment_bucket of customer c, 0..99
  Weight,         \* weight of variant A, in percent
  Seed,           \* counts the experiment starts with
  MinSample,      \* min_sample_size
  MaxParallel,    \* bound on outcomes processed at the same time
  None

Variant == {"A", "B"}
Counts == [samples : Nat, conversions : Nat]

ASSUME ExperimentAssumption ==
  /\ Bucket \in [Customer -> 0..99]
  /\ Weight \in 0..100
  /\ Seed \in [Variant -> Counts]
  /\ \A v \in Variant : Seed[v].conversions <= Seed[v].samples
  /\ MinSample \in Nat
  /\ MaxParallel \in Nat \ {0}

VARIABLES
  variants,   \* counts of each variant
  status,     \* RUNNING or CONCLUDED; nothing in the code pauses an experiment
  winner,
  step,       \* step[o]: what the thread of o does next
  outcome,    \* outcome[o]: [variant, converted], once reported
  held,       \* held[o]: counts thread o has read and not yet replaced, or None
  leader,     \* leader[o]: leader thread o has found and not yet named, or None
  selecting,  \* the selection under way: [customer, next], or None
  assigned    \* assigned[c]: the variants customer c was given so far

vars == <<variants, status, winner, step, outcome, held, leader, selecting, assigned>>

Init ==
  /\ variants = Seed
  /\ status = "RUNNING"
  /\ winner = None
  /\ step = [o \in Outcome |-> "unreported"]
  /\ outcome = [o \in Outcome |-> None]
  /\ held = [o \in Outcome |-> None]
  /\ leader = [o \in Outcome |-> None]
  /\ selecting = None
  /\ assigned = [c \in Customer |-> {}]

-----------------------------------------------------------------------------
(* Statistics.  TLC's integers: rates and z-scores are compared by cross    *)
(* multiplication; 1.96^2 = 3.841 for the confidence level 0.95.            *)

\* _conversion_rate of a is at least that of b; without samples it is 0.
RateAtLeast(a, b) ==
  \/ b.samples = 0
  \/ a.samples > 0 /\ a.conversions * b.samples >= b.conversions * a.samples
  \/ a.samples = 0 /\ b.conversions = 0

\* z_test_proportions: z^2 >= 1.96^2, and no confidence on empty or uniform data.
Significant(a, b) ==
  LET total     == a.samples + b.samples
      converted == a.conversions + b.conversions
      gap       == a.conversions * b.samples - b.conversions * a.samples
  IN  /\ a.samples > 0 /\ b.samples > 0
      /\ converted \in 1..(total - 1)
      /\ gap * gap * total * 1000
           >= 3841 * a.samples * b.samples * converted * (total - converted)

QualifiedTotal(counts) ==   \* faulty variant: the samples of both are added up
  LET best == IF RateAtLeast(counts["A"], counts["B"]) THEN "A" ELSE "B"
  IN  IF /\ Significant(counts["A"], counts["B"])
         /\ counts["A"].samples + counts["B"].samples >= MinSample
      THEN best ELSE None

\* The variant with the highest rate, the first one on a tie, if it is
\* significantly better and has the minimum sample size.
Qualified(counts) ==
  LET best == IF RateAtLeast(counts["A"], counts["B"]) THEN "A" ELSE "B"
  IN  IF Significant(counts["A"], counts["B"]) /\ counts[best].samples >= MinSample
      THEN best ELSE None

-----------------------------------------------------------------------------
(* record_outcome, on the thread of an outcome.                            *)

Active == {o \in Outcome : step[o] \notin {"unreported", "done"}}

Move(o, next) == step' = [step EXCEPT ![o] = next]

Report(o) ==
  /\ step[o] = "unreported"
  /\ Cardinality(Active) < MaxParallel
  /\ \E v \in Variant, converted \in BOOLEAN :
       outcome' = [outcome EXCEPT ![o] = [variant |-> v, converted |-> converted]]
  /\ Move(o, "read")
  /\ UNCHANGED <<variants, status, winner, held, leader, selecting, assigned>>

ReadCounts(o) ==
  /\ step[o] = "read"
  /\ held' = [held EXCEPT ![o] = variants[outcome[o].variant]]
  /\ Move(o, "write")
  /\ UNCHANGED <<variants, status, winner, outcome, leader, selecting, assigned>>

TalliedTwice(counts, converted) ==   \* faulty variant: a conversion is a sample too
  [samples     |-> counts.samples + (IF converted THEN 2 ELSE 1),
   conversions |-> counts.conversions + (IF converted THEN 1 ELSE 0)]

Tallied(counts, converted) ==
  [samples     |-> counts.samples + 1,
   conversions |-> counts.conversions + (IF converted THEN 1 ELSE 0)]

\* The variant is replaced by a copy of what was read, plus one.
WriteCounts(o) ==
  /\ step[o] = "write"
  /\ variants' = [variants EXCEPT
       ![outcome[o].variant] = Tallied(held[o], outcome[o].converted)]
  /\ held' = [held EXCEPT ![o] = None]
  /\ Move(o, "evaluate")
  /\ UNCHANGED <<status, winner, outcome, leader, selecting, assigned>>

\* _variant_results and the leader among them.
Evaluate(o) ==
  /\ step[o] = "evaluate"
  /\ leader' = [leader EXCEPT ![o] = Qualified(variants)]
  /\ Move(o, IF leader'[o] = None THEN "done" ELSE "conclude")
  /\ UNCHANGED <<variants, status, winner, outcome, held, selecting, assigned>>

Conclude(o) ==
  /\ step[o] = "conclude"
  /\ status' = "CONCLUDED"
  /\ Move(o, "name")
  /\ UNCHANGED <<variants, winner, outcome, held, leader, selecting, assigned>>

WinnerNamedWhileRunning(o) ==   \* faulty variant: a concluded experiment is final
  IF status = "RUNNING" THEN leader[o] ELSE winner

WinnerNamed(o) == leader[o]

NameWinner(o) ==
  /\ step[o] = "name"
  /\ winner' = WinnerNamed(o)
  /\ leader' = [leader EXCEPT ![o] = None]
  /\ Move(o, "done")
  /\ UNCHANGED <<variants, status, outcome, held, selecting, assigned>>

-----------------------------------------------------------------------------
(* select_variant, on the thread of the event loop: one at a time.         *)

\* _variant_for_bucket.
Bucketed(c) == IF Bucket[c] < Weight THEN "A" ELSE "B"

Assign(c, v) ==
  /\ assigned' = [assigned EXCEPT ![c] = @ \cup {v}]
  /\ selecting' = None

SelectWinner(c) ==
  /\ selecting = None
  /\ \/ /\ winner # None
        /\ Assign(c, winner)
     \/ /\ winner = None
        /\ selecting' = [customer |-> c, next |-> "status"]
        /\ UNCHANGED assigned
  /\ UNCHANGED <<variants, status, winner, step, outcome, held, leader>>

\* _qualified_leader of an experiment that has concluded meanwhile: None.
SelectByStatus ==
  /\ selecting # None
  /\ selecting.next = "status"
  /\ \/ /\ status = "RUNNING"
        /\ selecting' = [selecting EXCEPT !.next = "counts"]
        /\ UNCHANGED assigned
     \/ /\ status # "RUNNING"
        /\ Assign(selecting.customer, Bucketed(selecting.customer))
  /\ UNCHANGED <<variants, status, winner, step, outcome, held, leader>>

SelectByCounts ==
  LET best == Qualified(variants) IN
  /\ selecting # None
  /\ selecting.next = "counts"
  /\ Assign(selecting.customer, IF best # None THEN best ELSE Bucketed(selecting.customer))
  /\ UNCHANGED <<variants, status, winner, step, outcome, held, leader>>

-----------------------------------------------------------------------------
Record(o) == ReadCounts(o) \/ WriteCounts(o) \/ Evaluate(o) \/ Conclude(o) \/ NameWinner(o)

Next ==
  \/ \E o \in Outcome : Report(o) \/ Record(o)
  \/ \E c \in Customer : SelectWinner(c)
  \/ SelectByStatus \/ SelectByCounts

Spec == Init /\ [][Next]_vars

\* Threads that were started run on.
FairSpec == Spec /\ \A o \in Outcome : WF_vars(Record(o))

-----------------------------------------------------------------------------
(* Properties.                                                             *)

TypeOK ==
  /\ variants \in [Variant -> Counts]
  /\ \A v \in Variant : variants[v].conversions <= variants[v].samples
  /\ status \in {"RUNNING", "CONCLUDED"}
  /\ winner \in Variant \cup {None}
  /\ step \in [Outcome -> {"unreported", "read", "write", "evaluate", "conclude", "name", "done"}]
  /\ outcome \in [Outcome -> {None} \cup [variant : Variant, converted : BOOLEAN]]
  /\ held \in [Outcome -> {None} \cup Counts]
  /\ leader \in [Outcome -> {None} \cup Variant]
  /\ selecting \in {None} \cup [customer : Customer, next : {"status", "counts"}]
  /\ assigned \in [Customer -> SUBSET Variant]

\* The outcomes of a variant whose counts have been written.
Written(v) ==
  {o \in Outcome : step[o] \notin {"unreported", "read", "write"} /\ outcome[o].variant = v}

Converted(v) == {o \in Written(v) : outcome[o].converted}

\* The samples and conversions that happened.
Happened(v) ==
  [samples     |-> Seed[v].samples + Cardinality(Written(v)),
   conversions |-> Seed[v].conversions + Cardinality(Converted(v))]

\* However threads interleave, the counts never claim a sample or a conversion
\* that did not happen (lines 99-106 work on an old copy).
NeverOvercounts ==
  \A v \in Variant :
    /\ variants[v].samples <= Happened(v).samples
    /\ variants[v].conversions <= Happened(v).conversions

\* README.md:298, "minimum sample size": a customer gets a variant other than the
\* one of its bucket only when that variant really has the minimum number of
\* samples, also when a leader or winner was found on counts others were changing.
SwitchNeedsSamples ==
  \A c \in Customer : \A v \in assigned[c] \ {Bucketed(c)} : Happened(v).samples >= MinSample

\* A concluded experiment gets its winner: until then it serves the buckets,
\* neither a leader nor a winner (lines 113-114).
ConclusionNamesWinner == status = "CONCLUDED" ~> winner # None

\* Lines 96, "Update variant counts", and README.md:62: an intervention "updates
\* the experiment store for A/B measurement".  Every outcome is in the counts
\* once no thread is at work: the code does not keep this.
EveryOutcomeCounted == Active = {} => \A v \in Variant : variants[v] = Happened(v)
=============================================================================
