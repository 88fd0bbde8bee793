---------------------------- MODULE OutcomeRouting ----------------------------
(***************************************************************************)
(* OutcomeRouter.route (platform/layer6_sdk/outcome_router.py): what       *)
(* became of an action is reported, over the API or the SDK client, and    *)
(* fanned out to the experiment, model governance, the audit log and the   *)
(* long-term memory.                                                       *)
(*                                                                         *)
(* asyncio.gather runs the four destinations concurrently and raises the   *)
(* first exception while the others go on.  A reporter that got an error,  *)
(* or no answer, may report again: under a new outcome_id.                 *)
(***************************************************************************)
EXTENDS Naturals

CONSTANTS
  Fact,          \* outcomes that happened
  VariantOf,     \* VariantOf[f]: "seeded", "unseeded" (no such experiment) or "absent"
  HasMemory,     \* HasMemory[f]: its router has a memory writer (the SDK client's)
  MaxReports,    \* MaxReports[f]: bound on the reports of f
  MaxRefusals    \* bound on writes that fail

Report == UNION {{f} \X (1 .. MaxReports[f]) : f \in Fact}
FactOf(r) == r[1]

ASSUME RoutingAssumption ==
  /\ VariantOf \in [Fact -> {"seeded", "unseeded", "absent"}]
  /\ HasMemory \in [Fact -> BOOLEAN]
  /\ MaxReports \in [Fact -> Nat]
  /\ MaxRefusals \in Nat

Destination == {"experiment", "governance", "audit", "memory"}

VARIABLES
  branch,      \* branch[r][d]: how far destination d of report r has come
  answer,      \* answer[r]: what the reporter got
  counted,     \* counted[f]: times the experiment has counted outcome f
  governance,  \* model_governance_events
  audit_log,   \* rows of the audit log
  memories,    \* points of the customer_memory collection, by the report they are of
  refusals     \* writes that failed so far

vars == <<branch, answer, counted, governance, audit_log, memories, refusals>>

Init ==
  /\ branch     = [r \in Report |-> [d \in Destination |-> "unreported"]]
  /\ answer     = [r \in Report |-> "none"]
  /\ counted    = [f \in Fact |-> 0]
  /\ governance = {}
  /\ audit_log  = {}
  /\ memories   = {}
  /\ refusals   = 0

Reported(r) == branch[r]["audit"] # "unreported"

Move(r, d, to) == branch' = [branch EXCEPT ![r][d] = to]

Refusal == refusals < MaxRefusals /\ refusals' = refusals + 1

Row(event, r) == [event |-> event, about |-> r]

-----------------------------------------------------------------------------
(* Reporting an outcome.                                                   *)

\* POST /outcomes/{trace_id} and BankingAgenticAIClient.record_outcome give each
\* report an outcome_id of its own.  Without a memory writer that destination is
\* done with at once.
Submit(r) ==
  /\ ~Reported(r)
  /\ \A n \in 1 .. r[2] - 1 : answer[<<FactOf(r), n>>] \in {"error", "lost"}
  /\ branch' = [branch EXCEPT ![r] = [d \in Destination |->
                  IF d = "memory" /\ ~HasMemory[FactOf(r)] THEN "over" ELSE "pending"]]
  /\ UNCHANGED <<answer, counted, governance, audit_log, memories, refusals>>

-----------------------------------------------------------------------------
(* The four destinations.                                                  *)

PendingUntilError(r, d) ==   \* faulty variant: an error cancels the other branches
  branch[r][d] = "pending" /\ \A other \in Destination : branch[r][other] # "failed"

Pending(r, d) == branch[r][d] = "pending"

\* OutcomeProcessor.record_outcome on a thread: without experiment metadata there
\* is nothing to count, an experiment the service does not have is a KeyError.
CountOutcome(r) ==
  LET variant == VariantOf[FactOf(r)]
  IN /\ Pending(r, "experiment")
     /\ Move(r, "experiment", IF variant = "unseeded" THEN "failed" ELSE "over")
     /\ counted' = [counted EXCEPT ![FactOf(r)] = @ + IF variant = "seeded" THEN 1 ELSE 0]
     /\ UNCHANGED <<answer, governance, audit_log, memories, refusals>>

\* model_governance_events.append on a thread.
Govern(r) ==
  /\ Pending(r, "governance")
  /\ Move(r, "governance", "over")
  /\ governance' = governance \cup {r}
  /\ UNCHANGED <<answer, counted, audit_log, memories, refusals>>

\* _write_audit; a write that fails may have reached the log.
WriteAudit(r) ==
  LET written == audit_log \cup {Row("OUTCOME_CAPTURED", r)}
  IN /\ Pending(r, "audit")
     /\ \/ /\ audit_log' = written
           /\ Move(r, "audit", "over")
           /\ UNCHANGED refusals
        \/ /\ Refusal
           /\ audit_log' \in {audit_log, written}
           /\ Move(r, "audit", "failed")
     /\ UNCHANGED <<answer, counted, governance, memories>>

AfterAttempt == "noting"   \* faulty variant: the record is written all the same

\* _write_memory returns for any exception.
AfterFailure == "over"

\* MemoryWriter.write makes a memory of its own of each report.
Kept(r) == memories \cup {r}

\* _ensure_collection: the collection or its index cannot be made.
CollectionRefused == Refusal /\ UNCHANGED memories

\* The point is refused, or the reply is lost.
PointRefused(r) == Refusal /\ memories' \in {memories, Kept(r)}

\* QdrantMemoryStore.store.
StoreMemory(r) ==
  /\ Pending(r, "memory")
  /\ \/ /\ memories' = Kept(r)
        /\ Move(r, "memory", "noting")
        /\ UNCHANGED refusals
     \/ /\ CollectionRefused \/ PointRefused(r)
        /\ Move(r, "memory", AfterFailure)
  /\ UNCHANGED <<answer, counted, governance, audit_log>>

\* MemoryWriter._write_audit.
NoteMemory(r) ==
  LET written == audit_log \cup {Row("MEMORY_STORED", r)}
  IN /\ branch[r]["memory"] = "noting"
     /\ Move(r, "memory", "over")
     /\ \/ audit_log' = written /\ UNCHANGED refusals
        \/ Refusal /\ audit_log' \in {audit_log, written}
     /\ UNCHANGED <<answer, counted, governance, memories>>

-----------------------------------------------------------------------------
(* The answer.                                                             *)

Unanswered(r) == Reported(r) /\ answer[r] = "none"

FirstOver(r) ==   \* faulty variant: the memory is left to a task of its own
  \A d \in Destination \ {"memory"} : branch[r][d] = "over"

Routed(r) == \A d \in Destination : branch[r][d] = "over"

AnswerWith(r, what) ==
  /\ answer' = [answer EXCEPT ![r] = what]
  /\ UNCHANGED <<branch, counted, governance, audit_log, memories, refusals>>

\* gather() returns all results or raises the first exception.
Confirm(r) == Unanswered(r) /\ Routed(r) /\ AnswerWith(r, "recorded")

Fail(r) ==
  /\ Unanswered(r)
  /\ \E d \in Destination : branch[r][d] = "failed"
  /\ AnswerWith(r, "error")

\* The reporter gives up waiting, to report again; its report goes on.
LoseAnswer(r) ==
  /\ Unanswered(r)
  /\ r[2] < MaxReports[FactOf(r)]
  /\ AnswerWith(r, "lost")

-----------------------------------------------------------------------------
\* What route() does once it is called, whoever waits for it.
Route(r) ==
  \/ CountOutcome(r) \/ Govern(r) \/ WriteAudit(r)
  \/ StoreMemory(r) \/ NoteMemory(r)

Next ==
  \E r \in Report : Submit(r) \/ Route(r) \/ Confirm(r) \/ Fail(r) \/ LoseAnswer(r)

Spec == Init /\ [][Next]_vars

\* Threads and tasks that were started run on and stores answer or fail: while
\* there is something to route, some of it is.
FairSpec == Spec /\ WF_vars(\E r \in Report : Route(r))

-----------------------------------------------------------------------------
(* Properties.                                                             *)

\* Every variable holds a value of its kind.
TypeOK ==
  /\ branch \in [Report -> [Destination -> {"unreported", "pending", "noting", "over", "failed"}]]
  /\ answer \in [Report -> {"none", "recorded", "error", "lost"}]
  /\ \A f \in Fact : counted[f] \in 0 .. MaxReports[f]
  /\ governance \subseteq Report
  /\ audit_log \subseteq [event : {"OUTCOME_CAPTURED", "MEMORY_STORED"}, about : Report]
  /\ memories \subseteq Report
  /\ refusals \in 0 .. MaxRefusals

\* "recorded" (outcomes.py:49) means that all of it has happened: the experiment
\* has counted an outcome it knows of, governance and the audit log have it, and
\* nothing about it is left to do in the memory.
RecordedEverywhere ==
  \A r \in Report :
    answer[r] = "recorded" =>
      /\ VariantOf[FactOf(r)] = "seeded" => counted[FactOf(r)] > 0
      /\ r \in governance
      /\ Row("OUTCOME_CAPTURED", r) \in audit_log
      /\ branch[r]["memory"] = "over"

Served(r) ==
  /\ r \in governance
  /\ \A d \in Destination : branch[r][d] \in {"over", "failed"}

\* One destination that fails keeps no other from getting the outcome, although
\* the reporter has its error long before: every destination is served in the end,
\* so that again and again no report is left unserved.
OthersAreServed ==
  []<>(\A r \in Report : Reported(r) => Served(r))

\* Whatever fails around a memory, the log never claims one that was not kept.
MemoryRecordsAreTrue ==
  \A row \in audit_log : row.event = "MEMORY_STORED" => row.about \in memories
=============================================================================
