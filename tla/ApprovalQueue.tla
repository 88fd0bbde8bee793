----------------------------- MODULE ApprovalQueue -----------------------------
(***************************************************************************)
(* ApprovalQueueService (platform/layer4_guardrails/approval_queue.py): the *)
(* list of approval items of the server process, the optional QueueStore    *)
(* behind it (adapters/postgres_queue_store.py), Layer 4 that adds items,   *)
(* reviewers who decide on what their page lists (api/routers/guardrails.py *)
(* and the page GuardrailsView), and restarts of the process.               *)
(*                                                                         *)
(* A handler suspends only while it awaits the store.                      *)
(***************************************************************************)
EXTENDS Integers, SequencesExt

CONSTANTS
  Item,        \* approval items, by queue_id
  Reviewer,    \* open pages of GuardrailsView
  Priority,
  SLA_BY_PRIORITY,  \* hours to the deadline, by priority
  Limit,       \* the limit of get_pending
  Stores,      \* with (TRUE) or without (FALSE) a QueueStore; the API's runner has none
  None,
  MaxClock,    \* bounds: hours, store failures, restarts
  MaxFaults,
  MaxRestarts

Decision == {"APPROVED", "REJECTED"}   \* what the page can send
Status == {"PENDING"} \cup Decision

\* A decision under way: before the UPDATE or after it.
Request == [id : Item, decision : Decision, stage : {"updating", "updated"}]

ASSUME QueueAssumption ==
  /\ SLA_BY_PRIORITY \in [Priority -> Nat \ {0}]
  /\ Limit \in Nat \ {0}
  /\ Stores \subseteq BOOLEAN
  /\ {MaxClock, MaxFaults, MaxRestarts} \subseteq Nat
  /\ None \notin Status \cup Request

VARIABLES
  persistent, \* a QueueStore is configured
  items,    \* self._items: entries [id, status, deadline]
  row,      \* row[i]: the status stored for i, or None without a row
  call,     \* call[i]: progress of the enqueue() that creates i
  page,     \* page[v]: the items reviewer v's page lists
  request,  \* request[v]: the decision v has posted: [id, decision, stage], or None
  clock, faults, restarts

vars == <<persistent, items, row, call, page, request, clock, faults, restarts>>

Init ==
  /\ persistent \in Stores
  /\ items = <<>>
  /\ row = [i \in Item |-> None]
  /\ call = [i \in Item |-> "new"]
  /\ page = [v \in Reviewer |-> <<>>]
  /\ request = [v \in Reviewer |-> None]
  /\ clock = 0 /\ faults = 0 /\ restarts = 0

Fault == persistent /\ faults < MaxFaults /\ faults' = faults + 1

-----------------------------------------------------------------------------
(* Layer 4 enqueues a flagged action.                                      *)

Enqueue(i) ==
  /\ call[i] = "new"
  /\ \E p \in Priority :
       items' = Append(items, [id |-> i, status |-> "PENDING",
                               deadline |-> clock + SLA_BY_PRIORITY[p]])
  /\ call' = [call EXCEPT ![i] = IF persistent THEN "inserting" ELSE "queued"]
  /\ UNCHANGED <<persistent, row, page, request, clock, faults, restarts>>

\* The row is written as the item was created, whatever happened to it since,
\* or the store refuses it and the exception leaves evaluate().
Insert(i) ==
  /\ call[i] = "inserting"
  /\ \/ /\ row' = [row EXCEPT ![i] = "PENDING"]
        /\ call' = [call EXCEPT ![i] = "queued"]
        /\ UNCHANGED faults
     \/ /\ Fault
        /\ call' = [call EXCEPT ![i] = "refused"]
        /\ UNCHANGED row
  /\ UNCHANGED <<persistent, items, page, request, clock, restarts>>

-----------------------------------------------------------------------------
(* Reviewers.                                                              *)

Pending == {k \in DOMAIN items : items[k].status = "PENDING"}

BeforeByArrival(j, k) == j < k   \* faulty variant: not sorted

\* Item j precedes item k in the sorted list; the sort keeps the order of equal
\* deadlines.
Before(j, k) ==
  \/ items[j].deadline < items[k].deadline
  \/ items[j].deadline = items[k].deadline /\ j < k

Rank(k) == Cardinality({j \in Pending : Before(j, k)})

\* get_pending: the most urgent items, up to the limit.
Listed ==
  LET upto == IF Cardinality(Pending) < Limit THEN Cardinality(Pending) ELSE Limit
  IN  [n \in 1..upto |-> items[CHOOSE k \in Pending : Rank(k) = n - 1].id]

\* GET /guardrails/queue, which the page repeats.
Refresh(v) ==
  /\ page[v] # Listed
  /\ page' = [page EXCEPT ![v] = Listed]
  /\ UNCHANGED <<persistent, items, row, call, request, clock, faults, restarts>>

RecordedForgetful(i, decision) ==   \* faulty variant: keeps pending items only
  SelectSeq([k \in DOMAIN items |->
               IF items[k].id = i THEN [items[k] EXCEPT !.status = decision] ELSE items[k]],
            LAMBDA e : e.status = "PENDING" \/ e.id = i)

RecordedApprovals(i, decision) ==   \* faulty variant: a rejection stays pending
  [k \in DOMAIN items |->
     IF items[k].id = i /\ decision = "APPROVED"
     THEN [items[k] EXCEPT !.status = decision] ELSE items[k]]

RecordedToggling(i, decision) ==   \* faulty variant: a second decision reopens
  [k \in DOMAIN items |->
     IF items[k].id = i
     THEN [items[k] EXCEPT !.status = IF @ = "PENDING" THEN decision ELSE "PENDING"]
     ELSE items[k]]

\* The list rebuilt with the decision; an item not in it is ignored.
Recorded(i, decision) ==
  [k \in DOMAIN items |->
     IF items[k].id = i THEN [items[k] EXCEPT !.status = decision] ELSE items[k]]

\* POST .../decision on an item of the page, current or not.  Without a store
\* the handler never suspends.
Decide(v) ==
  /\ request[v] = None
  /\ \E i \in ToSet(page[v]) \cap Item, d \in Decision :
       IF persistent
       THEN /\ request' = [request EXCEPT ![v] = [id |-> i, decision |-> d, stage |-> "updating"]]
            /\ UNCHANGED items
       ELSE /\ items' = Recorded(i, d)
            /\ UNCHANGED request
  /\ UNCHANGED <<persistent, row, call, page, clock, faults, restarts>>

\* The UPDATE commits; it changes no row when the item has none yet.
Update(v) ==
  /\ request[v] # None
  /\ request[v].stage = "updating"
  /\ request' = [request EXCEPT ![v].stage = "updated"]
  /\ row' = [row EXCEPT ![request[v].id] = IF @ = None THEN None ELSE request[v].decision]
  /\ UNCHANGED <<persistent, items, call, page, clock, faults, restarts>>

\* The handler resumes and changes its list.
Apply(v) ==
  /\ request[v] # None
  /\ request[v].stage = "updated"
  /\ items' = Recorded(request[v].id, request[v].decision)
  /\ request' = [request EXCEPT ![v] = None]
  /\ UNCHANGED <<persistent, row, call, page, clock, faults, restarts>>

\* The call fails, before the UPDATE or after it committed.
FailUpdate(v) ==
  /\ request[v] # None
  /\ Fault
  /\ request' = [request EXCEPT ![v] = None]
  /\ UNCHANGED <<persistent, items, row, call, page, clock, restarts>>

-----------------------------------------------------------------------------
\* The process restarts: its list and the calls under way are gone, the rows
\* and the pages stay.
Restart ==
  /\ restarts < MaxRestarts
  /\ restarts' = restarts + 1
  /\ items' = <<>>
  /\ call' = [i \in Item |-> IF call[i] = "inserting" THEN "refused" ELSE call[i]]
  /\ request' = [v \in Reviewer |-> None]
  /\ UNCHANGED <<persistent, row, page, clock, faults>>

Tick ==
  /\ clock < MaxClock
  /\ clock' = clock + 1
  /\ UNCHANGED <<persistent, items, row, call, page, request, faults, restarts>>

Next ==
  \/ \E i \in Item : Enqueue(i) \/ Insert(i)
  \/ \E v \in Reviewer : Refresh(v) \/ Decide(v) \/ Update(v) \/ Apply(v) \/ FailUpdate(v)
  \/ Restart
  \/ Tick

Spec == Init /\ [][Next]_vars

-----------------------------------------------------------------------------
(* Properties.                                                             *)

Entry == [id : Item, status : Status, deadline : Nat]

\* What the process and the store hold.
QueueTypes ==
  /\ persistent \in BOOLEAN
  /\ items \in Seq(Entry)
  /\ row \in [Item -> Status \cup {None}]
  /\ call \in [Item -> {"new", "inserting", "queued", "refused"}]
  /\ request \in [Reviewer -> {None} \cup Request]
  /\ clock \in 0..MaxClock /\ faults \in 0..MaxFaults /\ restarts \in 0..MaxRestarts

\* What the reviewers look at.
PageTypes ==
  /\ page \in [Reviewer -> Seq(Item)]
  /\ \A v \in Reviewer : Len(page[v]) <= Limit

TypeOK == QueueTypes /\ PageTypes

Kept(i) == {k \in DOMAIN items : items[k].id = i}

\* As long as the process lives, every item that Layer 4 enqueued is in the
\* list exactly once, although every decision replaces the whole list while
\* other handlers append to it (approval_queue.py:83-98).
NothingDropped ==
  restarts = 0 =>
    \A i \in Item : Cardinality(Kept(i)) = IF call[i] = "new" THEN 0 ELSE 1

\* A refreshed page leaves out no item more urgent than one it lists.
MostUrgentListed ==
  [][\A v \in Reviewer : page'[v] # page[v] =>
       \A k \in DOMAIN items : items[k].status = "PENDING" /\ items[k].id \notin ToSet(page'[v]) =>
         \A j \in DOMAIN items : items[j].id \in ToSet(page'[v]) =>
           items[j].deadline <= items[k].deadline]_vars

\* A decided item is never pending again in the list, whatever requests of two
\* reviewers cross.
NeverPendingAgain ==
  [][\A k \in DOMAIN items :
       restarts' = restarts /\ items[k].status # "PENDING" => items'[k].status # "PENDING"]_vars

Deciding(i) == \E v \in Reviewer : request[v] # None /\ request[v].id = i

\* A decision in the store reaches the list unless the store failed: once no
\* request on an item is under way, a decided row has no pending entry, which
\* reviewers would be shown again.
ListFollowsStore ==
  faults = 0 => \A k \in DOMAIN items :
    row[items[k].id] \in Decision /\ ~Deciding(items[k].id) => items[k].status # "PENDING"

=============================================================================
