---------------------------- MODULE GuardrailProofs ----------------------------
(***************************************************************************)
(* What holds of two parts of Layer 4 for every value of their constants:  *)
(* of the approval queue (ApprovalQueue), for any items, reviewers,        *)
(* priorities, deadlines, page sizes, store failures and restarts, with    *)
(* and without a store; and of rule loading (RuleLoading), for any files,  *)
(* calls, changes and days.  They share no variable.                       *)
(***************************************************************************)
EXTENDS ApprovalQueue, RuleLoading, FiniteSetTheorems, SequenceTheorems, TLAPS

-----------------------------------------------------------------------------
(* The approval queue (ApprovalQueue).                                      *)

\* An item that was never enqueued has no row.
NewHasNoRow == \A i \in Item : call[i] = "new" => row[i] = None

\* As long as the process lives: a new item has no entry, any other has one.
EntriesMatchCalls ==
  restarts = 0 =>
    \A i \in Item :
      /\ call[i] = "new" => Kept(i) = {}
      /\ call[i] # "new" => \E k \in DOMAIN items : Kept(i) = {k}

\* A pending entry whose row is decided is one whose decision is on its way: the
\* UPDATE has committed and the handler has not resumed yet.
Underway(i) ==
  \E v \in Reviewer : request[v] # None /\ request[v].id = i /\ request[v].stage = "updated"

DecidedRowsAreUnderway ==
  faults = 0 => \A k \in DOMAIN items :
    row[items[k].id] \in Decision /\ items[k].status = "PENDING" => Underway(items[k].id)

\* The inductive invariant.
QueueInv ==
  /\ QueueTypes
  /\ NewHasNoRow
  /\ EntriesMatchCalls
  /\ DecidedRowsAreUnderway

\* The entries are those of items.
LEMMA EntryIds ==
  ASSUME QueueInv
  PROVE  \A k \in DOMAIN items : items[k].id \in Item
  <1>1. items \in Seq(Entry)
    BY DEF QueueInv, QueueTypes
  <1>2. \A k \in DOMAIN items : items[k] \in Entry
    BY <1>1
  <1> QED
    BY <1>2 DEF Entry

-----------------------------------------------------------------------------
(* The list with a decision recorded.                                      *)

\* Recording a decision replaces no entry by another one and touches only the
\* item decided on.
LEMMA RecordedKeepsEntries ==
  ASSUME items \in Seq(Entry), NEW i \in Item, NEW d \in Decision
  PROVE  /\ Recorded(i, d) \in Seq(Entry)
         /\ DOMAIN Recorded(i, d) = DOMAIN items
         /\ \A k \in DOMAIN items :
              /\ Recorded(i, d)[k].id = items[k].id
              /\ items[k].id = i => Recorded(i, d)[k].status = d
              /\ items[k].id # i => Recorded(i, d)[k] = items[k]
  <1> DEFINE entry(k) == IF items[k].id = i THEN [items[k] EXCEPT !.status = d] ELSE items[k]
  <1>1. DOMAIN items = 1..Len(items) /\ Len(items) \in Nat
    OBVIOUS
  <1>2. \A k \in DOMAIN items : items[k] \in Entry
    OBVIOUS
  <1>3. ASSUME NEW k \in DOMAIN items
        PROVE  /\ entry(k) \in Entry
               /\ entry(k).id = items[k].id
               /\ items[k].id = i => entry(k).status = d
    BY <1>2, <1>3 DEF Entry, Status
  <1>4. Recorded(i, d) = [k \in 1..Len(items) |-> entry(k)]
    BY <1>1 DEF Recorded
  <1>5. Recorded(i, d) \in Seq(Entry)
    BY <1>1, <1>3, <1>4
  <1> HIDE DEF entry
  <1>6. \A k \in DOMAIN items : Recorded(i, d)[k] = entry(k)
    BY <1>1, <1>4
  <1>7. \A k \in DOMAIN items : items[k].id # i => entry(k) = items[k]
    BY DEF entry
  <1>8. DOMAIN Recorded(i, d) = DOMAIN items
    BY <1>1, <1>4
  <1> QED
    BY <1>3, <1>5, <1>6, <1>7, <1>8

\* What the list says of the items, as a step that records a decision leaves it.
LEMMA RecordedKeepsRest ==
  ASSUME QueueInv, NEW i \in Item, NEW d \in Decision, items' = Recorded(i, d),
         UNCHANGED <<call, restarts>>
  PROVE  /\ items' \in Seq(Entry)
         /\ \A k \in DOMAIN items' :
              /\ k \in DOMAIN items /\ items'[k].id = items[k].id
              /\ items'[k].status = "PENDING" => items[k].status = "PENDING" /\ items[k].id # i
         /\ EntriesMatchCalls'
  <1>1. items \in Seq(Entry)
    BY DEF QueueInv, QueueTypes
  <1>2. /\ items' \in Seq(Entry)
        /\ DOMAIN items' = DOMAIN items
        /\ \A k \in DOMAIN items :
             /\ items'[k].id = items[k].id
             /\ items[k].id = i => items'[k].status = d
             /\ items[k].id # i => items'[k] = items[k]
    BY <1>1, RecordedKeepsEntries
  <1>3. d # "PENDING"
    BY DEF Decision
  <1>4. \A j \in Item : Kept(j)' = Kept(j)
    BY <1>2 DEF Kept
  <1>5. EntriesMatchCalls'
    BY <1>2, <1>4 DEF QueueInv, EntriesMatchCalls
  <1> QED
    BY <1>2, <1>3, <1>5

-----------------------------------------------------------------------------
(* Every step keeps the invariant.                                         *)

LEMMA InitInv == Init => QueueInv
  <1> SUFFICES ASSUME Init PROVE QueueInv
    OBVIOUS
  <1> USE QueueAssumption DEF Init
  <1>1. items \in Seq(Entry)
    OBVIOUS
  <1>2. QueueTypes
    BY <1>1 DEF QueueTypes
  <1>3. DOMAIN items = {}
    OBVIOUS
  <1>4. EntriesMatchCalls
    BY <1>3 DEF EntriesMatchCalls, Kept
  <1> QED
    BY <1>2, <1>3, <1>4 DEF QueueInv, NewHasNoRow, DecidedRowsAreUnderway

\* An item that is enqueued is the only entry with its id and has no row yet.
LEMMA EnqueueInv ==
  ASSUME QueueInv, NEW i \in Item, Enqueue(i)
  PROVE  QueueInv'
  <1> PICK p \in Priority :
             items' = Append(items, [id |-> i, status |-> "PENDING",
                                     deadline |-> clock + SLA_BY_PRIORITY[p]])
    BY DEF Enqueue
  <1> DEFINE new == [id |-> i, status |-> "PENDING", deadline |-> clock + SLA_BY_PRIORITY[p]]
             n == Len(items) + 1
  <1>1. /\ call[i] = "new" /\ row[i] = None
        /\ UNCHANGED <<persistent, row, request, clock, faults, restarts>>
        /\ call' = [call EXCEPT ![i] = IF persistent THEN "inserting" ELSE "queued"]
    BY DEF Enqueue, QueueInv, NewHasNoRow
  <1>2. new \in Entry
    BY QueueAssumption DEF QueueInv, QueueTypes, Entry, Status
  <1>3. /\ items' \in Seq(Entry)
        /\ DOMAIN items = 1..Len(items) /\ Len(items) \in Nat
        /\ DOMAIN items' = DOMAIN items \cup {n} /\ n \notin DOMAIN items
        /\ items'[n] = new
        /\ \A k \in DOMAIN items : items'[k] = items[k]
    BY <1>2 DEF QueueInv, QueueTypes
  <1>4. call' \in [Item -> {"new", "inserting", "queued", "refused"}] /\ call'[i] # "new"
    BY <1>1 DEF QueueInv, QueueTypes
  <1>5. QueueTypes'
    BY <1>1, <1>3, <1>4 DEF QueueInv, QueueTypes
  <1>6. \A j \in Item : j # i => call'[j] = call[j]
    BY <1>1 DEF QueueInv, QueueTypes
  <1>7. NewHasNoRow'
    BY <1>1, <1>4, <1>6 DEF QueueInv, NewHasNoRow
  <1>8. \A j \in Item : Kept(j)' = IF j = i THEN Kept(j) \cup {n} ELSE Kept(j)
    BY <1>3 DEF Kept
  <1>9. EntriesMatchCalls'
    <2> SUFFICES ASSUME restarts = 0, NEW j \in Item
                 PROVE  /\ call'[j] = "new" => Kept(j)' = {}
                        /\ call'[j] # "new" => \E k \in DOMAIN items' : Kept(j)' = {k}
      BY <1>1 DEF EntriesMatchCalls
    <2>1. /\ call[j] = "new" => Kept(j) = {}
          /\ call[j] # "new" => \E k \in DOMAIN items : Kept(j) = {k}
      BY DEF QueueInv, EntriesMatchCalls
    <2>2. CASE j = i
      BY <1>1, <1>3, <1>4, <1>8, <2>1, <2>2
    <2>3. CASE j # i
      BY <1>3, <1>6, <1>8, <2>1, <2>3
    <2> QED
      BY <2>2, <2>3
  <1>10. None \notin Decision
    BY QueueAssumption DEF Status
  <1>11. \A j \in Item : Underway(j)' = Underway(j)
    BY <1>1 DEF Underway
  <1>12. \A k \in DOMAIN items : items[k].id \in Item
    BY EntryIds
  <1>13. DecidedRowsAreUnderway'
    BY <1>1, <1>3, <1>10, <1>11, <1>12 DEF QueueInv, DecidedRowsAreUnderway
  <1> QED
    BY <1>5, <1>7, <1>9, <1>13 DEF QueueInv

\* A row is written pending, or not at all.
LEMMA InsertInv ==
  ASSUME QueueInv, NEW i \in Item, Insert(i)
  PROVE  QueueInv'
  <1>1. /\ call[i] = "inserting" /\ UNCHANGED <<persistent, items, request, clock, restarts>>
        /\ \/ row' = [row EXCEPT ![i] = "PENDING"] /\ UNCHANGED faults
           \/ UNCHANGED row /\ faults < MaxFaults /\ faults' = faults + 1
        /\ \E c \in {"queued", "refused"} : call' = [call EXCEPT ![i] = c]
    BY DEF Insert, Fault
  <1>2. call' \in [Item -> {"new", "inserting", "queued", "refused"}]
    BY <1>1 DEF QueueInv, QueueTypes
  <1>3. \A j \in Item : call'[j] = "new" <=> call[j] = "new"
    BY <1>1 DEF QueueInv, QueueTypes
  <1>4. row' \in [Item -> Status \cup {None}] /\ faults' \in 0..MaxFaults
    BY <1>1, QueueAssumption DEF QueueInv, QueueTypes, Status
  <1>5. QueueTypes'
    BY <1>1, <1>2, <1>4 DEF QueueInv, QueueTypes
  <1>6. \A j \in Item : row'[j] = row[j] \/ (j = i /\ row'[j] = "PENDING")
    BY <1>1 DEF QueueInv, QueueTypes
  <1>7. NewHasNoRow'
    BY <1>1, <1>3, <1>6 DEF QueueInv, NewHasNoRow
  <1>8. EntriesMatchCalls'
    BY <1>1, <1>3 DEF QueueInv, EntriesMatchCalls, Kept
  <1>9. \A k \in DOMAIN items : items[k].id \in Item
    BY EntryIds
  <1>10. "PENDING" \notin Decision /\ (faults' = 0 => faults = 0)
    BY <1>1 DEF Decision, QueueInv, QueueTypes
  <1>11. DecidedRowsAreUnderway'
    BY <1>1, <1>6, <1>9, <1>10 DEF QueueInv, DecidedRowsAreUnderway, Underway
  <1> QED
    BY <1>5, <1>7, <1>8, <1>11 DEF QueueInv

\* A decision is posted to the store, or recorded at once without one.
LEMMA DecideInv ==
  ASSUME QueueInv, NEW v \in Reviewer, Decide(v)
  PROVE  QueueInv'
  <1>1. request[v] = None /\ UNCHANGED <<persistent, row, call, clock, faults, restarts>>
    BY DEF Decide
  <1>2. ASSUME NEW i \in Item, NEW d \in Decision,
               request' = [request EXCEPT ![v] = [id |-> i, decision |-> d, stage |-> "updating"]],
               UNCHANGED items
        PROVE  QueueInv'
    <2>1. [id |-> i, decision |-> d, stage |-> "updating"] \in Request
      BY DEF Request
    <2>2. QueueTypes'
      BY <1>1, <1>2, <2>1 DEF QueueInv, QueueTypes
    <2>3. \A u \in Reviewer : u # v => request'[u] = request[u]
      BY <1>2 DEF QueueInv, QueueTypes
    <2>4. \A j : Underway(j) => Underway(j)'
      BY <1>1, <2>3 DEF Underway
    <2>5. DecidedRowsAreUnderway'
      BY <1>1, <1>2, <2>4 DEF QueueInv, DecidedRowsAreUnderway
    <2> QED
      BY <1>1, <1>2, <2>2, <2>5 DEF QueueInv, NewHasNoRow, EntriesMatchCalls, Kept
  <1>3. ASSUME NEW i \in Item, NEW d \in Decision, items' = Recorded(i, d), UNCHANGED request
        PROVE  QueueInv'
    <2>1. /\ items' \in Seq(Entry)
          /\ \A k \in DOMAIN items' :
               /\ k \in DOMAIN items /\ items'[k].id = items[k].id
               /\ items'[k].status = "PENDING" => items[k].status = "PENDING"
          /\ EntriesMatchCalls'
      BY <1>1, <1>3, RecordedKeepsRest
    <2>2. QueueTypes'
      BY <1>1, <1>3, <2>1 DEF QueueInv, QueueTypes
    <2>3. DecidedRowsAreUnderway'
      BY <1>1, <1>3, <2>1 DEF QueueInv, DecidedRowsAreUnderway, Underway
    <2> QED
      BY <1>1, <2>1, <2>2, <2>3 DEF QueueInv, NewHasNoRow
  <1> QED
    BY <1>2, <1>3 DEF Decide

\* The UPDATE commits: what it decides is under way until the handler resumes.
LEMMA UpdateInv ==
  ASSUME QueueInv, NEW v \in Reviewer, Update(v)
  PROVE  QueueInv'
  <1> DEFINE q == request[v]
  <1>1. /\ q \in Request /\ q.stage = "updating"
        /\ request' = [request EXCEPT ![v].stage = "updated"]
        /\ row' = [row EXCEPT ![q.id] = IF @ = None THEN None ELSE q.decision]
        /\ UNCHANGED <<persistent, items, call, clock, faults, restarts>>
    BY DEF Update, QueueInv, QueueTypes
  <1>2. /\ request'[v] = [id |-> q.id, decision |-> q.decision, stage |-> "updated"]
        /\ \A u \in Reviewer : u # v => request'[u] = request[u]
    BY <1>1 DEF QueueInv, QueueTypes, Request
  <1>3. q.id \in Item /\ q.decision \in Decision
    BY <1>1 DEF Request
  <1>4. request' \in [Reviewer -> {None} \cup Request]
    BY <1>1, <1>2, <1>3 DEF QueueInv, QueueTypes, Request
  <1>5. row' \in [Item -> Status \cup {None}]
    BY <1>1, <1>3 DEF QueueInv, QueueTypes, Status
  <1>6. QueueTypes'
    BY <1>1, <1>4, <1>5 DEF QueueInv, QueueTypes
  <1>7. \A j \in Item : row'[j] = row[j] \/ (j = q.id /\ row[j] # None)
    BY <1>1 DEF QueueInv, QueueTypes
  <1>8. NewHasNoRow'
    BY <1>1, <1>7 DEF QueueInv, NewHasNoRow
  <1>9. EntriesMatchCalls'
    BY <1>1 DEF QueueInv, EntriesMatchCalls, Kept
  <1>10. [id |-> q.id, decision |-> q.decision, stage |-> "updated"] # None
    BY <1>3, QueueAssumption DEF Request
  <1>11. DecidedRowsAreUnderway'
    <2> SUFFICES ASSUME faults = 0, NEW k \in DOMAIN items, row'[items[k].id] \in Decision,
                        items[k].status = "PENDING"
                 PROVE  Underway(items[k].id)'
      BY <1>1 DEF DecidedRowsAreUnderway
    <2>1. items[k].id \in Item /\ items'[k].id = items[k].id
      BY <1>1, EntryIds
    <2>2. CASE items[k].id = q.id
      BY <1>1, <1>2, <1>10, <2>1, <2>2 DEF Underway
    <2>3. CASE items[k].id # q.id
      <3>1. row[items[k].id] \in Decision
        BY <1>7, <2>1, <2>3
      <3>2. Underway(items[k].id)
        BY <3>1 DEF QueueInv, DecidedRowsAreUnderway
      <3>3. Underway(items[k].id)' = \E u \in Reviewer : request'[u] # None
              /\ request'[u].id = items[k].id /\ request'[u].stage = "updated"
        BY <2>1 DEF Underway
      <3>4. PICK u \in Reviewer : request[u] # None /\ request[u].id = items[k].id
              /\ request[u].stage = "updated"
        BY <3>2 DEF Underway
      <3>5. request'[u] = request[u]
        BY <1>1, <1>2, <3>4
      <3> QED
        BY <3>3, <3>4, <3>5
    <2> QED
      BY <2>2, <2>3
  <1> QED
    BY <1>6, <1>8, <1>9, <1>11 DEF QueueInv

\* The handler resumes: no entry of its item is pending any more.
LEMMA ApplyInv ==
  ASSUME QueueInv, NEW v \in Reviewer, Apply(v)
  PROVE  QueueInv'
  <1> DEFINE q == request[v]
  <1>1. /\ q \in Request
        /\ items' = Recorded(q.id, q.decision)
        /\ request' = [request EXCEPT ![v] = None]
        /\ UNCHANGED <<persistent, row, call, clock, faults, restarts>>
    BY DEF Apply, QueueInv, QueueTypes
  <1>2. q.id \in Item /\ q.decision \in Decision
    BY <1>1 DEF Request
  <1> HIDE DEF q
  <1>3. /\ items' \in Seq(Entry)
        /\ \A k \in DOMAIN items' :
             /\ k \in DOMAIN items /\ items'[k].id = items[k].id
             /\ items'[k].status = "PENDING" => items[k].status = "PENDING" /\ items[k].id # q.id
        /\ EntriesMatchCalls'
    BY <1>1, <1>2, RecordedKeepsRest
  <1>4. request' \in [Reviewer -> {None} \cup Request]
    BY <1>1 DEF QueueInv, QueueTypes
  <1>5. QueueTypes'
    BY <1>1, <1>3, <1>4 DEF QueueInv, QueueTypes
  <1>6. \A u \in Reviewer : u # v => request'[u] = request[u]
    BY <1>1 DEF QueueInv, QueueTypes
  <1>7. \A j : j # q.id /\ Underway(j) => Underway(j)'
    BY <1>6 DEF Underway, q
  <1>8. DecidedRowsAreUnderway'
    BY <1>1, <1>3, <1>7 DEF QueueInv, DecidedRowsAreUnderway
  <1> QED
    BY <1>1, <1>3, <1>5, <1>8 DEF QueueInv, NewHasNoRow

\* A step that leaves the list, the rows, the calls and the requests alone.
LEMMA OtherInv ==
  ASSUME QueueInv, UNCHANGED <<persistent, items, row, call, request, faults, restarts>>,
         clock' \in 0..MaxClock
  PROVE  QueueInv'
  <1>1. QueueTypes'
    BY DEF QueueInv, QueueTypes
  <1>2. NewHasNoRow' /\ EntriesMatchCalls' /\ DecidedRowsAreUnderway'
    BY DEF QueueInv, NewHasNoRow, EntriesMatchCalls, Kept, DecidedRowsAreUnderway, Underway
  <1> QED
    BY <1>1, <1>2 DEF QueueInv

\* After a failure of the store or a restart of the process there is less to keep.
LEMMA FailUpdateInv ==
  ASSUME QueueInv, NEW v \in Reviewer, FailUpdate(v)
  PROVE  QueueInv'
  <1>1. /\ request' = [request EXCEPT ![v] = None] /\ faults < MaxFaults /\ faults' = faults + 1
        /\ UNCHANGED <<persistent, items, row, call, clock, restarts>>
    BY DEF FailUpdate, Fault
  <1>2. faults' \in 0..MaxFaults /\ faults' # 0
    BY <1>1, QueueAssumption DEF QueueInv, QueueTypes
  <1>3. QueueTypes'
    BY <1>1, <1>2 DEF QueueInv, QueueTypes
  <1>4. EntriesMatchCalls'
    BY <1>1 DEF QueueInv, EntriesMatchCalls, Kept
  <1> QED
    BY <1>1, <1>2, <1>3, <1>4 DEF QueueInv, NewHasNoRow, DecidedRowsAreUnderway

LEMMA RestartInv ==
  ASSUME QueueInv, Restart
  PROVE  QueueInv'
  <1>1. /\ restarts < MaxRestarts /\ restarts' = restarts + 1 /\ items' = <<>>
        /\ call' = [i \in Item |-> IF call[i] = "inserting" THEN "refused" ELSE call[i]]
        /\ request' = [v \in Reviewer |-> None]
        /\ UNCHANGED <<persistent, row, clock, faults>>
    BY DEF Restart
  <1>2. restarts' \in 0..MaxRestarts /\ restarts' # 0
    BY <1>1, QueueAssumption DEF QueueInv, QueueTypes
  <1>3. /\ call' \in [Item -> {"new", "inserting", "queued", "refused"}]
        /\ \A i \in Item : call'[i] = "new" => call[i] = "new"
    BY <1>1 DEF QueueInv, QueueTypes
  <1>4. items' \in Seq(Entry) /\ DOMAIN items' = {}
    BY <1>1
  <1>5. QueueTypes'
    BY <1>1, <1>2, <1>3, <1>4 DEF QueueInv, QueueTypes
  <1> QED
    BY <1>1, <1>2, <1>3, <1>4, <1>5
       DEF QueueInv, NewHasNoRow, EntriesMatchCalls, DecidedRowsAreUnderway

LEMMA StepInv ==
  ASSUME QueueInv, [Next]_vars
  PROVE  QueueInv'
  <1>1. CASE \E i \in Item : Enqueue(i)
    BY <1>1, EnqueueInv
  <1>2. CASE \E i \in Item : Insert(i)
    BY <1>2, InsertInv
  <1>3. CASE \E v \in Reviewer : Refresh(v)
    <2>1. UNCHANGED <<persistent, items, row, call, request, clock, faults, restarts>>
      BY <1>3 DEF Refresh
    <2> QED
      BY <2>1, OtherInv DEF QueueInv, QueueTypes
  <1>4. CASE \E v \in Reviewer : Decide(v)
    BY <1>4, DecideInv
  <1>5. CASE \E v \in Reviewer : Update(v)
    BY <1>5, UpdateInv
  <1>6. CASE \E v \in Reviewer : Apply(v)
    BY <1>6, ApplyInv
  <1>7. CASE \E v \in Reviewer : FailUpdate(v)
    BY <1>7, FailUpdateInv
  <1>8. CASE Restart
    BY <1>8, RestartInv
  <1>9. CASE Tick
    <2>1. /\ UNCHANGED <<persistent, items, row, call, request, faults, restarts>>
          /\ clock < MaxClock /\ clock' = clock + 1
      BY <1>9 DEF Tick
    <2>2. clock' \in 0..MaxClock
      BY <2>1, QueueAssumption DEF QueueInv, QueueTypes
    <2> QED
      BY <2>1, <2>2, OtherInv
  <1>10. CASE UNCHANGED vars
    BY <1>10, OtherInv DEF vars, QueueInv, QueueTypes
  <1> QED
    BY <1>1, <1>2, <1>3, <1>4, <1>5, <1>6, <1>7, <1>8, <1>9, <1>10 DEF Next

THEOREM QueueInvariant == Spec => []QueueInv
  BY InitInv, StepInv, PTL DEF Spec

-----------------------------------------------------------------------------
(* Theorems.                                                               *)

\* The process and its store hold what their fields allow: the list, the rows,
\* the calls of Layer 4 and the requests of the reviewers.
THEOREM QueueTypesHold == Spec => []QueueTypes
  <1>1. QueueInv => QueueTypes
    BY DEF QueueInv
  <1> QED
    BY <1>1, QueueInvariant, PTL

\* However decisions of any number of reviewers replace the list while Layer 4
\* appends to it and waits for the store, the list of a living process holds
\* every item Layer 4 enqueued, once (approval_queue.py:83-98).
THEOREM EnqueuedItemsStay == Spec => []NothingDropped
  <1>1. ASSUME QueueInv
        PROVE  NothingDropped
    <2> SUFFICES ASSUME restarts = 0, NEW i \in Item
                 PROVE  Cardinality(Kept(i)) = IF call[i] = "new" THEN 0 ELSE 1
      BY DEF NothingDropped
    <2>1. /\ call[i] = "new" => Kept(i) = {}
          /\ call[i] # "new" => \E k \in DOMAIN items : Kept(i) = {k}
      BY <1>1 DEF QueueInv, EntriesMatchCalls
    <2>2. CASE call[i] = "new"
      BY <2>1, <2>2, FS_EmptySet
    <2>3. CASE call[i] # "new"
      <3>1. PICK k \in DOMAIN items : Kept(i) = {k}
        BY <2>1, <2>3
      <3>2. Cardinality({k}) = 1
        BY FS_Singleton
      <3> QED
        BY <2>3, <3>1, <3>2
    <2> QED
      BY <2>2, <2>3
  <1> QED
    BY <1>1, QueueInvariant, PTL

\* As long as the store does not fail, a decision that reached the store has
\* reached the list once no request on its item is under way.
THEOREM DecisionsReachTheList == Spec => []ListFollowsStore
  <1>1. ASSUME QueueInv
        PROVE  ListFollowsStore
    <2> SUFFICES ASSUME faults = 0, NEW k \in DOMAIN items, row[items[k].id] \in Decision,
                        ~Deciding(items[k].id), items[k].status = "PENDING"
                 PROVE  FALSE
      BY DEF ListFollowsStore
    <2>1. Underway(items[k].id)
      BY <1>1 DEF QueueInv, DecidedRowsAreUnderway
    <2> QED
      BY <2>1 DEF Underway, Deciding
  <1> QED
    BY <1>1, QueueInvariant, PTL

\* No step of a living process makes a decided item pending again, whatever
\* requests of the reviewers cross.
THEOREM DecisionsAreFinal == Spec => NeverPendingAgain
  <1> DEFINE Final == \A k \in DOMAIN items :
               restarts' = restarts /\ items[k].status # "PENDING" => items'[k].status # "PENDING"
  <1>1. ASSUME QueueInv, [Next]_vars
        PROVE  [Final]_vars
    <2> SUFFICES ASSUME Next PROVE Final
      BY <1>1
    <2>1. items \in Seq(Entry)
      BY <1>1 DEF QueueInv, QueueTypes
    <2>2. ASSUME NEW i \in Item, NEW d \in Decision, items' = Recorded(i, d)
          PROVE  Final
      <3>1. /\ DOMAIN items' = DOMAIN items
            /\ \A k \in DOMAIN items :
                 /\ items[k].id = i => items'[k].status = d
                 /\ items[k].id # i => items'[k] = items[k]
        BY <2>1, <2>2, RecordedKeepsEntries
      <3>2. d # "PENDING"
        BY DEF Decision
      <3> QED
        BY <3>1, <3>2
    <2>3. CASE \E i \in Item : Enqueue(i)
      <3>1. PICK new : items' = Append(items, new)
        BY <2>3 DEF Enqueue
      <3>2. \A k \in DOMAIN items : items'[k] = items[k]
        BY <2>1, <3>1
      <3> QED
        BY <3>2
    <2>4. CASE UNCHANGED items
      BY <2>4
    <2>5. CASE \E v \in Reviewer : Decide(v)
      BY <2>2, <2>4, <2>5 DEF Decide
    <2>6. CASE \E v \in Reviewer : Apply(v)
      <3>1. PICK v \in Reviewer : request[v] # None /\ items' = Recorded(request[v].id, request[v].decision)
        BY <2>6 DEF Apply
      <3>2. request[v] \in Request
        BY <1>1, <3>1 DEF QueueInv, QueueTypes
      <3>3. request[v].id \in Item /\ request[v].decision \in Decision
        BY <3>2 DEF Request
      <3> QED
        BY <2>2, <3>1, <3>3
    <2>7. CASE Restart
      BY <1>1, <2>7 DEF Restart, QueueInv, QueueTypes
    <2>8. UNCHANGED items \/ Restart \/ (\E i \in Item : Enqueue(i))
            \/ (\E v \in Reviewer : Decide(v) \/ Apply(v))
      BY DEF Next, Insert, Refresh, Update, FailUpdate, Tick
    <2> HIDE DEF Final
    <2> QED
      BY <2>3, <2>4, <2>5, <2>6, <2>7, <2>8
  <1>2. Spec => [][Final]_vars
    BY <1>1, QueueInvariant, PTL DEF Spec
  <1> QED
    BY <1>2 DEF NeverPendingAgain

-----------------------------------------------------------------------------
(* What a page lists.                                                      *)

\* In any process, restarted or not, no item has two entries.
EntriesAreUnique ==
  /\ \A j, k \in DOMAIN items : items[j].id = items[k].id => j = k
  /\ \A k \in DOMAIN items : call[items[k].id] # "new"

LEMMA UniqueStep ==
  ASSUME QueueInv, EntriesAreUnique, [Next]_vars
  PROVE  EntriesAreUnique'
  <1>1. items \in Seq(Entry) /\ call \in [Item -> {"new", "inserting", "queued", "refused"}]
    BY DEF QueueInv, QueueTypes
  <1>2. \A k \in DOMAIN items : items[k].id \in Item
    BY EntryIds
  <1>3. ASSUME NEW i \in Item, Enqueue(i)
        PROVE  EntriesAreUnique'
    <2>1. PICK p \in Priority :
                 items' = Append(items, [id |-> i, status |-> "PENDING",
                                         deadline |-> clock + SLA_BY_PRIORITY[p]])
      BY <1>3 DEF Enqueue
    <2> DEFINE new == [id |-> i, status |-> "PENDING", deadline |-> clock + SLA_BY_PRIORITY[p]]
               n == Len(items) + 1
    <2>2. /\ DOMAIN items' = DOMAIN items \cup {n} /\ n \notin DOMAIN items
          /\ items'[n] = new
          /\ \A k \in DOMAIN items : items'[k] = items[k]
      BY <1>1, <2>1
    <2>3. new.id = i
      OBVIOUS
    <2> HIDE DEF new, n
    <2>4. /\ call[i] = "new"
          /\ call'[i] # "new"
          /\ \A j \in Item : j # i => call'[j] = call[j]
      BY <1>1, <1>3 DEF Enqueue
    <2>5. \A k \in DOMAIN items : items[k].id # i
      BY <2>4 DEF EntriesAreUnique
    <2> QED
      BY <1>2, <2>2, <2>3, <2>4, <2>5 DEF EntriesAreUnique
  <1>4. ASSUME \A i \in Item : call'[i] = "new" => call[i] = "new",
               DOMAIN items' \subseteq DOMAIN items,
               \A k \in DOMAIN items' : items'[k].id = items[k].id
        PROVE  EntriesAreUnique'
    BY <1>2, <1>4 DEF EntriesAreUnique
  <1>5. CASE \E i \in Item : Insert(i)
    BY <1>1, <1>4, <1>5 DEF Insert
  <1>6. ASSUME NEW i \in Item, NEW d \in Decision, items' = Recorded(i, d), UNCHANGED call
        PROVE  EntriesAreUnique'
    BY <1>1, <1>4, <1>6, RecordedKeepsEntries
  <1>7. CASE \E v \in Reviewer : Decide(v)
    BY <1>4, <1>6, <1>7 DEF Decide
  <1>8. CASE \E v \in Reviewer : Apply(v)
    <2>1. PICK v \in Reviewer : request[v] # None /\ UNCHANGED call
                                /\ items' = Recorded(request[v].id, request[v].decision)
      BY <1>8 DEF Apply
    <2>2. request[v] \in Request
      BY <2>1 DEF QueueInv, QueueTypes
    <2>3. request[v].id \in Item /\ request[v].decision \in Decision
      BY <2>2 DEF Request
    <2> QED
      BY <1>6, <2>1, <2>3
  <1>9. CASE Restart
    BY <1>4, <1>9 DEF Restart
  <1>10. CASE UNCHANGED <<items, call>>
    BY <1>4, <1>10
  <1> QED
    BY <1>3, <1>5, <1>7, <1>8, <1>9, <1>10
       DEF Next, Refresh, Update, FailUpdate, Tick, vars

THEOREM UniqueInvariant == Spec => []EntriesAreUnique
  <1>1. Init => EntriesAreUnique
    BY DEF Init, EntriesAreUnique
  <1> QED
    BY <1>1, UniqueStep, QueueInvariant, PTL DEF Spec

\* The pending entries have as many ranks as there are entries, each its own:
\* the sort leaves out no entry and lists none twice.
LEMMA RanksAreTheOrder ==
  ASSUME items \in Seq(Entry)
  PROVE  /\ Cardinality(Pending) \in Nat
         /\ \A k \in Pending : Rank(k) \in 0..(Cardinality(Pending) - 1)
         /\ \A j, k \in Pending : Before(j, k) => Rank(j) < Rank(k)
         /\ \A j, k \in Pending : Rank(j) = Rank(k) => j = k
         /\ \A n \in 0..(Cardinality(Pending) - 1) : \E k \in Pending : Rank(k) = n
  <1> DEFINE N == Cardinality(Pending)
             Ahead(k) == {j \in Pending : Before(j, k)}
  <1>1. DOMAIN items = 1..Len(items) /\ Len(items) \in Nat
    OBVIOUS
  <1>2. \A k \in DOMAIN items : items[k].deadline \in Nat /\ k \in Nat
    <2>1. \A k \in DOMAIN items : items[k] \in Entry
      OBVIOUS
    <2> QED
      BY <1>1, <2>1 DEF Entry
  <1>3. IsFiniteSet(Pending) /\ N \in Nat
    <2>1. IsFiniteSet(1..Len(items))
      BY <1>1, FS_Interval
    <2>2. Pending \subseteq 1..Len(items)
      BY <1>1 DEF Pending
    <2>3. IsFiniteSet(Pending)
      BY <2>1, <2>2, FS_Subset
    <2> QED
      BY <2>3, FS_CardinalityType
  <1>4. /\ \A k \in Pending : ~Before(k, k)
        /\ \A i, j, k \in Pending : Before(i, j) /\ Before(j, k) => Before(i, k)
        /\ \A j, k \in Pending : j # k => Before(j, k) \/ Before(k, j)
    BY <1>2 DEF Before, Pending
  <1>5. \A k \in Pending : IsFiniteSet(Ahead(k)) /\ Rank(k) \in 0..(N - 1)
    <2> SUFFICES ASSUME NEW k \in Pending
                 PROVE  IsFiniteSet(Ahead(k)) /\ Rank(k) \in 0..(N - 1)
      OBVIOUS
    <2>1. Ahead(k) \in SUBSET Pending /\ k \notin Ahead(k)
      BY <1>4
    <2>2. IsFiniteSet(Ahead(k)) /\ Cardinality(Ahead(k)) <= N
          /\ (N = Cardinality(Ahead(k)) => Pending = Ahead(k))
      BY <1>3, <2>1, FS_Subset
    <2>3. Cardinality(Ahead(k)) \in Nat /\ Cardinality(Ahead(k)) # N
      BY <2>1, <2>2, FS_CardinalityType
    <2>4. Rank(k) = Cardinality(Ahead(k))
      BY DEF Rank
    <2> HIDE DEF N, Ahead
    <2> QED
      BY <1>3, <2>2, <2>3, <2>4
  <1>6. \A j, k \in Pending : Before(j, k) => Rank(j) < Rank(k)
    <2> SUFFICES ASSUME NEW j \in Pending, NEW k \in Pending, Before(j, k)
                 PROVE  Rank(j) < Rank(k)
      OBVIOUS
    <2>1. Ahead(j) \in SUBSET Ahead(k) /\ j \in Ahead(k) /\ j \notin Ahead(j)
      BY <1>4
    <2>2. /\ Cardinality(Ahead(j)) <= Cardinality(Ahead(k))
          /\ Cardinality(Ahead(k)) = Cardinality(Ahead(j)) => Ahead(k) = Ahead(j)
      BY <1>5, <2>1, FS_Subset
    <2>3. Rank(j) = Cardinality(Ahead(j)) /\ Rank(k) = Cardinality(Ahead(k))
      BY DEF Rank
    <2>4. Rank(j) \in 0..(N - 1) /\ Rank(k) \in 0..(N - 1)
      BY <1>5
    <2>5. Ahead(k) # Ahead(j)
      BY <2>1
    <2> HIDE DEF Ahead, N
    <2> QED
      BY <1>3, <2>2, <2>3, <2>4, <2>5
  <1>7. \A j, k \in Pending : Rank(j) = Rank(k) => j = k
    <2> SUFFICES ASSUME NEW j \in Pending, NEW k \in Pending, Rank(j) = Rank(k), j # k
                 PROVE  FALSE
      OBVIOUS
    <2>1. Before(j, k) \/ Before(k, j)
      BY <1>4
    <2>2. Rank(j) < Rank(k) \/ Rank(k) < Rank(j)
      BY <1>6, <2>1
    <2>3. Rank(j) \in 0..(N - 1) /\ Rank(k) \in 0..(N - 1)
      BY <1>5
    <2> HIDE DEF Ahead, N
    <2> QED
      BY <1>3, <2>2, <2>3
  <1>8. \A n \in 0..(N - 1) : \E k \in Pending : Rank(k) = n
    <2> DEFINE rank == [k \in Pending |-> Rank(k)]
               Ranks == 0..(N - 1)
    <2>1. rank \in Injection(Pending, Ranks)
      BY <1>5, <1>7 DEF Injection, IsInjective
    <2>2. IsFiniteSet(Ranks) /\ Cardinality(Ranks) = N
      <3>1. N - 1 \in Int /\ 0 \in Int
        BY <1>3
      <3>2. IsFiniteSet(Ranks) /\ Cardinality(Ranks) = IF 0 > N - 1 THEN 0 ELSE (N - 1) - 0 + 1
        BY <3>1, FS_Interval
      <3> HIDE DEF N, Ranks
      <3> QED
        BY <1>3, <3>2
    <2>3. rank \in Surjection(Pending, Ranks)
      <3> HIDE DEF rank, Ranks
      <3> QED
        BY <2>1, <2>2, FS_Injection
    <2> QED
      BY <2>3 DEF Surjection
  <1> QED
    BY <1>3, <1>5, <1>6, <1>7, <1>8

\* What get_pending returns: as many pending entries as the limit allows, the one
\* of rank n - 1 at the place n.
LEMMA ListedEntries ==
  ASSUME items \in Seq(Entry)
  PROVE  \E upto \in Nat :
           /\ upto <= Limit
           /\ upto < Limit => upto = Cardinality(Pending)
           /\ DOMAIN Listed = 1..upto
           /\ \A n \in 1..upto :
                \E k \in Pending : Rank(k) = n - 1 /\ Listed[n] = items[k].id
           /\ \A k \in Pending : Rank(k) < upto => Listed[Rank(k) + 1] = items[k].id
  <1> DEFINE upto == IF Cardinality(Pending) < Limit THEN Cardinality(Pending) ELSE Limit
             nth(n) == CHOOSE k \in Pending : Rank(k) = n - 1
  <1>1. /\ Cardinality(Pending) \in Nat
        /\ \A k \in Pending : Rank(k) \in 0..(Cardinality(Pending) - 1)
        /\ \A j, k \in Pending : Rank(j) = Rank(k) => j = k
        /\ \A n \in 0..(Cardinality(Pending) - 1) : \E k \in Pending : Rank(k) = n
    BY RanksAreTheOrder
  <1>2. Limit \in Nat
    BY QueueAssumption
  <1>3. /\ upto \in Nat /\ upto <= Limit /\ upto <= Cardinality(Pending)
        /\ (upto < Limit => upto = Cardinality(Pending))
    BY <1>1, <1>2
  <1>4. Listed = [n \in 1..upto |-> items[nth(n)].id]
    BY DEF Listed
  <1> HIDE DEF upto
  <1>5. \A n \in 1..upto : nth(n) \in Pending /\ Rank(nth(n)) = n - 1
    <2> SUFFICES ASSUME NEW n \in 1..upto PROVE nth(n) \in Pending /\ Rank(nth(n)) = n - 1
      OBVIOUS
    <2>1. n - 1 \in 0..(Cardinality(Pending) - 1)
      BY <1>1, <1>3
    <2>2. \E k \in Pending : Rank(k) = n - 1
      BY <1>1, <2>1
    <2> QED
      BY <2>2
  <1> HIDE DEF nth
  <1>6. \A k \in Pending : Rank(k) < upto => Listed[Rank(k) + 1] = items[k].id
    <2> SUFFICES ASSUME NEW k \in Pending, Rank(k) < upto PROVE Listed[Rank(k) + 1] = items[k].id
      OBVIOUS
    <2>1. Rank(k) + 1 \in 1..upto /\ (Rank(k) + 1) - 1 = Rank(k)
      BY <1>1, <1>3
    <2>2. nth(Rank(k) + 1) = k
      BY <1>1, <1>5, <2>1
    <2> QED
      BY <1>4, <2>1, <2>2
  <1> QED
    BY <1>3, <1>4, <1>5, <1>6

\* Every page lists items, at most as many as the limit allows.
THEOREM PagesHoldItems == Spec => []TypeOK
  <1>1. Init => PageTypes
    <2> SUFFICES ASSUME Init PROVE PageTypes
      OBVIOUS
    <2>1. <<>> \in Seq(Item) /\ Len(<<>>) = 0
      OBVIOUS
    <2> QED
      BY <2>1, QueueAssumption DEF Init, PageTypes
  <1>2. ASSUME QueueInv, PageTypes, [Next]_vars
        PROVE  PageTypes'
    <2>1. CASE UNCHANGED page
      BY <1>2, <2>1 DEF PageTypes
    <2>2. ASSUME NEW v \in Reviewer, Refresh(v)
          PROVE  PageTypes'
      <3>1. items \in Seq(Entry) /\ Limit \in Nat
        BY <1>2, QueueAssumption DEF QueueInv, QueueTypes
      <3>2. PICK upto \in Nat : /\ upto <= Limit /\ DOMAIN Listed = 1..upto
                                /\ \A n \in 1..upto : \E k \in Pending : Listed[n] = items[k].id
        BY <3>1, ListedEntries
      <3>3. \A n \in 1..upto : Listed[n] \in Item
        BY <1>2, <3>2, EntryIds DEF Pending
      <3>4. Listed = [n \in 1..upto |-> Listed[n]]
        BY <3>2 DEF Listed
      <3>5. Listed \in Seq(Item) /\ Len(Listed) <= Limit
        BY <3>1, <3>2, <3>3, <3>4
      <3> QED
        BY <1>2, <2>2, <3>5 DEF Refresh, PageTypes
    <2> QED
      BY <1>2, <2>1, <2>2
         DEF Next, vars, Enqueue, Insert, Decide, Update, Apply, FailUpdate, Restart, Tick
  <1>3. QueueInv /\ PageTypes => TypeOK
    BY DEF QueueInv, TypeOK
  <1> QED
    BY <1>1, <1>2, <1>3, QueueInvariant, PTL DEF Spec

\* A page that a reviewer refreshes lists every pending item that is more urgent
\* than one it lists, however many are pending and wherever the limit cuts.
THEOREM PagesListTheMostUrgent == Spec => MostUrgentListed
  <1> DEFINE Urgent == \A v \in Reviewer : page'[v] # page[v] =>
        \A k \in DOMAIN items : items[k].status = "PENDING" /\ items[k].id \notin ToSet(page'[v]) =>
          \A j \in DOMAIN items : items[j].id \in ToSet(page'[v]) =>
            items[j].deadline <= items[k].deadline
  <1>1. ASSUME QueueInv, EntriesAreUnique, PageTypes, [Next]_vars
        PROVE  [Urgent]_vars
    <2>1. CASE UNCHANGED page
      BY <2>1
    <2>2. ASSUME NEW v \in Reviewer, Refresh(v)
          PROVE  Urgent
      <3>1. items \in Seq(Entry)
        BY <1>1 DEF QueueInv, QueueTypes
      <3>2. page' = [page EXCEPT ![v] = Listed] /\ page \in [Reviewer -> Seq(Item)]
        BY <1>1, <2>2 DEF Refresh, PageTypes
      <3> SUFFICES ASSUME NEW k \in DOMAIN items, items[k].status = "PENDING",
                          items[k].id \notin ToSet(Listed),
                          NEW j \in DOMAIN items, items[j].id \in ToSet(Listed)
                   PROVE  items[j].deadline <= items[k].deadline
        BY <3>2
      <3>3. PICK upto \in Nat :
              /\ DOMAIN Listed = 1..upto
              /\ \A n \in 1..upto :
                   \E e \in Pending : Rank(e) = n - 1 /\ Listed[n] = items[e].id
              /\ \A e \in Pending : Rank(e) < upto => Listed[Rank(e) + 1] = items[e].id
        BY <3>1, ListedEntries
      <3>4. /\ \A e \in Pending : Rank(e) \in Nat
            /\ \A d, e \in Pending : Before(d, e) => Rank(d) < Rank(e)
        BY <3>1, RanksAreTheOrder
      <3>5. k \in Pending
        BY DEF Pending
      <3>6. Rank(k) >= upto
        <4> SUFFICES ASSUME Rank(k) < upto PROVE FALSE
          BY <3>4, <3>5
        <4>1. Listed[Rank(k) + 1] = items[k].id /\ Rank(k) + 1 \in DOMAIN Listed
          BY <3>3, <3>4, <3>5
        <4> QED
          BY <4>1 DEF ToSet
      <3>7. j \in Pending /\ Rank(j) < upto
        <4>1. PICK n \in 1..upto : Listed[n] = items[j].id
          BY <3>3 DEF ToSet
        <4>2. PICK e \in Pending : Rank(e) = n - 1 /\ Listed[n] = items[e].id
          BY <3>3
        <4>3. e = j
          BY <1>1, <4>1, <4>2 DEF EntriesAreUnique, Pending
        <4> QED
          BY <3>4, <4>2, <4>3
      <3>8. ~Before(k, j)
        BY <3>4, <3>5, <3>6, <3>7
      <3>9. items[j] \in Entry /\ items[k] \in Entry
        BY <3>1
      <3> QED
        BY <3>8, <3>9 DEF Before, Entry
    <2> QED
      BY <1>1, <2>1, <2>2
         DEF Next, vars, Enqueue, Insert, Decide, Update, Apply, FailUpdate, Restart, Tick
  <1>2. TypeOK => PageTypes
    BY DEF TypeOK
  <1>3. Spec => [][Urgent]_vars
    BY <1>1, <1>2, QueueInvariant, UniqueInvariant, PagesHoldItems, PTL DEF Spec
  <1> QED
    BY <1>3 DEF MostUrgentListed

-----------------------------------------------------------------------------
(* Rule loading (RuleLoading).                                              *)

LoadStage == {"idle", "listing", "stating", "opening", "scanning", "reading",
              "returned", "over"}

\* What is known of some of the files.
Partial(S) == UNION {[D -> S] : D \in SUBSET File}

Progress ==
  [at : LoadStage, left : SUBSET File, seen : Partial(Nat), found : Partial({"rule", "later"}),
   today : Nat, overlapped : BOOLEAN]

LoadTypes ==
  /\ directory \in BOOLEAN
  /\ disk \in [File -> {Absent} \cup [mtime : 1..MaxChanges, content : Content]]
  /\ day \in 0..MaxDay
  /\ rules \in Partial({"rule", "later"}) /\ snapshot \in Partial(Nat)
  /\ loading \in [Call -> Progress]
  /\ quiet \in [Call -> BOOLEAN]
  /\ doubtful \in BOOLEAN
  /\ changes \in 1..MaxChanges

\* No time of a file is ahead of the changes.
TimesPast ==
  /\ \A f \in File : disk[f].mtime <= changes
  /\ \A f \in DOMAIN snapshot : snapshot[f] <= changes
  /\ \A c \in Call : \A f \in DOMAIN loading[c].seen : loading[c].seen[f] <= changes

\* What was seen of a file is its time still.
Fresh(seen, f) == f \in DOMAIN seen /\ seen[f] = disk[f].mtime

\* The rules found are right about a file, on a day.
RightAbout(found, f, today) ==
  /\ disk[f].content # "malformed"
  /\ IF ActiveOn(disk[f].content, today)
     THEN f \in DOMAIN found /\ found[f] = disk[f].content
     ELSE f \notin DOMAIN found

\* A load_rules that has kept its rules and that nothing has overlapped.
Settling(c) == loading[c].at \in {"listing", "stating"} /\ ~loading[c].overlapped

\* The rules kept are right about every file whose snapshot is fresh, and about all
\* while a load_rules goes on to its snapshot.
RulesKept ==
  ~doubtful =>
    \A f \in Present :
      Fresh(snapshot, f) \/ (\E c \in LoadCall : Settling(c)) => RightAbout(rules, f, day)

\* How far a call has come.
CallSoFar(c) ==
  LET at == loading[c].at
      left == loading[c].left
      seen == loading[c].seen
      found == loading[c].found
      today == loading[c].today
  IN  /\ at \in {"opening", "scanning"} \/ (c \in GetCall /\ at \in {"listing", "stating"}) =>
           found = NoFiles
      /\ at = "reading" => DOMAIN found \cap left = {}
      /\ at = "returned" /\ quiet[c] =>
           \A f \in Present : RightAbout(found, f, day)
      /\ c \in GetCall =>
           /\ at = "reading" =>
                \A f \in Present :
                  Fresh(seen, f) => f \in left \/ RightAbout(found, f, today)
           /\ quiet[c] /\ at = "stating" =>
                \A f \in Present : f \in left \/ Fresh(seen, f)
           /\ quiet[c] /\ at \in {"opening", "scanning", "reading"} =>
                \A f \in Present : Fresh(seen, f)
           /\ quiet[c] /\ at = "reading" => today = day
      /\ c \in LoadCall /\ at = "reading" /\ ~loading[c].overlapped =>
           /\ today = day
           /\ \A f \in Present : f \in left \/ RightAbout(found, f, today)

LoadInv ==
  /\ LoadTypes
  /\ TimesPast
  /\ RulesKept
  /\ \A c \in Call : CallSoFar(c)

-----------------------------------------------------------------------------
LEMMA PartialFunctions ==
  ASSUME NEW S, NEW s \in Partial(S)
  PROVE  /\ DOMAIN s \subseteq File
         /\ \A f \in DOMAIN s : s[f] \in S
  BY DEF Partial

LEMMA PartialWith ==
  ASSUME NEW S, NEW s \in Partial(S), NEW f \in File, NEW v \in S
  PROVE  /\ With(s, f, v) \in Partial(S)
         /\ DOMAIN With(s, f, v) = DOMAIN s \cup {f}
         /\ With(s, f, v)[f] = v
         /\ \A g \in DOMAIN s \ {f} : With(s, f, v)[g] = s[g]
  <1> DEFINE w == With(s, f, v)
             D == DOMAIN s \cup {f}
  <1>1. DOMAIN s \subseteq File /\ \A g \in DOMAIN s : s[g] \in S
    BY PartialFunctions
  <1>2. w = [g \in D |-> IF g = f THEN v ELSE s[g]]
    BY DEF With
  <1>3. w \in [D -> S] /\ D \in SUBSET File
    BY <1>1, <1>2
  <1>4. w \in Partial(S)
    <2> HIDE DEF w, D
    <2> QED
      BY <1>3 DEF Partial
  <1> QED
    BY <1>2, <1>4

LEMMA PartialNone ==
  ASSUME NEW S
  PROVE  NoFiles \in Partial(S) /\ DOMAIN NoFiles = {}
  BY DEF Partial, NoFiles

LEMMA IdleProgress ==
  ASSUME NEW at \in LoadStage
  PROVE  /\ [Idle EXCEPT !.at = at] \in Progress
         /\ [Idle EXCEPT !.at = at].at = at
         /\ [Idle EXCEPT !.at = at].left = {}
         /\ [Idle EXCEPT !.at = at].found = NoFiles
         /\ [Idle EXCEPT !.at = at].seen = NoFiles
         /\ ~[Idle EXCEPT !.at = at].overlapped
  BY PartialNone DEF Progress, Idle

LEMMA ChangedAt ==
  ASSUME NEW p \in Progress, NEW at \in LoadStage
  PROVE  /\ [p EXCEPT !.at = at] \in Progress
         /\ [p EXCEPT !.at = at].at = at
         /\ [p EXCEPT !.at = at].left = p.left
         /\ [p EXCEPT !.at = at].found = p.found
         /\ [p EXCEPT !.at = at].seen = p.seen
         /\ [p EXCEPT !.at = at].today = p.today
         /\ [p EXCEPT !.at = at].overlapped = p.overlapped
  BY DEF Progress

\* The calls are apart.
LEMMA CallKinds ==
  /\ GetCall \cap LoadCall = {} /\ MaxChanges \in Nat /\ 1 <= MaxChanges /\ MaxDay \in Nat
         /\ Call = GetCall \cup LoadCall
  BY LoadingAssumption DEF Call

\* A step of one call: what has to be shown of the others is nothing.
LEMMA CallStep ==
  ASSUME LoadInv, NEW c \in Call, NEW to \in Progress,
         loading' = [loading EXCEPT ![c] = to],
         UNCHANGED <<directory, disk, day, changes>>,
         quiet' \in [Call -> BOOLEAN],
         \A d \in Call \ {c} : quiet'[d] = quiet[d],
         rules' \in Partial({"rule", "later"}), snapshot' \in Partial(Nat), doubtful' \in BOOLEAN,
         \A f \in DOMAIN snapshot' : snapshot'[f] <= changes,
         \A f \in DOMAIN to.seen : to.seen[f] <= changes,
         RulesKept', CallSoFar(c)'
  PROVE  LoadInv'
  <1>1. loading'[c] = to /\ \A d \in Call \ {c} : loading'[d] = loading[d]
    BY DEF LoadInv, LoadTypes
  <1>2. LoadTypes'
    BY DEF LoadInv, LoadTypes
  <1>3. TimesPast'
    BY <1>1 DEF LoadInv, TimesPast
  <1>4. ASSUME NEW d \in Call \ {c} PROVE CallSoFar(d)'
    <2>1. CallSoFar(d) /\ loading'[d] = loading[d] /\ quiet'[d] = quiet[d]
      BY <1>1 DEF LoadInv
    <2>2. Present' = Present
      BY DEF Present
    <2> QED
      BY <2>1, <2>2 DEF CallSoFar, RightAbout, Fresh
  <1> QED
    BY <1>2, <1>3, <1>4 DEF LoadInv

\* The rules kept stay right when the loader is left alone and no call that was
\* not settling begins to.
LEMMA RulesStay ==
  ASSUME RulesKept, UNCHANGED <<rules, snapshot, doubtful, disk, day>>,
         \A c \in LoadCall : Settling(c)' => Settling(c)
  PROVE  RulesKept'
  <1>1. Present' = Present
    BY DEF Present
  <1> QED
    BY <1>1 DEF RulesKept, Fresh, RightAbout

LEMMA InitLoads == LoadingInit => LoadInv
  <1> SUFFICES ASSUME LoadingInit PROVE LoadInv
    OBVIOUS
  <1>1. /\ Idle \in Progress /\ Idle.at = "idle"
        /\ Idle.seen = NoFiles
    BY PartialNone DEF Progress, Idle, LoadStage
  <1>2. \A c \in Call : loading[c] = Idle
    BY DEF LoadingInit
  <1>3. LoadTypes
    <2>1. loading \in [Call -> Progress]
      BY <1>1 DEF LoadingInit
    <2>2. quiet \in [Call -> BOOLEAN]
      BY Zenon DEF LoadingInit
    <2>3. changes \in 1..MaxChanges /\ day \in 0..MaxDay
      BY CallKinds DEF LoadingInit
    <2>4. disk \in [File -> {Absent} \cup [mtime : 1..MaxChanges, content : Content]]
      <3>1. [mtime |-> 1, content |-> "rule"] \in [mtime : 1..MaxChanges, content : Content]
        BY CallKinds DEF Content
      <3> DEFINE one == [mtime |-> 1, content |-> "rule"]
                 all == [mtime : 1..MaxChanges, content : Content]
      <3>2. one \in all /\ disk \in [File -> {Absent, one}]
        BY <3>1 DEF LoadingInit
      <3>3. disk = [f \in File |-> disk[f]] /\ \A f \in File : disk[f] \in {Absent, one}
        BY <3>2
      <3> HIDE DEF one, all
      <3>4. \A f \in File : disk[f] \in {Absent} \cup all
        BY <3>2, <3>3
      <3>5. disk \in [File -> {Absent} \cup all]
        BY <3>3, <3>4
      <3> QED
        BY <3>5 DEF all
    <2>5. rules \in Partial({"rule", "later"}) /\ snapshot \in Partial(Nat)
      BY PartialNone DEF LoadingInit
    <2>6. directory \in BOOLEAN /\ doubtful \in BOOLEAN
      BY Zenon DEF LoadingInit
    <2> QED
      BY <2>1, <2>2, <2>3, <2>4, <2>5, <2>6 DEF LoadTypes
  <1>4. TimesPast
    BY <1>1, <1>2, PartialNone DEF LoadingInit, TimesPast, Absent
  <1>5. RulesKept
    BY <1>1, <1>2, PartialNone DEF LoadingInit, RulesKept, Settling, Fresh, Call
  <1>6. \A c \in Call : CallSoFar(c)
    BY <1>1, <1>2 DEF CallSoFar
  <1> QED
    BY <1>3, <1>4, <1>5, <1>6 DEF LoadInv

\* A step of a call that keeps the loader as it was.
LEMMA CallStepKeepsRules ==
  ASSUME LoadInv, NEW c \in Call, NEW to \in Progress,
         loading' = [loading EXCEPT ![c] = to],
         UNCHANGED <<directory, disk, day, changes, rules, snapshot, doubtful>>,
         quiet' \in [Call -> BOOLEAN],
         \A d \in Call \ {c} : quiet'[d] = quiet[d],
         \A f \in DOMAIN to.seen : to.seen[f] <= changes,
         c \in LoadCall /\ to.at \in {"listing", "stating"} /\ ~to.overlapped => Settling(c),
         CallSoFar(c)'
  PROVE  LoadInv'
  <1>1. loading'[c] = to /\ \A d \in Call \ {c} : loading'[d] = loading[d]
    BY DEF LoadInv, LoadTypes
  <1>2. ASSUME NEW d \in LoadCall, Settling(d)' PROVE Settling(d)
    BY <1>1, <1>2 DEF Settling, Call
  <1>3. RulesKept'
    BY <1>2, RulesStay DEF LoadInv
  <1>4. \A f \in DOMAIN snapshot' : snapshot'[f] <= changes
    BY DEF LoadInv, TimesPast
  <1>5. rules' \in Partial({"rule", "later"}) /\ snapshot' \in Partial(Nat) /\ doubtful' \in BOOLEAN
    BY DEF LoadInv, LoadTypes
  <1> QED
    BY <1>3, <1>4, <1>5, CallStep

\* What a call was is of its kind.
LEMMA CallKnown ==
  ASSUME LoadInv, NEW c \in Call
  PROVE  /\ loading[c] \in Progress
         /\ loading[c].left \subseteq File
         /\ loading[c].seen \in Partial(Nat)
         /\ loading[c].found \in Partial({"rule", "later"})
         /\ \A f \in DOMAIN loading[c].seen : loading[c].seen[f] <= changes
         /\ CallSoFar(c)
         /\ \A d \in Call : quiet[d] \in BOOLEAN
  BY DEF LoadInv, LoadTypes, TimesPast, Progress

LEMMA RaisesInv ==
  ASSUME LoadInv, NEW c \in Call, NEW from, Raise(c, from)
  PROVE  LoadInv'
  <1> DEFINE to == [Idle EXCEPT !.at = "over"]
  <1>1. /\ to \in Progress /\ to.at = "over" /\ to.seen = NoFiles
    BY IdleProgress DEF LoadStage
  <1> HIDE DEF to
  <1>2. /\ loading' = [loading EXCEPT ![c] = to]
        /\ UNCHANGED <<directory, disk, day, changes, rules, snapshot, doubtful, quiet>>
    BY DEF Raise, Step, world, loader, to
  <1>3. loading'[c] = to
    BY <1>2 DEF LoadInv, LoadTypes
  <1>4. CallSoFar(c)'
    BY <1>1, <1>3 DEF CallSoFar
  <1>5. quiet' \in [Call -> BOOLEAN]
    BY <1>2 DEF LoadInv, LoadTypes
  <1>6. \A f \in DOMAIN to.seen : to.seen[f] <= changes
    BY <1>1, PartialNone
  <1> QED
    BY <1>1, <1>2, <1>4, <1>5, <1>6, CallStepKeepsRules

LEMMA BeginInv ==
  ASSUME LoadInv, NEW c \in Call, Begin(c)
  PROVE  LoadInv'
  <1> DEFINE at == IF c \in GetCall THEN "listing" ELSE "opening"
             to == [Idle EXCEPT !.at = at]
  <1>1. /\ to \in Progress /\ to.at = at /\ to.seen = NoFiles
        /\ to.found = NoFiles
    BY IdleProgress DEF LoadStage
  <1> HIDE DEF to
  <1>2. /\ loading' = [loading EXCEPT ![c] = to]
        /\ UNCHANGED <<directory, disk, day, changes, rules, snapshot, doubtful>>
    BY DEF Begin, Step, world, loader, to
  <1>3. loading'[c] = to
    BY <1>2 DEF LoadInv, LoadTypes
  <1>4. CallSoFar(c)'
    BY <1>1, <1>3, CallKinds DEF CallSoFar
  <1>5. PICK one : one = TRUE
    OBVIOUS
  <1>6. quiet' = [quiet EXCEPT ![c] = one]
    BY <1>5, Zenon DEF Begin
  <1>7. quiet' \in [Call -> BOOLEAN] /\ \A d \in Call \ {c} : quiet'[d] = quiet[d]
    BY <1>5, <1>6 DEF LoadInv, LoadTypes
  <1>8. \A f \in DOMAIN to.seen : to.seen[f] <= changes
    BY <1>1, PartialNone
  <1>9. c \in LoadCall => to.at \notin {"listing", "stating"}
    BY <1>1, CallKinds
  <1> QED
    BY <1>1, <1>2, <1>4, <1>7, <1>8, <1>9, CallStepKeepsRules

LEMMA ListInv ==
  ASSUME LoadInv, NEW c \in Call, List(c)
  PROVE  LoadInv'
  <1> DEFINE to == [loading[c] EXCEPT !.at = "stating", !.left = Present,
                                      !.seen = NoFiles]
  <1>1. loading[c].at = "listing" /\ loading[c] \in Progress /\ CallSoFar(c)
    BY CallKnown DEF List, Step
  <1>2. /\ to \in Progress /\ to.at = "stating" /\ to.seen = NoFiles
        /\ to.found = loading[c].found /\ to.left = Present
        /\ to.overlapped = loading[c].overlapped
    BY <1>1, PartialNone DEF Progress, LoadStage, Present
  <1> HIDE DEF to
  <1>3. /\ loading' = [loading EXCEPT ![c] = to]
        /\ UNCHANGED <<directory, disk, day, changes, rules, snapshot, doubtful, quiet>>
    BY DEF List, Step, world, loader, to
  <1>4. loading'[c] = to /\ Present' = Present
    BY <1>3 DEF LoadInv, LoadTypes, Present
  <1>5. CallSoFar(c)'
    BY <1>1, <1>2, <1>4 DEF CallSoFar
  <1>6. quiet' \in [Call -> BOOLEAN]
    BY <1>3 DEF LoadInv, LoadTypes
  <1>7. \A f \in DOMAIN to.seen : to.seen[f] <= changes
    BY <1>2, PartialNone
  <1>8. c \in LoadCall /\ ~to.overlapped => Settling(c)
    BY <1>1, <1>2 DEF Settling
  <1> QED
    BY <1>2, <1>3, <1>5, <1>6, <1>7, <1>8, CallStepKeepsRules

\* What a file holds is of its kind.
LEMMA FileKnown ==
  ASSUME LoadInv, NEW f \in File
  PROVE  /\ f \in Present <=> disk[f].content \in Content
         /\ f \notin Present <=> disk[f].content = "absent"
         /\ disk[f].mtime \in Nat /\ disk[f].mtime <= changes
         /\ f \in Present => disk[f].mtime >= 1
  <1>1. disk[f] \in {Absent} \cup [mtime : 1..MaxChanges, content : Content]
    BY DEF LoadInv, LoadTypes
  <1>2. disk[f].mtime <= changes
    BY DEF LoadInv, TimesPast
  <1>3. CASE disk[f] = Absent
    BY <1>2, <1>3 DEF Absent, Present, Content
  <1>4. CASE disk[f] \in [mtime : 1..MaxChanges, content : Content]
    BY <1>2, <1>4, CallKinds DEF Absent, Present, Content
  <1> QED
    BY <1>1, <1>3, <1>4

LEMMA StatInv ==
  ASSUME LoadInv, NEW c \in Call, NEW f \in File,
         Stat(c, f)
  PROVE  LoadInv'
  <1>1. CASE f \notin Present
    BY <1>1, RaisesInv DEF Stat
  <1>2. CASE f \in Present
    <2>1. PICK time \in Nat : time = disk[f].mtime /\ time <= changes
      BY FileKnown
    <2> DEFINE to == [loading[c] EXCEPT !.left = @ \ {f}, !.seen = With(@, f, time)]
               seen == With(loading[c].seen, f, time)
    <2>2. /\ loading[c].at = "stating" /\ loading[c] \in Progress /\ CallSoFar(c)
          /\ loading[c].seen \in Partial(Nat)
          /\ \A g \in DOMAIN loading[c].seen : loading[c].seen[g] <= changes
      BY <1>2, CallKnown DEF Stat, Step
    <2>3. PICK was \in Partial(Nat) : was = loading[c].seen
      BY <2>2
    <2>4. /\ seen \in Partial(Nat) /\ DOMAIN seen = DOMAIN was \cup {f} /\ seen[f] = time
          /\ \A g \in DOMAIN was \ {f} : seen[g] = was[g]
      <3> DEFINE w == With(was, f, time)
      <3>1. /\ w \in Partial(Nat) /\ DOMAIN w = DOMAIN was \cup {f} /\ w[f] = time
            /\ \A g \in DOMAIN was \ {f} : w[g] = was[g]
        BY PartialWith
      <3>2. seen = w
        BY <2>3
      <3> HIDE DEF w, seen
      <3> QED
        BY <3>1, <3>2
    <2> HIDE DEF seen
    <2>5. /\ to \in Progress /\ to.at = "stating" /\ to.seen = seen
          /\ to.found = loading[c].found /\ to.left = loading[c].left \ {f}
          /\ to.overlapped = loading[c].overlapped
      BY <2>2, <2>4 DEF Progress, seen
    <2>6. /\ loading' = [loading EXCEPT ![c] = to]
          /\ UNCHANGED <<directory, disk, day, changes, rules, snapshot, doubtful, quiet>>
      BY <1>2, <2>1 DEF Stat, Step, world, loader
    <2> HIDE DEF to
    <2>7. loading'[c] = to /\ Present' = Present
      BY <2>6 DEF LoadInv, LoadTypes, Present
    <2>8. ASSUME c \in GetCall, quiet[c], NEW g \in Present
          PROVE  g \in to.left \/ Fresh(to.seen, g)
      <3>1. g \in loading[c].left \/ Fresh(loading[c].seen, g)
        BY <2>2, <2>8 DEF CallSoFar
      <3> QED
        BY <3>1, <2>1, <2>3, <2>4, <2>5 DEF Fresh
    <2>9. CallSoFar(c)'
      BY <2>2, <2>5, <2>6, <2>7, <2>8, CallKinds DEF CallSoFar, Fresh
    <2>10. quiet' \in [Call -> BOOLEAN]
      BY <2>6 DEF LoadInv, LoadTypes
    <2>11. \A g \in DOMAIN to.seen : to.seen[g] <= changes
      BY <2>1, <2>2, <2>3, <2>4, <2>5
    <2>12. c \in LoadCall /\ ~to.overlapped => Settling(c)
      BY <2>2, <2>5 DEF Settling
    <2> QED
      BY <2>5, <2>6, <2>9, <2>10, <2>11, <2>12, CallStepKeepsRules
  <1> QED
    BY <1>1, <1>2

\* The rules a get_rules finds unchanged are right about the files that are there.
LEMMA CompareInv ==
  ASSUME LoadInv, NEW c \in Call, Compare(c)
  PROVE  LoadInv'
  <1>1. /\ c \in GetCall /\ loading[c].left = {} /\ loading[c].at = "stating"
        /\ loading[c] \in Progress /\ CallSoFar(c)
    BY CallKnown DEF Compare, Stated, Return, Step
  <1>2. UNCHANGED <<directory, disk, day, changes, rules, snapshot, doubtful>>
    BY DEF Compare, world, loader
  <1>3. Present' = Present
    BY <1>2 DEF Present
  <1>4. CASE loading[c].seen = snapshot
    <2> DEFINE to == [Idle EXCEPT !.at = "returned", !.found = rules]
    <2>1. /\ to \in Progress /\ to.at = "returned" /\ to.found = rules
          /\ to.seen = NoFiles
      BY PartialNone DEF Progress, LoadStage, Idle, LoadInv, LoadTypes
    <2>2. loading' = [loading EXCEPT ![c] = to]
      BY <1>4 DEF Compare, Return, Step
    <2> HIDE DEF to
    <2>3. loading'[c] = to
      BY <2>2 DEF LoadInv, LoadTypes
    <2>4. PICK trusted \in BOOLEAN : trusted <=> quiet[c] /\ ~doubtful
      BY Zenon
    <2>5. quiet' = [quiet EXCEPT ![c] = trusted]
      <3>1. quiet' = [quiet EXCEPT ![c] = quiet[c] /\ ~doubtful]
        BY <1>4, Zenon DEF Compare, Trust
      <3>2. (quiet[c] /\ ~doubtful) = trusted
        BY <2>4, Zenon
      <3> QED
        BY <3>1, <3>2, Zenon
    <2>6. /\ quiet' \in [Call -> BOOLEAN] /\ (quiet'[c] <=> trusted)
          /\ \A d \in Call \ {c} : quiet'[d] = quiet[d]
      BY <2>5 DEF LoadInv, LoadTypes
    <2>7. ASSUME quiet'[c], NEW f \in Present PROVE RightAbout(rules, f, day)
      <3>1. quiet[c] /\ ~doubtful
        BY <2>4, <2>6, <2>7
      <3>2. Fresh(snapshot, f)
        BY <1>1, <1>4, <3>1 DEF CallSoFar
      <3> QED
        BY <3>1, <3>2 DEF LoadInv, RulesKept
    <2>8. CallSoFar(c)'
      BY <1>1, <1>2, <1>3, <2>1, <2>3, <2>7, CallKinds DEF CallSoFar, RightAbout
    <2>9. \A f \in DOMAIN to.seen : to.seen[f] <= changes
      BY <2>1, PartialNone
    <2> QED
      BY <1>2, <2>1, <2>2, <2>6, <2>8, <2>9, CallStepKeepsRules
  <1>5. CASE loading[c].seen # snapshot
    <2> DEFINE to == [loading[c] EXCEPT !.at = "opening"]
    <2>1. /\ to \in Progress /\ to.at = "opening" /\ to.found = loading[c].found
          /\ to.seen = loading[c].seen
      BY <1>1, ChangedAt DEF LoadStage
    <2>2. loading' = [loading EXCEPT ![c] = to] /\ quiet' = quiet
      BY <1>5 DEF Compare, Step
    <2> HIDE DEF to
    <2>3. loading'[c] = to /\ quiet' \in [Call -> BOOLEAN]
      BY <2>2 DEF LoadInv, LoadTypes
    <2>4. CallSoFar(c)'
      BY <1>1, <1>2, <1>3, <2>1, <2>2, <2>3, CallKinds DEF CallSoFar, Fresh
    <2>5. \A f \in DOMAIN to.seen : to.seen[f] <= changes
      BY <2>1, CallKnown
    <2> QED
      BY <1>2, <2>1, <2>2, <2>3, <2>4, <2>5, CallStepKeepsRules
  <1> QED
    BY <1>4, <1>5

LEMMA OpenInv ==
  ASSUME LoadInv, NEW c \in Call, Open(c)
  PROVE  LoadInv'
  <1>1. CASE ~directory
    BY <1>1, RaisesInv DEF Open
  <1>2. CASE directory
    <2> DEFINE to == [loading[c] EXCEPT !.at = "scanning"]
    <2>1. loading[c].at = "opening" /\ loading[c] \in Progress /\ CallSoFar(c)
      BY <1>2, CallKnown DEF Open, Step
    <2>2. /\ to \in Progress /\ to.at = "scanning"
          /\ to.found = loading[c].found /\ to.seen = loading[c].seen
      BY <2>1, ChangedAt DEF LoadStage
    <2>3. /\ loading' = [loading EXCEPT ![c] = to]
          /\ UNCHANGED <<directory, disk, day, changes, rules, snapshot, doubtful, quiet>>
      BY <1>2 DEF Open, Step, world, loader
    <2> HIDE DEF to
    <2>4. loading'[c] = to /\ Present' = Present
      BY <2>3 DEF LoadInv, LoadTypes, Present
    <2>5. CallSoFar(c)'
      BY <2>1, <2>2, <2>3, <2>4, CallKinds DEF CallSoFar, Fresh
    <2>6. quiet' \in [Call -> BOOLEAN]
      BY <2>3 DEF LoadInv, LoadTypes
    <2>7. \A g \in DOMAIN to.seen : to.seen[g] <= changes
      BY <2>2, CallKnown
    <2> QED
      BY <2>2, <2>3, <2>5, <2>6, <2>7, CallStepKeepsRules
  <1> QED
    BY <1>1, <1>2

LEMMA ScanInv ==
  ASSUME LoadInv, NEW c \in Call, Scan(c)
  PROVE  LoadInv'
  <1> DEFINE to == [loading[c] EXCEPT !.at = "reading", !.left = Present, !.today = day]
  <1>1. loading[c].at = "scanning" /\ loading[c] \in Progress /\ CallSoFar(c)
    BY CallKnown DEF Scan, Step
  <1>2. day \in Nat
    BY CallKinds DEF LoadInv, LoadTypes
  <1>3. /\ to \in Progress /\ to.at = "reading" /\ to.left = Present /\ to.today = day
        /\ to.found = loading[c].found /\ to.seen = loading[c].seen
    BY <1>1, <1>2 DEF Progress, LoadStage, Present
  <1>4. /\ loading' = [loading EXCEPT ![c] = to]
        /\ UNCHANGED <<directory, disk, day, changes, rules, snapshot, doubtful, quiet>>
    BY DEF Scan, Step, world, loader
  <1> HIDE DEF to
  <1>5. loading'[c] = to /\ Present' = Present
    BY <1>4 DEF LoadInv, LoadTypes, Present
  <1>6. to.found = NoFiles /\ DOMAIN to.found = {}
    BY <1>1, <1>3, PartialNone DEF CallSoFar
  <1>7. CallSoFar(c)'
    BY <1>1, <1>3, <1>4, <1>5, <1>6, CallKinds DEF CallSoFar, Fresh
  <1>8. quiet' \in [Call -> BOOLEAN]
    BY <1>4 DEF LoadInv, LoadTypes
  <1>9. \A g \in DOMAIN to.seen : to.seen[g] <= changes
    BY <1>3, CallKnown
  <1> QED
    BY <1>3, <1>4, <1>7, <1>8, <1>9, CallStepKeepsRules

\* What reading a file makes of the rules found.
LEMMA FoundIn ==
  ASSUME NEW was \in Partial({"rule", "later"}), NEW f \in File \ DOMAIN was,
         NEW content \in {"rule", "later"}, NEW today \in Nat
  PROVE  LET found == IF ActiveOn(content, today) THEN With(was, f, content)
                      ELSE was
         IN  /\ found \in Partial({"rule", "later"})
             /\ DOMAIN found \subseteq DOMAIN was \cup {f}
             /\ f \in DOMAIN found <=> ActiveOn(content, today)
             /\ f \in DOMAIN found => found[f] = content
             /\ \A g \in File \ {f} : g \in DOMAIN found <=> g \in DOMAIN was
             /\ \A g \in DOMAIN was : found[g] = was[g]
  <1> DEFINE w == With(was, f, content)
  <1>1. /\ w \in Partial({"rule", "later"}) /\ DOMAIN w = DOMAIN was \cup {f} /\ w[f] = content
        /\ \A g \in DOMAIN was \ {f} : w[g] = was[g]
    BY PartialWith
  <1> HIDE DEF w
  <1>2. CASE ActiveOn(content, today)
    BY <1>1, <1>2 DEF w
  <1>3. CASE ~ActiveOn(content, today)
    BY <1>3
  <1> QED
    BY <1>2, <1>3

LEMMA ReadInv ==
  ASSUME LoadInv, NEW c \in Call, NEW f \in File,
         Read(c, f)
  PROVE  LoadInv'
  <1>1. CASE disk[f].content \in {"absent", "malformed"}
    BY <1>1, RaisesInv DEF Read
  <1>2. CASE disk[f].content \notin {"absent", "malformed"}
    <2>1. /\ loading[c].at = "reading" /\ loading[c] \in Progress /\ CallSoFar(c)
          /\ f \in loading[c].left /\ loading[c].found \in Partial({"rule", "later"})
      BY <1>2, CallKnown DEF Read, Step
    <2>2. PICK content \in {"rule", "later"} : content = disk[f].content
      BY <1>2, FileKnown DEF Content
    <2>3. PICK was \in Partial({"rule", "later"}) : was = loading[c].found
      BY <2>1
    <2>4. PICK today \in Nat : today = loading[c].today
      BY <2>1 DEF Progress
    <2>5. f \notin DOMAIN was
      BY <2>1, <2>3 DEF CallSoFar
    <2> DEFINE found == IF ActiveOn(content, today) THEN With(was, f, content)
                        ELSE was
               to == [loading[c] EXCEPT !.left = @ \ {f}, !.found = found]
    <2>6. /\ found \in Partial({"rule", "later"})
          /\ DOMAIN found \subseteq DOMAIN was \cup {f}
          /\ f \in DOMAIN found <=> ActiveOn(content, today)
          /\ f \in DOMAIN found => found[f] = content
          /\ \A g \in File \ {f} : g \in DOMAIN found <=> g \in DOMAIN was
          /\ \A g \in DOMAIN was : found[g] = was[g]
      BY <2>5, FoundIn
    <2>7. loading' = [loading EXCEPT ![c] = to]
      BY <1>2, <2>2, <2>3, <2>4 DEF Read, Step
    <2> HIDE DEF found
    <2>8. /\ to \in Progress /\ to.at = "reading" /\ to.left = loading[c].left \ {f}
          /\ to.today = today /\ to.found = found /\ to.seen = loading[c].seen
          /\ to.overlapped = loading[c].overlapped
      BY <2>1, <2>4, <2>6 DEF Progress
    <2> HIDE DEF to
    <2>9. UNCHANGED <<directory, disk, day, changes, rules, snapshot, doubtful, quiet>>
      BY <1>2 DEF Read, Step, world, loader
    <2>10. loading'[c] = to /\ Present' = Present
      BY <2>7, <2>9 DEF LoadInv, LoadTypes, Present
    <2>11. RightAbout(found, f, today)
      BY <2>2, <2>6 DEF RightAbout
    <2>12. ASSUME NEW g \in Present, g # f, RightAbout(was, g, today)
           PROVE  RightAbout(found, g, today)
      BY <2>6, <2>12 DEF RightAbout, Present
    <2>13. DOMAIN found \cap to.left = {}
      BY <2>1, <2>3, <2>6, <2>8 DEF CallSoFar
    <2>14. CallSoFar(c)'
      <3>1. ASSUME c \in GetCall, NEW g \in Present, Fresh(to.seen, g)
            PROVE  g \in to.left \/ RightAbout(found, g, today)
        <4>1. g \in loading[c].left \/ RightAbout(was, g, today)
          BY <2>1, <2>3, <2>4, <2>8, <3>1 DEF CallSoFar
        <4> QED
          BY <4>1, <2>8, <2>11, <2>12
      <3>2. ASSUME c \in LoadCall, ~to.overlapped, NEW g \in Present
            PROVE  today = day /\ (g \in to.left \/ RightAbout(found, g, today))
        <4>1. today = day /\ (g \in loading[c].left \/ RightAbout(was, g, today))
          BY <2>1, <2>3, <2>4, <2>8, <3>2 DEF CallSoFar
        <4> QED
          BY <4>1, <2>8, <2>11, <2>12
      <3>3. c \in LoadCall /\ ~to.overlapped => today = day
        BY <2>1, <2>4, <2>8 DEF CallSoFar
      <3> QED
        BY <2>1, <2>4, <2>8, <2>9, <2>10, <2>13, <3>1, <3>2, <3>3, CallKinds
           DEF CallSoFar, Fresh, RightAbout
    <2>15. quiet' \in [Call -> BOOLEAN]
      BY <2>9 DEF LoadInv, LoadTypes
    <2>16. \A g \in DOMAIN to.seen : to.seen[g] <= changes
      BY <2>8, CallKnown
    <2> QED
      BY <2>7, <2>8, <2>9, <2>14, <2>15, <2>16, CallStepKeepsRules
  <1> QED
    BY <1>1, <1>2

\* What a get_rules keeps is right about every file whose time is still the one it saw,
\* unless midnight has passed or a load_rules is under way, which makes it doubtful.
LEMMA InstallInv ==
  ASSUME LoadInv, NEW c \in Call, Install(c)
  PROVE  LoadInv'
  <1> DEFINE to == [Idle EXCEPT !.at = "returned", !.found = loading[c].found]
  <1>1. /\ c \in GetCall /\ loading[c].left = {} /\ loading[c].at = "reading"
        /\ loading[c] \in Progress /\ CallSoFar(c)
        /\ loading[c].seen \in Partial(Nat) /\ loading[c].found \in Partial({"rule", "later"})
        /\ \A f \in DOMAIN loading[c].seen : loading[c].seen[f] <= changes
    BY CallKnown DEF Install, Return, Step
  <1>2. /\ to \in Progress /\ to.at = "returned" /\ to.found = loading[c].found
        /\ to.seen = NoFiles
    BY <1>1, PartialNone DEF Progress, LoadStage, Idle
  <1>3. /\ loading' = [loading EXCEPT ![c] = to]
        /\ rules' = loading[c].found /\ snapshot' = loading[c].seen
        /\ UNCHANGED <<directory, disk, day, changes, quiet>>
    BY DEF Install, Return, Step, SnapshotBefore, world
  <1> HIDE DEF to
  <1>4. /\ loading'[c] = to /\ Present' = Present
        /\ \A d \in Call \ {c} : loading'[d] = loading[d]
    BY <1>3 DEF LoadInv, LoadTypes, Present
  <1>5. /\ doubtful' \in BOOLEAN
        /\ ~doubtful' => loading[c].today = day /\ \A l \in LoadCall : ~UnderWay(l)
    <2>1. doubtful' = (loading[c].today # day \/ \E l \in LoadCall : UnderWay(l))
      BY DEF Install
    <2> QED
      BY <2>1
  <1>6. ASSUME NEW f \in Present, Fresh(loading[c].seen, f)
        PROVE  RightAbout(loading[c].found, f, loading[c].today)
    BY <1>1, <1>6 DEF CallSoFar
  <1>7. RulesKept'
    <2> SUFFICES ASSUME ~doubtful', NEW f \in Present,
                        Fresh(loading[c].seen, f) \/ \E l \in LoadCall : Settling(l)'
                 PROVE  RightAbout(loading[c].found, f, day)
      BY <1>3, <1>4 DEF RulesKept, Fresh, RightAbout
    <2>1. ASSUME NEW l \in LoadCall, Settling(l)' PROVE FALSE
      <3>1. l # c /\ l \in Call
        BY <1>1, CallKinds
      <3>2. loading[l].at \in {"listing", "stating"}
        BY <1>4, <2>1, <3>1 DEF Settling
      <3> QED
        BY <1>5, <3>2 DEF UnderWay
    <2> QED
      BY <1>5, <1>6, <2>1
  <1>8. ASSUME quiet[c], NEW f \in Present
        PROVE  RightAbout(loading[c].found, f, day)
    BY <1>1, <1>6, <1>8 DEF CallSoFar
  <1>9. CallSoFar(c)'
    BY <1>1, <1>2, <1>3, <1>4, <1>8, CallKinds DEF CallSoFar, RightAbout
  <1>10. quiet' \in [Call -> BOOLEAN]
    BY <1>3 DEF LoadInv, LoadTypes
  <1>11. \A f \in DOMAIN to.seen : to.seen[f] <= changes
    BY <1>2, PartialNone
  <1>12. \A f \in DOMAIN snapshot' : snapshot'[f] <= changes
    BY <1>1, <1>3
  <1>13. rules' \in Partial({"rule", "later"}) /\ snapshot' \in Partial(Nat)
    BY <1>1, <1>3
  <1> QED
    BY <1>2, <1>3, <1>5, <1>7, <1>9, <1>10, <1>11, <1>12, <1>13, CallStep

\* What a load_rules that nothing overlapped keeps is right about every file.
LEMMA ReplaceInv ==
  ASSUME LoadInv, NEW c \in Call, Replace(c)
  PROVE  LoadInv'
  <1> DEFINE to == [loading[c] EXCEPT !.at = "listing"]
  <1>1. /\ c \in LoadCall /\ loading[c].left = {} /\ loading[c].at = "reading"
        /\ loading[c] \in Progress /\ CallSoFar(c)
        /\ loading[c].found \in Partial({"rule", "later"})
    BY CallKnown DEF Replace, Step
  <1>2. /\ to \in Progress /\ to.at = "listing" /\ to.found = loading[c].found
        /\ to.seen = loading[c].seen /\ to.left = loading[c].left
    BY <1>1, ChangedAt DEF LoadStage
  <1>3. /\ loading' = [loading EXCEPT ![c] = to]
        /\ rules' = loading[c].found /\ doubtful' = loading[c].overlapped
        /\ UNCHANGED <<directory, disk, day, changes, snapshot, quiet>>
    BY DEF Replace, Step, world
  <1> HIDE DEF to
  <1>4. loading'[c] = to /\ Present' = Present
    BY <1>3 DEF LoadInv, LoadTypes, Present
  <1>5. ASSUME ~loading[c].overlapped, NEW f \in Present
        PROVE  RightAbout(loading[c].found, f, day)
    BY <1>1, <1>5 DEF CallSoFar
  <1>6. RulesKept'
    BY <1>3, <1>4, <1>5 DEF RulesKept, RightAbout
  <1>7. CallSoFar(c)'
    BY <1>1, <1>2, <1>4, CallKinds DEF CallSoFar
  <1>8. quiet' \in [Call -> BOOLEAN] /\ doubtful' \in BOOLEAN
    BY <1>1, <1>3 DEF LoadInv, LoadTypes, Progress
  <1>9. \A f \in DOMAIN to.seen : to.seen[f] <= changes
    BY <1>2, CallKnown
  <1>10. /\ \A f \in DOMAIN snapshot' : snapshot'[f] <= changes
         /\ rules' \in Partial({"rule", "later"}) /\ snapshot' \in Partial(Nat)
    BY <1>1, <1>3 DEF LoadInv, LoadTypes, TimesPast
  <1> QED
    BY <1>2, <1>3, <1>6, <1>7, <1>8, <1>9, <1>10, CallStep

\* Settling until then, a load_rules that nothing overlapped leaves rules right about every
\* file, and the snapshot it keeps says nothing else.
LEMMA FinishLoadInv ==
  ASSUME LoadInv, NEW c \in Call, FinishLoad(c)
  PROVE  LoadInv'
  <1> DEFINE to == [Idle EXCEPT !.at = "returned", !.found = rules]
  <1>1. /\ c \in LoadCall /\ loading[c].at = "stating"
        /\ loading[c] \in Progress /\ CallSoFar(c)
        /\ loading[c].seen \in Partial(Nat)
        /\ \A f \in DOMAIN loading[c].seen : loading[c].seen[f] <= changes
        /\ rules \in Partial({"rule", "later"})
    BY CallKnown DEF FinishLoad, Return, Step, LoadInv, LoadTypes
  <1>2. /\ to \in Progress /\ to.at = "returned" /\ to.found = rules
        /\ to.seen = NoFiles
    BY <1>1, PartialNone DEF Progress, LoadStage, Idle
  <1>3. /\ loading' = [loading EXCEPT ![c] = to] /\ snapshot' = loading[c].seen
        /\ UNCHANGED <<directory, disk, day, changes, rules>>
    BY DEF FinishLoad, Return, Step, world
  <1> HIDE DEF to
  <1>4. loading'[c] = to /\ Present' = Present
    BY <1>3 DEF LoadInv, LoadTypes, Present
  <1>5. /\ doubtful' \in BOOLEAN
        /\ ~doubtful' => ~doubtful /\ ~loading[c].overlapped
    <2>1. doubtful' = (doubtful \/ loading[c].overlapped)
      BY Zenon DEF FinishLoad
    <2> QED
      BY <2>1
  <1>6. PICK trusted \in BOOLEAN : trusted <=> quiet[c] /\ ~doubtful'
    BY Zenon
  <1>7. quiet' = [quiet EXCEPT ![c] = trusted]
    <2>1. quiet' = [quiet EXCEPT ![c] = quiet[c] /\ ~doubtful']
      BY Zenon DEF FinishLoad, Trust
    <2>2. (quiet[c] /\ ~doubtful') = trusted
      BY <1>6, Zenon
    <2> QED
      BY <2>1, <2>2, Zenon
  <1>8. /\ quiet' \in [Call -> BOOLEAN] /\ (quiet'[c] <=> trusted)
        /\ \A d \in Call \ {c} : quiet'[d] = quiet[d]
    BY <1>7 DEF LoadInv, LoadTypes
  <1>9. ASSUME ~doubtful', NEW f \in Present PROVE RightAbout(rules, f, day)
    <2>1. ~doubtful /\ Settling(c)
      BY <1>1, <1>5, <1>9 DEF Settling
    <2> QED
      BY <1>1, <2>1 DEF LoadInv, RulesKept
  <1>10. RulesKept'
    BY <1>3, <1>4, <1>9 DEF RulesKept, RightAbout
  <1>11. CallSoFar(c)'
    BY <1>1, <1>2, <1>3, <1>4, <1>6, <1>8, <1>9, CallKinds DEF CallSoFar, RightAbout
  <1>12. \A f \in DOMAIN to.seen : to.seen[f] <= changes
    BY <1>2, PartialNone
  <1>13. /\ \A f \in DOMAIN snapshot' : snapshot'[f] <= changes
         /\ rules' \in Partial({"rule", "later"}) /\ snapshot' \in Partial(Nat)
    BY <1>1, <1>3
  <1> QED
    BY <1>2, <1>3, <1>5, <1>8, <1>10, <1>11, <1>12, <1>13, CallStep

-----------------------------------------------------------------------------
\* A file is as it was, or is gone, or has a time nobody has seen.
Renewed ==
  \A f \in File : \/ disk'[f] = disk[f] \/ disk'[f] = Absent
                  \/ disk'[f].mtime = changes + 1

\* Where the world changes around a call, the call goes on, but is not quiet any more, and is
\* overlapped if it is a load_rules; what was returned is done with.
LEMMA DisturbedCall ==
  ASSUME LoadInv, Disturb, NEW c \in Call
  PROVE  /\ loading'[c] \in Progress /\ quiet'[c] \in BOOLEAN /\ ~quiet'[c]
         /\ loading'[c].at # "returned"
         /\ \A f \in DOMAIN loading'[c].seen : loading'[c].seen[f] <= changes
         /\ loading'[c].at # "over" =>
              /\ loading'[c].at = loading[c].at /\ loading'[c].left = loading[c].left
              /\ loading'[c].seen = loading[c].seen /\ loading'[c].found = loading[c].found
              /\ loading'[c].today = loading[c].today
         /\ c \in LoadCall /\ loading'[c].at \in
                {"listing", "stating", "opening", "scanning", "reading"} =>
              loading'[c].overlapped /\ UnderWay(c)
  <1> DEFINE dim == [loading[c] EXCEPT !.overlapped =
                       @ \/ (c \in LoadCall /\ UnderWay(c))]
             over == [Idle EXCEPT !.at = "over"]
  <1>1. loading[c] \in Progress /\ \A f \in DOMAIN loading[c].seen : loading[c].seen[f] <= changes
    BY CallKnown
  <1>2. PICK b \in BOOLEAN :
          b <=> loading[c].overlapped \/ (c \in LoadCall /\ UnderWay(c))
    BY Zenon
  <1>3. dim = [loading[c] EXCEPT !.overlapped = b]
    <2>1. dim = [loading[c] EXCEPT !.overlapped =
                   loading[c].overlapped \/ (c \in LoadCall /\ UnderWay(c))]
      BY <1>1 DEF Progress
    <2>2. b = (loading[c].overlapped \/ (c \in LoadCall /\ UnderWay(c)))
      BY <1>1, <1>2 DEF Progress
    <2> QED
      BY <2>1, <2>2, Zenon
  <1>4. loading'[c] = IF loading[c].at = "returned" THEN over ELSE dim
    BY Zenon DEF Disturb
  <1>5. PICK no : no = FALSE
    OBVIOUS
  <1>6. quiet'[c] = no
    BY <1>5, Zenon DEF Disturb
  <1>7. quiet'[c] \in BOOLEAN /\ ~quiet'[c]
    BY <1>5, <1>6
  <1>8. CASE loading[c].at = "returned"
    <2>1. /\ over \in Progress /\ over.at = "over" /\ over.seen = NoFiles
      BY IdleProgress DEF LoadStage
    <2> HIDE DEF over, dim
    <2> QED
      BY <1>4, <1>7, <1>8, <2>1, PartialNone
  <1>9. CASE loading[c].at # "returned"
    <2>1. /\ dim \in Progress /\ dim.at = loading[c].at /\ dim.left = loading[c].left
          /\ dim.seen = loading[c].seen /\ dim.found = loading[c].found
          /\ dim.today = loading[c].today /\ dim.overlapped = b
      BY <1>1, <1>3 DEF Progress
    <2> HIDE DEF over, dim
    <2> QED
      BY <1>1, <1>2, <1>4, <1>7, <1>9, <2>1 DEF UnderWay
  <1> QED
    BY <1>8, <1>9

LEMMA DisturbInv ==
  ASSUME LoadInv, Disturb, Renewed,
         changes' = changes + 1, changes \in 1..(MaxChanges - 1),
         day' \in 0..MaxDay, directory' \in BOOLEAN,
         disk' \in [File -> {Absent} \cup [mtime : 1..MaxChanges, content : Content]],
         UNCHANGED <<rules, snapshot>>
  PROVE  LoadInv'
  <1>1. \A c \in Call :
           /\ loading'[c] \in Progress /\ quiet'[c] \in BOOLEAN /\ ~quiet'[c]
           /\ loading'[c].at # "returned"
           /\ \A f \in DOMAIN loading'[c].seen : loading'[c].seen[f] <= changes
           /\ loading'[c].at # "over" =>
                /\ loading'[c].at = loading[c].at /\ loading'[c].left = loading[c].left
                /\ loading'[c].seen = loading[c].seen /\ loading'[c].found = loading[c].found
                /\ loading'[c].today = loading[c].today
           /\ c \in LoadCall /\ loading'[c].at \in
                {"listing", "stating", "opening", "scanning", "reading"} =>
                loading'[c].overlapped /\ UnderWay(c)
    BY DisturbedCall
  <1>2. /\ MaxChanges \in Nat /\ GetCall \cap LoadCall = {}
        /\ Call = GetCall \cup LoadCall
    BY CallKinds
  <1>3. /\ doubtful' \in BOOLEAN
        /\ ~doubtful' => ~doubtful /\ day' = day /\ \A c \in LoadCall : ~UnderWay(c)
    <2>1. doubtful' = (doubtful \/ day' # day \/ \E c \in LoadCall : UnderWay(c))
      BY Zenon DEF Disturb
    <2> QED
      BY <2>1
  <1>4. LoadTypes'
    <2>1. loading' = [c \in Call |-> loading'[c]] /\ quiet' = [c \in Call |-> quiet'[c]]
      BY Zenon DEF Disturb
    <2>2. loading' \in [Call -> Progress] /\ quiet' \in [Call -> BOOLEAN]
      BY <1>1, <2>1
    <2>3. changes' \in 1..MaxChanges
      BY <1>2
    <2> QED
      BY <1>3, <2>2, <2>3 DEF LoadInv, LoadTypes
  <1>5. changes \in Nat
    BY <1>2
  <1>6. ASSUME NEW f \in File PROVE disk[f].mtime \in Nat /\ disk[f].mtime <= changes
    BY <1>6, FileKnown
  <1>7. TimesPast'
    <2>1. ASSUME NEW f \in File PROVE disk'[f].mtime <= changes'
      BY <1>5, <1>6, <2>1 DEF Renewed, Absent
    <2>2. ASSUME NEW f \in DOMAIN snapshot' PROVE snapshot'[f] <= changes'
      <3>1. snapshot[f] \in Nat /\ snapshot[f] <= changes
        BY <2>2, PartialFunctions DEF LoadInv, LoadTypes, TimesPast
      <3> QED
        BY <1>5, <3>1
    <2>3. ASSUME NEW c \in Call, NEW f \in DOMAIN loading'[c].seen
          PROVE  loading'[c].seen[f] <= changes'
      <3>1. loading'[c].seen \in Partial(Nat) /\ loading'[c].seen[f] <= changes
        BY <1>1, <2>3 DEF Progress
      <3>2. PICK seen \in Partial(Nat) : seen = loading'[c].seen
        BY <3>1
      <3>3. loading'[c].seen[f] \in Nat
        BY <2>3, <3>2, PartialFunctions
      <3> QED
        BY <1>5, <3>1, <3>3
    <2> QED
      BY <2>1, <2>2, <2>3 DEF TimesPast
  <1>8. ASSUME NEW f \in File, disk'[f] # Absent, disk'[f].mtime <= changes
        PROVE  disk'[f] = disk[f] /\ f \in Present
    BY <1>5, <1>8 DEF Renewed, Present
  <1>9. RulesKept'
    <2> SUFFICES ASSUME ~doubtful', NEW f \in File, disk'[f] # Absent,
                        Fresh(snapshot, f)' \/ \E c \in LoadCall : Settling(c)'
                 PROVE  RightAbout(rules, f, day)'
      BY DEF RulesKept, Present
    <2>1. ASSUME NEW c \in LoadCall, Settling(c)' PROVE FALSE
      BY <1>1, <1>2, <1>3, <2>1 DEF Settling
    <2>2. f \in DOMAIN snapshot /\ snapshot[f] = disk'[f].mtime
      BY <2>1 DEF Fresh
    <2>3. disk'[f] = disk[f] /\ f \in Present
      BY <1>8, <2>2 DEF LoadInv, TimesPast
    <2>4. RightAbout(rules, f, day)
      BY <1>3, <2>2, <2>3 DEF LoadInv, RulesKept, Fresh
    <2> QED
      BY <1>3, <2>3, <2>4 DEF RightAbout
  <1>10. ASSUME NEW c \in Call PROVE CallSoFar(c)'
    <2>1. CallSoFar(c)
      BY DEF LoadInv
    <2>2. ASSUME c \in GetCall, loading'[c].at = "reading", NEW f \in File,
                 disk'[f] # Absent, f \in DOMAIN loading[c].seen,
                 loading[c].seen[f] = disk'[f].mtime
          PROVE  f \in loading[c].left \/ RightAbout(loading[c].found, f, loading[c].today)'
      <3>1. disk'[f].mtime <= changes
        BY <1>1, <2>2
      <3>2. disk'[f] = disk[f] /\ f \in Present
        BY <1>8, <2>2, <3>1
      <3>3. f \in loading[c].left \/ RightAbout(loading[c].found, f, loading[c].today)
        BY <1>1, <2>1, <2>2, <3>2 DEF CallSoFar, Fresh
      <3>4. loading'[c].found = loading[c].found /\ loading'[c].today = loading[c].today
        BY <1>1, <2>2
      <3> QED
        BY <3>2, <3>3, <3>4 DEF RightAbout
    <2> QED
      BY <1>1, <1>2, <2>1, <2>2 DEF CallSoFar, Fresh, Present, RightAbout
  <1> QED
    BY <1>4, <1>7, <1>9, <1>10 DEF LoadInv

LEMMA WorldKnown ==
  ASSUME LoadInv
  PROVE  /\ changes \in Nat /\ (changes < MaxChanges => changes \in 1..(MaxChanges - 1))
         /\ day \in 0..MaxDay /\ directory \in BOOLEAN
         /\ disk \in [File -> {Absent} \cup [mtime : 1..MaxChanges, content : Content]]
  BY CallKinds DEF LoadInv, LoadTypes

LEMMA EditInv ==
  ASSUME LoadInv, NEW f \in File, Edit(f)
  PROVE  LoadInv'
  <1> DEFINE kinds == {Absent} \cup [mtime : 1..MaxChanges, content : Content]
  <1>1. /\ changes' = changes + 1 /\ changes < MaxChanges
        /\ UNCHANGED <<day, directory, rules, snapshot>> /\ Disturb
    BY DEF Edit, Changed, loader
  <1>2. /\ changes \in Nat /\ changes \in 1..(MaxChanges - 1) /\ MaxChanges \in Nat
        /\ day \in 0..MaxDay /\ directory \in BOOLEAN /\ disk \in [File -> kinds]
    BY <1>1, WorldKnown, CallKinds
  <1>3. PICK to \in kinds :
          disk' = [disk EXCEPT ![f] = to] /\ (to = Absent \/ to.mtime = changes + 1)
    <2>1. CASE disk' = [disk EXCEPT ![f] = Absent]
      BY <2>1
    <2>2. CASE \E content \in Content :
                 disk' = [disk EXCEPT ![f] = [mtime |-> changes', content |-> content]]
      <3>1. PICK content \in Content :
              disk' = [disk EXCEPT ![f] = [mtime |-> changes', content |-> content]]
        BY <2>2
      <3> DEFINE new == [mtime |-> changes', content |-> content]
      <3>2. new \in kinds /\ new.mtime = changes + 1
        BY <1>1, <1>2
      <3> HIDE DEF kinds
      <3>3. disk' = [disk EXCEPT ![f] = new]
        BY <3>1
      <3> HIDE DEF new
      <3> QED
        BY <3>2, <3>3
    <2> QED
      BY <2>1, <2>2 DEF Edit
  <1> HIDE DEF kinds
  <1>4. disk' \in [File -> kinds] /\ Renewed
    BY <1>2, <1>3 DEF Renewed
  <1>5. day' \in 0..MaxDay /\ directory' \in BOOLEAN
    BY <1>1, <1>2
  <1> QED
    BY <1>1, <1>2, <1>4, <1>5, DisturbInv DEF kinds

LEMMA DeployInv ==
  ASSUME LoadInv, Deploy
  PROVE  LoadInv'
  <1> DEFINE kinds == {Absent} \cup [mtime : 1..MaxChanges, content : Content]
             new == [mtime |-> changes', content |-> "rule"]
  <1>1. /\ changes' = changes + 1 /\ changes < MaxChanges
        /\ UNCHANGED <<day, rules, snapshot>> /\ Disturb
        /\ disk' = [f \in File |-> IF directory' THEN new ELSE Absent]
    BY DEF Deploy, Changed, loader
  <1>2. /\ changes \in Nat /\ changes \in 1..(MaxChanges - 1) /\ MaxChanges \in Nat
        /\ day \in 0..MaxDay /\ directory \in BOOLEAN
    BY <1>1, WorldKnown, CallKinds
  <1>3. new \in kinds /\ new.mtime = changes + 1 /\ Absent \in kinds
    BY <1>1, <1>2 DEF Content
  <1> HIDE DEF kinds, new
  <1>4. disk' \in [File -> kinds] /\ Renewed
    BY <1>1, <1>3 DEF Renewed
  <1>5. day' \in 0..MaxDay
    BY <1>1, <1>2
  <1>6. directory' \in BOOLEAN
    BY Zenon DEF Deploy
  <1> QED
    BY <1>1, <1>2, <1>4, <1>5, <1>6, DisturbInv DEF kinds

LEMMA MidnightInv ==
  ASSUME LoadInv, Midnight
  PROVE  LoadInv'
  <1>1. /\ changes' = changes + 1 /\ changes < MaxChanges /\ day < MaxDay /\ day' = day + 1
        /\ UNCHANGED <<directory, disk, rules, snapshot>> /\ Disturb
    BY DEF Midnight, Changed, loader
  <1>2. /\ changes \in 1..(MaxChanges - 1) /\ MaxDay \in Nat /\ day \in 0..MaxDay
        /\ directory \in BOOLEAN
        /\ disk \in [File -> {Absent} \cup [mtime : 1..MaxChanges, content : Content]]
    BY <1>1, WorldKnown, CallKinds
  <1>3. day' \in 0..MaxDay /\ Renewed /\ directory' \in BOOLEAN
    BY <1>1, <1>2 DEF Renewed
  <1> QED
    BY <1>1, <1>2, <1>3, DisturbInv

LEMMA LoadingStep ==
  ASSUME LoadInv, [LoadingNext]_(loadingVars)
  PROVE  LoadInv'
  <1>1. ASSUME NEW f \in File, Edit(f) PROVE LoadInv'
    BY <1>1, EditInv
  <1>2. CASE Deploy
    BY <1>2, DeployInv
  <1>3. CASE Midnight
    BY <1>3, MidnightInv
  <1>4. ASSUME NEW c \in Call, Begin(c) PROVE LoadInv'
    BY <1>4, BeginInv
  <1>5. ASSUME NEW c \in Call, List(c) PROVE LoadInv'
    BY <1>5, ListInv
  <1>6. ASSUME NEW c \in Call, Compare(c) PROVE LoadInv'
    BY <1>6, CompareInv
  <1>7. ASSUME NEW c \in Call, Open(c) PROVE LoadInv'
    BY <1>7, OpenInv
  <1>14. ASSUME NEW c \in Call, Scan(c) PROVE LoadInv'
    BY <1>14, ScanInv
  <1>8. ASSUME NEW c \in Call, NEW f \in File, Stat(c, f) PROVE LoadInv'
    BY <1>8, StatInv
  <1>9. ASSUME NEW c \in Call, NEW f \in File, Read(c, f) PROVE LoadInv'
    BY <1>9, ReadInv
  <1>10. ASSUME NEW c \in Call, Install(c) PROVE LoadInv'
    BY <1>10, InstallInv
  <1>11. ASSUME NEW c \in Call, Replace(c) PROVE LoadInv'
    BY <1>11, ReplaceInv
  <1>12. ASSUME NEW c \in Call, FinishLoad(c) PROVE LoadInv'
    BY <1>12, FinishLoadInv
  <1>13. CASE UNCHANGED loadingVars
    <2>1. UNCHANGED <<directory, disk, day, changes, rules, snapshot, loading, quiet, doubtful>>
      BY <1>13 DEF loadingVars, world, loader
    <2> QED
      BY <2>1 DEF LoadInv, LoadTypes, TimesPast, RulesKept, CallSoFar, Fresh, RightAbout, Settling,
                  Present
  <1> QED
    BY <1>1, <1>2, <1>3, <1>4, <1>5, <1>6, <1>7, <1>8, <1>9, <1>10, <1>11, <1>12, <1>13, <1>14
       DEF LoadingNext

LEMMA LoadingInvariant == LoadingSpec => []LoadInv
  <1>1. LoadingInit => LoadInv
    BY InitLoads
  <1>2. LoadInv /\ [LoadingNext]_(loadingVars) => LoadInv'
    BY LoadingStep
  <1> QED
    BY <1>1, <1>2, PTL DEF LoadingSpec

\* For any files, calls, changes and days, the loader holds values of their kinds.
THEOREM LoaderHoldsRules == LoadingSpec => []LoadingTypeOK
  <1>1. ASSUME LoadInv PROVE LoadingTypeOK
    <2>1. DOMAIN rules \subseteq File /\ DOMAIN snapshot \subseteq File
      BY <1>1, PartialFunctions DEF LoadInv, LoadTypes
    <2>2. ASSUME NEW c \in Call PROVE DOMAIN loading[c] = DOMAIN Idle
      BY <1>1, CallKnown DEF Progress, Idle
    <2> QED
      BY <1>1, <2>1, <2>2 DEF LoadInv, LoadTypes, LoadingTypeOK
  <1> QED
    BY <1>1, LoadingInvariant, PTL

\* For any files, calls, changes and days: a call that nothing changed under answers, of
\* every file there is, with its rule exactly if that is active - after any failed
\* loads and any overlapping calls of get_rules.  Answers from rules kept on another
\* day, or kept by a load_rules that overlapped a change or another load, are excepted
\* (quiet, doubtful), as are rules left of files that are gone.
THEOREM RulesAreFollowed == LoadingSpec => []RulesFollowFiles
  <1>1. ASSUME LoadInv PROVE RulesFollowFiles
    <2> SUFFICES ASSUME NEW c \in Call, loading[c].at = "returned", quiet[c],
                        NEW f \in Present
                 PROVE  /\ disk[f].content # "malformed"
                        /\ IF f \in DOMAIN ActiveRules
                           THEN /\ f \in DOMAIN loading[c].found
                                /\ loading[c].found[f] = ActiveRules[f]
                           ELSE f \notin DOMAIN loading[c].found
      BY DEF RulesFollowFiles
    <2>1. RightAbout(loading[c].found, f, day)
      BY <1>1, CallKnown DEF CallSoFar
    <2>2. /\ f \in DOMAIN ActiveRules <=> ActiveOn(disk[f].content, day)
          /\ f \in DOMAIN ActiveRules => ActiveRules[f] = disk[f].content
      BY DEF ActiveRules
    <2> QED
      BY <2>1, <2>2 DEF RightAbout
  <1> QED
    BY <1>1, LoadingInvariant, PTL

================================================================================
