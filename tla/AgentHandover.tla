----------------------------- MODULE AgentHandover -----------------------------
(***************************************************************************)
(* What Layer 3 promises the layers after it: the agents of a run end in    *)
(* one of three ways - proposals with their evidence on record, a review by *)
(* a human that no proposal goes with, or an exception.  A run that has     *)
(* been put before a human never hands over proposals.                      *)
(***************************************************************************)
CONSTANTS
  Run,         \* pipeline runs
  ActionList,  \* what agents may propose together
  Empty        \* no action

VARIABLES
  outcome,     \* outcome[r]: how Layer 3 ended for r
  handed,      \* handed[r]: the actions handed to Layer 4, empty while there are none
  evidenced,   \* runs with an orchestration record
  escalated    \* runs put before a human

vars == <<outcome, handed, evidenced, escalated>>

Init ==
  /\ outcome = [r \in Run |-> "open"]
  /\ handed = [r \in Run |-> Empty]
  /\ evidenced = {}
  /\ escalated = {}

Propose(r) ==
  /\ outcome[r] = "open"
  /\ r \notin escalated
  /\ outcome' = [outcome EXCEPT ![r] = "proposed"]
  /\ \E actions \in ActionList : handed' = [handed EXCEPT ![r] = actions]
  /\ evidenced' = evidenced \cup {r}
  /\ UNCHANGED escalated

Escalate(r) ==
  /\ outcome[r] = "open"
  /\ r \notin escalated
  /\ escalated' = escalated \cup {r}
  /\ UNCHANGED <<outcome, handed, evidenced>>

HandBack(r) ==
  /\ outcome[r] = "open"
  /\ r \in escalated
  /\ outcome' = [outcome EXCEPT ![r] = "review"]
  /\ UNCHANGED <<handed, evidenced, escalated>>

Raise(r) ==
  /\ outcome[r] = "open"
  /\ outcome' = [outcome EXCEPT ![r] = "raised"]
  /\ UNCHANGED <<handed, evidenced, escalated>>

Next == \E r \in Run : Propose(r) \/ Escalate(r) \/ HandBack(r) \/ Raise(r)

Spec == Init /\ [][Next]_vars
=============================================================================
