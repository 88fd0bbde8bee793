----------------------------- MODULE DecisionGate -----------------------------
(***************************************************************************)
(* What the platform promises about a decision, whatever the agents say    *)
(* and whatever fails: agents propose, a separate authority clears some of *)
(* the proposals under one policy context, and at most one cleared action  *)
(* reaches the customer.  A run may be abandoned at any point.             *)
(*                                                                         *)
(* The wording of a delivered action may differ from the cleared one       *)
(* (experiment variants reword it); nothing else about it may.             *)
(***************************************************************************)
EXTENDS Sequences

CONSTANTS
  Run,         \* pipeline runs
  Action,      \* actions an agent may propose
  Wording,     \* customer messages
  Context,     \* what the authority decides on
  Permitted    \* Permitted[c]: the actions policy lets through under context c

VARIABLES
  stage,       \* stage[r]: how far the decision of run r has come
  proposals,   \* proposals[r]: what the agents of r proposed
  cleared,     \* cleared[r]: what the authority let through
  contacts     \* contacts[r]: what reached the customer, in order

vars == <<stage, proposals, cleared, contacts>>

Reworded(action, wording) == [action EXCEPT !.customer_message = wording]

Init ==
  /\ stage = [r \in Run |-> "open"]
  /\ proposals = [r \in Run |-> {}]
  /\ cleared = [r \in Run |-> {}]
  /\ contacts = [r \in Run |-> <<>>]

Propose(r) ==
  /\ stage[r] = "open"
  /\ stage' = [stage EXCEPT ![r] = "proposed"]
  /\ \E actions \in SUBSET Action : proposals' = [proposals EXCEPT ![r] = actions]
  /\ UNCHANGED <<cleared, contacts>>

Clear(r) ==
  /\ stage[r] = "proposed"
  /\ stage' = [stage EXCEPT ![r] = "cleared"]
  /\ \E c \in Context : cleared' = [cleared EXCEPT ![r] = proposals[r] \cap Permitted[c]]
  /\ UNCHANGED <<proposals, contacts>>

Contact(r) ==
  /\ stage[r] = "cleared"
  /\ stage' = [stage EXCEPT ![r] = "contacted"]
  /\ \E a \in cleared[r] : \E sent \in {a} \cup {Reworded(a, w) : w \in Wording} :
       contacts' = [contacts EXCEPT ![r] = <<sent>>]
  /\ UNCHANGED <<proposals, cleared>>

Close(r) ==
  /\ stage[r] # "closed"
  /\ stage' = [stage EXCEPT ![r] = "closed"]
  /\ UNCHANGED <<proposals, cleared, contacts>>

Next == \E r \in Run : Propose(r) \/ Clear(r) \/ Contact(r) \/ Close(r)

Spec == Init /\ [][Next]_vars
=============================================================================
