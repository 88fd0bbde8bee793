---------------------------- MODULE ContextSnapshot ----------------------------
(***************************************************************************)
(* What Layer 1 promises the layers after it: a session has one snapshot   *)
(* of its customer until that expires, the snapshot owns up to everything  *)
(* that was missing when it was taken, and whatever the audit log says of  *)
(* a snapshot was true of one that had been published before.              *)
(***************************************************************************)
EXTENDS Naturals

CONSTANTS
  Assembly,    \* attempts to take a snapshot
  SessionOf,   \* SessionOf[a]: the session attempt a is for
  Missing      \* what may be missing from a snapshot

VARIABLES
  snapshot,    \* snapshot[s]: the attempts whose snapshot session s holds, at most one
  published,   \* published[a]: what was missing from a's snapshot; {} of none yet
  evidence     \* evidence[a]: what the log says was missing from a's; {} if nothing

vars == <<snapshot, published, evidence>>

Session == {SessionOf[a] : a \in Assembly}

Init ==
  /\ snapshot  = [s \in Session |-> {}]
  /\ published = [a \in Assembly |-> {}]
  /\ evidence  = [a \in Assembly |-> {}]

\* The first attempt of a session wins; a later one waits for the expiry.
Publish(a, missing) ==
  /\ snapshot[SessionOf[a]] = {}
  /\ published[a] = {}
  /\ snapshot'  = [snapshot EXCEPT ![SessionOf[a]] = {a}]
  /\ published' = [published EXCEPT ![a] = {missing}]
  /\ UNCHANGED evidence

\* What is attested is what was published, also when it has expired since.
Attest(a) ==
  /\ published[a] # {}
  /\ evidence' = [evidence EXCEPT ![a] = published[a]]
  /\ UNCHANGED <<snapshot, published>>

Expire(s) ==
  /\ snapshot' = [snapshot EXCEPT ![s] = {}]
  /\ UNCHANGED <<published, evidence>>

Next ==
  \/ \E a \in Assembly : Attest(a) \/ \E missing \in SUBSET Missing : Publish(a, missing)
  \/ \E s \in Session : Expire(s)

Spec == Init /\ [][Next]_vars
=============================================================================
