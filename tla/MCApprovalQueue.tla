--------------------------- MODULE MCApprovalQueue ---------------------------
(* An instance of ApprovalQueue, with and without a store: two items of two *)
(* priorities, two reviewers, pages of one item.                           *)
EXTENDS ApprovalQueue

CONSTANTS i1, i2, v1, v2

MCItems == {i1, i2}
MCReviewers == {v1, v2}
MCPriority == {"URGENT", "STANDARD"}
MCSla == [p \in MCPriority |-> IF p = "URGENT" THEN 1 ELSE 2]
MCStores == BOOLEAN
MCSymmetry == Permutations(MCItems) \cup Permutations(MCReviewers)
=============================================================================
