--------------------------- MODULE MCOutcomeRouting ---------------------------
(***************************************************************************)
(* Two outcomes: a payment in a seeded experiment, which a client with a   *)
(* memory reports, a second time if need be, and one that the API gets for *)
(* an experiment the service does not have.                                *)
(***************************************************************************)
EXTENDS OutcomeRouting

CONSTANTS paid, ignored

MCFact == {paid, ignored}
MCVariantOf == [f \in MCFact |-> IF f = paid THEN "seeded" ELSE "unseeded"]
MCHasMemory == [f \in MCFact |-> f = paid]
MCMaxReports == [f \in MCFact |-> IF f = paid THEN 2 ELSE 1]
=============================================================================
