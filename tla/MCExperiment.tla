----------------------------- MODULE MCExperiment -----------------------------
(* An instance of Experiment, scaled down: a minimum of four samples instead  *)
(* of 5000, seeds one outcome away from it.                                   *)
EXTENDS Experiment

CONSTANTS o1, o2, o3, carol

MCOutcomes == {o1, o2, o3}
\* Her bucket is the first one of variant B; the seeds favour A.
MCCustomers == {carol}
MCBucket == [c \in MCCustomers |-> 50]

\* Close to a significant difference on either side of the minimum sample.
MCSeed == [v \in {"A", "B"} |-> [samples |-> 3, conversions |-> IF v = "A" THEN 3 ELSE 0]]
=============================================================================
