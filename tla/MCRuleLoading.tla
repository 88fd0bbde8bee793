---------------------------- MODULE MCRuleLoading ----------------------------
(***************************************************************************)
(* One loader with two files, two calls of get_rules and a forced reload,  *)
(* while files change, the directory goes and a day passes.                *)
(***************************************************************************)
EXTENDS RuleLoading, TLC

CONSTANTS r001, b001, g1, g2, l1

MCFile == {r001, b001}
MCGetCall == {g1, g2}
MCLoadCall == {l1}

Symmetric == Permutations(MCFile) \cup Permutations(MCGetCall)
=============================================================================
