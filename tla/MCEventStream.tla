---------------------------- MODULE MCEventStream ----------------------------
(* Instances of EventStream: a run of two layers, or of three, watched by one *)
(* or two tabs.                                                               *)
EXTENDS EventStream

CONSTANTS c1, c2

MCTwoLayers == <<"L1", "L2">>
MCThreeLayers == <<"L1", "L2", "L3">>
MCOneTab == {c1}
MCTwoTabs == {c1, c2}
=============================================================================
