----------------------------- MODULE MCN2NCalls -----------------------------
(* Two nodes and two clients, which may call each other at the same time, log *)
(* in at the other node and call again.                                       *)
EXTENDS N2NCalls, TLC

Symmetry == Permutations(Nodes) \cup Permutations(Ids)
=============================================================================
