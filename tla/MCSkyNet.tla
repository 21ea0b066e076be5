------------------------------ MODULE MCSkyNet ------------------------------
(* Two nodes, so that a login can succeed while another is under way; two    *)
(* logins in a row; three messages, the second of which is too long.         *)
EXTENDS SkyNet, TLC

Symmetry == Permutations(Nodes)
=============================================================================
