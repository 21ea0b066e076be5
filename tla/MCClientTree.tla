---- MODULE MCClientTree ----
(* Small instances of ClientTree for TLC.  Clients are interchangeable; ids
   are not, since the tree orders them. *)
EXTENDS ClientTree, TLC

CONSTANTS c1, c2, c3, c4, c5, c6

Symmetry == Permutations(Clients)
====
