--------------------------- MODULE MCFileDialogs ----------------------------
(* FileDialogs for TLC.  The two ends are alike, so they may be swapped.   *)
EXTENDS FileDialogs, TLC

CONSTANTS p1, p2

Symmetry == Permutations(Peers)
=============================================================================
