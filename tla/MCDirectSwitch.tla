--------------------------- MODULE MCDirectSwitch ---------------------------
(* Two texts from each end, one fault and one write that blocks are enough   *)
(* for messages on both sides of the barrier and a write repeated across it. *)
EXTENDS DirectSwitch
=============================================================================
