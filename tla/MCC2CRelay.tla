---- MODULE MCC2CRelay ----
(* A small instance of C2CRelay for TLC.  -2 stands for every negative int but
   -1, and INT_MAX, which is above the buffer's length, for every larger one. *)
EXTENDS C2CRelay

Ints == -2 .. INT_MAX
====
