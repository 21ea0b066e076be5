---- MODULE MCNodeCalls ----
(* Small instances of NodeCalls for TLC.  Slots, ids and addresses are
   interchangeable: no definition orders them or names one of them. *)
EXTENDS NodeCallsImpl, TLC

CONSTANTS a, b, ip1, ip2, c1, c2, c3, l1, l2

Symmetry == Permutations(Ids) \cup Permutations(Ips)
              \cup Permutations(ClientSlots) \cup Permutations(LinkSlots)
====
