----------------------------- MODULE MCNodeMesh -----------------------------
(* Two nodes.  Either A knows B and B knows A by a DNS name, so that they    *)
(* may connect to each other at the same time, or A knows its own name only  *)
(* and connects to itself.                                                   *)
EXTENDS NodeMesh, TLC

TwoNodes == {"A", "B"}
OneName == {"name"}
Hosts == ("A" :> "A" @@ "B" :> "B" @@ "name" :> "A")
FirstKnown == {"A" :> {"B"} @@ "B" :> {"name"}, "A" :> {"name"} @@ "B" :> {}}
Refreshes == "A" :> 2 @@ "B" :> 1
=============================================================================
