---------------------------- MODULE NodeCallsImpl ----------------------------
(* NodeCalls implements CallService.  The device of an id is its primary      *)
(* control connection; the phase of a call is read off the cclink of the pair. *)
EXTENDS NodeCalls

PhaseOf(state) ==
    CASE state = "WAITREP" -> "ringing"
      [] state \in {"WAITCONNCLE", "WAITCONNCLEANONTLSSHUTDOWN"} -> "allowed"
      [] state \in {"WAITCONNCLR", "WAITCONNCLRANONTLSSHUTDOWN"} -> "calleeIn"
      [] state = "ACTIVE" -> "talking"

CallPhase ==
    [p \in Ids \X Ids |->
        LET found == cclink_list_search(p[1], p[2])
        IN  IF found = {} THEN "none" ELSE PhaseOf(links[CHOOSE l \in found : TRUE].state)]

Service == INSTANCE CallService WITH Devices <- ClientSlots, device <- tree, call <- CallPhase

\* Every callback of the node is a step of the call service or invisible to it: calls
\* pass through their phases in order, only between ids that are logged in, and end
\* whenever the primary connection of either side goes or is replaced.
ImplementsCallService == Service!CallSpec
=============================================================================
