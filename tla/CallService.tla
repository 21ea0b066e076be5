----------------------------- MODULE CallService -----------------------------
(* What a node promises its users about calls, without connections, sockets,  *)
(* timers or messages.  Every id is served by at most one device at a time;   *)
(* a call (caller, callee) rings, is allowed by the callee, waits for the     *)
(* caller once the callee's data connection is in, and then carries data.     *)
EXTENDS Integers

CONSTANTS Ids, Devices, None

VARIABLES
    device,     \* the device that answers for an id, or None
    call        \* the phase of the call between an ordered pair of ids

cvars == <<device, call>>

Pairs == Ids \X Ids

Phases == {"none", "ringing", "allowed", "calleeIn", "talking"}

CallInit ==
    /\ device = [i \in Ids |-> None]
    /\ call = [p \in Pairs |-> "none"]

\* The first device of an id logs in.
LogIn(i, d) ==
    /\ device[i] = None
    /\ \A j \in Ids : device[j] # d
    /\ device' = [device EXCEPT ![i] = d]
    /\ UNCHANGED call

\* Only a new call between two ids that are both served starts ringing.
Ring(i, j) ==
    /\ i # j
    /\ device[i] # None /\ device[j] # None
    /\ call[<<i, j>>] = "none"
    /\ call' = [call EXCEPT ![<<i, j>>] = "ringing"]
    /\ UNCHANGED device

\* The three steps of a call that succeeds; none can be skipped or repeated.
Advance(i, j, from, to) ==
    /\ <<from, to>> \in {<<"ringing", "allowed">>, <<"allowed", "calleeIn">>,
                         <<"calleeIn", "talking">>}
    /\ call[<<i, j>>] = from
    /\ call' = [call EXCEPT ![<<i, j>>] = to]
    /\ UNCHANGED device

\* Calls end, and ids lose their device or are handed over to another one.  An id
\* whose device changes loses all its calls: no call survives a hand-over.
End(D) ==
    /\ D # {} => \A i \in D : device[i] # None /\ device'[i] # device[i]
    /\ device' \in [Ids -> Devices \cup {None}]
    /\ \A i \in Ids \ D : device'[i] = device[i]
    /\ call' \in [Pairs -> Phases]
    /\ \A p \in Pairs : \/ call'[p] = "none"
                        \/ call'[p] = call[p] /\ p[1] \notin D /\ p[2] \notin D

CallNext ==
    \/ \E i \in Ids, d \in Devices : LogIn(i, d)
    \/ \E i, j \in Ids : Ring(i, j)
    \/ \E i, j \in Ids, from, to \in Phases : Advance(i, j, from, to)
    \/ \E D \in SUBSET Ids : End(D)

CallSpec == CallInit /\ [][CallNext]_cvars
=============================================================================
