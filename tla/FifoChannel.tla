---------------------------- MODULE FifoChannel ----------------------------
(***************************************************************************)
(* What a c2c channel promises the two applications: what one end sends    *)
(* the other gets once, whole and in the order sent, until one of the two  *)
(* ends goes.  What a closing end has not yet sent may be lost, the last   *)
(* of it first.                                                            *)
(***************************************************************************)
EXTENDS Sequences, SequencesExt

CONSTANTS Ends, Messages

VARIABLES
    open,       \* open[p]: end p of the channel is open
    queue,      \* queue[p]: messages sent by p and not yet received
    got         \* got[p]: messages p has received

fifoVars == <<open, queue, got>>

FifoInit ==
    /\ open = [p \in Ends |-> TRUE]
    /\ queue = [p \in Ends |-> <<>>]
    /\ got = [p \in Ends |-> <<>>]

Send(p, m) ==
    /\ open[p]
    /\ queue' = [queue EXCEPT ![p] = Append(@, m)]
    /\ UNCHANGED <<open, got>>

\* The message of q is received by p.
Receive(p, q) ==
    /\ p # q
    /\ open[p]
    /\ queue[q] # <<>>
    /\ queue' = [queue EXCEPT ![q] = Tail(@)]
    /\ got' = [got EXCEPT ![p] = Append(@, Head(queue[q]))]
    /\ UNCHANGED open

Close(p) ==
    /\ open[p]
    /\ open' = [open EXCEPT ![p] = FALSE]
    /\ \E kept \in Prefixes(queue[p]) : queue' = [queue EXCEPT ![p] = kept]
    /\ UNCHANGED got

FifoNext ==
    \/ \E p \in Ends, m \in Messages : Send(p, m)
    \/ \E p, q \in Ends : Receive(p, q)
    \/ \E p \in Ends : Close(p)

FifoSpec == FifoInit /\ [][FifoNext]_fifoVars
=============================================================================
