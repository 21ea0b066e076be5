------------------------------- MODULE SkyNet -------------------------------
(***************************************************************************)
(* The client application's use of the library: logging in at one of the   *)
(* known nodes, keeping a control connection (c2n), calling a peer (c2c)   *)
(* and delivering the messages to it (src/pica-client/skynet.cpp,          *)
(* history.cpp, chatwindow.cpp, msguirouter.cpp, src/PICA_client.c).       *)
(*                                                                         *)
(* One client, one peer it writes to.  A Join makes one c2n per known      *)
(* node; a c2n is named by the number of its Join and its node, and keeps  *)
(* that name when it has been freed.  Everything runs in one thread: a     *)
(* pass of the event loop serves the c2n's that connect and then, when the *)
(* client was self-aware as the pass began, the active one; an action is   *)
(* what a pass does with one c2n or channel, callbacks included.  A pass   *)
(* is of consequence in one case: the last login fails in it, which takes  *)
(* the client's self-awareness, and the active one still has its turn.     *)
(* The text of messages, the lengths of the waits between retries and the  *)
(* user's other peers are left out; a message is its place in the history. *)
(***************************************************************************)
EXTENDS Integers, Sequences, SequencesExt, FiniteSets

CONSTANTS
    Nodes,      \* the nodes the client knows
    None,       \* no c2n
    MaxJoins,   \* bound: calls of Join
    MaxTexts,   \* bound: messages the user writes
    TooLong,    \* the messages that are longer than the protocol allows
    MaxCalls,   \* bound: calls from the peer
    MaxFaults   \* bound: established connections that are lost, failed signatures

C2n == (1..MaxJoins) \X Nodes

ASSUME SkyNetAssumption ==
    /\ None \notin C2n
    /\ {MaxJoins, MaxTexts, MaxCalls, MaxFaults} \subseteq Nat
    /\ TooLong \subseteq Nat

Policies == {"PROHIBIT", "ALLOW", "REPLACE"}

VARIABLES
    c2n,        \* the state of each struct PICA_c2n, "unused" before and "freed" after
    sky,        \* the fields of SkyNet
    chans,      \* chan_list of active_nodelink
    asked,      \* calls the node of active_nodelink has not answered
    hist,       \* hist[n]: is_delivered of the n-th message in the history
    received,   \* the messages the peer has received, in order
    calls,      \* calls from the peer so far
    faults      \* faults so far

vars == <<c2n, sky, chans, asked, hist, received, calls, faults>>

\* timer: nodelink_reconnect_timer runs.  stranded: the last Join could not even
\* start a connection.  event: a multilogin_event is queued.  left: the active_nodelink
\* that a failed login left behind without self-awareness; turn: it is still to be
\* served in that pass.
Fields == [alive : BOOLEAN, policy : Policies, joins : 0..MaxJoins,
           self_aware : BOOLEAN, active_nodelink : C2n \cup {None},
           connecting_nodes : SUBSET C2n, timer : BOOLEAN, stranded : BOOLEAN,
           offline : BOOLEAN, event : BOOLEAN, left : C2n \cup {None}, turn : BOOLEAN,
           msgqueue : Seq(1..MaxTexts)]

Init ==
    /\ c2n = [l \in C2n |-> "unused"]
    /\ \E policy \in Policies :
         sky = [alive |-> TRUE, policy |-> policy, joins |-> 0, self_aware |-> FALSE,
                active_nodelink |-> None, connecting_nodes |-> {}, timer |-> FALSE,
                stranded |-> FALSE, offline |-> TRUE, event |-> FALSE, left |-> None, turn |-> FALSE,
                msgqueue |-> <<>>]
    /\ chans = <<>>
    /\ asked = 0
    /\ hist = <<>>
    /\ received = <<>>
    /\ calls = 0
    /\ faults = 0

-----------------------------------------------------------------------------
(* Channels.                                                               *)

\* write_buf and what is on its way to the peer; acks: MSGOKs on their way back.
\* spent: restarted after it was active, so that the node refuses it.
NewChannel(out, state) ==
    [outgoing |-> out, state |-> state, write_buf |-> <<>>, wire |-> <<>>, acks |-> 0,
     spent |-> FALSE]

\* PICA_send_msg refuses a message that is too long.
PICA_send_msg(c, n) == [c EXCEPT !.write_buf = Append(@, n)]

IsActive(c) == c.state = "ACTIVE"

ActiveChannels(cs) == {i \in DOMAIN cs : IsActive(cs[i])}

find_active_chan(cs) == CHOOSE i \in ActiveChannels(cs) :
                            \A j \in ActiveChannels(cs) : i <= j

\* The request reaches the node; nothing happens without a connected c2n.
CanCall == sky.active_nodelink # None /\ c2n[sky.active_nodelink] = "CONNECTED"
PICA_new_c2c(cs) == Append(cs, NewChannel(TRUE, "NEW"))

\* GetUndeliveredMessages: the messages that are not marked, in the history's order.
InOrder(q, S) == ToSet(q) = S /\ \A i, j \in DOMAIN q : i < j => q[i] < q[j]

Undelivered ==
    LET open == {n \in DOMAIN hist : ~hist[n]}
    IN  CHOOSE q \in BoundedSeq(open, Len(hist)) : InOrder(q, open)

\* flush_queues sends up to the first message that is refused, which stays.
Sendable(queue) ==
    LET bad == {i \in DOMAIN queue : queue[i] \in TooLong}
    IN  IF bad = {} THEN Len(queue)
        ELSE (CHOOSE i \in bad : \A j \in bad : i <= j) - 1

flush_queues(cs, queue) ==
    LET i == find_active_chan(cs)
    IN  [cs EXCEPT ![i].write_buf = @ \o SubSeq(queue, 1, Sendable(queue))]

Flushed(queue) == SubSeq(queue, Sendable(queue) + 1, Len(queue))

-----------------------------------------------------------------------------
(* Control connections.                                                    *)

\* The client serves events: it has not died, and no queued call is due first.
Live == sky.alive /\ ~sky.event

\* No pass is under way.
Idle == Live /\ ~sky.turn

\* The active c2n is in the vector timerEvent passes to PICA_event_loop, which is made
\* when the pass begins.
Serving == sky.self_aware \/ sky.turn

\* The anonymous TLS layer is put up and taken down on the way to WAITINGREP and
\* WAITINGTLS: each of the two is one more stage in the code, with the same outcomes.
Stages == <<"CONNECTING", "WAITINGREP", "WAITINGTLS", "CONNECTED">>

NextStage(state) == Stages[(CHOOSE i \in DOMAIN Stages : Stages[i] = state) + 1]

\* The callbacks: what they leave of SkyNet's fields.
nodelink_activated(s, l) ==
    LET t == [s EXCEPT !.connecting_nodes = @ \ {l}]
    IN  IF s.self_aware THEN t
        ELSE [t EXCEPT !.self_aware = TRUE, !.active_nodelink = l, !.offline = FALSE, !.left = None,
                       !.msgqueue = IF @ = <<>> THEN Undelivered ELSE @]

\* active_nodelink is used although the c2n has been freed.
Dangling == sky.active_nodelink # None /\ c2n[sky.active_nodelink] = "freed"

\* Mutant: a connection that is lost is not tried again.
nodelink_closed_NoTimer(s, l) ==
    IF s.self_aware /\ l = s.active_nodelink
    THEN [s EXCEPT !.active_nodelink = None, !.self_aware = FALSE]
    ELSE [s EXCEPT !.connecting_nodes = @ \ {l}]

nodelink_closed(s, l) ==
    IF s.self_aware /\ l = s.active_nodelink
    THEN [s EXCEPT !.active_nodelink = None, !.self_aware = FALSE, !.timer = TRUE]
    ELSE [s EXCEPT !.connecting_nodes = @ \ {l}]

\* Mutant: the login that failed last stays in the list.
nodelink_failed_KeepsLast(s, l) ==
    LET t == [s EXCEPT !.connecting_nodes = @ \ {l}]
    IN  IF t.connecting_nodes # {} THEN t
        ELSE [s EXCEPT !.self_aware = FALSE, !.timer = TRUE, !.turn = s.self_aware,
                       !.left = IF s.self_aware THEN s.active_nodelink ELSE @]

nodelink_failed(s, l) ==
    LET t == [s EXCEPT !.connecting_nodes = @ \ {l}]
    IN  IF t.connecting_nodes # {} THEN t
        ELSE [t EXCEPT !.self_aware = FALSE, !.timer = TRUE, !.turn = s.self_aware,
                       !.left = IF s.self_aware THEN s.active_nodelink ELSE @]

\* The pass in which the last login failed has served everything.
timerEvent_ends ==
    /\ sky.alive /\ sky.turn
    /\ sky' = [sky EXCEPT !.turn = FALSE]
    /\ UNCHANGED <<c2n, chans, asked, hist, received, calls, faults>>

\* A c2n goes one stage further.
process_c2n(l) ==
    /\ Live /\ l \in sky.connecting_nodes
    /\ c2n[l] \notin {"WAITINGTLS", "CONNECTED"}
    /\ c2n' = [c2n EXCEPT ![l] = NextStage(@)]
    /\ UNCHANGED <<sky, chans, asked, hist, received, calls, faults>>

\* The last stage.  The first c2n to get there becomes the active one and the
\* channels that are wanted are made at once; the others are closed at the end of
\* the pass (connected_nodes_to_close).
c2n_stage6_nodelistrequest(l) ==
    LET s == nodelink_activated(sky, l)
        calling == ~sky.self_aware /\ s.msgqueue # <<>>
    IN  /\ Live /\ l \in sky.connecting_nodes
        /\ c2n[l] = "WAITINGTLS"
        /\ sky' = s
        /\ c2n' = [c2n EXCEPT ![l] = IF sky.self_aware THEN "freed" ELSE "CONNECTED"]
        /\ chans' = IF sky.self_aware THEN chans
                    ELSE IF calling THEN PICA_new_c2c(<<>>) ELSE <<>>
        /\ asked' = IF sky.self_aware THEN asked ELSE IF calling THEN 1 ELSE 0
        /\ UNCHANGED <<hist, received, calls, faults>>

\* The signed MULTILOGIN message of the last stage cannot be made: the c2n is closed
\* after it was announced, and if it had been put on connected_nodes_to_close it is
\* closed once more at the end of the pass.
c2n_optstage7_multilogin(l) ==
    LET s == nodelink_activated(sky, l)
    IN  /\ Live /\ l \in sky.connecting_nodes
        /\ c2n[l] = "WAITINGTLS" /\ sky.policy # "PROHIBIT"
        /\ faults < MaxFaults /\ faults' = faults + 1
        /\ c2n' = [c2n EXCEPT ![l] = "freed"]
        /\ sky' = IF sky.self_aware THEN [s EXCEPT !.alive = FALSE] ELSE nodelink_closed(s, l)
        /\ chans' = IF sky.self_aware THEN chans ELSE <<>>
        /\ asked' = IF sky.self_aware THEN asked ELSE 0
        /\ UNCHANGED <<hist, received, calls>>

\* The node cannot be reached, speaks another protocol or breaks off the login.
c2n_failed(l) ==
    /\ Live /\ l \in sky.connecting_nodes
    /\ c2n[l] # "CONNECTED"
    /\ sky' = nodelink_failed(sky, l)
    /\ c2n' = [c2n EXCEPT ![l] = "freed"]
    /\ UNCHANGED <<chans, asked, hist, received, calls, faults>>

\* The active c2n ends and takes its channels with it, without a callback for each.
PICA_close_c2n(s) ==
    /\ sky' = [s EXCEPT !.turn = FALSE]
    /\ c2n' = [c2n EXCEPT ![sky.active_nodelink] = "freed"]
    /\ chans' = <<>>
    /\ asked' = 0

c2n_closed ==
    /\ sky.alive /\ Serving
    /\ faults < MaxFaults /\ faults' = faults + 1
    /\ PICA_close_c2n(nodelink_closed(sky, sky.active_nodelink))
    /\ UNCHANGED <<hist, received, calls>>

\* Those of the known nodes whose connection could be started; each gets a c2n.
PICA_new_c2n(join, reached) == {join} \X reached

Join(timer) ==
    \E reached \in SUBSET Nodes :
        LET new == PICA_new_c2n(sky.joins + 1, reached)
        IN  /\ sky.joins < MaxJoins
            /\ sky' = [sky EXCEPT !.joins = @ + 1, !.connecting_nodes = new, !.timer = timer,
                                  !.stranded = (reached = {}), !.offline = FALSE]
            /\ c2n' = [l \in C2n |-> IF l \in new THEN "CONNECTING"
                                     ELSE IF l \in sky.connecting_nodes THEN "freed"
                                     ELSE c2n[l]]
            /\ UNCHANGED <<chans, asked, hist, received, calls, faults>>

\* The user's Join leaves the reconnect timer running.
UserJoins == Idle /\ ~sky.self_aware /\ Join(sky.timer)
ReconnectTimer == Idle /\ ~sky.self_aware /\ sky.timer /\ Join(FALSE)

\* The reconnect timer is not stopped.
Exit(s) ==
    /\ sky' = [s EXCEPT !.self_aware = FALSE, !.msgqueue = <<>>, !.connecting_nodes = {},
                        !.active_nodelink = IF s.self_aware THEN None ELSE @,
                        !.offline = TRUE]
    /\ c2n' = [l \in C2n |-> IF \/ l \in s.connecting_nodes
                                \/ s.self_aware /\ l = s.active_nodelink
                             THEN "freed" ELSE c2n[l]]
    /\ chans' = IF s.self_aware THEN <<>> ELSE chans
    /\ asked' = IF s.self_aware THEN 0 ELSE asked
    /\ UNCHANGED <<hist, received, calls, faults>>

UserExits == Idle /\ sky.self_aware /\ Exit(sky)

\* MULTILOGIN from the node: the same account logs in elsewhere.  The slot is called
\* when the pass is over, which may have closed the c2n after this message.
procmsg_MULTILOGIN ==
    /\ Live /\ Serving
    /\ faults < MaxFaults /\ faults' = faults + 1
    /\ sky' = [sky EXCEPT !.event = TRUE]
    /\ UNCHANGED <<c2n, chans, asked, hist, received, calls>>

\* The slot reads the policy through active_nodelink, whatever that is by then.
multilogin_event ==
    LET s == [sky EXCEPT !.event = FALSE]
    IN  /\ sky.alive /\ sky.event /\ ~sky.turn
        /\ \/ /\ sky.active_nodelink # None
              /\ sky.policy = "REPLACE" \/ Dangling
              /\ Exit(s)
           \/ /\ sky.policy # "REPLACE" \/ sky.active_nodelink = None \/ Dangling
              /\ \E lives \in IF Dangling THEN BOOLEAN ELSE {sky.active_nodelink # None} :
                    sky' = [s EXCEPT !.alive = lives]
              /\ UNCHANGED <<c2n, chans, asked, hist, received, calls, faults>>

-----------------------------------------------------------------------------
(* Calls.                                                                  *)

\* FOUND and NOTFOUND are for the last channel of the list with the peer's id,
\* whoever made the call; without one the handler fails and the c2n is closed.
procmsg_FOUND ==
    LET i == Len(chans)
        started == [NewChannel(chans[i].outgoing, "STARTING")
                      EXCEPT !.spent = chans[i].spent \/ IsActive(chans[i])]
    IN  /\ Live /\ Serving /\ asked > 0
        /\ IF chans = <<>>
           THEN PICA_close_c2n(nodelink_closed(sky, sky.active_nodelink))
           ELSE /\ chans' = [chans EXCEPT ![i] = started]
                /\ asked' = asked - 1
                /\ UNCHANGED <<sky, c2n>>
        /\ UNCHANGED <<hist, received, calls, faults>>

procmsg_NOTFOUND ==
    /\ Live /\ Serving /\ asked > 0
    /\ IF chans = <<>>
       THEN PICA_close_c2n(nodelink_closed(sky, sky.active_nodelink))
       ELSE /\ chans' = Front(chans)
            /\ asked' = asked - 1
            /\ UNCHANGED <<sky, c2n>>
    /\ UNCHANGED <<hist, received, calls, faults>>

\* The peer calls; accept_cb always accepts and the data connection is started.
procmsg_CONNREQINC ==
    /\ Live /\ Serving
    /\ calls < MaxCalls /\ calls' = calls + 1
    /\ chans' = Append(chans, NewChannel(FALSE, "STARTING"))
    /\ UNCHANGED <<sky, c2n, asked, hist, received, faults>>

\* Mutant: the queue is sent only on a channel the client asked for.
c2c_established_cb_Outgoing(i) ==
    LET cs == [chans EXCEPT ![i].state = "ACTIVE"]
    IN  /\ Live /\ Serving
        /\ chans[i].state = "STARTING" /\ ~chans[i].spent
        /\ chans' = IF sky.self_aware /\ chans[i].outgoing
                    THEN flush_queues(cs, sky.msgqueue) ELSE cs
        /\ sky' = [sky EXCEPT !.msgqueue = IF sky.self_aware /\ chans[i].outgoing
                                           THEN Flushed(@) ELSE @]
        /\ UNCHANGED <<c2n, asked, hist, received, calls, faults>>

\* The stages of a data connection succeed, and a self-aware client sends what waits
\* for the peer.
c2c_established_cb(i) ==
    LET cs == [chans EXCEPT ![i].state = "ACTIVE"]
    IN  /\ Live /\ Serving
        /\ chans[i].state = "STARTING" /\ ~chans[i].spent
        /\ chans' = IF sky.self_aware THEN flush_queues(cs, sky.msgqueue) ELSE cs
        /\ sky' = [sky EXCEPT !.msgqueue = IF sky.self_aware THEN Flushed(@) ELSE @]
        /\ UNCHANGED <<c2n, asked, hist, received, calls, faults>>

\* A data connection fails or takes too long, or a call has no answer in time.
process_c2c_failed(i) ==
    /\ Live /\ Serving
    /\ ~IsActive(chans[i])
    /\ chans' = RemoveAt(chans, i)
    /\ UNCHANGED <<sky, c2n, asked, hist, received, calls, faults>>

\* An established channel is closed by the peer or lost, with what is on its way.
process_c2c_closed(i) ==
    /\ Live /\ Serving
    /\ IsActive(chans[i])
    /\ faults < MaxFaults /\ faults' = faults + 1
    /\ chans' = RemoveAt(chans, i)
    /\ UNCHANGED <<sky, c2n, asked, hist, received, calls>>

\* Every second, for a peer that has messages waiting and no channel of any kind.
reconnect_c2c ==
    /\ Idle /\ sky.self_aware
    /\ sky.msgqueue # <<>> /\ chans = <<>> /\ CanCall
    /\ asked < 2
    /\ chans' = PICA_new_c2c(chans)
    /\ asked' = asked + 1
    /\ UNCHANGED <<sky, c2n, hist, received, calls, faults>>

-----------------------------------------------------------------------------
(* Messages.                                                               *)

\* A new message in the history is not delivered.
Add(h) == Append(h, FALSE)

\* The chat window stores the message in the history, then SkyNet sends it on an
\* established channel, adds it to the queue or starts the queue with a call.  Through a
\* pointer to a freed c2n it finds no channel, or dies.
SendMessage ==
    LET n == Len(hist) + 1
        i == find_active_chan(chans)
    IN  /\ Idle
        /\ Len(hist) < MaxTexts
        /\ hist' = Add(hist)
        /\ IF sky.active_nodelink # None /\ ActiveChannels(chans) # {}
           THEN /\ chans' = IF n \in TooLong THEN chans
                            ELSE [chans EXCEPT ![i] = PICA_send_msg(@, n)]
                /\ UNCHANGED <<sky, asked>>
           ELSE /\ \E lives \in IF Dangling THEN BOOLEAN ELSE {TRUE} :
                      sky' = [sky EXCEPT !.msgqueue = Append(@, n), !.alive = lives]
                /\ IF sky.msgqueue = <<>> /\ CanCall
                   THEN chans' = PICA_new_c2c(chans) /\ asked' = asked + 1
                   ELSE UNCHANGED <<chans, asked>>
        /\ UNCHANGED <<c2n, received, calls, faults>>

PICA_write_c2c(i) ==
    /\ Live /\ Serving
    /\ IsActive(chans[i]) /\ chans[i].write_buf # <<>>
    /\ chans' = [chans EXCEPT ![i].wire = @ \o chans[i].write_buf, ![i].write_buf = <<>>]
    /\ UNCHANGED <<sky, c2n, asked, hist, received, calls, faults>>

\* The peer gets a message and answers MSGOK.
PeerReads(i) ==
    /\ chans[i].wire # <<>>
    /\ received' = Append(received, Head(chans[i].wire))
    /\ chans' = [chans EXCEPT ![i].wire = Tail(@), ![i].acks = @ + 1]
    /\ UNCHANGED <<sky, c2n, asked, hist, calls, faults>>

\* Mutant: every message so far is marked.
SetDelivered_All(h) == [n \in DOMAIN h |-> TRUE]

\* SetDelivered marks the first message that is not yet marked.
SetDelivered(h) ==
    LET open == {n \in DOMAIN h : ~h[n]}
    IN  IF open = {} THEN h
        ELSE [h EXCEPT ![CHOOSE n \in open : \A m \in open : n <= m] = TRUE]

procmsg_MSGOK(i) ==
    /\ Live /\ Serving
    /\ IsActive(chans[i]) /\ chans[i].acks > 0
    /\ chans' = [chans EXCEPT ![i].acks = @ - 1]
    /\ hist' = SetDelivered(hist)
    /\ UNCHANGED <<sky, c2n, asked, received, calls, faults>>

-----------------------------------------------------------------------------
Control ==
    \/ \E l \in C2n : \/ process_c2n(l) \/ c2n_stage6_nodelistrequest(l)
                      \/ c2n_optstage7_multilogin(l) \/ c2n_failed(l)
    \/ c2n_closed \/ timerEvent_ends
    \/ UserJoins \/ ReconnectTimer \/ UserExits
    \/ procmsg_MULTILOGIN \/ multilogin_event

Channel(i) ==
    \/ c2c_established_cb(i) \/ process_c2c_failed(i) \/ process_c2c_closed(i)
    \/ PICA_write_c2c(i) \/ PeerReads(i) \/ procmsg_MSGOK(i)

Next ==
    \/ Control
    \/ procmsg_FOUND \/ procmsg_NOTFOUND \/ procmsg_CONNREQINC
    \/ \E i \in DOMAIN chans : Channel(i)
    \/ reconnect_c2c
    \/ SendMessage

Spec == Init /\ [][Next]_vars

-----------------------------------------------------------------------------
(* Properties.                                                             *)

\* The types of the client's fields, of its c2n's and of its history.
TypeOK ==
    /\ c2n \in [C2n -> {"unused", "freed"} \cup {Stages[i] : i \in DOMAIN Stages}]
    /\ sky \in Fields
    /\ hist \in Seq(BOOLEAN)

\* No pointer SkyNet keeps is to a c2n that has been freed, whichever of several
\* logins succeeds, fails or is closed first, with one exception: the active_nodelink
\* that was left when the last pending login failed beside it may be closed in the rest
\* of that pass, and nodelink_closed does not see that it was the active one.  And a
\* self-aware client has a connected c2n (timerEvent puts active_nodelink into the
\* vector without looking at it), so that the stale pointer is never served.
LinksAreAlive ==
    /\ \A l \in sky.connecting_nodes \cup ({sky.active_nodelink} \ {None, sky.left}) :
          c2n[l] \notin {"unused", "freed"}
    /\ Serving => /\ sky.active_nodelink # None
                  /\ c2n[sky.active_nodelink] = "CONNECTED"

\* A client that is not connected and whose user has not gone offline is connecting
\* or will try again by itself, unless its last Join found nothing to connect to
\* (nodelink_closed and nodelink_failed each start the timer).
KeepsTrying ==
    (~sky.self_aware /\ ~sky.offline /\ ~sky.stranded)
        => sky.connecting_nodes # {} \/ sky.timer

\* No message is about to be written to the peer while an earlier one waits in the
\* queue, but behind one that is too long: flush_queues and SendMessage keep the order
\* whichever side made the channel, and when flush_queues does nothing because a failed
\* login took the self-awareness, the channel is not served long enough to be overtaken.
NothingOvertakes ==
    (Serving /\ sky.msgqueue # <<>> /\ sky.msgqueue[1] \notin TooLong)
        => \A i \in ActiveChannels(chans) : chans[i].write_buf = <<>>

\* There are never more messages marked as delivered than the peer has received.
MarksAreReceipts ==
    Cardinality({n \in DOMAIN hist : hist[n]}) <= Len(received)
=============================================================================
