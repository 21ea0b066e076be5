------------------------------ MODULE N2NCalls ------------------------------
(***************************************************************************)
(* A call between clients of different nodes (src/PICA_node.c).  The       *)
(* caller's node searches for the callee on its links with other nodes,    *)
(* asks the first node that has it to call it, and tells the caller when   *)
(* the callee's data connection is there; each node then keeps its half of *)
(* the call (struct cclink) and passes the data on in N2NMSG messages.     *)
(*                                                                         *)
(* Calls between clients of one node, addresses and the newconns that      *)
(* become data connections are in NodeCalls, how links come about in       *)
(* NodeMesh: two nodes have one link at a time.  An id is logged in at one *)
(* node at a time but may move.  What a node has pushed for another node   *)
(* or a client and what is on the wire are one queue; an answer of a       *)
(* client and its handling by the node are one step.  Data is counted, not *)
(* kept.  Allocations succeed.                                             *)
(***************************************************************************)
EXTENDS Integers, Sequences, FiniteSets

CONSTANTS
    Nodes, Ids,
    None,               \* a null nodelink pointer
    DEFAULT_BUF_SIZE,   \* size of a call's buffers
    MaxCalls,           \* bound: calls
    MaxLogins,          \* bound: log-ins
    MaxReads,           \* bound: reads of data from clients
    MaxFaults           \* bound: broken links, stopped nodes, clients that hang up

ASSUME N2NCallsAssumption ==
    /\ None \notin Nodes
    /\ DEFAULT_BUF_SIZE \in Nat \ {0}
    /\ {MaxCalls, MaxLogins, MaxReads, MaxFaults} \subseteq Nat

VARIABLES
    online,     \* online[n]: the ids in the client tree of n
    inbox,      \* inbox[x]: what the node of x has sent x
    dials,      \* dials[x]: the data connections x is opening
    link,       \* link[n]: the nodes n has a nodelink with
    wire,       \* wire[n][m]: the messages from n to m
    cclinks,    \* cclinks[n]: cclink_list of n, its calls numbered in the list's order
    joined,     \* the pairs whose callee's data connection has been there
    used        \* what the bounds count

vars == <<online, inbox, dials, link, wire, cclinks, joined, used>>

Setup == {"N2NCLR_WAITSEARCH", "N2NCLR_WAITREP", "N2NCLR_WAITCONNCLR",
          "N2NCLR_WAITCONNCLRANONTLSSHUTDOWN", "N2NCLE_WAITREP", "N2NCLE_WAITCONNCLE",
          "N2NCLE_WAITCONNCLEANONTLSSHUTDOWN"}

CallerSide == {"N2NCLR_WAITSEARCH", "N2NCLR_WAITREP", "N2NCLR_WAITCONNCLR",
               "N2NCLR_WAITCONNCLRANONTLSSHUTDOWN", "N2NCLR_ACTIVE"}

Active == {"N2NCLR_ACTIVE", "N2NCLE_ACTIVE"}

\* bufpos of the buffer for the local client, when nobody knows what it is.
Garbage == DEFAULT_BUF_SIZE + 1

Init ==
    /\ online = [n \in Nodes |-> {}]
    /\ inbox = [x \in Ids |-> <<>>]
    /\ dials = [x \in Ids |-> {}]
    /\ link = [n \in Nodes |-> {}]
    /\ wire = [n \in Nodes |-> [m \in Nodes |-> <<>>]]
    /\ cclinks = [n \in Nodes |-> <<>>]
    /\ joined = {}
    /\ used = [calls |-> 0, logins |-> 0, reads |-> 0, faults |-> 0]

\* One more of what a bound counts.
Use(what, max) == used[what] < max /\ used' = [used EXCEPT ![what] = @ + 1]

-----------------------------------------------------------------------------
(* The list of calls of a node.                                            *)

IsCallerSide(cc) == cc.state \in CallerSide
LocalId(cc) == IF IsCallerSide(cc) THEN cc.caller ELSE cc.callee

\* p1 is null when the caller is at another node.
p1_is_null(cc) == ~IsCallerSide(cc)

NewLink(state, caller, callee, node) ==
    [state |-> state, caller |-> caller, callee |-> callee, node |-> node, bufpos |-> 0]

\* A call joins the list at its end.
cclink_list_add(ccs, cc) ==
    LET last == CHOOSE i \in DOMAIN ccs : \A j \in DOMAIN ccs : j <= i
        new == IF DOMAIN ccs = {} THEN 1 ELSE last + 1
    IN  [i \in DOMAIN ccs \cup {new} |-> IF i = new THEN cc ELSE ccs[i]]

cclink_list_addn2nclr(ccs, caller, callee) ==
    cclink_list_add(ccs, NewLink("N2NCLR_WAITSEARCH", caller, callee, None))
cclink_list_addn2ncle(ccs, caller, node, callee) ==
    cclink_list_add(ccs, NewLink("N2NCLE_WAITREP", caller, callee, node))

cclink_list_delete(ccs, i) == [j \in DOMAIN ccs \ {i} |-> ccs[j]]
cclink_list_delete_by_client(ccs, x) ==
    [j \in {i \in DOMAIN ccs : LocalId(ccs[i]) # x} |-> ccs[j]]
cclink_list_delete_by_nodelink(ccs, m) ==
    [j \in {i \in DOMAIN ccs : ccs[i].node # m} |-> ccs[j]]

Matches(ccs, caller, callee) ==
    {i \in DOMAIN ccs : ccs[i].caller = caller /\ ccs[i].callee = callee}

\* The first call in the list, or 0.
First(S) == IF S = {} THEN 0 ELSE CHOOSE i \in S : \A j \in S : i <= j
cclink_list_search(ccs, caller, callee) == First(Matches(ccs, caller, callee))

WaitsForSearch(cc, callee) == cc.callee = callee /\ cc.state = "N2NCLR_WAITSEARCH"
cclink_list_findwaitsearch(ccs, callee) ==
    \E i \in DOMAIN ccs : WaitsForSearch(ccs[i], callee)

cclink_attach_remotecle_node(cc, node) ==
    [cc EXCEPT !.state = "N2NCLR_WAITREP", !.node = node]

cclink_setwaitconn(cc) ==
    [cc EXCEPT !.state = CASE @ = "N2NCLR_WAITREP" -> "N2NCLR_WAITCONNCLR"
                           [] @ = "N2NCLE_WAITREP" -> "N2NCLE_WAITCONNCLE"
                           [] OTHER -> @]

cclink_setwaitanontlsshutdown(cc) ==
    [cc EXCEPT !.state = IF IsCallerSide(cc) THEN "N2NCLR_WAITCONNCLRANONTLSSHUTDOWN"
                         ELSE "N2NCLE_WAITCONNCLEANONTLSSHUTDOWN"]

cclink_activate(cc) ==
    [cc EXCEPT !.state = IF IsCallerSide(cc) THEN "N2NCLR_ACTIVE" ELSE "N2NCLE_ACTIVE"]

-----------------------------------------------------------------------------
(* Queues.                                                                 *)

ToNode(m, x, y) == [m |-> m, caller |-> x, callee |-> y, len |-> 0]

\* w with ms pushed by n for m.
nodelink_wbuf_push(w, n, m, ms) == [w EXCEPT ![n][m] = @ \o ms]

client_wbuf_push(box, x, m, peer) == [box EXCEPT ![x] = Append(@, [m |-> m, peer |-> peer])]

\* n reads a message of m.
Reads(n, m, msg) == m \in link[n] /\ wire[m][n] # <<>> /\ Head(wire[m][n]).m = msg
Popped(n, m) == [wire EXCEPT ![m][n] = Tail(@)]

-----------------------------------------------------------------------------
(* Clients log in and off, nodes get and lose their links.                 *)

Login(n, x) ==
    /\ \A m \in Nodes : x \notin online[m]
    /\ Use("logins", MaxLogins)
    /\ online' = [online EXCEPT ![n] = @ \cup {x}]
    /\ UNCHANGED <<inbox, dials, link, wire, cclinks, joined>>

client_list_delete(n, x) ==
    /\ online' = [online EXCEPT ![n] = @ \ {x}]
    /\ inbox' = [inbox EXCEPT ![x] = <<>>]
    /\ dials' = [dials EXCEPT ![x] = {}]
    /\ cclinks' = [cclinks EXCEPT ![n] = cclink_list_delete_by_client(@, x)]

Logout(n, x) ==
    /\ x \in online[n]
    /\ client_list_delete(n, x)
    /\ UNCHANGED <<link, wire, joined, used>>

LinkUp(n, m) ==
    /\ n # m /\ m \notin link[n] /\ n \notin link[m]
    /\ wire[n][m] = <<>> /\ wire[m][n] = <<>>
    /\ link' = [link EXCEPT ![n] = @ \cup {m}, ![m] = @ \cup {n}]
    /\ UNCHANGED <<online, inbox, dials, wire, cclinks, joined, used>>

\* Mutant: the calls over the link stay.
nodelink_list_delete_KeepsCalls(n, m) ==
    /\ link' = [link EXCEPT ![n] = @ \ {m}]
    /\ UNCHANGED cclinks

nodelink_list_delete(n, m) ==
    /\ link' = [link EXCEPT ![n] = @ \ {m}]
    /\ cclinks' = [cclinks EXCEPT ![n] = cclink_list_delete_by_nodelink(@, m)]

\* The link is lost at one end; some of what was sent before is still read at the other.
LinkBreaks(n, m) ==
    /\ m \in link[n] /\ n \in link[m]
    /\ Use("faults", MaxFaults)
    /\ nodelink_list_delete(n, m)
    /\ \E k \in 0..Len(wire[n][m]) :
          wire' = [wire EXCEPT ![m][n] = <<>>, ![n][m] = SubSeq(@, 1, k)]
    /\ UNCHANGED <<online, inbox, dials, joined>>

LinkEnds(n, m) ==
    /\ m \in link[n] /\ n \notin link[m] /\ wire[m][n] = <<>>
    /\ nodelink_list_delete(n, m)
    /\ wire' = [wire EXCEPT ![n][m] = <<>>]
    /\ UNCHANGED <<online, inbox, dials, joined, used>>

\* A node stops and starts again: it has no clients and no links.
Stops(n) ==
    /\ online' = [online EXCEPT ![n] = {}]
    /\ inbox' = [x \in Ids |-> IF x \in online[n] THEN <<>> ELSE inbox[x]]
    /\ dials' = [x \in Ids |-> IF x \in online[n] THEN {} ELSE dials[x]]
    /\ link' = [link EXCEPT ![n] = {}]
    /\ wire' = [m \in Nodes |-> [k \in Nodes |->
                  IF k = n \/ (m = n /\ n \notin link[k]) THEN <<>> ELSE wire[m][k]]]
    /\ cclinks' = [cclinks EXCEPT ![n] = <<>>]
    /\ UNCHANGED joined

NodeStops(n) == Use("faults", MaxFaults) /\ Stops(n)

-----------------------------------------------------------------------------
(* The search.                                                             *)

\* The callee is not at the caller's node.
procmsg_CONNREQOUTG(n, x, y) ==
    LET searching == cclink_list_findwaitsearch(cclinks[n], y)
    IN  /\ x \in online[n] /\ y \notin online[n] /\ x # y
        /\ Use("calls", MaxCalls)
        /\ IF searching \/ link[n] # {}
           THEN /\ cclinks' = [cclinks EXCEPT ![n] = cclink_list_addn2nclr(@, x, y)]
                /\ wire' = IF searching THEN wire
                           ELSE [wire EXCEPT ![n] = [m \in Nodes |->
                                   IF m \in link[n] THEN Append(@[m], ToNode("SEARCH", y, y))
                                   ELSE @[m]]]
                /\ UNCHANGED inbox
           ELSE /\ inbox' = client_wbuf_push(inbox, x, "NOTFOUND", y)
                /\ UNCHANGED <<cclinks, wire>>
        /\ UNCHANGED <<online, dials, link, joined>>

procmsg_SEARCH(n, m) ==
    LET y == Head(wire[m][n]).callee
    IN  /\ Reads(n, m, "SEARCH")
        /\ wire' = IF y \in online[n]
                   THEN nodelink_wbuf_push(Popped(n, m), n, m, <<ToNode("N2NFOUND", y, y)>>)
                   ELSE Popped(n, m)
        /\ UNCHANGED <<online, inbox, dials, link, cclinks, joined, used>>

\* One request for each waiting call, in the order of the list.
procmsg_N2NFOUND(n, m) ==
    LET y == Head(wire[m][n]).callee
        waiting == {i \in DOMAIN cclinks[n] : WaitsForSearch(cclinks[n][i], y)}
        request(i) == ToNode("N2NCONNREQOUTG", cclinks[n][i].caller, y)
    IN  /\ Reads(n, m, "N2NFOUND")
        /\ cclinks' = [cclinks EXCEPT ![n] = [i \in DOMAIN @ |->
              IF i \in waiting THEN cclink_attach_remotecle_node(@[i], m) ELSE @[i]]]
        /\ \E order \in [1..Cardinality(waiting) -> waiting] :
              /\ \A j, k \in DOMAIN order : j < k => order[j] < order[k]
              /\ wire' = nodelink_wbuf_push(Popped(n, m), n, m,
                                            [k \in DOMAIN order |-> request(order[k])])
        /\ UNCHANGED <<online, inbox, dials, link, joined, used>>

procmsg_N2NCONNREQOUTG(n, m) ==
    LET x == Head(wire[m][n]).caller
        y == Head(wire[m][n]).callee
    IN  /\ Reads(n, m, "N2NCONNREQOUTG")
        /\ IF y \in online[n]
           THEN /\ inbox' = client_wbuf_push(inbox, y, "CONNREQINC", x)
                /\ cclinks' = [cclinks EXCEPT ![n] = cclink_list_addn2ncle(@, x, m, y)]
                /\ wire' = Popped(n, m)
           ELSE /\ wire' = nodelink_wbuf_push(Popped(n, m), n, m,
                                              <<ToNode("N2NNOTFOUND", x, y)>>)
                /\ UNCHANGED <<inbox, cclinks>>
        /\ UNCHANGED <<online, dials, link, joined, used>>

-----------------------------------------------------------------------------
(* The callee's answer.  An answer to a call that is gone, or the second   *)
(* one to a call, ends the callee's control connection.                    *)

Answers(n, y) == y \in online[n] /\ inbox[y] # <<>> /\ Head(inbox[y]).m = "CONNREQINC"

Called(n, y) == cclink_list_search(cclinks[n], Head(inbox[y]).peer, y)
IsWaiting(n, i) == i # 0 /\ cclinks[n][i].state = "N2NCLE_WAITREP"

\* Mutant: the caller is told when the call is allowed.
procmsg_CONNALLOW_Early(n, y) ==
    LET i == Called(n, y)
        x == Head(inbox[y]).peer
    IN  /\ Answers(n, y) /\ IsWaiting(n, i)
        /\ cclinks' = [cclinks EXCEPT ![n][i] = cclink_setwaitconn(@)]
        /\ inbox' = [inbox EXCEPT ![y] = Tail(@)]
        /\ dials' = [dials EXCEPT ![y] = @ \cup {<<x, y>>}]
        /\ wire' = nodelink_wbuf_push(wire, n, cclinks[n][i].node, <<ToNode("N2NALLOW", x, y)>>)
        /\ UNCHANGED <<online, link, joined, used>>

\* The callee allows the call and opens its data connection.
procmsg_CONNALLOW(n, y) ==
    LET i == Called(n, y)
    IN  /\ Answers(n, y)
        /\ IF IsWaiting(n, i)
           THEN /\ cclinks' = [cclinks EXCEPT ![n][i] = cclink_setwaitconn(@)]
                /\ inbox' = [inbox EXCEPT ![y] = Tail(@)]
                /\ dials' = [dials EXCEPT ![y] = @ \cup {<<Head(inbox[y]).peer, y>>}]
                /\ UNCHANGED online
           ELSE client_list_delete(n, y)
        /\ UNCHANGED <<link, wire, joined, used>>

procmsg_CONNDENY(n, y) ==
    LET i == Called(n, y)
        x == Head(inbox[y]).peer
    IN  /\ Answers(n, y)
        /\ IF IsWaiting(n, i)
           THEN /\ wire' = nodelink_wbuf_push(wire, n, cclinks[n][i].node,
                                              <<ToNode("N2NNOTFOUND", x, y)>>)
                /\ cclinks' = [cclinks EXCEPT ![n] = cclink_list_delete(@, i)]
                /\ inbox' = [inbox EXCEPT ![y] = Tail(@)]
                /\ UNCHANGED <<online, dials>>
           ELSE /\ client_list_delete(n, y)
                /\ UNCHANGED wire
        /\ UNCHANGED <<link, joined, used>>

\* A client opens a data connection and names the call.
procmsg_CONNID(n, x) ==
    \E pair \in dials[x] :
        LET i == cclink_list_search(cclinks[n], pair[1], pair[2])
        IN  /\ x \in online[n]
            /\ dials' = [dials EXCEPT ![x] = @ \ {pair}]
            /\ cclinks' = IF i # 0 /\ cclinks[n][i].state \in {"N2NCLR_WAITCONNCLR",
                                                             "N2NCLE_WAITCONNCLE"}
                          THEN [cclinks EXCEPT ![n][i] = cclink_setwaitanontlsshutdown(@)]
                          ELSE cclinks
            /\ UNCHANGED <<online, inbox, link, wire, joined, used>>

\* The data connection's anonymous TLS session is over.
cclink_sendcleconnected(n, i) ==
    LET cc == cclinks[n][i]
    IN  /\ cc.state \in {"N2NCLR_WAITCONNCLRANONTLSSHUTDOWN",
                         "N2NCLE_WAITCONNCLEANONTLSSHUTDOWN"}
        /\ cclinks' = [cclinks EXCEPT ![n][i] = cclink_activate(@)]
        /\ IF IsCallerSide(cc) THEN UNCHANGED <<wire, joined>>
           ELSE /\ wire' = nodelink_wbuf_push(wire, n, cc.node,
                                              <<ToNode("N2NALLOW", cc.caller, cc.callee)>>)
                /\ joined' = joined \cup {<<cc.caller, cc.callee>>}
        /\ UNCHANGED <<online, inbox, dials, link, used>>

\* p1 of the first call of the pair is used, whatever the call's state: the node dies
\* when it is null.
procmsg_N2NALLOW(n, m) ==
    LET msg == Head(wire[m][n])
        i == cclink_list_search(cclinks[n], msg.caller, msg.callee)
    IN  /\ Reads(n, m, "N2NALLOW")
        /\ \/ /\ i = 0
              /\ wire' = Popped(n, m)
              /\ UNCHANGED <<online, inbox, dials, link, cclinks, joined>>
           \/ /\ i # 0 /\ ~p1_is_null(cclinks[n][i])
              /\ wire' = Popped(n, m)
              /\ inbox' = client_wbuf_push(inbox, msg.caller, "FOUND", msg.callee)
              /\ cclinks' = [cclinks EXCEPT ![n][i] = cclink_setwaitconn(@)]
              /\ UNCHANGED <<online, dials, link, joined>>
           \/ i # 0 /\ p1_is_null(cclinks[n][i]) /\ Stops(n)
        /\ UNCHANGED used

procmsg_N2NNOTFOUND(n, m) ==
    LET msg == Head(wire[m][n])
        i == cclink_list_search(cclinks[n], msg.caller, msg.callee)
    IN  /\ Reads(n, m, "N2NNOTFOUND")
        /\ \/ /\ i = 0
              /\ wire' = Popped(n, m)
              /\ UNCHANGED <<online, inbox, dials, link, cclinks, joined>>
           \/ /\ i # 0 /\ ~p1_is_null(cclinks[n][i])
              /\ wire' = Popped(n, m)
              /\ inbox' = client_wbuf_push(inbox, msg.caller, "NOTFOUND", msg.callee)
              /\ cclinks' = [cclinks EXCEPT ![n] = cclink_list_delete(@, i)]
              /\ UNCHANGED <<online, dials, link, joined>>
           \/ i # 0 /\ p1_is_null(cclinks[n][i]) /\ Stops(n)
        /\ UNCHANGED used

\* The caller reads the answer to its call.
CallerTold(n, x) ==
    /\ x \in online[n]
    /\ inbox[x] # <<>> /\ Head(inbox[x]).m \in {"FOUND", "NOTFOUND"}
    /\ inbox' = [inbox EXCEPT ![x] = Tail(@)]
    /\ dials' = IF Head(inbox[x]).m = "FOUND"
                THEN [dials EXCEPT ![x] = @ \cup {<<x, Head(inbox[x]).peer>>}] ELSE dials
    /\ UNCHANGED <<online, link, wire, cclinks, joined, used>>

-----------------------------------------------------------------------------
(* The end of a call.  The other node is not told.                         *)

process_timeouts_c2c(n, i) ==
    /\ cclinks[n][i].state \in Setup
    /\ cclinks' = [cclinks EXCEPT ![n] = cclink_list_delete(@, i)]
    /\ UNCHANGED <<online, inbox, dials, link, wire, joined, used>>

HangUp(n, i) ==
    /\ cclinks[n][i].state \in Active
    /\ Use("faults", MaxFaults)
    /\ cclinks' = [cclinks EXCEPT ![n] = cclink_list_delete(@, i)]
    /\ UNCHANGED <<online, inbox, dials, link, wire, joined>>

-----------------------------------------------------------------------------
(* Data.                                                                   *)

\* What process_c2c_write(-1), called after a read from the local client, makes of the
\* data for that client: nothing is sent, but ret is taken for a result of send().  At
\* the caller's node it is what was just passed on; at the callee's it has no value yet,
\* and the call may be deleted (-2).
AfterWrite(cc, sent) ==
    IF cc.bufpos = 0 THEN {0}
    ELSE IF IsCallerSide(cc)
         THEN {IF cc.bufpos \in sent..DEFAULT_BUF_SIZE THEN cc.bufpos - sent ELSE Garbage}
         ELSE 0..cc.bufpos \cup {Garbage, -2}

process_c2c_read(n, i) ==
    LET cc == cclinks[n][i]
        to == IF IsCallerSide(cc) THEN cc.callee ELSE cc.caller
    IN  /\ cc.state \in Active
        /\ Use("reads", MaxReads)
        /\ \E len \in 1..DEFAULT_BUF_SIZE :
             /\ wire' = nodelink_wbuf_push(wire, n, cc.node, <<[m |-> "N2NMSG",
                            caller |-> LocalId(cc), callee |-> to, len |-> len]>>)
             /\ \E pos \in AfterWrite(cc, len) :
                  cclinks' = IF pos = -2 THEN [cclinks EXCEPT ![n] = cclink_list_delete(@, i)]
                             ELSE [cclinks EXCEPT ![n][i].bufpos = pos]
        /\ UNCHANGED <<online, inbox, dials, link, joined>>

\* The call a message is for: of the pair sender and receiver at the callee's node, of
\* receiver and sender at the caller's.
MsgFor(n, msg) ==
    LET i == cclink_list_search(cclinks[n], msg.caller, msg.callee)
        j == cclink_list_search(cclinks[n], msg.callee, msg.caller)
    IN  IF i # 0 /\ cclinks[n][i].state = "N2NCLE_ACTIVE" THEN i
        ELSE IF j # 0 /\ cclinks[n][j].state = "N2NCLR_ACTIVE" THEN j ELSE 0

\* The answer to data for no call names the sender first, be it the caller or not.
NotFound(msg) == ToNode("N2NNOTFOUND", msg.caller, msg.callee)

\* The data is put into the buffer for the client, and no write event is added: neither
\* here nor elsewhere, so that no action takes it out.  A buffer position that is wrong
\* may pass the test of its size, and the data is then written out of bounds.
procmsg_N2NMSG(n, m) ==
    LET msg == Head(wire[m][n])
        i == MsgFor(n, msg)
        pos == cclinks[n][i].bufpos
    IN  /\ Reads(n, m, "N2NMSG")
        /\ \/ /\ i = 0
              /\ wire' = nodelink_wbuf_push(Popped(n, m), n, m,
                            <<NotFound(msg)>>)
              /\ UNCHANGED <<online, inbox, dials, link, cclinks, joined>>
           \/ /\ i # 0 /\ pos + msg.len <= DEFAULT_BUF_SIZE
              /\ wire' = Popped(n, m)
              /\ cclinks' = [cclinks EXCEPT ![n][i].bufpos = @ + msg.len]
              /\ UNCHANGED <<online, inbox, dials, link, joined>>
           \/ /\ i # 0 /\ pos + msg.len > DEFAULT_BUF_SIZE
              /\ wire' = Popped(n, m)
              /\ cclinks' = [cclinks EXCEPT ![n] = cclink_list_delete(@, i)]
              /\ UNCHANGED <<online, inbox, dials, link, joined>>
           \/ i # 0 /\ pos = Garbage /\ Stops(n)
        /\ UNCHANGED used

-----------------------------------------------------------------------------
process_n2n_read(n, m) ==
    \/ procmsg_SEARCH(n, m) \/ procmsg_N2NFOUND(n, m) \/ procmsg_N2NCONNREQOUTG(n, m)
    \/ procmsg_N2NALLOW(n, m) \/ procmsg_N2NNOTFOUND(n, m) \/ procmsg_N2NMSG(n, m)
    \/ LinkEnds(n, m)

ClientActs(n, x) ==
    \/ procmsg_CONNALLOW(n, x) \/ procmsg_CONNDENY(n, x)
    \/ procmsg_CONNID(n, x) \/ CallerTold(n, x)

Next ==
    \/ \E n, m \in Nodes : LinkUp(n, m) \/ LinkBreaks(n, m) \/ process_n2n_read(n, m)
    \/ \E n \in Nodes : NodeStops(n)
    \/ \E n \in Nodes, x \in Ids : Login(n, x) \/ Logout(n, x) \/ ClientActs(n, x)
    \/ \E n \in Nodes, x, y \in Ids : procmsg_CONNREQOUTG(n, x, y)
    \/ \E n \in Nodes : \E i \in DOMAIN cclinks[n] :
          \/ cclink_sendcleconnected(n, i) \/ process_timeouts_c2c(n, i)
          \/ HangUp(n, i) \/ process_c2c_read(n, i)

Spec == Init /\ [][Next]_vars

\* The event loop reads what comes on the links and on new connections.
Fairness ==
    /\ \A n, m \in Nodes : WF_vars(process_n2n_read(n, m))
    /\ \A n \in Nodes : WF_vars(\E i \in DOMAIN cclinks[n] : cclink_sendcleconnected(n, i))

FairSpec == Spec /\ Fairness

-----------------------------------------------------------------------------
(* Properties.                                                             *)

\* The clients and links that a call points to are there (cclink_list_delete_by_client
\* and cclink_list_delete_by_nodelink go with every client and every link), and only a
\* call whose callee is still being searched for has no link, so that nothing is pushed
\* through a null one.
PointersValid ==
    \A n \in Nodes : \A i \in DOMAIN cclinks[n] :
        LET cc == cclinks[n][i]
        IN  /\ LocalId(cc) \in online[n]
            /\ IF cc.state = "N2NCLR_WAITSEARCH" THEN cc.node = None ELSE cc.node \in link[n]

\* A caller is told that its peer was found only after the peer's data connection has
\* been there (cclink_sendcleconnected sends N2NALLOW, not procmsg_CONNALLOW).
FoundAfterJoin ==
    \A x \in Ids : \A k \in DOMAIN inbox[x] :
        inbox[x][k].m = "FOUND" => <<x, inbox[x][k].peer>> \in joined

\* What a client sends over an established call is handed on to the other client, or the
\* call ends (procmsg_N2NMSG).
DataHandedOn ==
    \A n \in Nodes :
        []<>(\A i \in DOMAIN cclinks[n] : cclinks[n][i].bufpos = 0)
=============================================================================
