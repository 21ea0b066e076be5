------------------------------ MODULE NodeMesh ------------------------------
(***************************************************************************)
(* How nodes find and keep each other (src/PICA_node.c, PICA_nodewait.c,   *)
(* PICA_nodeaddrlist.c).  Every node has a database of addresses; at each  *)
(* refresh it starts a thread for every address it has no link to, which   *)
(* resolves it and then one which connects.  The event loop turns the      *)
(* connections into links (struct nodelink), on which the nodes announce   *)
(* themselves, exchange the addresses they know and ping each other.       *)
(*                                                                         *)
(* A node's IP address and port are the node itself; a DNS name is another *)
(* address of it.  The port an accepted connection comes from is nobody's  *)
(* address.  The bytes written but not yet sent and those on the wire are  *)
(* one queue; a connection that is closed loses any end of it.  Time is    *)
(* left out: a refresh comes whenever its other conditions hold, a         *)
(* time-out whenever what it waits for has not come.  Calls over the links *)
(* are in N2NCalls.                                                        *)
(***************************************************************************)
EXTENDS Integers, Sequences, FiniteSets, Functions

CONSTANTS
    Nodes,        \* the nodes, and their IP addresses
    Names,        \* DNS names of nodes
    Host,         \* Host[a]: the node at address a
    Known,        \* the addresses that may be in the databases at first, for each node
    Capacity,     \* 100 in process_timeouts
    MaxCalls,     \* bound: cclink_list_count
    MaxConns,     \* bound: connections at a time
    MaxInactive,  \* bound: inactive_count
    MaxRefresh,   \* bound: MaxRefresh[n]: refreshes of n
    MaxFaults     \* bound: crashes, broken links, early time-outs, lost threads

Addrs == Nodes \cup Names
Slots == 1..MaxConns

ASSUME NodeMeshAssumption ==
    /\ Nodes \cap Names = {}
    /\ Host \in [Addrs -> Nodes]
    /\ \A n \in Nodes : Host[n] = n
    /\ Known \subseteq [Nodes -> SUBSET Addrs]
    /\ {Capacity, MaxCalls, MaxConns, MaxInactive, MaxFaults} \subseteq Nat
    /\ MaxRefresh \in [Nodes -> Nat]

\* A node with an address of a private range, which the others refuse
\* (disable_reserved_addrs), and one with another protocol version.
Kinds == {"public", "private", "old"}

Sides == {"out", "in"}
Other(s) == IF s = "out" THEN "in" ELSE "out"

VARIABLES
    kind,       \* kind[n]: what the other nodes make of n
    up,         \* up[n]: the process runs
    db,         \* db[n]: inactive_count of each address in the database
    nodewait,   \* nodewait[n][a]: state of the entry for address a in nodewait_list
    conns,      \* conns[c]: a connection, from its node conns[c].by to conns[c].to
    refreshed,  \* refreshed[n]: refreshes so far
    faults      \* faults so far

vars == <<kind, up, db, nodewait, conns, refreshed, faults>>

\* LOST: resolving or connecting, but there is no thread that would end it.  HANDSHAKE,
\* BROKEN and HUNG are CONNECTING with the thread in SSL_connect: the other node is there,
\* its process has ended and its kernel said so, or it has gone without a word.
WaitStates == {"none", "RESOLVING", "RESOLVED", "RESOLVING_FAILED", "CONNECTING",
               "HANDSHAKE", "BROKEN", "HUNG", "CONNECTED", "CONNECT_FAILED", "LOST"}

\* end[s]: what the node at that side has, "THREAD" the connect thread's socket,
\* "NEWCONN" and "SENDINGOK" a struct newconn, "LINK" a struct nodelink.  q[s]: the
\* messages for that side.  addr: nl->addr of the link at side "out" is set.
\* node_addr[s]: the link has the other node's address attached.  silent: the end that
\* is gone went without a word.
Free == [by |-> "nobody", to |-> "nobody", via |-> "nobody",
         end |-> [s \in Sides |-> "GONE"], q |-> [s \in Sides |-> <<>>],
         addr |-> FALSE, node_addr |-> [s \in Sides |-> FALSE],
         ticking |-> [s \in Sides |-> FALSE], silent |-> FALSE]

Msg(m) == [m |-> m, nodes |-> {}]

Init ==
    /\ \E odd \in Nodes, k \in Kinds :
          kind = [n \in Nodes |-> IF n = odd THEN k ELSE "public"]
    /\ up = [n \in Nodes |-> TRUE]
    /\ \E known \in Known : db = [n \in Nodes |-> [a \in known[n] |-> 1]]
    /\ nodewait = [n \in Nodes |-> [a \in Addrs |-> "none"]]
    /\ conns = [c \in Slots |-> Free]
    /\ refreshed = [n \in Nodes |-> 0]
    /\ faults = 0

Fault == faults < MaxFaults /\ faults' = faults + 1
FaultUnless(p) == IF p THEN UNCHANGED faults ELSE Fault

-----------------------------------------------------------------------------
(* Links.                                                                  *)

At(c, s) == IF s = "out" THEN conns[c].by ELSE conns[c].to
Peer(c, s) == At(c, Other(s))
IsLink(c, s) == conns[c].end[s] = "LINK"

nodelink_list(n) == {l \in Slots \X Sides : At(l[1], l[2]) = n /\ IsLink(l[1], l[2])}

ByAddr(n, p) == \E l \in nodelink_list(n) :
                    l[2] = "out" /\ conns[l[1]].addr /\ Peer(l[1], l[2]) = p
ByNodeAddr(n, p) == \E l \in nodelink_list(n) :
                    conns[l[1]].node_addr[l[2]] /\ Peer(l[1], l[2]) = p

\* Mutant: a link made to the address is not recognised.
nodelink_search_by_ipv4addr_Told(n, p) == ByNodeAddr(n, p)

\* The link of n with the node at p, by the address it was made to or the one the
\* other node has told.
nodelink_search_by_ipv4addr(n, p) == ByAddr(n, p) \/ ByNodeAddr(n, p)

nodelink_wbuf_push(conn, s, ms) ==
    IF conn.end[Other(s)] = "GONE" THEN conn ELSE [conn EXCEPT !.q[Other(s)] = @ \o ms]

Pop(conn, s) == [conn EXCEPT !.q[s] = Tail(@)]

\* The socket at side s is closed; the other side still gets some of what was sent.
Closed(conn, s) ==
    IF conn.end[Other(s)] = "GONE" THEN {Free}
    ELSE {[conn EXCEPT !.end[s] = "GONE", !.q[s] = <<>>, !.ticking[s] = FALSE,
                       !.node_addr[s] = FALSE, !.addr = @ /\ s # "out",
                       !.q[Other(s)] = SubSeq(@, 1, k)] : k \in 0..Len(conn.q[Other(s)])}

nodelink_list_delete(c, s) ==
    \E conn \in Closed(conns[c], s) : conns' = [conns EXCEPT ![c] = conn]

-----------------------------------------------------------------------------
(* The database.                                                           *)

PICA_nodeaddr_update(rows, a, alive) ==
    [b \in DOMAIN rows |-> IF b # a THEN rows[b]
                           ELSE IF alive THEN 0
                           ELSE IF rows[b] < MaxInactive THEN rows[b] + 1 ELSE MaxInactive]

PICA_nodeaddr_cleanold(rows, treshold) ==
    Restrict(rows, {a \in DOMAIN rows : rows[a] <= treshold})

\* Mutant: a row that is there is kept.
PICA_nodeaddr_save_Ignore(rows, new) ==
    [a \in DOMAIN rows \cup new |-> IF a \in DOMAIN rows THEN rows[a] ELSE 0]

\* The primary key replaces the row that was there.
PICA_nodeaddr_save(rows, new) ==
    [a \in DOMAIN rows \cup new |-> IF a \in new THEN 0 ELSE rows[a]]

clean_treshold(links, calls) ==
    IF Capacity - links - calls <= 0 THEN 3 ELSE Capacity - links - calls

\* The addresses a refresh starts a thread for.
PICA_node_joinskynet(n, rows) ==
    {a \in DOMAIN rows : /\ a # n
                         /\ ~(a \in Nodes /\ kind[a] = "private")
                         /\ ~(a \in Nodes /\ nodelink_search_by_ipv4addr(n, a))}

process_timeouts(n) ==
    LET links == Cardinality(nodelink_list(n))
    IN  /\ up[n] /\ refreshed[n] < MaxRefresh[n]
        /\ \A a \in Addrs : nodewait[n][a] = "none"
        /\ \E calls \in 0..MaxCalls :
             LET rows == IF links > 0
                         THEN PICA_nodeaddr_cleanold(db[n], clean_treshold(links, calls))
                         ELSE db[n]
                 wanted == PICA_node_joinskynet(n, rows)
             IN  /\ db' = [db EXCEPT ![n] = rows]
                 /\ nodewait' = [nodewait EXCEPT ![n] =
                        [a \in Addrs |-> IF a \in wanted THEN "RESOLVING" ELSE "none"]]
        /\ refreshed' = [refreshed EXCEPT ![n] = @ + 1]
        /\ UNCHANGED <<kind, up, conns, faults>>

-----------------------------------------------------------------------------
(* The threads, and what the event loop does with their results.           *)

Waits(n, a, state) == up[n] /\ nodewait[n][a] = state
SetWait(n, a, state) == nodewait' = [nodewait EXCEPT ![n][a] = state]

nodewait_resolve_thread(n, a) ==
    /\ Waits(n, a, "RESOLVING")
    /\ \E result \in {"RESOLVED", "RESOLVING_FAILED"} : SetWait(n, a, result)
    /\ UNCHANGED <<kind, up, db, conns, refreshed, faults>>

\* connect() succeeds, or fails for every address of the host.
nodewait_connect_thread(n, a) ==
    /\ Waits(n, a, "CONNECTING")
    /\ \/ up[Host[a]] /\ SetWait(n, a, "HANDSHAKE")
       \/ SetWait(n, a, "CONNECT_FAILED")
    /\ UNCHANGED <<kind, up, db, conns, refreshed, faults>>

\* The TLS session is made, which the other node accepts.
Connected(n, a) ==
    LET c == CHOOSE c \in Slots : /\ conns[c] = Free
                                  /\ \A d \in Slots : conns[d] = Free => c <= d
    IN  /\ \E d \in Slots : conns[d] = Free
        /\ conns' = [conns EXCEPT ![c] = [Free EXCEPT !.by = n, !.to = Host[a], !.via = a,
                        !.end = [s \in Sides |-> IF s = "out" THEN "THREAD" ELSE "NEWCONN"]]]
        /\ SetWait(n, a, "CONNECTED")

\* SSL_connect returns: the other node's event loop answers or its timer closes the
\* connection, or its process has ended.
SSL_connect(n, a) ==
    /\ \/ Waits(n, a, "HANDSHAKE") /\ Connected(n, a)
       \/ /\ Waits(n, a, "HANDSHAKE") \/ Waits(n, a, "BROKEN")
          /\ SetWait(n, a, "CONNECT_FAILED") /\ UNCHANGED conns
    /\ UNCHANGED <<kind, up, db, refreshed, faults>>

\* The socket blocks and has no time-out: when the other node has gone without a word, only
\* something it had not yet acknowledged makes the kernel give up.
SSL_connect_unacknowledged(n, a) ==
    /\ Waits(n, a, "HUNG")
    /\ SetWait(n, a, "CONNECT_FAILED")
    /\ UNCHANGED <<kind, up, db, conns, refreshed, faults>>

\* No thread could be made, or SSL_new failed: the state is never set again.
ThreadLost(n, a) ==
    /\ Waits(n, a, "RESOLVING") \/ Waits(n, a, "CONNECTING")
    /\ Fault
    /\ SetWait(n, a, "LOST")
    /\ UNCHANGED <<kind, up, db, conns, refreshed>>

\* Mutant: an address that is already connected is passed over.
process_nodewait_RESOLVED_Kept(n, a) ==
    /\ Waits(n, a, "RESOLVED")
    /\ SetWait(n, a, IF ByAddr(n, Host[a]) THEN "RESOLVED" ELSE "CONNECTING")
    /\ UNCHANGED <<kind, up, db, conns, refreshed, faults>>

process_nodewait_RESOLVED(n, a) ==
    /\ Waits(n, a, "RESOLVED")
    /\ SetWait(n, a, IF ByAddr(n, Host[a]) THEN "none" ELSE "CONNECTING")
    /\ UNCHANGED <<kind, up, db, conns, refreshed, faults>>

\* The thread has stored the address and then the state, without a lock or a barrier:
\* the event loop may see the second and not the first.
process_nodewait_CONNECTED(n, a) ==
    LET c == CHOOSE c \in Slots : /\ conns[c].by = n /\ conns[c].via = a
                                  /\ conns[c].end["out"] = "THREAD"
    IN  /\ Waits(n, a, "CONNECTED")
        /\ \E seen \in BOOLEAN :
             conns' = [conns EXCEPT ![c] =
                nodelink_wbuf_push([@ EXCEPT !.end["out"] = "LINK", !.addr = seen],
                                   "out", <<Msg("NODECONNREQ")>>)]
        /\ db' = [db EXCEPT ![n] = PICA_nodeaddr_update(@, a, TRUE)]
        /\ SetWait(n, a, "none")
        /\ UNCHANGED <<kind, up, refreshed, faults>>

process_nodewait_FAILED(n, a) ==
    /\ Waits(n, a, "RESOLVING_FAILED") \/ Waits(n, a, "CONNECT_FAILED")
    /\ db' = [db EXCEPT ![n] = PICA_nodeaddr_update(@, a, FALSE)]
    /\ SetWait(n, a, "none")
    /\ UNCHANGED <<kind, up, conns, refreshed, faults>>

process_nodewait(n, a) ==
    \/ process_nodewait_RESOLVED(n, a)
    \/ process_nodewait_CONNECTED(n, a)
    \/ process_nodewait_FAILED(n, a)

-----------------------------------------------------------------------------
(* The side that accepts: a struct newconn until the answer is written.    *)

procmsg_NODECONNREQ(c) ==
    /\ conns[c].end["in"] = "NEWCONN" /\ conns[c].q["in"] # <<>>
    /\ LET popped == Pop(conns[c], "in")
           answer == IF (kind[conns[c].by] = "old") = (kind[conns[c].to] = "old")
                     THEN "INITRESPOK" ELSE "VERDIFFER"
           answered == nodelink_wbuf_push(popped, "in", <<Msg(answer)>>)
       IN  \/ /\ answer = "INITRESPOK"
              /\ conns' = [conns EXCEPT ![c] = [answered EXCEPT !.end["in"] = "LINK"]]
              /\ UNCHANGED faults
           \/ /\ answer = "VERDIFFER"
              /\ \E conn \in Closed(answered, "in") : conns' = [conns EXCEPT ![c] = conn]
              /\ UNCHANGED faults
           \/ /\ answer = "INITRESPOK" /\ Fault
              /\ conns' = [conns EXCEPT ![c] = [popped EXCEPT !.end["in"] = "SENDINGOK"]]
    /\ UNCHANGED <<kind, up, db, nodewait, refreshed>>

\* The connection ends before the request, or is too old.
newconn_close(c) ==
    /\ conns[c].end["in"] \in {"NEWCONN", "SENDINGOK"}
    /\ FaultUnless(conns[c].end["in"] = "SENDINGOK" \/ conns[c].end["out"] = "GONE")
    /\ nodelink_list_delete(c, "in")
    /\ UNCHANGED <<kind, up, db, nodewait, refreshed>>

-----------------------------------------------------------------------------
(* process_n2n_read: one message of a link.                                *)

Reads(c, s, m) == IsLink(c, s) /\ conns[c].q[s] # <<>> /\ Head(conns[c].q[s]).m = m

\* Mutant: the list is asked for before the node announces itself.
procmsg_NODERESP_Swapped(c, s) ==
    /\ \/ /\ Reads(c, s, "INITRESPOK")
          /\ conns' = [conns EXCEPT ![c] =
                nodelink_wbuf_push(Pop(@, s), s, <<Msg("NODELISTREQ"), Msg("NEWNODE")>>)]
       \/ /\ Reads(c, s, "VERDIFFER")
          /\ nodelink_list_delete(c, s)
    /\ UNCHANGED <<kind, up, db, nodewait, refreshed, faults>>

procmsg_NODERESP(c, s) ==
    /\ \/ /\ Reads(c, s, "INITRESPOK")
          /\ conns' = [conns EXCEPT ![c] =
                nodelink_wbuf_push(Pop(@, s), s, <<Msg("NEWNODE"), Msg("NODELISTREQ")>>)]
       \/ /\ Reads(c, s, "VERDIFFER")
          /\ nodelink_list_delete(c, s)
    /\ UNCHANGED <<kind, up, db, nodewait, refreshed, faults>>

\* A node there is already a link with, or in a private range, is disconnected.
procmsg_NEWNODE(c, s) ==
    LET p == Peer(c, s)
    IN  /\ Reads(c, s, "NEWNODE")
        /\ IF nodelink_search_by_ipv4addr(At(c, s), p) \/ kind[p] = "private"
           THEN nodelink_list_delete(c, s) /\ UNCHANGED db
           ELSE /\ conns' = [conns EXCEPT ![c] = [Pop(@, s) EXCEPT !.node_addr[s] = TRUE]]
                /\ db' = [db EXCEPT ![At(c, s)] = PICA_nodeaddr_save(@, {p})]
        /\ UNCHANGED <<kind, up, nodewait, refreshed, faults>>

\* The answer has the node's own address and those of its links but the asker's.
procmsg_NODELISTREQ(c, s) ==
    LET others == {p \in Nodes \ {Peer(c, s)} : ByNodeAddr(At(c, s), p)}
    IN  /\ Reads(c, s, "NODELISTREQ")
        /\ conns' = [conns EXCEPT ![c] =
              nodelink_wbuf_push(Pop(@, s), s, <<[m |-> "NODELIST", nodes |-> others]>>)]
        /\ UNCHANGED <<kind, up, db, nodewait, refreshed, faults>>

procmsg_NODELIST(c, s) ==
    LET new == {p \in Head(conns[c].q[s]).nodes : kind[p] # "private"}
    IN  /\ Reads(c, s, "NODELIST")
        /\ conns' = [conns EXCEPT ![c] = [Pop(@, s) EXCEPT !.node_addr[s] = TRUE]]
        /\ db' = [db EXCEPT ![At(c, s)] = PICA_nodeaddr_save(@, new)]
        /\ UNCHANGED <<kind, up, nodewait, refreshed, faults>>

procmsg_PINGREQ_node(c, s) ==
    /\ Reads(c, s, "PINGREQ")
    /\ conns' = [conns EXCEPT ![c] = nodelink_wbuf_push(Pop(@, s), s, <<Msg("PINGREP")>>)]
    /\ UNCHANGED <<kind, up, db, nodewait, refreshed, faults>>

procmsg_PINGREP_node(c, s) ==
    /\ Reads(c, s, "PINGREP")
    /\ conns' = [conns EXCEPT ![c] = [Pop(@, s) EXCEPT !.ticking[s] = FALSE]]
    /\ UNCHANGED <<kind, up, db, nodewait, refreshed, faults>>

\* The other end has closed the connection, or it breaks.
process_n2n_EOF(c, s) ==
    /\ IsLink(c, s)
    /\ conns[c].q[s] = <<>> /\ conns[c].end[Other(s)] = "GONE" /\ ~conns[c].silent
    /\ nodelink_list_delete(c, s)
    /\ UNCHANGED <<kind, up, db, nodewait, refreshed, faults>>

process_n2n_error(c, s) ==
    /\ IsLink(c, s) /\ Fault
    /\ nodelink_list_delete(c, s)
    /\ UNCHANGED <<kind, up, db, nodewait, refreshed>>

-----------------------------------------------------------------------------
(* process_timeouts_n2n                                                    *)

\* Mutant: the time of the ping is not remembered.
Ping_NotTicking(c, s) ==
    /\ IsLink(c, s) /\ ~conns[c].ticking[s]
    /\ \A t \in Sides : conns[c].q[t] = <<>>
    /\ conns' = [conns EXCEPT ![c] = nodelink_wbuf_push(@, s, <<Msg("PINGREQ")>>)]
    /\ UNCHANGED <<kind, up, db, nodewait, refreshed, faults>>

\* Bound: a ping is sent when nothing else is on its way, as after a minute of silence.
Ping(c, s) ==
    /\ IsLink(c, s) /\ ~conns[c].ticking[s]
    /\ \A t \in Sides : conns[c].q[t] = <<>>
    /\ conns' = [conns EXCEPT ![c] =
          nodelink_wbuf_push([@ EXCEPT !.ticking[s] = TRUE], s, <<Msg("PINGREQ")>>)]
    /\ UNCHANGED <<kind, up, db, nodewait, refreshed, faults>>

\* No PINGREP in time, whether it is still on its way or not.
NoReply(c, s) ==
    /\ IsLink(c, s) /\ conns[c].ticking[s]
    /\ FaultUnless(conns[c].end[Other(s)] # "LINK")
    /\ nodelink_list_delete(c, s)
    /\ UNCHANGED <<kind, up, db, nodewait, refreshed>>

-----------------------------------------------------------------------------
(* A node stops, with or without its kernel closing the connections, and   *)
(* starts again with its database.                                         *)

Crash(n) ==
    \E silent \in BOOLEAN :
        LET After(conn) ==
              IF n \notin {conn.by, conn.to} THEN conn
              ELSE LET ends == [s \in Sides |-> IF n = IF s = "out" THEN conn.by ELSE conn.to
                                                THEN "GONE" ELSE conn.end[s]]
                   IN  IF \A s \in Sides : ends[s] = "GONE" THEN Free
                       ELSE [conn EXCEPT !.end = ends, !.silent = @ \/ silent,
                                !.addr = @ /\ ends["out"] # "GONE",
                                !.q = [s \in Sides |-> IF ends[s] = "GONE" THEN <<>> ELSE @[s]],
                                !.node_addr = [s \in Sides |-> @[s] /\ ends[s] # "GONE"],
                                !.ticking = [s \in Sides |-> @[s] /\ ends[s] # "GONE"]]
        IN  /\ up[n] /\ Fault
            /\ up' = [up EXCEPT ![n] = FALSE]
            /\ nodewait' = [m \in Nodes |-> [a \in Addrs |->
                    IF m = n THEN "none"
                    ELSE IF nodewait[m][a] = "HANDSHAKE" /\ Host[a] = n
                    THEN IF silent THEN "HUNG" ELSE "BROKEN"
                    ELSE nodewait[m][a]]]
            /\ conns' = [c \in Slots |-> After(conns[c])]
            /\ UNCHANGED <<kind, db, refreshed>>

Restart(n) ==
    /\ ~up[n]
    /\ up' = [up EXCEPT ![n] = TRUE]
    /\ UNCHANGED <<kind, db, nodewait, conns, refreshed, faults>>

-----------------------------------------------------------------------------
Thread(n, a) ==
    nodewait_resolve_thread(n, a) \/ nodewait_connect_thread(n, a) \/ SSL_connect(n, a)

process_n2n_read(c, s) ==
    \/ procmsg_NODERESP(c, s) \/ procmsg_NEWNODE(c, s)
    \/ procmsg_NODELISTREQ(c, s) \/ procmsg_NODELIST(c, s)
    \/ procmsg_PINGREQ_node(c, s) \/ procmsg_PINGREP_node(c, s)
    \/ process_n2n_EOF(c, s)

process_timeouts_n2n(c, s) == Ping(c, s) \/ NoReply(c, s)

Next ==
    \/ \E n \in Nodes : process_timeouts(n) \/ Crash(n) \/ Restart(n)
    \/ \E n \in Nodes, a \in Addrs :
          \/ Thread(n, a) \/ process_nodewait(n, a)
          \/ ThreadLost(n, a) \/ SSL_connect_unacknowledged(n, a)
    \/ \E c \in Slots : procmsg_NODECONNREQ(c) \/ newconn_close(c)
    \/ \E c \in Slots, s \in Sides :
          process_n2n_read(c, s) \/ process_n2n_error(c, s) \/ process_timeouts_n2n(c, s)

Spec == Init /\ [][Next]_vars

\* The resolver and connect() give up after a time, a node that is there answers a TLS
\* handshake or its kernel closes the connection, the timer goes off every second, and the
\* event loop reads what comes and notices the end of a connection.  Nothing ends a
\* handshake with a node that has gone without a word.
Fairness ==
    /\ \A n \in Nodes, a \in Addrs :
          WF_vars(Thread(n, a)) /\ WF_vars(process_nodewait(n, a))
    /\ \A c \in Slots, s \in Sides :
          /\ WF_vars(process_n2n_read(c, s))
          /\ WF_vars(process_timeouts_n2n(c, s))

FairSpec == Spec /\ Fairness

-----------------------------------------------------------------------------
(* Properties.                                                             *)

\* A link both nodes have and the accepting one has taken the announcement of.
Established(c) == IsLink(c, "out") /\ IsLink(c, "in") /\ conns[c].node_addr["in"]

\* Two nodes never have two links with each other, and none has one with itself, though
\* both may connect at the same time, by several addresses, while older links break
\* (procmsg_NEWNODE refuses the second); unless the address of one of them was not yet
\* visible to the event loop when it took the connection over from its thread.
OneLinkPerPair ==
    \A c, d \in Slots :
        (/\ Established(c) /\ Established(d)
         /\ {conns[c].by, conns[c].to} = {conns[d].by, conns[d].to}
         /\ conns[c].addr /\ conns[d].addr)
            => c = d /\ conns[c].by # conns[c].to

\* The address of a node that has announced itself on a link stays in the database while
\* the link is there, whatever attempts to reach it fail meanwhile (PICA_nodeaddr_save
\* resets inactive_count, PICA_nodeaddr_cleanold deletes old addresses).
KnowsItsPeers ==
    \A c \in Slots : (IsLink(c, "in") /\ conns[c].node_addr["in"])
                        => conns[c].by \in DOMAIN db[conns[c].to]

\* NODELISTREQ is never handled on a link whose node_addr is still null
\* (procmsg_NODELISTREQ compares n->node_addr with those of the links).
RequesterKnown ==
    \A c \in Slots, s \in Sides : Reads(c, s, "NODELISTREQ") => conns[c].node_addr[s]

\* A link whose other end is gone is given up, also when nothing tells the node
\* (process_timeouts_n2n): no connection stays half open for ever.
HalfOpenEnds ==
    \A c \in Slots :
        []<>(\A s \in Sides : IsLink(c, s) => conns[c].end[Other(s)] # "GONE")

\* An attempt no thread will ever end: it holds up the refreshes of its node.
Stuck(n, a) == nodewait[n][a] \in {"LOST", "HUNG"}

\* The attempts to reach other nodes end, through failing look-ups, refused connections,
\* links that came up meanwhile and nodes that stop in the middle of the handshake, so that
\* the next refresh, which needs an empty nodewait_list, can come (process_nodewait).  What
\* remains for ever is an entry whose thread was lost or whose peer went without a word
\* while SSL_connect waited for it; and it does not hold up the attempts beside it.
AttemptsEnd ==
    \A n \in Nodes : []<>(\A a \in Addrs : nodewait[n][a] = "none" \/ Stuck(n, a))
=============================================================================
