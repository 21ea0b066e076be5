------------------------------ MODULE NodeCalls ------------------------------
(****************************************************************************)
(* Call set-up on one pica-node (PICA_node.c).                              *)
(*                                                                          *)
(* The node is one libevent loop.  Every action below is one run of one     *)
(* callback: a connection accepted, a socket readable, the one-second       *)
(* timer.  The environment (any number of peers, sending what they like) is *)
(* the choice of the next callback and of what it reads.                    *)
(*                                                                          *)
(* State kept by the code and by the model:                                 *)
(*   newconns   the fixed table of accepted, not yet identified connections *)
(*   clients    struct client: control connections (the client_list)        *)
(*   tree       client_tree, abstracted to the map the search implements:   *)
(*              id -> primary control connection of that id.  It is that    *)
(*              map until a client with two children has been removed       *)
(*              (ClientTree), and the model ends there                      *)
(*   links      struct cclink: calls being set up, and active ones          *)
(*   sent       the messages this callback pushed to control connections    *)
(*   undefined  a freed struct was used, or a client with two children in   *)
(*              the tree was removed: nothing more is known of the node     *)
(*                                                                          *)
(* A pointer to a freed struct is the value Freed.  Time is kept as ages    *)
(* (now - tmst), saturated one above the limit they are compared with.      *)
(* Calls that leave the node (nodelinks) are not part of this module.  One  *)
(* read of a new connection may hold several requests, and the handlers do  *)
(* not ask whether theirs is the first (CONNID fills the buffer and comes   *)
(* alone); there is no read after it.                                       *)
(****************************************************************************)
EXTENDS Integers, FiniteSets

CONSTANTS
    Ids,                    \* identities in client certificates
    Ips,                    \* peer addresses
    ClientSlots,            \* bound on control connections (malloc'ed in the code)
    LinkSlots,              \* bound on calls (malloc'ed in the code)
    MAX_NEWCONNS,           \* size of the newconns table
    NEWCONN_TIMEOUT, NOREPLY_TIMEOUT, KEEPALIVE_TIMEOUT, TMO_CCLINK_WAITACTIVE,
    None,                   \* NULL, the all-zero id, the socket -1
    Freed                   \* a pointer whose target was freed

ASSUME NoneAssumption ==
    /\ None \notin Ids \cup Ips \cup ClientSlots \cup LinkSlots \cup {Freed}
    /\ Freed \notin ClientSlots \cup LinkSlots

ASSUME SizeAssumption == MAX_NEWCONNS \in Nat \ {0}

\* 10 seconds against 60 in the code (lines 56-61).
ASSUME TimeoutAssumption ==
    /\ NEWCONN_TIMEOUT \in Nat /\ NOREPLY_TIMEOUT \in Nat
    /\ KEEPALIVE_TIMEOUT \in Nat /\ TMO_CCLINK_WAITACTIVE \in Nat
    /\ NEWCONN_TIMEOUT <= KEEPALIVE_TIMEOUT

VARIABLES newconns, newconns_pos, clients, tree, links, sent, undefined

vars == <<newconns, newconns_pos, clients, tree, links, sent, undefined>>

-----------------------------------------------------------------------------
(* Structures *)

NewconnSlots == 0 .. MAX_NEWCONNS - 1

NewconnStates == {"FREE", "WAITANONTLSACCEPT", "WAITREQUEST", "SENDINGOK",
                  "SENDINGREJECT", "WAITANONTLSSHUTDOWN"}

ClientStates == {"FREE", "WAITANONTLSSHUTDOWN", "TLSNEGOTIATION", "CONNECTED",
                 "MULTILOGIN_SECONDARY"}

\* The LOCAL_ states of PICA_node.h, in the order a call goes through them.
LinkStates == {"FREE", "WAITREP", "WAITCONNCLE", "WAITCONNCLEANONTLSSHUTDOWN",
               "WAITCONNCLR", "WAITCONNCLRANONTLSSHUTDOWN", "ACTIVE"}

\* struct newconn; the union iconn is the pair cl, cc of which at most one is set.
Newconn == [state : NewconnStates, ip : Ips \cup {None}, age : Nat,
            cl : ClientSlots \cup {None, Freed}, cc : LinkSlots \cup {None, Freed}]

Client == [state : ClientStates, ip : Ips \cup {None}, id : Ids \cup {None},
           age : Nat, ticking : BOOLEAN]

\* struct cclink; a joined socket is known by the address it came from.
Link == [state : LinkStates, p1 : ClientSlots \cup {None}, p2 : ClientSlots \cup {None},
         sck_p1 : Ips \cup {None}, sck_p2 : Ips \cup {None}, age : Nat]

FreeNewconn == [state |-> "FREE", ip |-> None, age |-> 0, cl |-> None, cc |-> None]

FreeClient == [state |-> "FREE", ip |-> None, id |-> None, age |-> 0, ticking |-> FALSE]

FreeLink == [state |-> "FREE", p1 |-> None, p2 |-> None,
             sck_p1 |-> None, sck_p2 |-> None, age |-> 0]

Message == [to : ClientSlots,
            type : {"CONNREQINC", "NOTFOUND", "FOUND", "PINGREQ", "PINGREP", "MULTILOGIN"},
            id : Ids \cup {None}]

Push(c, type, id) == [to |-> c, type |-> type, id |-> id]

Init ==
    /\ newconns = [n \in NewconnSlots |-> FreeNewconn]
    /\ newconns_pos = 0
    /\ clients = [c \in ClientSlots |-> FreeClient]
    /\ tree = [i \in Ids |-> None]
    /\ links = [l \in LinkSlots |-> FreeLink]
    /\ sent = {}
    /\ undefined = FALSE

-----------------------------------------------------------------------------
(* Lookups *)

\* The client_tree is the map from an id to its primary, or None.
client_tree_search(id) == tree[id]

client_tree_add(c, id) == tree' = [tree EXCEPT ![id] = c]

LiveNewconns == {n \in NewconnSlots : newconns[n].state # "FREE"}
LiveClients == {c \in ClientSlots : clients[c].state # "FREE"}
LiveLinks == {l \in LinkSlots : links[l].state # "FREE"}

\* caller_id and callee_id point into the client structs.
CallerId(l) == clients[links[l].p1].id
CalleeId(l) == clients[links[l].p2].id

\* Mutant of cclink_list_search: calls that ring no longer are overlooked.
cclink_list_search_RingingOnly(caller, callee) ==
    {l \in LiveLinks : /\ CallerId(l) = caller /\ CalleeId(l) = callee
                       /\ links[l].state = "WAITREP"}

\* The links cclink_list_search may return; UniquePair says there is at most one.
cclink_list_search(caller, callee) ==
    {l \in LiveLinks : CallerId(l) = caller /\ CalleeId(l) = callee}

-----------------------------------------------------------------------------
(* Deletion.  newconn_close deletes the client or the link the connection    *)
(* is becoming; client_list_delete takes the client out of the tree or of   *)
(* the chain of its id and deletes its links; cclink_list_delete frees the   *)
(* link.  Nobody tells the newconns: their pointers dangle.  The operators    *)
(* below give the effect of deleting newconns N, clients C and links L in    *)
(* one callback.                                                             *)

client_list_delete(N, C) ==
    C \cup {c \in ClientSlots : \E n \in N : newconns[n].cl = c}

\* Mutant of cclink_list_delete: only the calls the client has made go with it.
cclink_list_delete_CallerOnly(N, L, gone) ==
    L \cup {l \in LiveLinks : \/ \E n \in N : newconns[n].cc = l
                              \/ links[l].p1 \in gone}

cclink_list_delete(N, L, gone) ==
    L \cup {l \in LiveLinks : \/ \E n \in N : newconns[n].cc = l
                              \/ links[l].p1 \in gone
                              \/ links[l].p2 \in gone}

UsesFreed(n) == newconns[n].cl = Freed \/ newconns[n].cc = Freed

\* Connections left open keep their pointer, which may now be to freed memory.
newconn_close(N, goneC, goneL) ==
    [n \in NewconnSlots |->
        IF n \in N THEN FreeNewconn
        ELSE [newconns[n] EXCEPT !.cl = IF @ \in goneC THEN Freed ELSE @,
                                 !.cc = IF @ \in goneL THEN Freed ELSE @]]

\* client_tree_replace_multi: when the primary of an id goes, a secondary of that
\* id (the next in the chain; the chain's order is not modelled here) takes its
\* place, and when there is none the id leaves the tree.
Secondaries(i, goneC) ==
    {c \in ClientSlots \ goneC : /\ clients[c].state = "MULTILOGIN_SECONDARY"
                                 /\ clients[c].id = i}

\* Mutant of Heirs: the id leaves the tree though it has secondaries.
Heirs_None(i, goneC) == {None}

Heirs(i, goneC) ==
    IF Secondaries(i, goneC) = {} THEN {None} ELSE Secondaries(i, goneC)

client_tree_remove(goneC) ==
    \A i \in Ids : IF tree[i] \in goneC THEN tree'[i] \in Heirs(i, goneC)
                                        ELSE tree'[i] = tree[i]

Promoted(i, goneC, c) == tree[i] \in goneC /\ tree'[i] = c

ClientsWithout(goneC, cs) ==
    [c \in ClientSlots |->
        IF c \in goneC THEN FreeClient
        ELSE IF \E i \in Ids : Promoted(i, goneC, c)
             THEN [cs[c] EXCEPT !.state = "CONNECTED"]
             ELSE cs[c]]

LinksWithout(goneL) ==
    [l \in LinkSlots |-> IF l \in goneL THEN FreeLink ELSE links[l]]

\* An id leaves the tree while two others are in it: its client may have had two
\* children, whose up pointers client_tree_remove does not set.
MayHaveTwoChildren(goneC) ==
    \E i, j, k \in Ids :
        /\ tree[i] \in goneC /\ Secondaries(i, goneC) = {}
        /\ i # j /\ j # k /\ k # i
        /\ tree[j] # None /\ tree[k] # None

\* Everything a deletion changes but the newconns; cs is the client table the
\* rest of the callback has produced.
Delete(N, C, L, cs) ==
    LET goneC == client_list_delete(N, C)
    IN  /\ tree' \in [Ids -> ClientSlots \cup {None}]
        /\ client_tree_remove(goneC)
        /\ undefined' \in IF MayHaveTwoChildren(goneC) THEN BOOLEAN ELSE {undefined}
        /\ clients' = ClientsWithout(goneC, cs)
        /\ links' = LinksWithout(cclink_list_delete(N, L, goneC))

NewconnsAfter(N, C, L) ==
    LET goneC == client_list_delete(N, C)
    IN  newconn_close(N, goneC, cclink_list_delete(N, L, goneC))

\* Use of a freed struct: from here on the behaviour is not defined.
UseFreed ==
    /\ undefined' = TRUE
    /\ UNCHANGED <<newconns, newconns_pos, clients, tree, links, sent>>

CloseNewconn(n) ==
    IF UsesFreed(n)
    THEN UseFreed
    ELSE /\ newconns' = NewconnsAfter({n}, {}, {})
         /\ Delete({n}, {}, {}, clients)
         /\ sent' = {}
         /\ UNCHANGED newconns_pos

-----------------------------------------------------------------------------
(* New connections *)

\* newconn_add: the slot at the cursor if free, else the first free one, else the
\* oldest one (the first of them), whose connection is closed.
IsFree(n) == newconns[n].state = "FREE"

TableFull == \A n \in NewconnSlots : ~IsFree(n)

newconn_add(n) ==
    IF newconns_pos < MAX_NEWCONNS /\ newconns[newconns_pos].state = "FREE"
    THEN n = newconns_pos
    ELSE IF TableFull
         THEN \A m \in NewconnSlots :
                 \/ newconns[m].age < newconns[n].age
                 \/ newconns[m].age = newconns[n].age /\ n <= m
         ELSE /\ IsFree(n)
              /\ \A m \in NewconnSlots : IsFree(m) => n <= m

\* Mutant of NextPos: the cursor is advanced without regard to the slot taken.
NextPos_FromCursor(slot) == newconns_pos + 1

\* The cursor is left after the slot that was taken.
NextPos(slot) == slot + 1

\* One turn of the accept loop.
process_listen_read(ip, slot) ==
    LET evicted == IF TableFull THEN {slot} ELSE {}
    IN  /\ ~undefined
        /\ newconn_add(slot)
        /\ IF \E n \in evicted : UsesFreed(n)
           THEN UseFreed
           ELSE /\ newconns' = [NewconnsAfter(evicted, {}, {}) EXCEPT
                                  ![slot] = [FreeNewconn EXCEPT !.state = "WAITANONTLSACCEPT",
                                                                !.ip = ip]]
                /\ newconns_pos' = NextPos(slot)
                /\ Delete(evicted, {}, {}, clients)
                /\ sent' = {}

\* Reading from, or answering on, a new connection fails: newconn_close.
newconn_fail(n) ==
    /\ ~undefined
    /\ ~IsFree(n)
    /\ CloseNewconn(n)

\* SSL_accept has finished and no request has arrived with it.
newconn_accepted(n) ==
    /\ ~undefined
    /\ newconns[n].state = "WAITANONTLSACCEPT"
    /\ newconns' = [newconns EXCEPT ![n].state = "WAITREQUEST"]
    /\ sent' = {}
    /\ UNCHANGED <<newconns_pos, clients, tree, links, undefined>>

\* The control connection a new connection becomes, one for each INITREQ with the
\* node's version.  Only the last of them stays with the connection.
client_list_addnew(n) ==
    [FreeClient EXCEPT !.state = "WAITANONTLSSHUTDOWN", !.ip = newconns[n].ip]

Requests(n, C) ==
    /\ newconns[n].state = "WAITREQUEST"
    /\ \A c \in C : clients[c].state = "FREE"
    /\ clients' = [c \in ClientSlots |-> IF c \in C THEN client_list_addnew(n) ELSE clients[c]]

\* A read that ends with an INITREQ for the node's version, which adds c: INITRESPOK is
\* written at once (written) or waits for the next read event (~written).
procmsg_INITREQ(n, C, c, written) ==
    /\ ~undefined
    /\ Requests(n, C) /\ c \in C
    /\ newconns' = [newconns EXCEPT
                      ![n].cl = c,
                      ![n].state = IF written THEN "WAITANONTLSSHUTDOWN" ELSE "SENDINGOK"]
    /\ sent' = {}
    /\ UNCHANGED <<newconns_pos, tree, links, undefined>>

\* A read that ends with an INITREQ or, with cl = None, a NODECONNREQ for another version:
\* VERDIFFER could not be written yet (when it can, the connection is closed at once,
\* which is newconn_fail).
procmsg_INITREQ_rejected(n, C, cl) ==
    /\ ~undefined
    /\ Requests(n, C) /\ cl \in C \cup {None}
    /\ newconns' = [newconns EXCEPT ![n].cl = cl, ![n].state = "SENDINGREJECT"]
    /\ sent' = {}
    /\ UNCHANGED <<newconns_pos, tree, links, undefined>>

\* A read that ends with a NODECONNREQ: iconn.cl no longer counts, and when INITRESPOK
\* has been written the connection becomes a nodelink and the slot is free.
procmsg_NODECONNREQ(n, C, written) ==
    /\ ~undefined
    /\ Requests(n, C)
    /\ newconns' = [newconns EXCEPT ![n] = IF written THEN FreeNewconn
                                           ELSE [@ EXCEPT !.state = "SENDINGOK"]]
    /\ sent' = {}
    /\ UNCHANGED <<newconns_pos, tree, links, undefined>>

\* The pending INITRESPOK is written (a pending VERDIFFER ends in newconn_fail).
process_newconn_write(n) ==
    /\ ~undefined
    /\ newconns[n].state = "SENDINGOK"
    /\ newconns' = [newconns EXCEPT ![n] = IF newconns[n].cl = None THEN FreeNewconn
                                           ELSE [@ EXCEPT !.state = "WAITANONTLSSHUTDOWN"]]
    /\ sent' = {}
    /\ UNCHANGED <<newconns_pos, clients, tree, links, undefined>>

\* Mutant of ExpectedIp: the two ends are swapped.
ExpectedIp_Swapped(l) ==
    IF links[l].state = "WAITCONNCLE" THEN clients[links[l].p1].ip
                                      ELSE clients[links[l].p2].ip

\* The address the joining connection has to come from.
ExpectedIp(l) ==
    IF links[l].state = "WAITCONNCLE" THEN clients[links[l].p2].ip
                                      ELSE clients[links[l].p1].ip

\* Mutant of Joinable: any call that has been allowed can be joined.
Joinable_Always(l) == links[l].state # "WAITREP"

Joinable(l) == links[l].state \in {"WAITCONNCLE", "WAITCONNCLR"}

\* cclink_setwaitanontlsshutdown: the connection becomes one end of the link.
cclink_setwaitanontlsshutdown(l, n) ==
    IF links[l].state = "WAITCONNCLE"
    THEN [links[l] EXCEPT !.sck_p2 = newconns[n].ip, !.state = "WAITCONNCLEANONTLSSHUTDOWN"]
    ELSE [links[l] EXCEPT !.sck_p1 = newconns[n].ip, !.state = "WAITCONNCLRANONTLSSHUTDOWN"]

\* CONNID for a call that waits for this end, from the right address.
procmsg_CONNID(n, caller, callee) ==
    /\ ~undefined
    /\ newconns[n].state = "WAITREQUEST"
    /\ \E l \in cclink_list_search(caller, callee) :
          /\ Joinable(l)
          /\ newconns[n].ip = ExpectedIp(l)
          /\ newconns' = [newconns EXCEPT ![n].cc = l, ![n].state = "WAITANONTLSSHUTDOWN"]
          /\ links' = [links EXCEPT ![l] = cclink_setwaitanontlsshutdown(l, n)]
    /\ sent' = {}
    /\ UNCHANGED <<newconns_pos, clients, tree, undefined>>

\* CONNID for anything else: the connection is closed.
procmsg_CONNID_refused(n, caller, callee) ==
    /\ ~undefined
    /\ newconns[n].state = "WAITREQUEST"
    /\ \A l \in cclink_list_search(caller, callee) :
          Joinable(l) => newconns[n].ip # ExpectedIp(l)
    /\ CloseNewconn(n)

\* Mutant of cclink_activate: the call is active as soon as the callee has joined.
cclink_activate_AtOnce(l) == [links[l] EXCEPT !.state = "ACTIVE"]

\* Mutant of cclink_sendcleconnected: FOUND is pushed when either end has joined.
cclink_sendcleconnected_Always(l) == {Push(links[l].p1, "FOUND", CalleeId(l))}

\* The anonymous TLS layer of a connection is shut down: its client goes on to the
\* authenticated handshake, or its link to the next state (cclink_sendcleconnected,
\* cclink_activate), and the slot is released without closing (newconn_free).
cclink_activate(l) ==
    IF links[l].state = "WAITCONNCLEANONTLSSHUTDOWN"
    THEN [links[l] EXCEPT !.state = "WAITCONNCLR"]
    ELSE [links[l] EXCEPT !.state = "ACTIVE"]

cclink_sendcleconnected(l) ==
    IF links[l].state = "WAITCONNCLEANONTLSSHUTDOWN"
    THEN {Push(links[l].p1, "FOUND", CalleeId(l))}
    ELSE {}

newconn_shutdown(n) ==
    /\ ~undefined
    /\ newconns[n].state = "WAITANONTLSSHUTDOWN"
    /\ IF UsesFreed(n)
       THEN UseFreed
       ELSE /\ newconns' = [newconns EXCEPT ![n] = FreeNewconn]
            /\ \/ \E c \in ClientSlots :
                     /\ newconns[n].cl = c
                     /\ clients' = [clients EXCEPT ![c].state = "TLSNEGOTIATION"]
                     /\ sent' = {}
                     /\ UNCHANGED links
               \/ \E l \in LinkSlots :
                     /\ newconns[n].cc = l
                     /\ links' = [links EXCEPT ![l] = cclink_activate(l)]
                     /\ sent' = cclink_sendcleconnected(l)
                     /\ UNCHANGED clients
            /\ UNCHANGED <<newconns_pos, tree, undefined>>

-----------------------------------------------------------------------------
(* Control connections *)

\* The authenticated handshake ends with the id of the peer's certificate: the
\* first connection of an id is its primary, the others are secondaries.
c2n_authenticated(c, id) ==
    /\ ~undefined
    /\ clients[c].state = "TLSNEGOTIATION"
    /\ IF client_tree_search(id) = None
       THEN /\ client_tree_add(c, id)
            /\ clients' = [clients EXCEPT ![c].id = id, ![c].state = "CONNECTED"]
       ELSE /\ clients' = [clients EXCEPT ![c].id = id, ![c].state = "MULTILOGIN_SECONDARY"]
            /\ UNCHANGED tree
    /\ sent' = {}
    /\ UNCHANGED <<newconns, newconns_pos, links, undefined>>

DeleteClient(c, cs) ==
    /\ newconns' = NewconnsAfter({}, {c}, {})
    /\ Delete({}, {c}, {}, cs)

\* The handshake fails, or the peer closes, or a read or a write fails.
c2n_fail(c) ==
    /\ ~undefined
    /\ clients[c].state \in {"TLSNEGOTIATION", "CONNECTED", "MULTILOGIN_SECONDARY"}
    /\ DeleteClient(c, clients)
    /\ sent' = {}
    /\ UNCHANGED newconns_pos

\* A call that rings; no socket has joined it.
cclink_list_addlocal(i, o) ==
    [FreeLink EXCEPT !.state = "WAITREP", !.p1 = i, !.p2 = o]

\* CONNREQOUTG from i: rings the primary of callee and starts its reply timer.  A
\* second request for the pair and a call to oneself are ignored.
procmsg_CONNREQOUTG(i, callee) ==
    LET o == client_tree_search(callee)
    IN  /\ ~undefined
        /\ clients[i].state = "CONNECTED"
        /\ \/ /\ o = None
              /\ sent' = {Push(i, "NOTFOUND", callee)}
              /\ UNCHANGED <<clients, links>>
           \/ /\ o # None
              /\ \/ cclink_list_search(clients[i].id, callee) # {}
                 \/ clients[i].id = callee
              /\ sent' = {}
              /\ UNCHANGED <<clients, links>>
           \/ /\ o # None
              /\ cclink_list_search(clients[i].id, callee) = {}
              /\ clients[i].id # callee
              /\ \E l \in LinkSlots \ LiveLinks :
                    links' = [links EXCEPT ![l] = cclink_list_addlocal(i, o)]
              /\ clients' = [clients EXCEPT ![o].age = 0, ![o].ticking = TRUE]
              /\ sent' = {Push(o, "CONNREQINC", clients[i].id)}
        /\ UNCHANGED <<newconns, newconns_pos, tree, undefined>>

\* An answer stops the callee's reply timer whatever else happens.
Answered(c) == [clients EXCEPT ![c].age = 0, ![c].ticking = FALSE]

Ringing(l) == links[l].state = "WAITREP"

\* CONNALLOW: the call goes on to WAITCONNCLE; an answer to a call that is not
\* ringing makes the handler return 0, and process_c2n_read deletes the client.
procmsg_CONNALLOW(c, caller) ==
    LET found == cclink_list_search(caller, clients[c].id)
    IN  /\ ~undefined
        /\ clients[c].state = "CONNECTED"
        /\ \/ /\ \E l \in found :
                    /\ Ringing(l)
                    /\ links' = [links EXCEPT ![l].state = "WAITCONNCLE"]
              /\ clients' = Answered(c)
              /\ UNCHANGED <<newconns, tree, undefined>>
           \/ /\ \A l \in found : ~Ringing(l)
              /\ DeleteClient(c, Answered(c))
        /\ sent' = {}
        /\ UNCHANGED newconns_pos

\* CONNDENY: the ringing call is deleted and its caller told.  A denial that finds
\* no ringing call deletes the callee (and with it the call it names).
procmsg_CONNDENY(c, caller) ==
    LET found == cclink_list_search(caller, clients[c].id)
    IN  /\ ~undefined
        /\ clients[c].state = "CONNECTED"
        /\ \/ \E l \in found :
                 /\ Ringing(l)
                 /\ newconns' = NewconnsAfter({}, {}, {l})
                 /\ Delete({}, {}, {l}, Answered(c))
                 /\ sent' = {Push(links[l].p1, "NOTFOUND", clients[c].id)}
           \/ /\ \A l \in found : ~Ringing(l)
              /\ DeleteClient(c, Answered(c))
              /\ sent' = {}
        /\ UNCHANGED newconns_pos

Online(c) == clients[c].state \in {"CONNECTED", "MULTILOGIN_SECONDARY"}

procmsg_PINGREQ_client(c) ==
    /\ ~undefined
    /\ Online(c)
    /\ sent' = {Push(c, "PINGREP", None)}
    /\ UNCHANGED <<newconns, newconns_pos, clients, tree, links, undefined>>

procmsg_PINGREP_client(c) ==
    /\ ~undefined
    /\ Online(c)
    /\ clients' = Answered(c)
    /\ sent' = {}
    /\ UNCHANGED <<newconns, newconns_pos, tree, links, undefined>>

\* MULTILOGIN is passed to the other connections in the chain of the sender's id.
procmsg_MULTILOGIN_client(c) ==
    /\ ~undefined
    /\ Online(c)
    /\ sent' = {Push(o, "MULTILOGIN", clients[c].id) :
                   o \in {o \in ClientSlots \ {c} : Online(o) /\ clients[o].id = clients[c].id}}
    /\ UNCHANGED <<newconns, newconns_pos, clients, tree, links, undefined>>

\* A socket of an active call is closed by its peer or fails.
process_c2c_fail(l) ==
    /\ ~undefined
    /\ links[l].state = "ACTIVE"
    /\ newconns' = NewconnsAfter({}, {}, {l})
    /\ Delete({}, {}, {l}, clients)
    /\ sent' = {}
    /\ UNCHANGED newconns_pos

-----------------------------------------------------------------------------
(* Time *)

Older(age, limit) == IF age > limit THEN age ELSE age + 1

\* A second passes.
Second ==
    /\ ~undefined
    /\ newconns' = [n \in NewconnSlots |->
                      IF IsFree(n) THEN newconns[n]
                      ELSE [newconns[n] EXCEPT !.age = Older(@, NEWCONN_TIMEOUT)]]
    /\ clients' = [c \in ClientSlots |->
                      IF clients[c].state = "FREE" THEN clients[c]
                      ELSE [clients[c] EXCEPT
                              !.age = Older(@, IF clients[c].ticking THEN NOREPLY_TIMEOUT
                                                                     ELSE KEEPALIVE_TIMEOUT)]]
    /\ links' = [l \in LinkSlots |->
                      IF links[l].state \in {"FREE", "ACTIVE"} THEN links[l]
                      ELSE [links[l] EXCEPT !.age = Older(@, TMO_CCLINK_WAITACTIVE)]]
    /\ sent' = {}
    /\ UNCHANGED <<newconns_pos, tree, undefined>>

\* Mutant of process_timeouts_newconn: a connection whose request has been accepted is
\* left to the timeouts of its client.
process_timeouts_newconn_Requested ==
    {n \in LiveNewconns : newconns[n].age > NEWCONN_TIMEOUT /\ newconns[n].cl = None}

process_timeouts_newconn ==
    {n \in LiveNewconns : newconns[n].age > NEWCONN_TIMEOUT}

\* Clients that did not answer in time, and clients that are to be pinged.
NoReply == {c \in LiveClients : clients[c].ticking /\ clients[c].age > NOREPLY_TIMEOUT}

\* Mutant of Idle: only clients that have logged in are pinged.
Idle_OnlineOnly ==
    {c \in LiveClients : /\ ~clients[c].ticking /\ clients[c].age > KEEPALIVE_TIMEOUT
                         /\ Online(c)}

Idle == {c \in LiveClients : ~clients[c].ticking /\ clients[c].age > KEEPALIVE_TIMEOUT}

process_timeouts_c2n(idle) ==
    [c \in ClientSlots |-> IF c \in idle
                           THEN [clients[c] EXCEPT !.age = 0, !.ticking = TRUE]
                           ELSE clients[c]]

\* Mutant of process_timeouts_c2c: only the calls that still ring time out.
process_timeouts_c2c_Allowed ==
    {l \in LiveLinks : /\ ~Ringing(l) /\ links[l].state # "ACTIVE"
                       /\ links[l].age > TMO_CCLINK_WAITACTIVE}

process_timeouts_c2c ==
    {l \in LiveLinks : links[l].state # "ACTIVE" /\ links[l].age > TMO_CCLINK_WAITACTIVE}

\* The timer callback: new connections, then control connections, then links.
process_timeouts ==
    LET N == process_timeouts_newconn
        idle == Idle \ client_list_delete(N, {})
    IN  /\ ~undefined
        /\ IF \E n \in N : UsesFreed(n)
           THEN UseFreed
           ELSE /\ newconns' = NewconnsAfter(N, NoReply, process_timeouts_c2c)
                /\ Delete(N, NoReply, process_timeouts_c2c, process_timeouts_c2n(idle))
                /\ sent' = {Push(c, "PINGREQ", None) : c \in idle}
                /\ UNCHANGED newconns_pos

-----------------------------------------------------------------------------
\* After the use of a freed struct the model stops.
Undefined == undefined /\ UNCHANGED vars

ReadRequests(n, C) ==
    \/ \E c \in C, written \in BOOLEAN : procmsg_INITREQ(n, C, c, written)
    \/ \E cl \in C \cup {None} : procmsg_INITREQ_rejected(n, C, cl)
    \/ \E written \in BOOLEAN : procmsg_NODECONNREQ(n, C, written)

NewconnStep ==
    \E n \in NewconnSlots :
        \/ newconn_fail(n)
        \/ newconn_accepted(n)
        \/ \E C \in SUBSET ClientSlots : ReadRequests(n, C)
        \/ process_newconn_write(n)
        \/ \E caller, callee \in Ids : procmsg_CONNID(n, caller, callee)
        \/ \E caller, callee \in Ids : procmsg_CONNID_refused(n, caller, callee)
        \/ newconn_shutdown(n)

ClientStep ==
    \E c \in ClientSlots :
        \/ \E id \in Ids : c2n_authenticated(c, id)
        \/ c2n_fail(c)
        \/ \E callee \in Ids : procmsg_CONNREQOUTG(c, callee)
        \/ procmsg_PINGREQ_client(c)
        \/ procmsg_PINGREP_client(c)
        \/ procmsg_MULTILOGIN_client(c)

Answer(c, caller) == procmsg_CONNALLOW(c, caller) \/ procmsg_CONNDENY(c, caller)

OtherStep ==
    \/ \E ip \in Ips, slot \in NewconnSlots : process_listen_read(ip, slot)
    \/ NewconnStep
    \/ ClientStep
    \/ \E l \in LinkSlots : process_c2c_fail(l)
    \/ Second
    \/ process_timeouts
    \/ Undefined

Next == OtherStep \/ \E c \in ClientSlots, caller \in Ids : Answer(c, caller)

Spec == Init /\ [][Next]_vars

\* The clock and libevent's timer do not stop; nothing is assumed of the peers.
Fairness == WF_vars(Second) /\ WF_vars(process_timeouts)

FairSpec == Spec /\ Fairness
-----------------------------------------------------------------------------
(* Properties *)

\* Every struct has the fields and states PICA_node.h gives it, and what is pushed is
\* pushed to a control connection, with an id where the message carries one.
StructsOK ==
    /\ newconns \in [NewconnSlots -> Newconn]
    /\ newconns_pos \in 0 .. MAX_NEWCONNS
    /\ clients \in [ClientSlots -> Client]
    /\ tree \in [Ids -> ClientSlots \cup {None}]
    /\ links \in [LinkSlots -> Link]
    /\ undefined \in BOOLEAN

TypeOK == StructsOK /\ sent \subseteq Message

\* The tree holds exactly the connected primaries, one per id, and an id that has
\* secondaries has a primary: through every order of logins, promotions
\* (client_tree_replace_multi) and timeouts no logged-in id becomes unreachable, as long
\* as no client with two children has been removed from the tree.
TreeIsPrimaries ==
    /\ \A i \in Ids, c \in ClientSlots :
          tree[i] = c <=> clients[c].state = "CONNECTED" /\ clients[c].id = i
    /\ \A c \in ClientSlots :
          Online(c) => clients[c].id \in Ids /\ tree[clients[c].id] # None

\* Both ends of every call are live primaries of two different ids: deleting a
\* client leaves no cclink with a pointer to it (cclink_list_delete_by_client).
LinkEndsArePrimaries ==
    \A l \in LiveLinks :
        /\ links[l].p1 \in ClientSlots /\ clients[links[l].p1].state = "CONNECTED"
        /\ links[l].p2 \in ClientSlots /\ clients[links[l].p2].state = "CONNECTED"
        /\ links[l].p1 # links[l].p2

\* At most one call per (caller, callee): cclink_list_search is unambiguous.
UniquePair ==
    \A k, l \in LiveLinks :
        CallerId(k) = CallerId(l) /\ CalleeId(k) = CalleeId(l) => k = l

\* A link that relays, or is about to, joins sockets that come from the addresses
\* of the control connections of its callee and its caller, the callee's first.
CalleeJoined(l) == links[l].state \in {"WAITCONNCLEANONTLSSHUTDOWN", "WAITCONNCLR",
                                       "WAITCONNCLRANONTLSSHUTDOWN", "ACTIVE"}

CallerJoined(l) == links[l].state \in {"WAITCONNCLRANONTLSSHUTDOWN", "ACTIVE"}

JoinedFromTheRightAddress ==
    \A l \in LiveLinks :
        /\ IF CalleeJoined(l) THEN links[l].sck_p2 = clients[links[l].p2].ip
                              ELSE links[l].sck_p2 = None
        /\ IF CallerJoined(l) THEN links[l].sck_p1 = clients[links[l].p1].ip
                              ELSE links[l].sck_p1 = None

\* A newconn never holds a pointer to a freed client, and no two of them to the same one,
\* however many clients its requests have made (procmsg_INITREQ) and whatever is closed,
\* evicted, timed out or deleted; a client is handed on only once its connection has left
\* the anonymous TLS layer.  A client whose newconn has turned to another one is left to
\* the timer.  This rests on NEWCONN_TIMEOUT <= KEEPALIVE_TIMEOUT and on the order of
\* process_timeouts.
ClientOwner(n, c) == newconns[n].cl = c

NewconnOwnsItsClient ==
    /\ \A n \in NewconnSlots : newconns[n].cl # Freed
    /\ \A n \in NewconnSlots, c \in ClientSlots :
          ClientOwner(n, c) =>
              /\ clients[c].state = "WAITANONTLSSHUTDOWN"
              /\ newconns[n].state \in {"SENDINGOK", "SENDINGREJECT", "WAITANONTLSSHUTDOWN"}
              /\ \A m \in NewconnSlots : ClientOwner(m, c) => m = n

\* A link waiting for the shutdown of an anonymous TLS layer has exactly one newconn
\* working for it, and a newconn that points to a live link points to such a link: two
\* CONNIDs never join the same end of a call.
Joining(l) == links[l].state \in {"WAITCONNCLEANONTLSSHUTDOWN", "WAITCONNCLRANONTLSSHUTDOWN"}

LinkOwner(n, l) == newconns[n].cc = l

JoiningLinkHasOneNewconn ==
    /\ \A n \in NewconnSlots, l \in LinkSlots :
          LinkOwner(n, l) => /\ Joining(l)
                             /\ newconns[n].state = "WAITANONTLSSHUTDOWN"
                             /\ \A m \in NewconnSlots : LinkOwner(m, l) => m = n
    /\ \A l \in LinkSlots : Joining(l) => \E n \in NewconnSlots : LinkOwner(n, l)

\* A caller is told FOUND only for a call of its own whose callee's data connection
\* is in place, from the callee's address, and which now waits for the caller.
FoundOnlyWhenCalleeJoined ==
    \A m \in sent : m.type = "FOUND" =>
        \E l \in LiveLinks : /\ links[l].p1 = m.to
                             /\ CalleeId(l) = m.id
                             /\ links[l].state = "WAITCONNCLR"
                             /\ links[l].sck_p2 = clients[links[l].p2].ip

\* Set-up never lasts: whatever the peers do, a call that is not active is activated or
\* deleted in the end (process_timeouts_c2c).
CallSetupEnds ==
    \A l \in LinkSlots :
        links[l].state \notin {"FREE", "ACTIVE"}
            ~> undefined \/ links[l].state \in {"FREE", "ACTIVE"}

\* A control connection that never finishes its handshakes is dropped: it is pinged after
\* KEEPALIVE_TIMEOUT though it cannot answer, and deleted NOREPLY_TIMEOUT later.
HandshakeEnds ==
    \A c \in ClientSlots :
        clients[c].state \in {"WAITANONTLSSHUTDOWN", "TLSNEGOTIATION"}
            ~> undefined \/ clients[c].state = "FREE" \/ Online(c)

-----------------------------------------------------------------------------
(* The inductive invariant behind the properties above.  Its parts are stated *)
(* for any tables nc and cl, so that they can be followed through a callback   *)
(* that changes the tables twice.                                              *)

\* A newconn holds at most one pointer, and only after a request has been accepted.
PointersSet(nc) ==
    \A n \in NewconnSlots :
        /\ nc[n].cl = None \/ nc[n].cc = None
        /\ nc[n].cl # None => nc[n].state \in {"SENDINGOK", "SENDINGREJECT", "WAITANONTLSSHUTDOWN"}
        /\ nc[n].cc # None => nc[n].state = "WAITANONTLSSHUTDOWN"

\* NewconnOwnsItsClient, for the tables nc and cl.
Owned(nc, cl) ==
    /\ \A n \in NewconnSlots : nc[n].cl # Freed
    /\ \A n \in NewconnSlots, c \in ClientSlots :
          nc[n].cl = c => /\ cl[c].state = "WAITANONTLSSHUTDOWN"
                          /\ \A m \in NewconnSlots : nc[m].cl = c => m = n

\* A client still owned by its newconn waits for no reply and is not older than the
\* newconn, so process_timeouts sees the newconn expired before the client is idle.
OwnerIsOlder(nc, cl) ==
    \A n \in NewconnSlots, c \in ClientSlots :
        nc[n].cl = c => /\ ~cl[c].ticking
                        /\ nc[n].age > NEWCONN_TIMEOUT \/ nc[n].age >= cl[c].age

\* The part of the inductive invariant about connections: every pointer of a newconn to
\* a client is valid, whatever is closed, evicted, timed out or deleted, and in what order.
ControlInv ==
    /\ PointersSet(newconns)
    /\ Owned(newconns, clients)
    /\ OwnerIsOlder(newconns, clients)
    /\ TreeIsPrimaries

\* JoiningLinkHasOneNewconn, for the tables nc and lk.
JoinOwned(nc, lk) ==
    /\ \A n \in NewconnSlots, l \in LinkSlots :
          nc[n].cc = l => /\ lk[l].state \in {"WAITCONNCLEANONTLSSHUTDOWN",
                                              "WAITCONNCLRANONTLSSHUTDOWN"}
                          /\ \A m \in NewconnSlots : nc[m].cc = l => m = n
    /\ \A l \in LinkSlots :
          lk[l].state \in {"WAITCONNCLEANONTLSSHUTDOWN", "WAITCONNCLRANONTLSSHUTDOWN"} =>
              \E n \in NewconnSlots : nc[n].cc = l

\* The part about calls: ends, addresses, uniqueness, and who is joining which end.
LinkInv ==
    /\ LinkEndsArePrimaries
    /\ UniquePair
    /\ JoinedFromTheRightAddress
    /\ JoinOwned(newconns, links)
=============================================================================
