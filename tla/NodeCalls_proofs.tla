-------------------------- MODULE NodeCalls_proofs --------------------------
(****************************************************************************)
(* Theorems about NodeCalls, for every number of ids, addresses, slots and    *)
(* for all timeouts that satisfy the assumptions of that module, in three     *)
(* parts: types; the invariants of control connections; the invariants of     *)
(* calls and, on top of them, that the node implements CallService.           *)
(****************************************************************************)
EXTENDS NodeCallsImpl, TLAPS

-----------------------------------------------------------------------------
(* Types of what a deletion leaves *)

LEMMA NewconnsAfterType ==
    ASSUME StructsOK, NEW N, NEW C, NEW L
    PROVE  NewconnsAfter(N, C, L) \in [NewconnSlots -> Newconn]
<1> DEFINE goneC == client_list_delete(N, C)
           goneL == cclink_list_delete(N, L, goneC)
<1> SUFFICES ASSUME NEW n \in NewconnSlots
             PROVE  [newconns[n] EXCEPT !.cl = IF @ \in goneC THEN Freed ELSE @,
                                        !.cc = IF @ \in goneL THEN Freed ELSE @] \in Newconn
  BY DEF NewconnsAfter, newconn_close, FreeNewconn, Newconn, NewconnStates
<1> newconns[n] \in Newconn
  BY DEF StructsOK
<1> HIDE DEF goneC, goneL
<1> QED
  BY DEF Newconn

LEMMA DeleteType ==
    ASSUME StructsOK, NEW N, NEW C, NEW L, NEW cs \in [ClientSlots -> Client],
           Delete(N, C, L, cs)
    PROVE  /\ tree' \in [Ids -> ClientSlots \cup {None}]
           /\ clients' \in [ClientSlots -> Client]
           /\ links' \in [LinkSlots -> Link]
           /\ undefined' \in BOOLEAN
<1> DEFINE goneC == client_list_delete(N, C)
           goneL == cclink_list_delete(N, L, goneC)
<1>1. tree' \in [Ids -> ClientSlots \cup {None}]
  BY DEF Delete
<1>2. clients' \in [ClientSlots -> Client]
  <2>1. clients' = ClientsWithout(goneC, cs)
    BY DEF Delete
  <2>2. FreeClient \in Client
    BY DEF FreeClient, Client, ClientStates
  <2>3. \A c \in ClientSlots : [cs[c] EXCEPT !.state = "CONNECTED"] \in Client
    BY DEF Client, ClientStates
  <2> HIDE DEF goneC
  <2>4. QED
    BY <2>1, <2>2, <2>3 DEF ClientsWithout
<1>3. links' \in [LinkSlots -> Link]
  <2>1. links' = LinksWithout(goneL)
    BY DEF Delete
  <2>2. FreeLink \in Link
    BY DEF FreeLink, Link, LinkStates
  <2> HIDE DEF goneL
  <2>3. QED
    BY <2>1, <2>2 DEF LinksWithout, StructsOK
<1>4. undefined' \in BOOLEAN
  <2>1. undefined' \in IF MayHaveTwoChildren(goneC) THEN BOOLEAN ELSE {undefined}
    BY DEF Delete
  <2> HIDE DEF goneC
  <2>2. QED
    BY <2>1 DEF StructsOK
<1>5. QED
  BY <1>1, <1>2, <1>3, <1>4

-----------------------------------------------------------------------------
(* Type correctness *)

LEMMA InitType == Init => StructsOK
<1> SUFFICES ASSUME Init PROVE StructsOK
  OBVIOUS
<1>1. FreeNewconn \in Newconn
  BY DEF FreeNewconn, Newconn, NewconnStates
<1>2. FreeClient \in Client
  BY DEF FreeClient, Client, ClientStates
<1>3. FreeLink \in Link
  BY DEF FreeLink, Link, LinkStates
<1>4. newconns_pos \in 0 .. MAX_NEWCONNS
  BY SizeAssumption DEF Init
<1>5. undefined \in BOOLEAN
  BY DEF Init
<1>6. QED
  BY <1>1, <1>2, <1>3, <1>4, <1>5 DEF Init, StructsOK

LEMMA AnsweredType ==
    ASSUME StructsOK, NEW c \in ClientSlots
    PROVE  Answered(c) \in [ClientSlots -> Client]
BY DEF StructsOK, Answered, Client

LEMMA CloseNewconnType ==
    ASSUME StructsOK, NEW n \in NewconnSlots, CloseNewconn(n)
    PROVE  StructsOK'
<1>1. CASE UsesFreed(n)
  BY <1>1 DEF CloseNewconn, UseFreed, StructsOK
<1>2. CASE ~UsesFreed(n)
  <2>1. clients \in [ClientSlots -> Client]
    BY DEF StructsOK
  <2>2. /\ newconns' = NewconnsAfter({n}, {}, {})
        /\ Delete({n}, {}, {}, clients)
        /\ sent' = {}
        /\ UNCHANGED newconns_pos
    BY <1>2 DEF CloseNewconn
  <2>3. newconns' \in [NewconnSlots -> Newconn]
    BY <2>2, NewconnsAfterType
  <2>4. QED
    BY <2>1, <2>2, <2>3, DeleteType DEF StructsOK
<1>3. QED
  BY <1>1, <1>2

LEMMA DeleteClientType ==
    ASSUME StructsOK, NEW c \in ClientSlots, NEW cs \in [ClientSlots -> Client],
           DeleteClient(c, cs)
    PROVE  /\ newconns' \in [NewconnSlots -> Newconn]
           /\ tree' \in [Ids -> ClientSlots \cup {None}]
           /\ clients' \in [ClientSlots -> Client]
           /\ links' \in [LinkSlots -> Link]
           /\ undefined' \in BOOLEAN
<1>1. newconns' \in [NewconnSlots -> Newconn]
  BY NewconnsAfterType DEF DeleteClient
<1>2. Delete({}, {c}, {}, cs)
  BY DEF DeleteClient
<1>3. QED
  BY <1>1, <1>2, DeleteType

\* What the requests of one read do to the tables, whichever of them was the last.
LEMMA RequestsFacts ==
    ASSUME StructsOK, NEW n \in NewconnSlots, NEW C \in SUBSET ClientSlots, ReadRequests(n, C)
    PROVE  /\ newconns[n].state = "WAITREQUEST"
           /\ newconns' \in [NewconnSlots -> Newconn]
           /\ \A m \in NewconnSlots : m # n => newconns'[m] = newconns[m]
           /\ newconns'[n].cc \in {newconns[n].cc, None}
           /\ \/ newconns'[n].cl \in {newconns[n].cl, None}
              \/ /\ newconns'[n].cl \in C
                 /\ newconns'[n].age = newconns[n].age
                 /\ newconns'[n].state \in {"SENDINGOK", "SENDINGREJECT", "WAITANONTLSSHUTDOWN"}
           /\ newconns'[n].state \in {"FREE", "SENDINGOK", "SENDINGREJECT", "WAITANONTLSSHUTDOWN"}
           /\ \A c \in C : clients[c].state = "FREE"
           /\ clients' = [c \in ClientSlots |-> IF c \in C THEN client_list_addnew(n) ELSE clients[c]]
           /\ sent' = {}
           /\ UNCHANGED <<newconns_pos, tree, links, undefined>>
<1> DEFINE Change(new) == newconns' = [newconns EXCEPT ![n] = new]
<1>1. newconns \in [NewconnSlots -> Newconn] /\ newconns[n] \in Newconn
  BY DEF StructsOK
<1>2. /\ newconns[n].state = "WAITREQUEST"
      /\ \A c \in C : clients[c].state = "FREE"
      /\ clients' = [c \in ClientSlots |-> IF c \in C THEN client_list_addnew(n) ELSE clients[c]]
      /\ sent' = {}
      /\ UNCHANGED <<newconns_pos, tree, links, undefined>>
  BY DEF ReadRequests, procmsg_INITREQ, procmsg_INITREQ_rejected, procmsg_NODECONNREQ, Requests
<1>3. ASSUME NEW new \in Newconn, Change(new)
      PROVE  /\ newconns' \in [NewconnSlots -> Newconn]
             /\ \A m \in NewconnSlots : m # n => newconns'[m] = newconns[m]
             /\ newconns'[n] = new
  BY <1>1, <1>3
<1>4. ASSUME NEW cl \in C \cup {None}, NEW st \in {"SENDINGOK", "SENDINGREJECT", "WAITANONTLSSHUTDOWN"},
             newconns' = [newconns EXCEPT ![n].cl = cl, ![n].state = st]
      PROVE  /\ newconns' \in [NewconnSlots -> Newconn]
             /\ \A m \in NewconnSlots : m # n => newconns'[m] = newconns[m]
             /\ newconns'[n].cl = cl /\ newconns'[n].cc = newconns[n].cc
             /\ newconns'[n].age = newconns[n].age /\ newconns'[n].state = st
  BY <1>1, <1>4 DEF Newconn, NewconnStates
<1>5. CASE \E c \in C, written \in BOOLEAN : procmsg_INITREQ(n, C, c, written)
  <2>1. PICK c \in C, written \in BOOLEAN : procmsg_INITREQ(n, C, c, written)
    BY <1>5
  <2>2. newconns' = [newconns EXCEPT
                       ![n].cl = c,
                       ![n].state = IF written THEN "WAITANONTLSSHUTDOWN" ELSE "SENDINGOK"]
    BY <2>1 DEF procmsg_INITREQ
  <2>3. QED
    BY <1>2, <1>4, <2>2
<1>6. CASE \E cl \in C \cup {None} : procmsg_INITREQ_rejected(n, C, cl)
  <2>1. PICK cl \in C \cup {None} : procmsg_INITREQ_rejected(n, C, cl)
    BY <1>6
  <2>2. newconns' = [newconns EXCEPT ![n].cl = cl, ![n].state = "SENDINGREJECT"]
    BY <2>1 DEF procmsg_INITREQ_rejected
  <2>3. QED
    BY <1>2, <1>4, <2>2
<1>7. CASE \E written \in BOOLEAN : procmsg_NODECONNREQ(n, C, written)
  <2>1. /\ FreeNewconn \in Newconn /\ FreeNewconn.cl = None /\ FreeNewconn.cc = None
        /\ FreeNewconn.state = "FREE"
    BY DEF FreeNewconn, Newconn, NewconnStates
  <2> DEFINE ok == [newconns[n] EXCEPT !.state = "SENDINGOK"]
  <2>2. /\ ok \in Newconn /\ ok.cl = newconns[n].cl /\ ok.cc = newconns[n].cc
        /\ ok.state = "SENDINGOK"
    BY <1>1 DEF Newconn, NewconnStates
  <2>3. Change(FreeNewconn) \/ Change(ok)
    BY <1>1, <1>7 DEF procmsg_NODECONNREQ
  <2> HIDE DEF ok, Change
  <2>4. CASE Change(FreeNewconn)
    BY <1>2, <1>3, <2>1, <2>4
  <2>5. CASE Change(ok)
    BY <1>2, <1>3, <2>2, <2>5
  <2>6. QED
    BY <2>3, <2>4, <2>5
<1>8. QED
  BY <1>5, <1>6, <1>7 DEF ReadRequests

LEMMA RequestsType ==
    ASSUME StructsOK, NEW n \in NewconnSlots, NEW C \in SUBSET ClientSlots, ReadRequests(n, C)
    PROVE  StructsOK'
<1>1. client_list_addnew(n) \in Client
  BY DEF client_list_addnew, FreeClient, Client, ClientStates, StructsOK, Newconn
<1>2. clients' \in [ClientSlots -> Client]
  BY <1>1, RequestsFacts DEF StructsOK
<1>3. QED
  BY <1>2, RequestsFacts DEF StructsOK

LEMMA NextType == StructsOK /\ [Next]_vars => StructsOK'
<1> SUFFICES ASSUME StructsOK, [Next]_vars PROVE StructsOK'
  OBVIOUS
<1>t. /\ newconns \in [NewconnSlots -> Newconn]
      /\ newconns_pos \in 0 .. MAX_NEWCONNS
      /\ clients \in [ClientSlots -> Client]
      /\ tree \in [Ids -> ClientSlots \cup {None}]
      /\ links \in [LinkSlots -> Link]
      /\ undefined \in BOOLEAN
  BY DEF StructsOK
<1>1. ASSUME NEW ip \in Ips, NEW slot \in NewconnSlots, process_listen_read(ip, slot)
      PROVE  StructsOK'
  <2> DEFINE evicted == IF TableFull THEN {slot} ELSE {}
  <2>1. CASE \E n \in evicted : UsesFreed(n)
    BY <1>1, <2>1 DEF process_listen_read, UseFreed, StructsOK
  <2>2. CASE ~\E n \in evicted : UsesFreed(n)
    <3> DEFINE fresh == [FreeNewconn EXCEPT !.state = "WAITANONTLSACCEPT", !.ip = ip]
    <3>1. /\ newconns' = [NewconnsAfter(evicted, {}, {}) EXCEPT ![slot] = fresh]
          /\ newconns_pos' = slot + 1
          /\ Delete(evicted, {}, {}, clients)
          /\ sent' = {}
      BY <1>1, <2>2 DEF process_listen_read, NextPos
    <3>2. fresh \in Newconn
      BY DEF FreeNewconn, Newconn, NewconnStates
    <3>3. newconns_pos' \in 0 .. MAX_NEWCONNS
      BY <3>1, SizeAssumption DEF NewconnSlots
    <3> HIDE DEF evicted, fresh
    <3>4. newconns' \in [NewconnSlots -> Newconn]
      BY <3>1, <3>2, NewconnsAfterType
    <3>5. QED
      BY <1>t, <3>1, <3>3, <3>4, DeleteType DEF StructsOK
  <2>3. QED
    BY <2>1, <2>2
<1>2. ASSUME NEW n \in NewconnSlots, newconn_fail(n)
      PROVE  StructsOK'
  BY <1>2, CloseNewconnType DEF newconn_fail
<1>3. ASSUME NEW n \in NewconnSlots, newconn_accepted(n)
      PROVE  StructsOK'
  BY <1>t, <1>3 DEF newconn_accepted, StructsOK, Newconn, NewconnStates
<1>4. ASSUME NEW n \in NewconnSlots, NEW C \in SUBSET ClientSlots, ReadRequests(n, C)
      PROVE  StructsOK'
  BY <1>4, RequestsType
<1>5. ASSUME NEW n \in NewconnSlots, process_newconn_write(n)
      PROVE  StructsOK'
  <2>1. FreeNewconn \in Newconn
    BY DEF FreeNewconn, Newconn, NewconnStates
  <2>2. [newconns[n] EXCEPT !.state = "WAITANONTLSSHUTDOWN"] \in Newconn
    BY <1>t DEF Newconn, NewconnStates
  <2>3. newconns' \in [NewconnSlots -> Newconn]
    BY <1>t, <1>5, <2>1, <2>2 DEF process_newconn_write
  <2>4. QED
    BY <1>t, <1>5, <2>3 DEF process_newconn_write, StructsOK
<1>6. ASSUME NEW n \in NewconnSlots, NEW caller \in Ids, NEW callee \in Ids,
             procmsg_CONNID(n, caller, callee)
      PROVE  StructsOK'
  <2>1. PICK l \in LinkSlots :
          /\ newconns' = [newconns EXCEPT ![n].cc = l, ![n].state = "WAITANONTLSSHUTDOWN"]
          /\ links' = [links EXCEPT ![l] = cclink_setwaitanontlsshutdown(l, n)]
    BY <1>6 DEF procmsg_CONNID, cclink_list_search, LiveLinks
  <2>2. newconns' \in [NewconnSlots -> Newconn]
    <3>1. newconns[n] \in Newconn
      BY <1>t
    <3>2. [newconns[n] EXCEPT !.cc = l, !.state = "WAITANONTLSSHUTDOWN"] \in Newconn
      BY <3>1 DEF Newconn, NewconnStates
    <3>3. newconns' = [newconns EXCEPT ![n] = [newconns[n] EXCEPT !.cc = l,
                                                      !.state = "WAITANONTLSSHUTDOWN"]]
      BY <1>t, <2>1
    <3>4. QED
      BY <1>t, <3>2, <3>3
  <2>3. cclink_setwaitanontlsshutdown(l, n) \in Link
    BY <1>t DEF cclink_setwaitanontlsshutdown, Link, LinkStates, Newconn
  <2>4. QED
    BY <1>t, <1>6, <2>1, <2>2, <2>3 DEF procmsg_CONNID, StructsOK
<1>7. ASSUME NEW n \in NewconnSlots, NEW caller \in Ids, NEW callee \in Ids,
             procmsg_CONNID_refused(n, caller, callee)
      PROVE  StructsOK'
  BY <1>7, CloseNewconnType DEF procmsg_CONNID_refused
<1>8. ASSUME NEW n \in NewconnSlots, newconn_shutdown(n)
      PROVE  StructsOK'
  <2>1. CASE UsesFreed(n)
    BY <1>8, <2>1 DEF newconn_shutdown, UseFreed, StructsOK
  <2>2. ASSUME ~UsesFreed(n), NEW c \in ClientSlots,
               clients' = [clients EXCEPT ![c].state = "TLSNEGOTIATION"],
               UNCHANGED links
        PROVE  StructsOK'
    <3>1. clients' \in [ClientSlots -> Client]
      BY <1>t, <2>2 DEF Client, ClientStates
    <3>2. newconns' \in [NewconnSlots -> Newconn]
      BY <1>t, <1>8, <2>2 DEF newconn_shutdown, FreeNewconn, Newconn, NewconnStates
    <3>3. QED
      BY <1>t, <1>8, <2>2, <3>1, <3>2 DEF newconn_shutdown, StructsOK
  <2>3. ASSUME ~UsesFreed(n), NEW l \in LinkSlots,
               links' = [links EXCEPT ![l] = cclink_activate(l)],
               UNCHANGED clients
        PROVE  StructsOK'
    <3>1. links' \in [LinkSlots -> Link]
      BY <1>t, <2>3 DEF cclink_activate, Link, LinkStates
    <3>2. newconns' \in [NewconnSlots -> Newconn]
      BY <1>t, <1>8, <2>3 DEF newconn_shutdown, FreeNewconn, Newconn, NewconnStates
    <3>3. QED
      BY <1>t, <1>8, <2>3, <3>1, <3>2 DEF newconn_shutdown, StructsOK
  <2>q. QED
    BY <1>8, <2>1, <2>2, <2>3 DEF newconn_shutdown
<1>9. ASSUME NEW c \in ClientSlots, NEW id \in Ids, c2n_authenticated(c, id)
     PROVE  StructsOK'
  <2>1. clients' \in [ClientSlots -> Client]
    BY <1>t, <1>9 DEF c2n_authenticated, Client, ClientStates
  <2>2. tree' \in [Ids -> ClientSlots \cup {None}]
    BY <1>t, <1>9 DEF c2n_authenticated, client_tree_add
  <2>3. QED
    BY <1>t, <1>9, <2>1, <2>2 DEF c2n_authenticated, StructsOK
<1>10. ASSUME NEW c \in ClientSlots, c2n_fail(c)
      PROVE  StructsOK'
  BY <1>t, <1>10, DeleteClientType DEF c2n_fail, StructsOK
<1>11. ASSUME NEW i \in ClientSlots, NEW callee \in Ids, procmsg_CONNREQOUTG(i, callee)
      PROVE  StructsOK'
  <2>1. CASE UNCHANGED <<clients, links>>
    BY <1>t, <1>11, <2>1 DEF procmsg_CONNREQOUTG, StructsOK
  <2>2. ASSUME NEW l \in LinkSlots, tree[callee] # None,
               links' = [links EXCEPT ![l] = [FreeLink EXCEPT !.state = "WAITREP",
                                                     !.p1 = i, !.p2 = tree[callee]]],
               clients' = [clients EXCEPT ![tree[callee]].age = 0,
                                          ![tree[callee]].ticking = TRUE]
        PROVE  StructsOK'
    <3>1. links' \in [LinkSlots -> Link]
      BY <1>t, <2>2 DEF FreeLink, Link, LinkStates
    <3>2. clients' \in [ClientSlots -> Client]
      BY <1>t, <2>2 DEF Client
    <3>3. QED
      BY <1>t, <1>11, <3>1, <3>2 DEF procmsg_CONNREQOUTG, StructsOK
  <2>3. QED
    BY <1>11, <2>1, <2>2 DEF procmsg_CONNREQOUTG, client_tree_search, cclink_list_addlocal
<1>12. ASSUME NEW c \in ClientSlots, NEW caller \in Ids, procmsg_CONNALLOW(c, caller)
      PROVE  StructsOK'
  <2>1. Answered(c) \in [ClientSlots -> Client]
    BY AnsweredType
  <2>2. CASE DeleteClient(c, Answered(c))
    BY <1>t, <1>12, <2>1, <2>2, DeleteClientType DEF procmsg_CONNALLOW, StructsOK
  <2>3. ASSUME NEW l \in LinkSlots,
               links' = [links EXCEPT ![l].state = "WAITCONNCLE"],
               clients' = Answered(c), UNCHANGED <<newconns, tree, undefined>>
        PROVE  StructsOK'
    <3>1. links' \in [LinkSlots -> Link]
      BY <1>t, <2>3 DEF Link, LinkStates
    <3>2. QED
      BY <1>t, <1>12, <2>1, <2>3, <3>1 DEF procmsg_CONNALLOW, StructsOK
  <2>4. QED
    BY <1>12, <2>2, <2>3 DEF procmsg_CONNALLOW, cclink_list_search, LiveLinks
<1>13. ASSUME NEW c \in ClientSlots, NEW caller \in Ids, procmsg_CONNDENY(c, caller)
      PROVE  StructsOK'
  <2>1. Answered(c) \in [ClientSlots -> Client]
    BY AnsweredType
  <2>2. CASE DeleteClient(c, Answered(c))
    BY <1>t, <1>13, <2>1, <2>2, DeleteClientType DEF procmsg_CONNDENY, StructsOK
  <2>3. ASSUME NEW l \in LinkSlots,
               newconns' = NewconnsAfter({}, {}, {l}),
               Delete({}, {}, {l}, Answered(c))
        PROVE  StructsOK'
    <3>1. newconns' \in [NewconnSlots -> Newconn]
      BY <2>3, NewconnsAfterType
    <3>2. QED
      BY <1>t, <1>13, <2>1, <2>3, <3>1, DeleteType DEF procmsg_CONNDENY, StructsOK
  <2>4. QED
    BY <1>13, <2>2, <2>3 DEF procmsg_CONNDENY, cclink_list_search, LiveLinks
<1>14. ASSUME NEW c \in ClientSlots, procmsg_PINGREQ_client(c)
      PROVE  StructsOK'
  BY <1>t, <1>14 DEF procmsg_PINGREQ_client, StructsOK
<1>15. ASSUME NEW c \in ClientSlots, procmsg_PINGREP_client(c)
      PROVE  StructsOK'
  BY <1>t, <1>15, AnsweredType DEF procmsg_PINGREP_client, StructsOK
<1>16. ASSUME NEW c \in ClientSlots, procmsg_MULTILOGIN_client(c)
      PROVE  StructsOK'
  BY <1>t, <1>16 DEF procmsg_MULTILOGIN_client, StructsOK
<1>17. ASSUME NEW l \in LinkSlots, process_c2c_fail(l)
      PROVE  StructsOK'
  <2>1. newconns' \in [NewconnSlots -> Newconn]
    BY <1>17, NewconnsAfterType DEF process_c2c_fail
  <2>2. QED
    BY <1>t, <1>17, <2>1, DeleteType DEF process_c2c_fail, StructsOK
<1>18. CASE Second
  <2>1. \A k, m \in Nat : Older(k, m) \in Nat
    BY DEF Older
  <2>2. newconns' \in [NewconnSlots -> Newconn]
    BY <1>t, <1>18, <2>1, TimeoutAssumption DEF Second, Newconn
  <2>3. clients' \in [ClientSlots -> Client]
    BY <1>t, <1>18, <2>1, TimeoutAssumption DEF Second, Client
  <2>4. links' \in [LinkSlots -> Link]
    BY <1>t, <1>18, <2>1, TimeoutAssumption DEF Second, Link
  <2>5. QED
    BY <1>t, <1>18, <2>2, <2>3, <2>4 DEF Second, StructsOK
<1>19. CASE process_timeouts
  <2> DEFINE N == process_timeouts_newconn
             cs == process_timeouts_c2n(Idle \ client_list_delete(N, {}))
  <2>1. CASE \E n \in N : UsesFreed(n)
    BY <1>19, <2>1 DEF process_timeouts, UseFreed, StructsOK
  <2>2. CASE ~\E n \in N : UsesFreed(n)
    <3>1. cs \in [ClientSlots -> Client]
      BY <1>t DEF process_timeouts_c2n, Client
    <3>2. /\ newconns' = NewconnsAfter(N, NoReply, process_timeouts_c2c)
          /\ Delete(N, NoReply, process_timeouts_c2c, cs)
          /\ UNCHANGED newconns_pos
      BY <1>19, <2>2 DEF process_timeouts
    <3> HIDE DEF N, cs
    <3>3. newconns' \in [NewconnSlots -> Newconn]
      BY <3>2, NewconnsAfterType
    <3>4. QED
      BY <1>t, <3>1, <3>2, <3>3, DeleteType DEF StructsOK
  <2>3. QED
    BY <2>1, <2>2
<1>20. CASE UNCHANGED vars
  BY <1>20 DEF vars, StructsOK
<1>21. QED
  BY <1>1, <1>2, <1>3, <1>4, <1>5, <1>6, <1>7, <1>8, <1>9, <1>10, <1>11, <1>12,
     <1>13, <1>14, <1>15, <1>16, <1>17, <1>18, <1>19, <1>20
  DEF Next, OtherStep, NewconnStep, ClientStep, Answer, Undefined

\* The structs of the node always have the shape PICA_node.h gives them.
THEOREM StructsCorrect == Spec => []StructsOK
<1>1. QED
  BY InitType, NextType, PTL DEF Spec

-----------------------------------------------------------------------------
(* CONTROL CONNECTIONS: the tree holds exactly the primaries, and no newconn  *)
(* points to a freed client.                                                  *)

-----------------------------------------------------------------------------
(* What a deletion leaves *)

LEMMA NewconnsAfterFacts ==
    ASSUME StructsOK, NEW N, NEW C, NEW L, NEW n \in NewconnSlots
    PROVE  LET nc == NewconnsAfter(N, C, L)
               goneC == client_list_delete(N, C)
               goneL == cclink_list_delete(N, L, goneC)
           IN  /\ n \in N => nc[n] = FreeNewconn
               /\ n \notin N => /\ nc[n].state = newconns[n].state
                                /\ nc[n].age = newconns[n].age
                                /\ nc[n].cl = IF newconns[n].cl \in goneC THEN Freed
                                              ELSE newconns[n].cl
                                /\ nc[n].cc = IF newconns[n].cc \in goneL THEN Freed
                                              ELSE newconns[n].cc
<1> DEFINE goneC == client_list_delete(N, C)
           goneL == cclink_list_delete(N, L, goneC)
           left == [newconns[n] EXCEPT !.cl = IF @ \in goneC THEN Freed ELSE @,
                                       !.cc = IF @ \in goneL THEN Freed ELSE @]
<1>1. NewconnsAfter(N, C, L)[n] = IF n \in N THEN FreeNewconn ELSE left
  BY DEF NewconnsAfter, newconn_close
<1>2. newconns[n] \in Newconn
  BY DEF StructsOK
<1> HIDE DEF goneC, goneL
<1>3. /\ left.state = newconns[n].state
      /\ left.age = newconns[n].age
      /\ left.cl = IF newconns[n].cl \in goneC THEN Freed ELSE newconns[n].cl
      /\ left.cc = IF newconns[n].cc \in goneL THEN Freed ELSE newconns[n].cc
  BY <1>2 DEF Newconn
<1> HIDE DEF left
<1>4. QED
  BY <1>1, <1>3 DEF goneC, goneL

\* cs may differ from the client table in ages and reply timers only.
SameClients(cs) ==
    /\ cs \in [ClientSlots -> Client]
    /\ \A c \in ClientSlots : /\ cs[c].state = clients[c].state
                              /\ cs[c].id = clients[c].id
                              /\ cs[c].ip = clients[c].ip

LEMMA DeleteClients ==
    ASSUME StructsOK, TreeIsPrimaries, NEW N, NEW C, NEW L, NEW cs,
           SameClients(cs), Delete(N, C, L, cs)
    PROVE  LET goneC == client_list_delete(N, C)
           IN  /\ \A c \in ClientSlots : c \in goneC => clients'[c] = FreeClient
               /\ \A c \in ClientSlots : c \notin goneC =>
                     /\ clients'[c].id = clients[c].id
                     /\ clients'[c].ip = clients[c].ip
                     /\ clients'[c].age = cs[c].age
                     /\ clients'[c].ticking = cs[c].ticking
                     /\ \/ clients'[c].state = clients[c].state
                        \/ /\ clients[c].state = "MULTILOGIN_SECONDARY"
                           /\ clients'[c].state = "CONNECTED"
               /\ TreeIsPrimaries'
<1> DEFINE goneC == client_list_delete(N, C)
<1>1. /\ tree' \in [Ids -> ClientSlots \cup {None}]
      /\ client_tree_remove(goneC)
      /\ clients' = ClientsWithout(goneC, cs)
  BY DEF Delete
<1>s. /\ cs \in [ClientSlots -> Client]
      /\ \A c \in ClientSlots : /\ cs[c].state = clients[c].state
                                /\ cs[c].id = clients[c].id
                                /\ cs[c].ip = clients[c].ip
  BY DEF SameClients
<1> HIDE DEF goneC
<1>2. ASSUME NEW c \in ClientSlots, c \in goneC
      PROVE  clients'[c] = FreeClient
  BY <1>1, <1>2 DEF ClientsWithout
<1>3. ASSUME NEW i \in Ids, NEW c \in ClientSlots, Promoted(i, goneC, c)
      PROVE  /\ c \notin goneC
             /\ clients[c].state = "MULTILOGIN_SECONDARY"
             /\ clients[c].id = i
  <2>1. tree[i] \in goneC /\ tree'[i] = c /\ tree'[i] \in Heirs(i, goneC)
    BY <1>1, <1>3 DEF Promoted, client_tree_remove
  <2>2. QED
    BY <2>1, NoneAssumption DEF Heirs, Secondaries
<1>4. ASSUME NEW c \in ClientSlots, c \notin goneC
      PROVE  /\ clients'[c].id = clients[c].id
             /\ clients'[c].ip = clients[c].ip
             /\ clients'[c].age = cs[c].age
             /\ clients'[c].ticking = cs[c].ticking
             /\ clients'[c].state = IF \E i \in Ids : Promoted(i, goneC, c)
                                    THEN "CONNECTED" ELSE clients[c].state
  <2>1. clients'[c] = IF \E i \in Ids : Promoted(i, goneC, c)
                      THEN [cs[c] EXCEPT !.state = "CONNECTED"] ELSE cs[c]
    BY <1>1, <1>4 DEF ClientsWithout
  <2>2. cs[c] \in Client
    BY <1>s
  <2>3. /\ [cs[c] EXCEPT !.state = "CONNECTED"].id = cs[c].id
        /\ [cs[c] EXCEPT !.state = "CONNECTED"].ip = cs[c].ip
        /\ [cs[c] EXCEPT !.state = "CONNECTED"].age = cs[c].age
        /\ [cs[c] EXCEPT !.state = "CONNECTED"].ticking = cs[c].ticking
        /\ [cs[c] EXCEPT !.state = "CONNECTED"].state = "CONNECTED"
    BY <2>2 DEF Client
  <2>4. CASE \E i \in Ids : Promoted(i, goneC, c)
    BY <1>s, <2>1, <2>3, <2>4
  <2>5. CASE ~\E i \in Ids : Promoted(i, goneC, c)
    BY <1>s, <2>1, <2>5
  <2>6. QED
    BY <2>4, <2>5
<1>5. ASSUME NEW i \in Ids, NEW c \in ClientSlots
      PROVE  tree'[i] = c <=> clients'[c].state = "CONNECTED" /\ clients'[c].id = i
  <2>1. CASE c \in goneC
    <3>1. clients'[c].state # "CONNECTED"
      BY <1>2, <2>1 DEF FreeClient
    <3>2. tree'[i] # c
      BY <1>1, <2>1, NoneAssumption DEF client_tree_remove, Heirs, Secondaries
    <3>3. QED
      BY <3>1, <3>2
  <2>2. CASE c \notin goneC
    <3>1. CASE tree[i] \in goneC
      <4>1. tree'[i] = c <=> Promoted(i, goneC, c)
        BY <3>1 DEF Promoted
      <4>2. ~(clients[c].state = "CONNECTED" /\ clients[c].id = i)
        BY <2>2, <3>1 DEF TreeIsPrimaries
      <4>3. QED
        BY <1>3, <1>4, <2>2, <4>1, <4>2
    <3>2. CASE tree[i] \notin goneC
      <4>1. tree'[i] = tree[i] /\ ~Promoted(i, goneC, c)
        BY <1>1, <3>2 DEF client_tree_remove, Promoted
      <4>2. \A j \in Ids : Promoted(j, goneC, c) => j # i /\ clients[c].id = j
        BY <1>3, <4>1
      <4>3. tree[i] = c <=> clients[c].state = "CONNECTED" /\ clients[c].id = i
        BY DEF TreeIsPrimaries
      <4>4. \A j \in Ids : Promoted(j, goneC, c) => clients[c].id # i
        BY <4>2
      <4>5. QED
        BY <1>4, <2>2, <4>1, <4>3, <4>4
    <3>3. QED
      BY <3>1, <3>2
  <2>3. QED
    BY <2>1, <2>2
<1>6. ASSUME NEW c \in ClientSlots, Online(c)'
      PROVE  clients'[c].id \in Ids /\ tree'[clients'[c].id] # None
  <2>1. c \notin goneC
    BY <1>2, <1>6 DEF Online, FreeClient
  <2>2. Online(c)
    BY <1>3, <1>4, <1>6, <2>1 DEF Online
  <2>3. clients[c].id \in Ids /\ tree[clients[c].id] # None /\ clients'[c].id = clients[c].id
    BY <1>4, <2>1, <2>2 DEF TreeIsPrimaries
  <2>4. CASE clients'[c].state = "CONNECTED"
    BY <1>5, <2>3, <2>4, NoneAssumption
  <2>5. CASE clients'[c].state = "MULTILOGIN_SECONDARY"
    <3>1. clients[c].state = "MULTILOGIN_SECONDARY"
      BY <1>4, <2>1, <2>5
    <3>2. c \in Secondaries(clients[c].id, goneC)
      BY <2>1, <3>1 DEF Secondaries
    <3>3. QED
      BY <1>1, <2>3, <3>2, NoneAssumption DEF client_tree_remove, Heirs, Secondaries
  <2>6. QED
    BY <1>6, <2>4, <2>5 DEF Online
<1>7. TreeIsPrimaries'
  BY <1>5, <1>6 DEF TreeIsPrimaries
<1>8. QED
  BY <1>2, <1>3, <1>4, <1>7 DEF goneC

\* c is the client of a new connection.
Held(c) == \E n \in NewconnSlots : newconns[n].cl = c

\* A deletion that kills the client of a newconn only together with the newconn, and
\* leaves the ages and timers of such clients alone, keeps the invariant.
LEMMA DeleteControl ==
    ASSUME StructsOK, ControlInv, NEW N \in SUBSET NewconnSlots,
           NEW C \in SUBSET ClientSlots, NEW L \in SUBSET LinkSlots, NEW cs,
           SameClients(cs), Delete(N, C, L, cs),
           \A c \in ClientSlots : Held(c) =>
               \/ c \in client_list_delete(N, {})
               \/ c \notin C /\ cs[c] = clients[c]
    PROVE  LET nc == NewconnsAfter(N, C, L)
           IN  /\ PointersSet(nc)
               /\ Owned(nc, clients')
               /\ OwnerIsOlder(nc, clients')
               /\ TreeIsPrimaries'
<1> DEFINE nc == NewconnsAfter(N, C, L)
           goneC == client_list_delete(N, C)
           goneL == cclink_list_delete(N, L, goneC)
<1>1. /\ PointersSet(newconns)
      /\ Owned(newconns, clients)
      /\ OwnerIsOlder(newconns, clients)
      /\ TreeIsPrimaries
  BY DEF ControlInv
<1>2. /\ \A c \in ClientSlots : c \in goneC => clients'[c] = FreeClient
      /\ \A c \in ClientSlots : c \notin goneC =>
            /\ clients'[c].age = cs[c].age
            /\ clients'[c].ticking = cs[c].ticking
            /\ \/ clients'[c].state = clients[c].state
               \/ /\ clients[c].state = "MULTILOGIN_SECONDARY"
                  /\ clients'[c].state = "CONNECTED"
      /\ TreeIsPrimaries'
  BY <1>1, DeleteClients
<1>3. \A n \in NewconnSlots :
        /\ n \in N => nc[n] = FreeNewconn
        /\ n \notin N => /\ nc[n].state = newconns[n].state
                         /\ nc[n].age = newconns[n].age
                         /\ nc[n].cl = IF newconns[n].cl \in goneC THEN Freed
                                       ELSE newconns[n].cl
                         /\ nc[n].cc = IF newconns[n].cc \in goneL THEN Freed
                                       ELSE newconns[n].cc
  BY NewconnsAfterFacts
<1>4. \A n \in NewconnSlots : newconns[n].cl \in ClientSlots \cup {None}
  BY <1>1 DEF StructsOK, Newconn, Owned
\* An owned client that goes, goes with its newconn.
<1>5. \A n \in NewconnSlots : n \notin N => newconns[n].cl \notin goneC
  <2> SUFFICES ASSUME NEW n \in NewconnSlots, n \notin N, newconns[n].cl \in goneC
               PROVE  FALSE
    OBVIOUS
  <2>1. PICK c \in ClientSlots : newconns[n].cl = c
    BY DEF client_list_delete
  <2>2. clients[c].state = "WAITANONTLSSHUTDOWN"
        /\ \A m \in NewconnSlots : newconns[m].cl = c => m = n
    BY <1>1, <2>1 DEF Owned
  <2>3. c \notin client_list_delete(N, {})
    BY <2>2 DEF client_list_delete
  <2>4. QED
    BY <2>1, <2>2, <2>3 DEF client_list_delete, Held
<1>6. \A n \in NewconnSlots : n \notin N => nc[n].cl = newconns[n].cl
  BY <1>3, <1>5
<1>7. None \notin goneL
  BY NoneAssumption DEF cclink_list_delete, LiveLinks
<1>8. FreeNewconn.state = "FREE" /\ FreeNewconn.cl = None /\ FreeNewconn.cc = None
  BY DEF FreeNewconn
<1>9. FreeClient.state = "FREE"
  BY DEF FreeClient
<1> HIDE DEF nc, goneC, goneL
<1>10. PointersSet(nc)
  BY <1>1, <1>3, <1>6, <1>7, <1>8 DEF PointersSet
<1>11. ASSUME NEW n \in NewconnSlots, NEW c \in ClientSlots, nc[n].cl = c
       PROVE  /\ n \notin N
              /\ newconns[n].cl = c
              /\ c \notin goneC
              /\ clients[c].state = "WAITANONTLSSHUTDOWN"
              /\ clients'[c].state = "WAITANONTLSSHUTDOWN"
              /\ \A m \in NewconnSlots : nc[m].cl = c => m = n
  <2>1. n \notin N
    BY <1>3, <1>8, <1>11, NoneAssumption
  <2>2. newconns[n].cl = c /\ c \notin goneC
    BY <1>5, <1>6, <1>11, <2>1
  <2>3. clients[c].state = "WAITANONTLSSHUTDOWN"
    BY <1>1, <2>2 DEF Owned
  <2>4. clients'[c].state = "WAITANONTLSSHUTDOWN"
    BY <1>2, <2>2, <2>3
  <2>5. ASSUME NEW m \in NewconnSlots, nc[m].cl = c
        PROVE  m = n
    <3>1. m \notin N
      BY <1>3, <1>8, <2>5, NoneAssumption
    <3>2. newconns[m].cl = c
      BY <1>6, <2>5, <3>1
    <3>3. QED
      BY <1>1, <2>2, <3>2 DEF Owned
  <2>6. QED
    BY <2>1, <2>2, <2>3, <2>4, <2>5
<1>12. Owned(nc, clients')
  <2>1. \A n \in NewconnSlots : nc[n].cl # Freed
    BY <1>3, <1>4, <1>6, <1>8, NoneAssumption
  <2>2. QED
    BY <1>11, <2>1 DEF Owned
<1>13. OwnerIsOlder(nc, clients')
  <2> SUFFICES ASSUME NEW n \in NewconnSlots, NEW c \in ClientSlots, nc[n].cl = c
               PROVE  /\ ~clients'[c].ticking
                      /\ nc[n].age > NEWCONN_TIMEOUT \/ nc[n].age >= clients'[c].age
    BY DEF OwnerIsOlder
  <2>1. /\ n \notin N /\ newconns[n].cl = c /\ c \notin goneC
        /\ clients[c].state = "WAITANONTLSSHUTDOWN"
    BY <1>11
  <2>2. cs[c] = clients[c]
    BY <2>1 DEF goneC, client_list_delete, Held
  <2>3. clients'[c].age = clients[c].age /\ clients'[c].ticking = clients[c].ticking
    BY <1>2, <2>1, <2>2
  <2>4. nc[n].age = newconns[n].age
    BY <1>3, <2>1
  <2>5. /\ ~clients[c].ticking
        /\ newconns[n].age > NEWCONN_TIMEOUT \/ newconns[n].age >= clients[c].age
    BY <1>1, <2>1 DEF OwnerIsOlder
  <2>6. QED
    BY <2>3, <2>4, <2>5
<1>14. QED
  BY <1>2, <1>10, <1>12, <1>13 DEF nc

-----------------------------------------------------------------------------
(* Every callback keeps the invariant *)

LEMMA SameClientsNow ==
    ASSUME StructsOK
    PROVE  SameClients(clients)
BY DEF SameClients, StructsOK

LEMMA SameClientsAnswered ==
    ASSUME StructsOK, NEW c \in ClientSlots
    PROVE  /\ SameClients(Answered(c))
           /\ \A d \in ClientSlots : d # c => Answered(c)[d] = clients[d]
<1>1. Answered(c) \in [ClientSlots -> Client]
  BY AnsweredType
<1>2. QED
  BY <1>1 DEF SameClients, StructsOK, Answered, Client

LEMMA InitControl == Init => ControlInv
<1> SUFFICES ASSUME Init PROVE ControlInv
  OBVIOUS
<1>1. /\ \A n \in NewconnSlots : newconns[n].cl = None /\ newconns[n].cc = None
      /\ \A c \in ClientSlots : clients[c].state = "FREE"
      /\ \A i \in Ids : tree[i] = None
  BY DEF Init, FreeNewconn, FreeClient
<1>2. QED
  BY <1>1, NoneAssumption
  DEF ControlInv, PointersSet, Owned, OwnerIsOlder, TreeIsPrimaries, Online

\* The tables of a callback that deletes nothing but what DeleteControl allows.
LEMMA DeleteStep ==
    ASSUME StructsOK, ControlInv, NEW N \in SUBSET NewconnSlots,
           NEW C \in SUBSET ClientSlots, NEW L \in SUBSET LinkSlots, NEW cs,
           SameClients(cs), Delete(N, C, L, cs), newconns' = NewconnsAfter(N, C, L),
           \A c \in ClientSlots : Held(c) =>
               \/ c \in client_list_delete(N, {})
               \/ c \notin C /\ cs[c] = clients[c]
    PROVE  ControlInv'
BY DeleteControl DEF ControlInv

LEMMA CloseNewconnControl ==
    ASSUME StructsOK, ControlInv, NEW n \in NewconnSlots, CloseNewconn(n)
    PROVE  ControlInv'
<1>1. CASE UsesFreed(n)
  BY <1>1 DEF CloseNewconn, UseFreed, ControlInv, PointersSet, Owned, OwnerIsOlder,
              TreeIsPrimaries, Online
<1>2. CASE ~UsesFreed(n)
  BY <1>2, SameClientsNow, DeleteStep DEF CloseNewconn
<1>3. QED
  BY <1>1, <1>2

LEMMA DeleteClientControl ==
    ASSUME StructsOK, ControlInv, NEW c \in ClientSlots, NEW cs,
           clients[c].state # "WAITANONTLSSHUTDOWN",
           SameClients(cs), \A d \in ClientSlots : d # c => cs[d] = clients[d],
           DeleteClient(c, cs)
    PROVE  ControlInv'
<1>1. \A d \in ClientSlots : Held(d) => d # c
  BY DEF Held, ControlInv, Owned
<1>2. QED
  BY <1>1, DeleteStep DEF DeleteClient

\* Steps that neither delete nor touch what the invariant is about.
LEMMA UnchangedControl ==
    ASSUME ControlInv, UNCHANGED <<newconns, clients, tree>>
    PROVE  ControlInv'
BY DEF ControlInv, PointersSet, Owned, OwnerIsOlder, TreeIsPrimaries, Online

\* A newconn changes its state to one in which it may hold the pointers it holds.
LEMMA NewconnStateControl ==
    ASSUME StructsOK, ControlInv, NEW n \in NewconnSlots, NEW st,
           newconns[n].cl # None => st \in {"SENDINGOK", "SENDINGREJECT", "WAITANONTLSSHUTDOWN"},
           newconns[n].cc # None => st = "WAITANONTLSSHUTDOWN",
           newconns' = [newconns EXCEPT ![n].state = st], UNCHANGED <<clients, tree>>
    PROVE  ControlInv'
<1>1. \A m \in NewconnSlots : /\ newconns'[m].cl = newconns[m].cl
                              /\ newconns'[m].cc = newconns[m].cc
                              /\ newconns'[m].age = newconns[m].age
                              /\ m # n => newconns'[m].state = newconns[m].state
                              /\ m = n => newconns'[m].state = st
  BY DEF StructsOK, Newconn
<1>2. PointersSet(newconns)'
  BY <1>1 DEF PointersSet, ControlInv
<1>3. Owned(newconns, clients)'
  BY <1>1 DEF Owned, ControlInv
<1>4. OwnerIsOlder(newconns, clients)'
  BY <1>1 DEF OwnerIsOlder, ControlInv
<1>5. QED
  BY <1>2, <1>3, <1>4 DEF ControlInv, TreeIsPrimaries, Online

\* Ages and reply timers of clients that are not owned may change freely.
LEMMA TimersControl ==
    ASSUME StructsOK, ControlInv, SameClients(clients'),
           \A c \in ClientSlots : clients[c].state = "WAITANONTLSSHUTDOWN" =>
                                     clients'[c] = clients[c],
           UNCHANGED <<newconns, tree>>
    PROVE  ControlInv'
<1>1. \A c \in ClientSlots : /\ clients'[c].state = clients[c].state
                             /\ clients'[c].id = clients[c].id
  BY DEF SameClients
<1>2. OwnerIsOlder(newconns, clients)'
  BY DEF OwnerIsOlder, ControlInv, Owned
<1>3. Owned(newconns, clients)'
  BY <1>1 DEF Owned, ControlInv
<1>4. TreeIsPrimaries'
  BY <1>1 DEF TreeIsPrimaries, ControlInv, Online
<1>5. QED
  BY <1>2, <1>3, <1>4 DEF ControlInv, PointersSet

LEMMA ListenControl ==
    ASSUME StructsOK, ControlInv, NEW ip \in Ips, NEW slot \in NewconnSlots,
           process_listen_read(ip, slot)
    PROVE  ControlInv'
<1> DEFINE evicted == IF TableFull THEN {slot} ELSE {}
           nc == NewconnsAfter(evicted, {}, {})
           fresh == [FreeNewconn EXCEPT !.state = "WAITANONTLSACCEPT", !.ip = ip]
<1>1. CASE \E n \in evicted : UsesFreed(n)
  BY <1>1, UnchangedControl DEF process_listen_read, UseFreed
<1>2. CASE ~\E n \in evicted : UsesFreed(n)
  <2>1. /\ newconns' = [nc EXCEPT ![slot] = fresh]
        /\ Delete(evicted, {}, {}, clients)
    BY <1>2 DEF process_listen_read
  <2>2. evicted \in SUBSET NewconnSlots
    OBVIOUS
  <2> HIDE DEF evicted
  <2>3. /\ PointersSet(nc)
        /\ Owned(nc, clients')
        /\ OwnerIsOlder(nc, clients')
        /\ TreeIsPrimaries'
    <3>1. {} \in SUBSET ClientSlots /\ {} \in SUBSET LinkSlots
      OBVIOUS
    <3>2. \A c \in ClientSlots : clients[c].state = "WAITANONTLSSHUTDOWN" =>
             \/ c \in client_list_delete(evicted, {})
             \/ c \notin {} /\ clients[c] = clients[c]
      OBVIOUS
    <3>3. SameClients(clients)
      BY SameClientsNow
    <3> HIDE DEF nc
    <3>4. QED
      BY <2>1, <2>2, <3>1, <3>2, <3>3, DeleteControl DEF nc
  <2>4. nc \in [NewconnSlots -> Newconn]
    BY NewconnsAfterType
  \* The slot is free, or has just been freed by the eviction.
  <2>5. nc[slot].cl = None /\ nc[slot].cc = None
    <3>1. CASE TableFull
      BY <3>1, NewconnsAfterFacts DEF evicted, FreeNewconn
    <3>2. CASE ~TableFull
      <4>1. IsFree(slot)
        BY <3>2 DEF process_listen_read, newconn_add, IsFree
      <4>2. nc[slot].state = "FREE"
        BY <3>2, <4>1, NewconnsAfterFacts DEF evicted, IsFree
      <4>3. QED
        BY <2>3, <4>2 DEF PointersSet
    <3>3. QED
      BY <3>1, <3>2
  <2>6. fresh.cl = None /\ fresh.cc = None
    BY DEF FreeNewconn
  <2> HIDE DEF nc, fresh
  <2>7. \A m \in NewconnSlots : /\ m # slot => newconns'[m] = nc[m]
                                /\ m = slot => newconns'[m] = fresh
    BY <2>1, <2>4
  <2>8. \A m \in NewconnSlots : newconns'[m].cl = nc[m].cl /\ newconns'[m].cc = nc[m].cc
    BY <2>5, <2>6, <2>7
  <2>9. PointersSet(newconns)'
    BY <2>3, <2>6, <2>7 DEF PointersSet
  <2>10. Owned(newconns, clients)'
    BY <2>3, <2>8 DEF Owned
  <2>11. OwnerIsOlder(newconns, clients)'
    BY <2>3, <2>6, <2>7, NoneAssumption DEF OwnerIsOlder
  <2>12. QED
    BY <2>3, <2>9, <2>10, <2>11 DEF ControlInv
<1>3. QED
  BY <1>1, <1>2

\* New clients, of which a newconn that had none holds at most one.
LEMMA NewClientsControl ==
    ASSUME StructsOK, ControlInv, NEW n \in NewconnSlots, NEW C \in SUBSET ClientSlots,
           \A c \in C : clients[c].state = "FREE",
           clients' = [c \in ClientSlots |-> IF c \in C THEN client_list_addnew(n) ELSE clients[c]],
           newconns[n].cl = None,
           \A m \in NewconnSlots : m # n => newconns'[m] = newconns[m],
           newconns'[n].cc = None,
           \/ newconns'[n].cl = None
           \/ /\ newconns'[n].cl \in C
              /\ newconns'[n].age = newconns[n].age
              /\ newconns'[n].state \in {"SENDINGOK", "SENDINGREJECT", "WAITANONTLSSHUTDOWN"},
           UNCHANGED tree
    PROVE  ControlInv'
<1>1. \A c \in C : /\ clients'[c].state = "WAITANONTLSSHUTDOWN"
                   /\ clients'[c].ticking = FALSE
                   /\ clients'[c].age = 0
  BY DEF client_list_addnew, FreeClient
<1>2. \A c \in ClientSlots : c \notin C => clients'[c] = clients[c]
  OBVIOUS
<1>3. \A m \in NewconnSlots : newconns[m].cl \notin C
  BY DEF ControlInv, Owned
<1>4. newconns[n].age \in Nat
  BY DEF StructsOK, Newconn
<1>5. PointersSet(newconns)'
  BY DEF ControlInv, PointersSet
<1>6. ASSUME NEW m \in NewconnSlots, NEW d \in ClientSlots, newconns'[m].cl = d
      PROVE  \/ m = n /\ d \in C /\ newconns'[n].age = newconns[n].age
             \/ m # n /\ d \notin C /\ newconns'[m] = newconns[m] /\ newconns[m].cl = d
  BY <1>3, <1>6, NoneAssumption
<1>7. Owned(newconns, clients)'
  <2>1. \A m \in NewconnSlots : newconns'[m].cl # Freed
    BY NoneAssumption DEF ControlInv, Owned
  <2>2. ASSUME NEW m \in NewconnSlots, NEW d \in ClientSlots, newconns'[m].cl = d
        PROVE  /\ clients'[d].state = "WAITANONTLSSHUTDOWN"
               /\ \A k \in NewconnSlots : newconns'[k].cl = d => k = m
    <3>1. CASE d \in C
      BY <1>1, <1>6, <2>2, <3>1
    <3>2. CASE d \notin C
      BY <1>2, <1>6, <2>2, <3>2 DEF ControlInv, Owned
    <3>3. QED
      BY <3>1, <3>2
  <2>3. QED
    BY <2>1, <2>2 DEF Owned
<1>8. OwnerIsOlder(newconns, clients)'
  <2>1. ASSUME NEW m \in NewconnSlots, NEW d \in ClientSlots, newconns'[m].cl = d
        PROVE  /\ ~clients'[d].ticking
               /\ newconns'[m].age > NEWCONN_TIMEOUT \/ newconns'[m].age >= clients'[d].age
    <3>1. CASE m = n
      BY <1>1, <1>4, <1>6, <2>1, <3>1
    <3>2. CASE m # n
      BY <1>2, <1>6, <2>1, <3>2 DEF ControlInv, OwnerIsOlder
    <3>3. QED
      BY <3>1, <3>2
  <2>2. QED
    BY <2>1 DEF OwnerIsOlder
<1>9. TreeIsPrimaries'
  BY <1>1, <1>2 DEF ControlInv, TreeIsPrimaries, Online
<1>10. QED
  BY <1>5, <1>7, <1>8, <1>9 DEF ControlInv

LEMMA RequestsControl ==
    ASSUME StructsOK, ControlInv, NEW n \in NewconnSlots, NEW C \in SUBSET ClientSlots,
           ReadRequests(n, C)
    PROVE  ControlInv'
<1>1. newconns[n].cl = None /\ newconns[n].cc = None
  BY RequestsFacts DEF ControlInv, PointersSet
<1>2. newconns'[n].cc = None
  BY <1>1, RequestsFacts
<1>3. \/ newconns'[n].cl = None
      \/ /\ newconns'[n].cl \in C
         /\ newconns'[n].age = newconns[n].age
         /\ newconns'[n].state \in {"SENDINGOK", "SENDINGREJECT", "WAITANONTLSSHUTDOWN"}
  BY <1>1, RequestsFacts
<1>4. /\ \A c \in C : clients[c].state = "FREE"
      /\ clients' = [c \in ClientSlots |-> IF c \in C THEN client_list_addnew(n) ELSE clients[c]]
      /\ \A m \in NewconnSlots : m # n => newconns'[m] = newconns[m]
      /\ UNCHANGED tree
  BY RequestsFacts
<1>5. QED
  BY <1>1, <1>2, <1>3, <1>4, NewClientsControl

LEMMA WriteControl ==
    ASSUME StructsOK, ControlInv, NEW n \in NewconnSlots, process_newconn_write(n)
    PROVE  ControlInv'
<1>1. newconns[n].state = "SENDINGOK" /\ newconns[n].cc = None /\ UNCHANGED <<clients, tree>>
  BY DEF process_newconn_write, ControlInv, PointersSet
<1>2. CASE newconns[n].cl = None
  <2>1. newconns' = [newconns EXCEPT ![n] = FreeNewconn]
    BY <1>2 DEF process_newconn_write
  <2>2. /\ \A m \in NewconnSlots : m # n => newconns'[m] = newconns[m]
        /\ newconns'[n].cl = None /\ newconns'[n].cc = None
    BY <2>1 DEF StructsOK, FreeNewconn
  <2> DEFINE C == {}
  <2>3. /\ C \in SUBSET ClientSlots /\ \A c \in C : clients[c].state = "FREE"
        /\ clients' = [c \in ClientSlots |-> IF c \in C THEN client_list_addnew(n) ELSE clients[c]]
    BY <1>1 DEF StructsOK
  <2> HIDE DEF C
  <2>4. QED
    BY <1>1, <1>2, <2>2, <2>3, NewClientsControl
<1>3. CASE newconns[n].cl # None
  <2>1. newconns' = [newconns EXCEPT ![n].state = "WAITANONTLSSHUTDOWN"]
    BY <1>3 DEF process_newconn_write
  <2>2. QED
    BY <1>1, <2>1, NewconnStateControl
<1>4. QED
  BY <1>2, <1>3

LEMMA ShutdownControl ==
    ASSUME StructsOK, ControlInv, NEW n \in NewconnSlots, newconn_shutdown(n)
    PROVE  ControlInv'
<1>1. CASE UsesFreed(n)
  BY <1>1, UnchangedControl DEF newconn_shutdown, UseFreed
<1>2. CASE ~UsesFreed(n)
  <2>1. /\ newconns' = [newconns EXCEPT ![n] = FreeNewconn]
        /\ UNCHANGED tree
    BY <1>2 DEF newconn_shutdown
  <2>2. \A m \in NewconnSlots : m # n => newconns'[m] = newconns[m]
    BY <2>1 DEF StructsOK
  <2>3. newconns'[n].cl = None /\ newconns'[n].cc = None
    BY <2>1 DEF StructsOK, FreeNewconn
  <2>4. PointersSet(newconns)'
    BY <2>2, <2>3 DEF ControlInv, PointersSet
  <2>5. ASSUME NEW c \in ClientSlots, newconns[n].cl = c,
               clients' = [clients EXCEPT ![c].state = "TLSNEGOTIATION"]
        PROVE  ControlInv'
    <3>1. /\ \A d \in ClientSlots : d # c => clients'[d] = clients[d]
          /\ clients'[c].state = "TLSNEGOTIATION"
      BY <2>5 DEF StructsOK, Client
    <3>2. /\ clients[c].state = "WAITANONTLSSHUTDOWN"
          /\ \A m \in NewconnSlots : newconns[m].cl = c => m = n
      BY <2>5 DEF ControlInv, Owned
    <3>3. \A m \in NewconnSlots, d \in ClientSlots :
            newconns'[m].cl = d => m # n /\ d # c /\ newconns[m].cl = d
      BY <2>2, <2>3, <3>2, NoneAssumption
    <3>4. Owned(newconns, clients)'
      <4>1. \A m \in NewconnSlots : newconns'[m].cl # Freed
        BY <2>2, <2>3, NoneAssumption DEF ControlInv, Owned
      <4>2. \A m \in NewconnSlots, d \in ClientSlots : newconns'[m].cl = d =>
               /\ clients'[d].state = "WAITANONTLSSHUTDOWN"
               /\ \A k \in NewconnSlots : newconns'[k].cl = d => k = m
        BY <3>1, <3>3 DEF ControlInv, Owned
      <4>3. QED
        BY <4>1, <4>2 DEF Owned
    <3>5. OwnerIsOlder(newconns, clients)'
      BY <2>2, <3>1, <3>3 DEF ControlInv, OwnerIsOlder
    <3>6. TreeIsPrimaries'
      BY <2>1, <3>1, <3>2 DEF ControlInv, TreeIsPrimaries, Online
    <3>7. QED
      BY <2>4, <3>4, <3>5, <3>6 DEF ControlInv
  <2>6. ASSUME NEW l \in LinkSlots, newconns[n].cc = l, UNCHANGED clients
        PROVE  ControlInv'
    <3>1. newconns[n].cl = None
      BY <2>6, NoneAssumption DEF ControlInv, PointersSet
    <3>2. \A m \in NewconnSlots : newconns'[m].cl = newconns[m].cl
      BY <2>2, <2>3, <3>1
    <3>3. Owned(newconns, clients)'
      BY <2>6, <3>2 DEF ControlInv, Owned
    <3>4. OwnerIsOlder(newconns, clients)'
      BY <2>2, <2>3, <2>6, NoneAssumption DEF ControlInv, OwnerIsOlder
    <3>5. QED
      BY <2>1, <2>4, <2>6, <3>3, <3>4 DEF ControlInv, TreeIsPrimaries, Online
  <2>7. QED
    BY <1>2, <2>5, <2>6 DEF newconn_shutdown
<1>3. QED
  BY <1>1, <1>2

LEMMA AuthenticatedControl ==
    ASSUME StructsOK, ControlInv, NEW c \in ClientSlots, NEW id \in Ids,
           c2n_authenticated(c, id)
    PROVE  ControlInv'
<1> DEFINE st == IF tree[id] = None THEN "CONNECTED" ELSE "MULTILOGIN_SECONDARY"
<1>1. clients[c].state = "TLSNEGOTIATION"
  BY DEF c2n_authenticated
<1>2. /\ \A d \in ClientSlots : d # c => clients'[d] = clients[d]
      /\ clients'[c].id = id
      /\ clients'[c].state = st
      /\ UNCHANGED newconns
  BY DEF c2n_authenticated, StructsOK, Client
<1>3. /\ \A i \in Ids : i # id => tree'[i] = tree[i]
      /\ tree'[id] = IF tree[id] = None THEN c ELSE tree[id]
  BY DEF c2n_authenticated, client_tree_search, client_tree_add, StructsOK
<1>4. \A n \in NewconnSlots : newconns[n].cl # c
  BY <1>1 DEF ControlInv, Owned
<1>5. PointersSet(newconns)'
  BY <1>2 DEF ControlInv, PointersSet
<1>6. Owned(newconns, clients)'
  BY <1>1, <1>2, <1>4 DEF ControlInv, Owned
<1>7. OwnerIsOlder(newconns, clients)'
  BY <1>2, <1>4 DEF ControlInv, OwnerIsOlder
<1>8. TreeIsPrimaries'
  <2>1. \A i \in Ids : tree[i] # c
    BY <1>1 DEF ControlInv, TreeIsPrimaries
  <2>2. ASSUME NEW i \in Ids, NEW d \in ClientSlots
        PROVE  tree'[i] = d <=> clients'[d].state = "CONNECTED" /\ clients'[d].id = i
    <3>1. CASE d = c
      BY <1>2, <1>3, <2>1, <3>1
    <3>2. CASE d # c
      BY <1>2, <1>3, <3>2, NoneAssumption DEF ControlInv, TreeIsPrimaries
    <3>3. QED
      BY <3>1, <3>2
  <2>3. ASSUME NEW d \in ClientSlots, Online(d)'
        PROVE  clients'[d].id \in Ids /\ tree'[clients'[d].id] # None
    <3>1. CASE d = c
      BY <1>2, <1>3, <3>1, NoneAssumption
    <3>2. CASE d # c
      <4>1. clients'[d] = clients[d] /\ Online(d)
        BY <1>2, <2>3, <3>2 DEF Online
      <4>2. clients[d].id \in Ids /\ tree[clients[d].id] # None
        BY <4>1 DEF ControlInv, TreeIsPrimaries
      <4>3. QED
        BY <1>3, <4>1, <4>2, NoneAssumption
    <3>3. QED
      BY <3>1, <3>2
  <2>4. QED
    BY <2>2, <2>3 DEF TreeIsPrimaries
<1>9. QED
  BY <1>5, <1>6, <1>7, <1>8 DEF ControlInv

LEMMA SecondControl ==
    ASSUME StructsOK, ControlInv, Second
    PROVE  ControlInv'
<1>1. \A n \in NewconnSlots :
        /\ newconns'[n].cl = newconns[n].cl
        /\ newconns'[n].cc = newconns[n].cc
        /\ newconns'[n].state = newconns[n].state
        /\ ~IsFree(n) => newconns'[n].age = Older(newconns[n].age, NEWCONN_TIMEOUT)
  BY DEF Second, StructsOK, Newconn
<1>2. \A c \in ClientSlots :
        /\ clients'[c].state = clients[c].state
        /\ clients'[c].id = clients[c].id
        /\ clients'[c].ticking = clients[c].ticking
        /\ clients[c].state # "FREE" /\ ~clients[c].ticking =>
              clients'[c].age = Older(clients[c].age, KEEPALIVE_TIMEOUT)
  BY DEF Second, StructsOK, Client
<1>3. UNCHANGED tree
  BY DEF Second
<1>4. PointersSet(newconns)'
  BY <1>1 DEF ControlInv, PointersSet
<1>5. Owned(newconns, clients)'
  BY <1>1, <1>2 DEF ControlInv, Owned
<1>6. TreeIsPrimaries'
  BY <1>2, <1>3 DEF ControlInv, TreeIsPrimaries, Online
<1>7. OwnerIsOlder(newconns, clients)'
  <2>1. ASSUME NEW n \in NewconnSlots, NEW c \in ClientSlots, newconns[n].cl = c
        PROVE  /\ ~clients'[c].ticking
               /\ newconns'[n].age > NEWCONN_TIMEOUT \/ newconns'[n].age >= clients'[c].age
    <3>1. /\ ~clients[c].ticking
          /\ newconns[n].age > NEWCONN_TIMEOUT \/ newconns[n].age >= clients[c].age
      BY <2>1 DEF ControlInv, OwnerIsOlder
    <3>2. ~IsFree(n) /\ clients[c].state # "FREE"
      BY <2>1, NoneAssumption DEF ControlInv, PointersSet, Owned, IsFree
    <3>3. /\ newconns'[n].age = Older(newconns[n].age, NEWCONN_TIMEOUT)
          /\ clients'[c].age = Older(clients[c].age, KEEPALIVE_TIMEOUT)
          /\ clients'[c].ticking = clients[c].ticking
      BY <1>1, <1>2, <3>1, <3>2
    <3>4. newconns[n].age \in Nat /\ clients[c].age \in Nat
      BY DEF StructsOK, Newconn, Client
    <3> DEFINE na == newconns[n].age
               ca == clients[c].age
    <3>5. ASSUME NEW x \in Nat, NEW y \in Nat, x > NEWCONN_TIMEOUT \/ x >= y
          PROVE  \/ Older(x, NEWCONN_TIMEOUT) > NEWCONN_TIMEOUT
                 \/ Older(x, NEWCONN_TIMEOUT) >= Older(y, KEEPALIVE_TIMEOUT)
      BY <3>5, TimeoutAssumption DEF Older
    <3>6. \/ Older(na, NEWCONN_TIMEOUT) > NEWCONN_TIMEOUT
          \/ Older(na, NEWCONN_TIMEOUT) >= Older(ca, KEEPALIVE_TIMEOUT)
      BY <3>1, <3>4, <3>5
    <3>7. QED
      BY <3>1, <3>3, <3>6
  <2>2. QED
    BY <1>1, <2>1 DEF OwnerIsOlder
<1>8. QED
  BY <1>4, <1>5, <1>6, <1>7 DEF ControlInv

LEMMA TimeoutsControl ==
    ASSUME StructsOK, ControlInv, process_timeouts
    PROVE  ControlInv'
<1> DEFINE N == process_timeouts_newconn
           idle == Idle \ client_list_delete(N, {})
           cs == process_timeouts_c2n(idle)
<1>1. CASE \E n \in N : UsesFreed(n)
  BY <1>1, UnchangedControl DEF process_timeouts, UseFreed
<1>2. CASE ~\E n \in N : UsesFreed(n)
  <2>1. /\ newconns' = NewconnsAfter(N, NoReply, process_timeouts_c2c)
        /\ Delete(N, NoReply, process_timeouts_c2c, cs)
    BY <1>2 DEF process_timeouts
  <2>2. /\ N \in SUBSET NewconnSlots
        /\ NoReply \in SUBSET ClientSlots
        /\ process_timeouts_c2c \in SUBSET LinkSlots
    BY DEF process_timeouts_newconn, NoReply, process_timeouts_c2c, LiveNewconns,
           LiveClients, LiveLinks
  <2>3. /\ SameClients(cs)
        /\ \A c \in ClientSlots : c \notin idle => cs[c] = clients[c]
    <3> HIDE DEF idle
    <3>1. cs \in [ClientSlots -> Client]
      BY DEF process_timeouts_c2n, StructsOK, Client
    <3>2. QED
      BY <3>1 DEF SameClients, process_timeouts_c2n, StructsOK, Client
  \* A client whose newconn has not expired is young and waits for no reply.
  <2>4. ASSUME NEW c \in ClientSlots, Held(c), c \notin client_list_delete(N, {})
        PROVE  c \notin NoReply /\ cs[c] = clients[c]
    <3>1. PICK n \in NewconnSlots : newconns[n].cl = c
      BY <2>4 DEF Held
    <3>2. newconns[n].state # "FREE"
      BY <3>1, NoneAssumption DEF ControlInv, PointersSet
    <3>3. newconns[n].age <= NEWCONN_TIMEOUT
      <4>1. n \notin N
        BY <2>4, <3>1 DEF client_list_delete
      <4>2. newconns[n].age \in Nat
        BY DEF StructsOK, Newconn
      <4>3. ~(newconns[n].age > NEWCONN_TIMEOUT)
        BY <3>2, <4>1 DEF process_timeouts_newconn, LiveNewconns
      <4>4. QED
        BY <4>2, <4>3, TimeoutAssumption
    <3>4. /\ ~clients[c].ticking
          /\ newconns[n].age > NEWCONN_TIMEOUT \/ newconns[n].age >= clients[c].age
      BY <3>1 DEF ControlInv, OwnerIsOlder
    <3>5. newconns[n].age \in Nat /\ clients[c].age \in Nat
      BY DEF StructsOK, Newconn, Client
    <3>6. ~(clients[c].age > KEEPALIVE_TIMEOUT)
      BY <3>3, <3>4, <3>5, TimeoutAssumption
    <3>7. c \notin NoReply /\ c \notin idle
      BY <3>4, <3>6 DEF NoReply, Idle
    <3>8. QED
      BY <2>3, <3>7
  <2> HIDE DEF N, cs, idle
  <2>5. QED
    BY <2>1, <2>2, <2>3, <2>4, DeleteStep
<1>3. QED
  BY <1>1, <1>2

LEMMA NextControl == StructsOK /\ ControlInv /\ [Next]_vars => ControlInv'
<1> SUFFICES ASSUME StructsOK, ControlInv, [Next]_vars PROVE ControlInv'
  OBVIOUS
<1>1. ASSUME NEW ip \in Ips, NEW slot \in NewconnSlots, process_listen_read(ip, slot)
      PROVE  ControlInv'
  BY <1>1, ListenControl
<1>2. ASSUME NEW n \in NewconnSlots, newconn_fail(n)
      PROVE  ControlInv'
  BY <1>2, CloseNewconnControl DEF newconn_fail
<1>3. ASSUME NEW n \in NewconnSlots, newconn_accepted(n)
      PROVE  ControlInv'
  <2>1. newconns[n].cl = None /\ newconns[n].cc = None
    BY <1>3 DEF newconn_accepted, ControlInv, PointersSet
  <2>2. QED
    BY <1>3, <2>1, NewconnStateControl DEF newconn_accepted
<1>4. ASSUME NEW n \in NewconnSlots, NEW C \in SUBSET ClientSlots, ReadRequests(n, C)
      PROVE  ControlInv'
  BY <1>4, RequestsControl
<1>5. ASSUME NEW n \in NewconnSlots, process_newconn_write(n)
      PROVE  ControlInv'
  BY <1>5, WriteControl
<1>6. ASSUME NEW n \in NewconnSlots, NEW caller \in Ids, NEW callee \in Ids,
             procmsg_CONNID(n, caller, callee)
      PROVE  ControlInv'
  <2>1. PICK l \in LinkSlots :
          newconns' = [newconns EXCEPT ![n].cc = l, ![n].state = "WAITANONTLSSHUTDOWN"]
    BY <1>6 DEF procmsg_CONNID, cclink_list_search, LiveLinks
  <2>2. newconns[n].cl = None /\ UNCHANGED <<clients, tree>>
    BY <1>6 DEF procmsg_CONNID, ControlInv, PointersSet
  <2>3. /\ \A m \in NewconnSlots : m # n => newconns'[m] = newconns[m]
        /\ newconns'[n].cl = newconns[n].cl
        /\ newconns'[n].cc = l
        /\ newconns'[n].state = "WAITANONTLSSHUTDOWN"
    BY <2>1 DEF StructsOK, Newconn
  <2>4. \A m \in NewconnSlots : newconns'[m].cl = newconns[m].cl
    BY <2>3
  <2>5. PointersSet(newconns)'
    BY <2>2, <2>3 DEF ControlInv, PointersSet
  <2>6. Owned(newconns, clients)'
    BY <2>2, <2>4 DEF ControlInv, Owned
  <2>7. OwnerIsOlder(newconns, clients)'
    BY <2>2, <2>3, NoneAssumption DEF ControlInv, OwnerIsOlder
  <2>8. QED
    BY <2>2, <2>5, <2>6, <2>7 DEF ControlInv, TreeIsPrimaries, Online
<1>7. ASSUME NEW n \in NewconnSlots, NEW caller \in Ids, NEW callee \in Ids,
             procmsg_CONNID_refused(n, caller, callee)
      PROVE  ControlInv'
  BY <1>7, CloseNewconnControl DEF procmsg_CONNID_refused
<1>8. ASSUME NEW n \in NewconnSlots, newconn_shutdown(n)
      PROVE  ControlInv'
  BY <1>8, ShutdownControl
<1>9. ASSUME NEW c \in ClientSlots, NEW id \in Ids, c2n_authenticated(c, id)
      PROVE  ControlInv'
  BY <1>9, AuthenticatedControl
<1>10. ASSUME NEW c \in ClientSlots, c2n_fail(c)
      PROVE  ControlInv'
  BY <1>10, SameClientsNow, DeleteClientControl DEF c2n_fail
<1>11. ASSUME NEW i \in ClientSlots, NEW callee \in Ids, procmsg_CONNREQOUTG(i, callee)
      PROVE  ControlInv'
  <2>1. CASE UNCHANGED <<clients, links>>
    BY <1>11, <2>1, UnchangedControl DEF procmsg_CONNREQOUTG
  <2>2. ASSUME tree[callee] # None,
               clients' = [clients EXCEPT ![tree[callee]].age = 0,
                                          ![tree[callee]].ticking = TRUE]
        PROVE  ControlInv'
    <3>1. PICK o \in ClientSlots : tree[callee] = o
      BY <2>2 DEF StructsOK
    <3>2. clients[o].state = "CONNECTED"
      BY <3>1 DEF ControlInv, TreeIsPrimaries
    <3>3. clients' \in [ClientSlots -> Client]
      BY <2>2, <3>1 DEF StructsOK, Client
    <3>4. /\ \A c \in ClientSlots : c # o => clients'[c] = clients[c]
          /\ clients'[o].state = clients[o].state
          /\ clients'[o].id = clients[o].id
          /\ clients'[o].ip = clients[o].ip
      BY <2>2, <3>1 DEF StructsOK, Client
    <3>5. SameClients(clients')
      BY <3>3, <3>4 DEF SameClients
    <3>6. UNCHANGED <<newconns, tree>>
      BY <1>11 DEF procmsg_CONNREQOUTG
    <3>7. QED
      BY <3>2, <3>4, <3>5, <3>6, TimersControl
  <2>3. QED
    BY <1>11, <2>1, <2>2 DEF procmsg_CONNREQOUTG, client_tree_search
<1>12. ASSUME NEW c \in ClientSlots, NEW caller \in Ids, procmsg_CONNALLOW(c, caller)
      PROVE  ControlInv'
  <2>1. clients[c].state = "CONNECTED"
    BY <1>12 DEF procmsg_CONNALLOW
  <2>2. CASE DeleteClient(c, Answered(c))
    BY <2>1, <2>2, SameClientsAnswered, DeleteClientControl
  <2>3. CASE clients' = Answered(c) /\ UNCHANGED <<newconns, tree>>
    BY <2>1, <2>3, SameClientsAnswered, TimersControl
  <2>4. QED
    BY <1>12, <2>2, <2>3 DEF procmsg_CONNALLOW
<1>13. ASSUME NEW c \in ClientSlots, NEW caller \in Ids, procmsg_CONNDENY(c, caller)
      PROVE  ControlInv'
  <2>1. clients[c].state = "CONNECTED"
    BY <1>13 DEF procmsg_CONNDENY
  <2>2. CASE DeleteClient(c, Answered(c))
    BY <2>1, <2>2, SameClientsAnswered, DeleteClientControl
  <2>3. ASSUME NEW l \in LinkSlots, newconns' = NewconnsAfter({}, {}, {l}),
               Delete({}, {}, {l}, Answered(c))
        PROVE  ControlInv'
    <3>1. \A d \in ClientSlots : Held(d) => Answered(c)[d] = clients[d]
      BY <2>1, SameClientsAnswered DEF Held, ControlInv, Owned
    <3>2. \A d \in ClientSlots : Held(d) =>
             d \in client_list_delete({}, {}) \/ (d \notin {} /\ Answered(c)[d] = clients[d])
      BY <3>1
    <3>3. {} \in SUBSET NewconnSlots /\ {} \in SUBSET ClientSlots /\ {l} \in SUBSET LinkSlots
      OBVIOUS
    <3>4. SameClients(Answered(c))
      BY SameClientsAnswered
    <3>5. QED
      BY <2>3, <3>2, <3>3, <3>4, DeleteStep
  <2>4. QED
    BY <1>13, <2>2, <2>3 DEF procmsg_CONNDENY, cclink_list_search, LiveLinks
<1>14. ASSUME NEW c \in ClientSlots,
              procmsg_PINGREQ_client(c) \/ procmsg_MULTILOGIN_client(c)
      PROVE  ControlInv'
  BY <1>14, UnchangedControl DEF procmsg_PINGREQ_client, procmsg_MULTILOGIN_client
<1>15. ASSUME NEW c \in ClientSlots, procmsg_PINGREP_client(c)
      PROVE  ControlInv'
  <2>1. clients[c].state # "WAITANONTLSSHUTDOWN"
    BY <1>15 DEF procmsg_PINGREP_client, Online
  <2>2. QED
    BY <1>15, <2>1, SameClientsAnswered, TimersControl DEF procmsg_PINGREP_client
<1>16. ASSUME NEW l \in LinkSlots, process_c2c_fail(l)
      PROVE  ControlInv'
  BY <1>16, SameClientsNow, DeleteStep DEF process_c2c_fail
<1>17. CASE Second
  BY <1>17, SecondControl
<1>18. CASE process_timeouts
  BY <1>18, TimeoutsControl
<1>19. CASE UNCHANGED vars
  BY <1>19, UnchangedControl DEF vars
<1>20. QED
  BY <1>1, <1>2, <1>3, <1>4, <1>5, <1>6, <1>7, <1>8, <1>9, <1>10, <1>11, <1>12, <1>13,
     <1>14, <1>15, <1>16, <1>17, <1>18, <1>19
  DEF Next, OtherStep, NewconnStep, ClientStep, Answer, Undefined

-----------------------------------------------------------------------------
(* The theorems *)

LEMMA ControlOwns == ControlInv => NewconnOwnsItsClient
BY NoneAssumption
DEF ControlInv, PointersSet, Owned, NewconnOwnsItsClient, ClientOwner

\* The inductive invariant of control connections and the newconns they come from.
THEOREM ControlCorrect == Spec => [](StructsOK /\ ControlInv)
<1>1. Init => StructsOK /\ ControlInv
  BY InitType, InitControl
<1>2. StructsOK /\ ControlInv /\ [Next]_vars => (StructsOK /\ ControlInv)'
  BY NextType, NextControl
<1>3. QED
  BY <1>1, <1>2, PTL DEF Spec

\* No order of logins, losses, evictions and timeouts, and no sequence of requests in one
\* read, makes newconn_close or process_newconn_read follow a pointer to a freed client, or
\* two newconns hold the same one; for any number of newconns, clients and ids.
THEOREM NewconnOwnership == Spec => []NewconnOwnsItsClient
BY ControlCorrect, ControlOwns, PTL

\* client_tree_search finds exactly the primaries, and every logged-in id has one, until a
\* client with two children has been removed from the tree (client_tree_remove), which never
\* happens with two ids; until then, ClientTree checks the pointers (OneStepIsRight).
THEOREM TreeCorrect == Spec => []TreeIsPrimaries
<1>1. ControlInv => TreeIsPrimaries
  BY DEF ControlInv
<1>2. QED
  BY <1>1, ControlCorrect, PTL

-----------------------------------------------------------------------------
(* CALLS: both ends of every link are live primaries, a pair has one link,    *)
(* joined sockets come from the addresses of the two clients, and each end is *)
(* being joined by one connection; the node implements CallService.           *)

-----------------------------------------------------------------------------
(* Steps that leave the surviving links as they are *)

\* c is as connected as it was.
SameEnd(c) ==
    /\ clients'[c].state = clients[c].state
    /\ clients'[c].id = clients[c].id
    /\ clients'[c].ip = clients[c].ip

LEMMA LinkFrame ==
    ASSUME StructsOK, LinkEndsArePrimaries, UniquePair, JoinedFromTheRightAddress,
           \A l \in LinkSlots :
               \/ links'[l].state = "FREE"
               \/ /\ links'[l] = links[l]
                  /\ SameEnd(links[l].p1)
                  /\ SameEnd(links[l].p2)
    PROVE  /\ LinkEndsArePrimaries'
           /\ UniquePair'
           /\ JoinedFromTheRightAddress'
<1>1. \A l \in LinkSlots : l \in LiveLinks' => /\ l \in LiveLinks
                                               /\ links'[l] = links[l]
                                               /\ SameEnd(links[l].p1)
                                               /\ SameEnd(links[l].p2)
  BY DEF LiveLinks
<1>2. LinkEndsArePrimaries'
  BY <1>1 DEF LinkEndsArePrimaries, SameEnd, LiveLinks
<1>3. UniquePair'
  BY <1>1 DEF UniquePair, CallerId, CalleeId, SameEnd, LiveLinks
<1>4. JoinedFromTheRightAddress'
  BY <1>1 DEF JoinedFromTheRightAddress, CalleeJoined, CallerJoined, SameEnd, LiveLinks
<1>5. QED
  BY <1>2, <1>3, <1>4

\* One live link goes on to another state; nothing changes for the other links.
LEMMA LinkStep ==
    ASSUME StructsOK, LinkEndsArePrimaries, UniquePair, JoinedFromTheRightAddress,
           NEW l \in LiveLinks,
           \A k \in LinkSlots : k # l => links'[k] = links[k],
           links'[l].p1 = links[l].p1, links'[l].p2 = links[l].p2,
           \A c \in ClientSlots : SameEnd(c),
           IF CalleeJoined(l)' THEN links'[l].sck_p2 = clients[links[l].p2].ip
                               ELSE links'[l].sck_p2 = None,
           IF CallerJoined(l)' THEN links'[l].sck_p1 = clients[links[l].p1].ip
                               ELSE links'[l].sck_p1 = None
    PROVE  /\ LinkEndsArePrimaries'
           /\ UniquePair'
           /\ JoinedFromTheRightAddress'
<1>1. \A k \in LinkSlots : k \in LiveLinks' => k \in LiveLinks
  BY DEF LiveLinks
<1>2. \A k \in LiveLinks : /\ k \in LinkSlots
                           /\ links'[k].p1 = links[k].p1
                           /\ links'[k].p2 = links[k].p2
                           /\ links[k].p1 \in ClientSlots
                           /\ links[k].p2 \in ClientSlots
                           /\ SameEnd(links[k].p1)
                           /\ SameEnd(links[k].p2)
  BY DEF LinkEndsArePrimaries, LiveLinks
<1>3. \A k \in LiveLinks' : k \in LiveLinks
  BY <1>1 DEF LiveLinks
<1>4. LinkEndsArePrimaries'
  BY <1>2, <1>3 DEF LinkEndsArePrimaries, SameEnd
<1>5. UniquePair'
  BY <1>2, <1>3 DEF UniquePair, CallerId, CalleeId, SameEnd
<1>6. JoinedFromTheRightAddress'
  <2>1. ASSUME NEW k \in LiveLinks'
        PROVE  /\ IF CalleeJoined(k)' THEN links'[k].sck_p2 = clients'[links'[k].p2].ip
                                      ELSE links'[k].sck_p2 = None
               /\ IF CallerJoined(k)' THEN links'[k].sck_p1 = clients'[links'[k].p1].ip
                                      ELSE links'[k].sck_p1 = None
    <3>1. k \in LiveLinks
      BY <1>3
    <3>2. CASE k = l
      BY <1>2, <3>1, <3>2 DEF SameEnd
    <3>3. CASE k # l
      <4>1. links'[k] = links[k]
        BY <1>2, <3>1, <3>3
      <4>2. QED
        BY <1>2, <3>1, <4>1 DEF JoinedFromTheRightAddress, CalleeJoined, CallerJoined, SameEnd
    <3>4. QED
      BY <3>2, <3>3
  <2>2. QED
    BY <2>1 DEF JoinedFromTheRightAddress
<1>7. QED
  BY <1>4, <1>5, <1>6

\* A link that survives a deletion is the link it was, between clients that survive.
LEMMA Survivors ==
    ASSUME StructsOK, TreeIsPrimaries, LinkEndsArePrimaries, NEW N \in SUBSET NewconnSlots,
           NEW C \in SUBSET ClientSlots, NEW L \in SUBSET LinkSlots, NEW cs,
           SameClients(cs), Delete(N, C, L, cs)
    PROVE  \A l \in LinkSlots :
               \/ links'[l].state = "FREE"
               \/ /\ links'[l] = links[l]
                  /\ links[l].p1 \notin client_list_delete(N, C)
                  /\ links[l].p2 \notin client_list_delete(N, C)
                  /\ SameEnd(links[l].p1)
                  /\ SameEnd(links[l].p2)
<1> DEFINE goneC == client_list_delete(N, C)
           goneL == cclink_list_delete(N, L, goneC)
<1>1. /\ \A l \in LinkSlots : l \in goneL => links'[l].state = "FREE"
      /\ \A l \in LinkSlots : l \notin goneL => links'[l] = links[l]
  BY DEF Delete, LinksWithout, FreeLink
<1>2. \A c \in ClientSlots : c \notin goneC =>
            /\ clients'[c].id = clients[c].id
            /\ clients'[c].ip = clients[c].ip
            /\ \/ clients'[c].state = clients[c].state
               \/ /\ clients[c].state = "MULTILOGIN_SECONDARY"
                  /\ clients'[c].state = "CONNECTED"
  BY DeleteClients
<1>3. ASSUME NEW l \in LiveLinks, l \notin goneL
      PROVE  /\ links[l].p1 \notin goneC /\ SameEnd(links[l].p1)
             /\ links[l].p2 \notin goneC /\ SameEnd(links[l].p2)
  <2>1. links[l].p1 \notin goneC /\ links[l].p2 \notin goneC
    BY <1>3 DEF cclink_list_delete
  <2>2. /\ links[l].p1 \in ClientSlots /\ clients[links[l].p1].state = "CONNECTED"
        /\ links[l].p2 \in ClientSlots /\ clients[links[l].p2].state = "CONNECTED"
    BY DEF LinkEndsArePrimaries
  <2> HIDE DEF goneC, goneL
  <2>3. QED
    BY <1>2, <2>1, <2>2 DEF SameEnd
<1> HIDE DEF goneL
<1>4. QED
  BY <1>1, <1>3 DEF LiveLinks

LEMMA DeleteLinks ==
    ASSUME StructsOK, ControlInv, LinkInv, NEW N \in SUBSET NewconnSlots,
           NEW C \in SUBSET ClientSlots, NEW L \in SUBSET LinkSlots, NEW cs,
           SameClients(cs), Delete(N, C, L, cs)
    PROVE  /\ LinkEndsArePrimaries'
           /\ UniquePair'
           /\ JoinedFromTheRightAddress'
           /\ JoinOwned(NewconnsAfter(N, C, L), links')
<1> DEFINE nc == NewconnsAfter(N, C, L)
           goneC == client_list_delete(N, C)
           goneL == cclink_list_delete(N, L, goneC)
<1>0. /\ LinkEndsArePrimaries
      /\ UniquePair
      /\ JoinedFromTheRightAddress
      /\ JoinOwned(newconns, links)
      /\ TreeIsPrimaries
  BY DEF LinkInv, ControlInv
<1>1. /\ \A l \in LinkSlots : l \in goneL => links'[l].state = "FREE"
      /\ \A l \in LinkSlots : l \notin goneL => links'[l] = links[l]
  BY DEF Delete, LinksWithout, FreeLink
<1>2. \A l \in LinkSlots :
               \/ links'[l].state = "FREE"
               \/ /\ links'[l] = links[l]
                  /\ SameEnd(links[l].p1)
                  /\ SameEnd(links[l].p2)
  BY <1>0, Survivors
<1>3. /\ LinkEndsArePrimaries'
      /\ UniquePair'
      /\ JoinedFromTheRightAddress'
  BY <1>0, <1>2, LinkFrame
<1>4. \A n \in NewconnSlots :
        /\ n \in N => nc[n].cc = None
        /\ n \notin N => nc[n].cc = IF newconns[n].cc \in goneL THEN Freed
                                    ELSE newconns[n].cc
  BY NewconnsAfterFacts DEF FreeNewconn
<1>5. JoinOwned(nc, links')
  <2>1. ASSUME NEW n \in NewconnSlots, NEW l \in LinkSlots, nc[n].cc = l
        PROVE  newconns[n].cc = l /\ l \notin goneL /\ n \notin N
    <3> HIDE DEF goneL, nc
    <3>1. QED
      BY <1>4, <2>1, NoneAssumption
  <2>2. ASSUME NEW l \in LinkSlots, NEW n \in NewconnSlots, newconns[n].cc = l,
               l \notin goneL, links[l].state # "FREE"
        PROVE  nc[n].cc = l
    <3>1. n \notin N
      BY <2>2 DEF cclink_list_delete, LiveLinks
    <3> HIDE DEF goneL, nc
    <3>2. QED
      BY <1>4, <2>2, <3>1
  <2> HIDE DEF goneL, nc
  <2>3. \A n \in NewconnSlots, l \in LinkSlots : nc[n].cc = l =>
           /\ links'[l].state \in {"WAITCONNCLEANONTLSSHUTDOWN", "WAITCONNCLRANONTLSSHUTDOWN"}
           /\ \A m \in NewconnSlots : nc[m].cc = l => m = n
    BY <1>0, <1>1, <2>1 DEF JoinOwned
  <2>4. \A l \in LinkSlots :
           links'[l].state \in {"WAITCONNCLEANONTLSSHUTDOWN", "WAITCONNCLRANONTLSSHUTDOWN"} =>
              \E n \in NewconnSlots : nc[n].cc = l
    BY <1>0, <1>1, <2>2 DEF JoinOwned
  <2>5. QED
    BY <2>3, <2>4 DEF JoinOwned
<1>6. QED
  BY <1>3, <1>5

-----------------------------------------------------------------------------
(* Every callback keeps the invariant *)

\* A step that changes no link, no pointer to a link and no connected client.
LEMMA QuietLinks ==
    ASSUME StructsOK, LinkInv, links' = links,
           \A n \in NewconnSlots : newconns'[n].cc = newconns[n].cc,
           \A c \in ClientSlots : clients[c].state = "CONNECTED" => SameEnd(c)
    PROVE  LinkInv'
<1>1. \A l \in LinkSlots : \/ links'[l].state = "FREE"
                           \/ /\ links'[l] = links[l]
                              /\ SameEnd(links[l].p1)
                              /\ SameEnd(links[l].p2)
  BY DEF LinkInv, LinkEndsArePrimaries, LiveLinks
<1>2. JoinOwned(newconns, links)'
  BY DEF LinkInv, JoinOwned
<1>3. QED
  BY <1>1, <1>2, LinkFrame DEF LinkInv

LEMMA UnchangedLinks ==
    ASSUME StructsOK, LinkInv, UNCHANGED <<newconns, clients, links>>
    PROVE  LinkInv'
BY QuietLinks DEF SameEnd

\* Requests of a new connection make clients, and leave those that are connected.
LEMMA RequestsEnds ==
    ASSUME StructsOK, NEW n \in NewconnSlots, NEW C \in SUBSET ClientSlots, ReadRequests(n, C)
    PROVE  \A c \in ClientSlots : clients[c].state = "CONNECTED" => SameEnd(c)
<1>1. /\ \A c \in C : clients[c].state = "FREE"
      /\ clients' = [c \in ClientSlots |-> IF c \in C THEN client_list_addnew(n) ELSE clients[c]]
  BY RequestsFacts
<1>2. QED
  BY <1>1 DEF SameEnd

LEMMA DeleteLinksStep ==
    ASSUME StructsOK, ControlInv, LinkInv, NEW N \in SUBSET NewconnSlots,
           NEW C \in SUBSET ClientSlots, NEW L \in SUBSET LinkSlots, NEW cs,
           SameClients(cs), Delete(N, C, L, cs), newconns' = NewconnsAfter(N, C, L)
    PROVE  LinkInv'
BY DeleteLinks DEF LinkInv

LEMMA CloseNewconnLinks ==
    ASSUME StructsOK, ControlInv, LinkInv, NEW n \in NewconnSlots, CloseNewconn(n)
    PROVE  LinkInv'
<1>1. CASE UsesFreed(n)
  BY <1>1, UnchangedLinks DEF CloseNewconn, UseFreed
<1>2. CASE ~UsesFreed(n)
  BY <1>2, SameClientsNow, DeleteLinksStep DEF CloseNewconn
<1>3. QED
  BY <1>1, <1>2

LEMMA DeleteClientLinks ==
    ASSUME StructsOK, ControlInv, LinkInv, NEW c \in ClientSlots, NEW cs,
           SameClients(cs), DeleteClient(c, cs)
    PROVE  LinkInv'
BY DeleteLinksStep DEF DeleteClient

LEMMA AnsweredEnds ==
    ASSUME StructsOK, NEW c \in ClientSlots, clients' = Answered(c)
    PROVE  \A d \in ClientSlots : SameEnd(d)
BY SameClientsAnswered DEF SameClients, SameEnd

LEMMA ListenLinks ==
    ASSUME StructsOK, ControlInv, LinkInv, NEW ip \in Ips, NEW slot \in NewconnSlots,
           process_listen_read(ip, slot)
    PROVE  LinkInv'
<1> DEFINE evicted == IF TableFull THEN {slot} ELSE {}
           nc == NewconnsAfter(evicted, {}, {})
           fresh == [FreeNewconn EXCEPT !.state = "WAITANONTLSACCEPT", !.ip = ip]
<1>1. CASE \E n \in evicted : UsesFreed(n)
  BY <1>1, UnchangedLinks DEF process_listen_read, UseFreed
<1>2. CASE ~\E n \in evicted : UsesFreed(n)
  <2>1. /\ newconns' = [nc EXCEPT ![slot] = fresh]
        /\ Delete(evicted, {}, {}, clients)
    BY <1>2 DEF process_listen_read
  <2>2. evicted \in SUBSET NewconnSlots
    OBVIOUS
  <2> HIDE DEF evicted
  <2>3. /\ LinkEndsArePrimaries'
        /\ UniquePair'
        /\ JoinedFromTheRightAddress'
        /\ JoinOwned(nc, links')
    <3>1. {} \in SUBSET ClientSlots /\ {} \in SUBSET LinkSlots
      OBVIOUS
    <3>2. SameClients(clients)
      BY SameClientsNow
    <3> HIDE DEF nc
    <3>3. QED
      BY <2>1, <2>2, <3>1, <3>2, DeleteLinks DEF nc
  <2>4. nc \in [NewconnSlots -> Newconn]
    BY NewconnsAfterType
  <2>5. nc[slot].cc = None
    <3>1. CASE TableFull
      BY <3>1, NewconnsAfterFacts DEF evicted, FreeNewconn
    <3>2. CASE ~TableFull
      <4>1. newconns[slot].state = "FREE"
        BY <3>2 DEF process_listen_read, newconn_add, IsFree
      <4>2. newconns[slot].cc = None
        BY <4>1 DEF ControlInv, PointersSet
      <4>3. None \notin cclink_list_delete(evicted, {}, client_list_delete(evicted, {}))
        BY NoneAssumption DEF cclink_list_delete, LiveLinks
      <4>4. QED
        BY <3>2, <4>2, <4>3, NewconnsAfterFacts DEF evicted
    <3>3. QED
      BY <3>1, <3>2
  <2>6. fresh.cc = None
    BY DEF FreeNewconn
  <2> HIDE DEF nc, fresh
  <2>7. \A m \in NewconnSlots : newconns'[m].cc = nc[m].cc
    BY <2>1, <2>4, <2>5, <2>6
  <2>8. JoinOwned(newconns, links)'
    BY <2>3, <2>7 DEF JoinOwned
  <2>9. QED
    BY <2>3, <2>8 DEF LinkInv
<1>3. QED
  BY <1>1, <1>2

LEMMA ConnIdLinks ==
    ASSUME StructsOK, ControlInv, LinkInv, NEW n \in NewconnSlots,
           NEW caller \in Ids, NEW callee \in Ids, procmsg_CONNID(n, caller, callee)
    PROVE  LinkInv'
<1>1. PICK l \in LiveLinks :
        /\ Joinable(l)
        /\ newconns[n].ip = ExpectedIp(l)
        /\ newconns' = [newconns EXCEPT ![n].cc = l, ![n].state = "WAITANONTLSSHUTDOWN"]
        /\ links' = [links EXCEPT ![l] = cclink_setwaitanontlsshutdown(l, n)]
  BY DEF procmsg_CONNID, cclink_list_search
<1>2. l \in LinkSlots /\ links[l] \in Link
  BY DEF LiveLinks, StructsOK
<1>3. newconns[n].state = "WAITREQUEST" /\ UNCHANGED clients
  BY DEF procmsg_CONNID
<1>4. /\ \A k \in LinkSlots : k # l => links'[k] = links[k]
      /\ links'[l] = cclink_setwaitanontlsshutdown(l, n)
  BY <1>1, <1>2 DEF StructsOK
<1>5. /\ links'[l].p1 = links[l].p1
      /\ links'[l].p2 = links[l].p2
      /\ links[l].state = "WAITCONNCLE" =>
            /\ links'[l].state = "WAITCONNCLEANONTLSSHUTDOWN"
            /\ links'[l].sck_p2 = newconns[n].ip
            /\ links'[l].sck_p1 = links[l].sck_p1
      /\ links[l].state = "WAITCONNCLR" =>
            /\ links'[l].state = "WAITCONNCLRANONTLSSHUTDOWN"
            /\ links'[l].sck_p1 = newconns[n].ip
            /\ links'[l].sck_p2 = links[l].sck_p2
  BY <1>2, <1>4 DEF cclink_setwaitanontlsshutdown, Link
<1>6. /\ IF CalleeJoined(l) THEN links[l].sck_p2 = clients[links[l].p2].ip
                            ELSE links[l].sck_p2 = None
      /\ IF CallerJoined(l) THEN links[l].sck_p1 = clients[links[l].p1].ip
                            ELSE links[l].sck_p1 = None
  BY DEF LinkInv, JoinedFromTheRightAddress
<1>7. ASSUME links[l].state = "WAITCONNCLE"
      PROVE  /\ LinkEndsArePrimaries'
             /\ UniquePair'
             /\ JoinedFromTheRightAddress'
  <2>1. IF CalleeJoined(l)' THEN links'[l].sck_p2 = clients[links[l].p2].ip
                            ELSE links'[l].sck_p2 = None
    BY <1>1, <1>5, <1>7 DEF ExpectedIp, CalleeJoined
  <2>2. IF CallerJoined(l)' THEN links'[l].sck_p1 = clients[links[l].p1].ip
                            ELSE links'[l].sck_p1 = None
    BY <1>5, <1>6, <1>7 DEF CallerJoined
  <2>3. \A c \in ClientSlots : SameEnd(c)
    BY <1>3 DEF SameEnd
  <2>4. QED
    BY <1>4, <1>5, <2>1, <2>2, <2>3, LinkStep DEF LinkInv
<1>8. ASSUME links[l].state = "WAITCONNCLR"
      PROVE  /\ LinkEndsArePrimaries'
             /\ UniquePair'
             /\ JoinedFromTheRightAddress'
  <2>1. IF CalleeJoined(l)' THEN links'[l].sck_p2 = clients[links[l].p2].ip
                            ELSE links'[l].sck_p2 = None
    BY <1>5, <1>6, <1>8 DEF CalleeJoined
  <2>2. IF CallerJoined(l)' THEN links'[l].sck_p1 = clients[links[l].p1].ip
                            ELSE links'[l].sck_p1 = None
    BY <1>1, <1>5, <1>8 DEF ExpectedIp, CallerJoined
  <2>3. \A c \in ClientSlots : SameEnd(c)
    BY <1>3 DEF SameEnd
  <2>4. QED
    BY <1>4, <1>5, <2>1, <2>2, <2>3, LinkStep DEF LinkInv
<1>9. JoinOwned(newconns, links)'
  <2>1. newconns[n].cc = None
    BY <1>3 DEF ControlInv, PointersSet
  <2>2. /\ \A m \in NewconnSlots : m # n => newconns'[m].cc = newconns[m].cc
        /\ newconns'[n].cc = l
    BY <1>1 DEF StructsOK, Newconn
  <2>3. \A m \in NewconnSlots : newconns[m].cc # l
    BY <1>1, <1>2 DEF LinkInv, JoinOwned, Joinable
  <2>4. links'[l].state \in {"WAITCONNCLEANONTLSSHUTDOWN", "WAITCONNCLRANONTLSSHUTDOWN"}
    BY <1>1, <1>5 DEF Joinable
  <2>5. ASSUME NEW m \in NewconnSlots, NEW k \in LinkSlots, newconns'[m].cc = k
        PROVE  /\ links'[k].state \in {"WAITCONNCLEANONTLSSHUTDOWN",
                                       "WAITCONNCLRANONTLSSHUTDOWN"}
               /\ \A j \in NewconnSlots : newconns'[j].cc = k => j = m
    <3>1. CASE k = l
      BY <2>2, <2>3, <2>4, <2>5, <3>1
    <3>2. CASE k # l
      BY <1>4, <2>2, <2>5, <3>2 DEF LinkInv, JoinOwned
    <3>3. QED
      BY <3>1, <3>2
  <2>6. ASSUME NEW k \in LinkSlots,
               links'[k].state \in {"WAITCONNCLEANONTLSSHUTDOWN", "WAITCONNCLRANONTLSSHUTDOWN"}
        PROVE  \E m \in NewconnSlots : newconns'[m].cc = k
    <3>1. CASE k = l
      BY <2>2, <3>1
    <3>2. CASE k # l
      BY <1>4, <2>1, <2>2, <2>6, <3>2, NoneAssumption DEF LinkInv, JoinOwned
    <3>3. QED
      BY <3>1, <3>2
  <2>7. QED
    BY <2>5, <2>6 DEF JoinOwned
<1>10. QED
  BY <1>1, <1>7, <1>8, <1>9 DEF Joinable, LinkInv

LEMMA ShutdownLinks ==
    ASSUME StructsOK, ControlInv, LinkInv, NEW n \in NewconnSlots, newconn_shutdown(n)
    PROVE  LinkInv'
<1>1. CASE UsesFreed(n)
  BY <1>1, UnchangedLinks DEF newconn_shutdown, UseFreed
<1>2. CASE ~UsesFreed(n)
  <2>1. newconns' = [newconns EXCEPT ![n] = FreeNewconn]
    BY <1>2 DEF newconn_shutdown
  <2>2. /\ \A m \in NewconnSlots : m # n => newconns'[m] = newconns[m]
        /\ newconns'[n].cc = None
    BY <2>1 DEF StructsOK, FreeNewconn
  <2>3. ASSUME NEW c \in ClientSlots, newconns[n].cl = c,
               clients' = [clients EXCEPT ![c].state = "TLSNEGOTIATION"],
               UNCHANGED links
        PROVE  LinkInv'
    <3>1. clients[c].state = "WAITANONTLSSHUTDOWN"
      BY <2>3 DEF ControlInv, Owned
    <3>2. \A d \in ClientSlots : d # c => clients'[d] = clients[d]
      BY <2>3 DEF StructsOK
    <3>3. newconns[n].cc = None
      BY <2>3, NoneAssumption DEF ControlInv, PointersSet
    <3>4. \A m \in NewconnSlots : newconns'[m].cc = newconns[m].cc
      BY <2>2, <3>3
    <3>5. QED
      BY <2>3, <3>1, <3>2, <3>4, QuietLinks DEF SameEnd
  <2>4. ASSUME NEW l \in LinkSlots, newconns[n].cc = l,
               links' = [links EXCEPT ![l] = cclink_activate(l)], UNCHANGED clients
        PROVE  LinkInv'
    <3>1. /\ links[l].state \in {"WAITCONNCLEANONTLSSHUTDOWN", "WAITCONNCLRANONTLSSHUTDOWN"}
          /\ \A m \in NewconnSlots : newconns[m].cc = l => m = n
      BY <2>4 DEF LinkInv, JoinOwned
    <3>2. l \in LiveLinks
      BY <3>1 DEF LiveLinks
    <3>3. /\ \A k \in LinkSlots : k # l => links'[k] = links[k]
          /\ links'[l] = cclink_activate(l)
      BY <2>4 DEF StructsOK
    <3>4. links[l] \in Link
      BY DEF StructsOK
    <3>5. /\ links'[l].p1 = links[l].p1
          /\ links'[l].p2 = links[l].p2
          /\ links'[l].sck_p1 = links[l].sck_p1
          /\ links'[l].sck_p2 = links[l].sck_p2
          /\ links'[l].state = IF links[l].state = "WAITCONNCLEANONTLSSHUTDOWN"
                               THEN "WAITCONNCLR" ELSE "ACTIVE"
      BY <3>3, <3>4 DEF cclink_activate, Link
    <3>6. /\ CalleeJoined(l) /\ CalleeJoined(l)'
          /\ CallerJoined(l) <=> CallerJoined(l)'
      BY <3>1, <3>5 DEF CalleeJoined, CallerJoined
    <3>7. /\ IF CalleeJoined(l) THEN links[l].sck_p2 = clients[links[l].p2].ip
                                ELSE links[l].sck_p2 = None
          /\ IF CallerJoined(l) THEN links[l].sck_p1 = clients[links[l].p1].ip
                                ELSE links[l].sck_p1 = None
      BY <3>2 DEF LinkInv, JoinedFromTheRightAddress
    <3>8. \A c \in ClientSlots : SameEnd(c)
      BY <2>4 DEF SameEnd
    <3>9. /\ LinkEndsArePrimaries'
          /\ UniquePair'
          /\ JoinedFromTheRightAddress'
      BY <3>2, <3>3, <3>5, <3>6, <3>7, <3>8, LinkStep DEF LinkInv
    <3>10. JoinOwned(newconns, links)'
      <4>1. \A m \in NewconnSlots, k \in LinkSlots :
               newconns'[m].cc = k <=> newconns[m].cc = k /\ k # l
        BY <2>2, <2>4, <3>1, NoneAssumption
      <4>2. links'[l].state \notin {"WAITCONNCLEANONTLSSHUTDOWN", "WAITCONNCLRANONTLSSHUTDOWN"}
        BY <3>5
      <4>3. QED
        BY <3>3, <4>1, <4>2 DEF LinkInv, JoinOwned
    <3>11. QED
      BY <3>9, <3>10 DEF LinkInv
  <2>5. QED
    BY <1>2, <2>3, <2>4 DEF newconn_shutdown
<1>3. QED
  BY <1>1, <1>2

LEMMA ConnReqLinks ==
    ASSUME StructsOK, ControlInv, LinkInv, NEW i \in ClientSlots, NEW callee \in Ids,
           procmsg_CONNREQOUTG(i, callee)
    PROVE  LinkInv'
<1>1. CASE UNCHANGED <<clients, links>>
  BY <1>1, UnchangedLinks DEF procmsg_CONNREQOUTG
<1>2. ASSUME NEW l \in LinkSlots \ LiveLinks, tree[callee] # None,
             cclink_list_search(clients[i].id, callee) = {},
             clients[i].id # callee,
             links' = [links EXCEPT ![l] = [FreeLink EXCEPT !.state = "WAITREP",
                                                   !.p1 = i, !.p2 = tree[callee]]],
             clients' = [clients EXCEPT ![tree[callee]].age = 0,
                                        ![tree[callee]].ticking = TRUE]
      PROVE  LinkInv'
  <2>1. PICK o \in ClientSlots : tree[callee] = o
    BY <1>2 DEF StructsOK
  <2>2. /\ clients[o].state = "CONNECTED" /\ clients[o].id = callee
        /\ clients[i].state = "CONNECTED"
    BY <2>1 DEF ControlInv, TreeIsPrimaries, procmsg_CONNREQOUTG
  <2>3. \A c \in ClientSlots : SameEnd(c)
    BY <1>2, <2>1 DEF StructsOK, Client, SameEnd
  <2>4. /\ \A k \in LinkSlots : k # l => links'[k] = links[k]
        /\ links'[l].state = "WAITREP"
        /\ links'[l].p1 = i
        /\ links'[l].p2 = o
        /\ links'[l].sck_p1 = None
        /\ links'[l].sck_p2 = None
    BY <1>2, <2>1 DEF StructsOK, FreeLink
  <2>5. \A k \in LiveLinks' : k = l \/ (k \in LiveLinks /\ k # l /\ links'[k] = links[k])
    BY <1>2, <2>4 DEF LiveLinks
  <2>6. \A k \in LiveLinks : links[k].p1 \in ClientSlots /\ links[k].p2 \in ClientSlots
    BY DEF LinkInv, LinkEndsArePrimaries
  <2>7. LinkEndsArePrimaries'
    <3>1. i # o
      BY <1>2, <2>2
    <3>2. QED
      BY <2>2, <2>3, <2>4, <2>5, <3>1 DEF LinkInv, LinkEndsArePrimaries, SameEnd
  <2>8. UniquePair'
    <3>1. CallerId(l)' = clients[i].id /\ CalleeId(l)' = callee
      BY <2>2, <2>3, <2>4 DEF CallerId, CalleeId, SameEnd
    <3>2. \A k \in LiveLinks' : k # l =>
             /\ k \in LiveLinks
             /\ CallerId(k)' = CallerId(k)
             /\ CalleeId(k)' = CalleeId(k)
             /\ ~(CallerId(k) = clients[i].id /\ CalleeId(k) = callee)
      BY <1>2, <2>3, <2>5, <2>6 DEF CallerId, CalleeId, SameEnd, cclink_list_search
    <3>3. ASSUME NEW j \in LiveLinks', NEW k \in LiveLinks',
                 CallerId(j)' = CallerId(k)', CalleeId(j)' = CalleeId(k)'
          PROVE  j = k
      <4>1. CASE j = l \/ k = l
        BY <3>1, <3>2, <3>3, <4>1
      <4>2. CASE j # l /\ k # l
        BY <3>2, <3>3, <4>2 DEF LinkInv, UniquePair
      <4>3. QED
        BY <4>1, <4>2
    <3>4. QED
      BY <3>3 DEF UniquePair
  <2>9. JoinedFromTheRightAddress'
    <3>1. ASSUME NEW k \in LiveLinks'
          PROVE  /\ IF CalleeJoined(k)' THEN links'[k].sck_p2 = clients'[links'[k].p2].ip
                                        ELSE links'[k].sck_p2 = None
                 /\ IF CallerJoined(k)' THEN links'[k].sck_p1 = clients'[links'[k].p1].ip
                                        ELSE links'[k].sck_p1 = None
      <4>1. CASE k = l
        BY <2>4, <4>1 DEF CalleeJoined, CallerJoined
      <4>2. CASE k # l
        BY <2>3, <2>5, <2>6, <4>2
        DEF LinkInv, JoinedFromTheRightAddress, CalleeJoined, CallerJoined, SameEnd
      <4>3. QED
        BY <4>1, <4>2
    <3>2. QED
      BY <3>1 DEF JoinedFromTheRightAddress
  <2>10. JoinOwned(newconns, links)'
    <3>1. UNCHANGED newconns
      BY DEF procmsg_CONNREQOUTG
    <3>2. links[l].state = "FREE"
      BY <1>2 DEF LiveLinks
    <3>3. QED
      BY <2>4, <3>1, <3>2 DEF LinkInv, JoinOwned
  <2>11. QED
    BY <2>7, <2>8, <2>9, <2>10 DEF LinkInv
<1>3. QED
  BY <1>1, <1>2 DEF procmsg_CONNREQOUTG, client_tree_search, cclink_list_addlocal

LEMMA ConnAllowLinks ==
    ASSUME StructsOK, ControlInv, LinkInv, NEW c \in ClientSlots, NEW caller \in Ids,
           procmsg_CONNALLOW(c, caller)
    PROVE  LinkInv'
<1>1. CASE DeleteClient(c, Answered(c))
  BY <1>1, SameClientsAnswered, DeleteClientLinks
<1>2. ASSUME NEW l \in LiveLinks, Ringing(l),
             links' = [links EXCEPT ![l].state = "WAITCONNCLE"],
             clients' = Answered(c), UNCHANGED newconns
      PROVE  LinkInv'
  <2>1. l \in LinkSlots /\ links[l] \in Link
    BY DEF LiveLinks, StructsOK
  <2>2. /\ \A k \in LinkSlots : k # l => links'[k] = links[k]
        /\ links'[l].p1 = links[l].p1
        /\ links'[l].p2 = links[l].p2
        /\ links'[l].sck_p1 = links[l].sck_p1
        /\ links'[l].sck_p2 = links[l].sck_p2
        /\ links'[l].state = "WAITCONNCLE"
    BY <1>2, <2>1 DEF StructsOK, Link
  <2>3. ~CalleeJoined(l) /\ ~CallerJoined(l) /\ ~CalleeJoined(l)' /\ ~CallerJoined(l)'
    BY <1>2, <2>2 DEF CalleeJoined, CallerJoined, Ringing
  <2>4. links[l].sck_p1 = None /\ links[l].sck_p2 = None
    BY <2>3 DEF LinkInv, JoinedFromTheRightAddress
  <2>5. \A d \in ClientSlots : SameEnd(d)
    BY <1>2, AnsweredEnds
  <2>6. /\ LinkEndsArePrimaries'
        /\ UniquePair'
        /\ JoinedFromTheRightAddress'
    BY <2>2, <2>3, <2>4, <2>5, LinkStep DEF LinkInv
  <2>7. JoinOwned(newconns, links)'
    BY <1>2, <2>1, <2>2 DEF LinkInv, JoinOwned, Ringing
  <2>8. QED
    BY <2>6, <2>7 DEF LinkInv
<1>3. QED
  BY <1>1, <1>2 DEF procmsg_CONNALLOW, cclink_list_search

LEMMA ConnDenyLinks ==
    ASSUME StructsOK, ControlInv, LinkInv, NEW c \in ClientSlots, NEW caller \in Ids,
           procmsg_CONNDENY(c, caller)
    PROVE  LinkInv'
<1>1. CASE DeleteClient(c, Answered(c))
  BY <1>1, SameClientsAnswered, DeleteClientLinks
<1>2. ASSUME NEW l \in LinkSlots, newconns' = NewconnsAfter({}, {}, {l}),
             Delete({}, {}, {l}, Answered(c))
      PROVE  LinkInv'
  <2>1. {} \in SUBSET NewconnSlots /\ {} \in SUBSET ClientSlots /\ {l} \in SUBSET LinkSlots
    OBVIOUS
  <2>2. QED
    BY <1>2, <2>1, SameClientsAnswered, DeleteLinksStep
<1>3. QED
  BY <1>1, <1>2 DEF procmsg_CONNDENY, cclink_list_search, LiveLinks

LEMMA SecondLinks ==
    ASSUME StructsOK, LinkInv, Second
    PROVE  LinkInv'
<1>1. \A n \in NewconnSlots : newconns'[n].cc = newconns[n].cc
  BY DEF Second, StructsOK, Newconn
<1>2. \A c \in ClientSlots : SameEnd(c)
  BY DEF Second, StructsOK, Client, SameEnd
<1>3. \A l \in LinkSlots : /\ links'[l].state = links[l].state
                           /\ links'[l].p1 = links[l].p1
                           /\ links'[l].p2 = links[l].p2
                           /\ links'[l].sck_p1 = links[l].sck_p1
                           /\ links'[l].sck_p2 = links[l].sck_p2
  BY DEF Second, StructsOK, Link
<1>4. /\ LiveLinks' = LiveLinks
      /\ \A l \in LiveLinks : l \in LinkSlots
  BY <1>3 DEF LiveLinks
<1>5. \A l \in LiveLinks : /\ links[l].p1 \in ClientSlots /\ SameEnd(links[l].p1)
                           /\ links[l].p2 \in ClientSlots /\ SameEnd(links[l].p2)
  BY <1>2 DEF LinkInv, LinkEndsArePrimaries
<1>6. LinkEndsArePrimaries'
  BY <1>3, <1>4, <1>5 DEF LinkInv, LinkEndsArePrimaries, SameEnd
<1>7. UniquePair'
  BY <1>3, <1>4, <1>5 DEF LinkInv, UniquePair, CallerId, CalleeId, SameEnd
<1>8. JoinedFromTheRightAddress'
  BY <1>3, <1>4, <1>5
  DEF LinkInv, JoinedFromTheRightAddress, CalleeJoined, CallerJoined, SameEnd
<1>9. JoinOwned(newconns, links)'
  BY <1>1, <1>3 DEF LinkInv, JoinOwned
<1>10. QED
  BY <1>6, <1>7, <1>8, <1>9 DEF LinkInv

LEMMA TimeoutsLinks ==
    ASSUME StructsOK, ControlInv, LinkInv, process_timeouts
    PROVE  LinkInv'
<1> DEFINE N == process_timeouts_newconn
           cs == process_timeouts_c2n(Idle \ client_list_delete(N, {}))
<1>1. CASE \E n \in N : UsesFreed(n)
  BY <1>1, UnchangedLinks DEF process_timeouts, UseFreed
<1>2. CASE ~\E n \in N : UsesFreed(n)
  <2>1. /\ newconns' = NewconnsAfter(N, NoReply, process_timeouts_c2c)
        /\ Delete(N, NoReply, process_timeouts_c2c, cs)
    BY <1>2 DEF process_timeouts
  <2>2. /\ N \in SUBSET NewconnSlots
        /\ NoReply \in SUBSET ClientSlots
        /\ process_timeouts_c2c \in SUBSET LinkSlots
    BY DEF process_timeouts_newconn, NoReply, process_timeouts_c2c, LiveNewconns,
           LiveClients, LiveLinks
  <2>3. SameClients(cs)
    BY DEF process_timeouts_c2n, SameClients, StructsOK, Client
  <2> HIDE DEF N, cs
  <2>4. QED
    BY <2>1, <2>2, <2>3, DeleteLinksStep
<1>3. QED
  BY <1>1, <1>2

LEMMA InitLinks == Init => LinkInv
<1> SUFFICES ASSUME Init PROVE LinkInv
  OBVIOUS
<1>1. /\ \A n \in NewconnSlots : newconns[n].cc = None
      /\ \A l \in LinkSlots : links[l].state = "FREE"
  BY DEF Init, FreeNewconn, FreeLink
<1>2. LiveLinks = {}
  BY <1>1 DEF LiveLinks
<1>3. JoinOwned(newconns, links)
  BY <1>1, NoneAssumption DEF JoinOwned
<1>4. QED
  BY <1>2, <1>3 DEF LinkInv, LinkEndsArePrimaries, UniquePair, JoinedFromTheRightAddress

LEMMA NextLinks == StructsOK /\ ControlInv /\ LinkInv /\ [Next]_vars => LinkInv'
<1> SUFFICES ASSUME StructsOK, ControlInv, LinkInv, [Next]_vars PROVE LinkInv'
  OBVIOUS
<1>1. ASSUME NEW ip \in Ips, NEW slot \in NewconnSlots, process_listen_read(ip, slot)
      PROVE  LinkInv'
  BY <1>1, ListenLinks
<1>2. ASSUME NEW n \in NewconnSlots, newconn_fail(n)
      PROVE  LinkInv'
  BY <1>2, CloseNewconnLinks DEF newconn_fail
<1>3. ASSUME NEW n \in NewconnSlots, newconn_accepted(n)
      PROVE  LinkInv'
  <2>1. \A m \in NewconnSlots : newconns'[m].cc = newconns[m].cc
    BY <1>3 DEF newconn_accepted, StructsOK, Newconn
  <2>2. QED
    BY <1>3, <2>1, QuietLinks DEF SameEnd, newconn_accepted
<1>4. ASSUME NEW n \in NewconnSlots, NEW C \in SUBSET ClientSlots, ReadRequests(n, C)
      PROVE  LinkInv'
  <2>1. newconns[n].cc = None
    BY <1>4, RequestsFacts DEF ControlInv, PointersSet
  <2>2. \A m \in NewconnSlots : newconns'[m].cc = newconns[m].cc
    BY <1>4, <2>1, RequestsFacts
  <2>3. UNCHANGED links
    BY <1>4, RequestsFacts
  <2>4. QED
    BY <1>4, <2>2, <2>3, RequestsEnds, QuietLinks
<1>5. ASSUME NEW n \in NewconnSlots, process_newconn_write(n)
      PROVE  LinkInv'
  <2>1. newconns[n].cc = None
    BY <1>5 DEF process_newconn_write, ControlInv, PointersSet
  <2>2. \A m \in NewconnSlots : newconns'[m].cc = newconns[m].cc
    BY <1>5, <2>1 DEF process_newconn_write, StructsOK, Newconn, FreeNewconn
  <2>3. QED
    BY <1>5, <2>2, QuietLinks DEF process_newconn_write, SameEnd
<1>6. ASSUME NEW n \in NewconnSlots, NEW caller \in Ids, NEW callee \in Ids,
             procmsg_CONNID(n, caller, callee)
      PROVE  LinkInv'
  BY <1>6, ConnIdLinks
<1>7. ASSUME NEW n \in NewconnSlots, NEW caller \in Ids, NEW callee \in Ids,
             procmsg_CONNID_refused(n, caller, callee)
      PROVE  LinkInv'
  BY <1>7, CloseNewconnLinks DEF procmsg_CONNID_refused
<1>8. ASSUME NEW n \in NewconnSlots, newconn_shutdown(n)
      PROVE  LinkInv'
  BY <1>8, ShutdownLinks
<1>9. ASSUME NEW c \in ClientSlots, NEW id \in Ids, c2n_authenticated(c, id)
      PROVE  LinkInv'
  <2>1. /\ clients[c].state = "TLSNEGOTIATION"
        /\ \A d \in ClientSlots : d # c => clients'[d] = clients[d]
    BY <1>9 DEF c2n_authenticated, StructsOK
  <2>2. UNCHANGED <<newconns, links>>
    BY <1>9 DEF c2n_authenticated
  <2>3. QED
    BY <2>1, <2>2, QuietLinks DEF SameEnd
<1>10. ASSUME NEW c \in ClientSlots, c2n_fail(c)
      PROVE  LinkInv'
  BY <1>10, SameClientsNow, DeleteClientLinks DEF c2n_fail
<1>11. ASSUME NEW i \in ClientSlots, NEW callee \in Ids, procmsg_CONNREQOUTG(i, callee)
      PROVE  LinkInv'
  BY <1>11, ConnReqLinks
<1>12. ASSUME NEW c \in ClientSlots, NEW caller \in Ids, Answer(c, caller)
      PROVE  LinkInv'
  BY <1>12, ConnAllowLinks, ConnDenyLinks DEF Answer
<1>13. ASSUME NEW c \in ClientSlots,
              procmsg_PINGREQ_client(c) \/ procmsg_MULTILOGIN_client(c)
      PROVE  LinkInv'
  BY <1>13, UnchangedLinks DEF procmsg_PINGREQ_client, procmsg_MULTILOGIN_client
<1>14. ASSUME NEW c \in ClientSlots, procmsg_PINGREP_client(c)
      PROVE  LinkInv'
  BY <1>14, AnsweredEnds, QuietLinks DEF procmsg_PINGREP_client
<1>15. ASSUME NEW l \in LinkSlots, process_c2c_fail(l)
      PROVE  LinkInv'
  <2>1. {} \in SUBSET NewconnSlots /\ {} \in SUBSET ClientSlots /\ {l} \in SUBSET LinkSlots
    OBVIOUS
  <2>2. QED
    BY <1>15, <2>1, SameClientsNow, DeleteLinksStep DEF process_c2c_fail
<1>16. CASE Second
  BY <1>16, SecondLinks
<1>17. CASE process_timeouts
  BY <1>17, TimeoutsLinks
<1>18. CASE UNCHANGED vars
  BY <1>18, UnchangedLinks DEF vars
<1>19. QED
  BY <1>1, <1>2, <1>3, <1>4, <1>5, <1>6, <1>7, <1>8, <1>9, <1>10, <1>11, <1>12, <1>13,
     <1>14, <1>15, <1>16, <1>17, <1>18
  DEF Next, OtherStep, NewconnStep, ClientStep, Undefined

-----------------------------------------------------------------------------
\* The inductive invariant of the node holds in every reachable state.
THEOREM LinksCorrect == Spec => [](StructsOK /\ ControlInv /\ LinkInv)
<1>1. Init => StructsOK /\ ControlInv /\ LinkInv
  BY InitType, InitControl, InitLinks
<1>2. StructsOK /\ ControlInv /\ LinkInv /\ [Next]_vars
        => (StructsOK /\ ControlInv /\ LinkInv)'
  BY NextType, NextControl, NextLinks
<1>3. QED
  BY <1>1, <1>2, PTL DEF Spec

\* Deleting a client leaves no cclink that points to it, however many clients, calls
\* and new connections there are.
THEOREM LinkEndsCorrect == Spec => []LinkEndsArePrimaries
<1>1. StructsOK /\ ControlInv /\ LinkInv => LinkEndsArePrimaries
  BY DEF LinkInv
<1>2. QED
  BY <1>1, LinksCorrect, PTL

\* cclink_list_search is unambiguous: no pair of ids ever has two calls.
THEOREM UniquePairCorrect == Spec => []UniquePair
<1>1. StructsOK /\ ControlInv /\ LinkInv => UniquePair
  BY DEF LinkInv
<1>2. QED
  BY <1>1, LinksCorrect, PTL

\* A call relays only between sockets that come from the addresses of its two clients.
THEOREM AddressesCorrect == Spec => []JoinedFromTheRightAddress
<1>1. StructsOK /\ ControlInv /\ LinkInv => JoinedFromTheRightAddress
  BY DEF LinkInv
<1>2. QED
  BY <1>1, LinksCorrect, PTL

\* Two CONNIDs never join the same end of a call.
THEOREM JoiningCorrect == Spec => []JoiningLinkHasOneNewconn
<1>1. StructsOK /\ ControlInv /\ LinkInv => JoiningLinkHasOneNewconn
  <2> SUFFICES ASSUME StructsOK, ControlInv, LinkInv PROVE JoiningLinkHasOneNewconn
    OBVIOUS
  <2>1. JoinOwned(newconns, links) /\ PointersSet(newconns)
    BY DEF LinkInv, ControlInv
  <2>2. \A n \in NewconnSlots, l \in LinkSlots :
           newconns[n].cc = l => newconns[n].state = "WAITANONTLSSHUTDOWN"
    BY <2>1, NoneAssumption DEF PointersSet
  <2>3. QED
    BY <2>1, <2>2 DEF JoiningLinkHasOneNewconn, JoinOwned, LinkOwner, Joining
<1>2. QED
  BY <1>1, LinksCorrect, PTL

-----------------------------------------------------------------------------
(* What is pushed to control connections *)

\* The only FOUND comes from cclink_sendcleconnected, and every message is well formed.
LEMMA ShutdownMessages ==
    ASSUME StructsOK, ControlInv, LinkInv, NEW n \in NewconnSlots, newconn_shutdown(n),
           sent \subseteq Message, FoundOnlyWhenCalleeJoined
    PROVE  sent' \subseteq Message /\ FoundOnlyWhenCalleeJoined'
<1>1. CASE UsesFreed(n)
  BY <1>1 DEF newconn_shutdown, UseFreed, FoundOnlyWhenCalleeJoined, LiveLinks, CalleeId
<1>2. CASE sent' = {}
  BY <1>2 DEF FoundOnlyWhenCalleeJoined
<1>3. ASSUME NEW l \in LinkSlots, newconns[n].cc = l,
             links' = [links EXCEPT ![l] = cclink_activate(l)],
             sent' = cclink_sendcleconnected(l), UNCHANGED clients
      PROVE  sent' \subseteq Message /\ FoundOnlyWhenCalleeJoined'
  <2>1. links[l].state \in {"WAITCONNCLEANONTLSSHUTDOWN", "WAITCONNCLRANONTLSSHUTDOWN"}
    BY <1>3 DEF LinkInv, JoinOwned
  <2>2. CASE links[l].state = "WAITCONNCLRANONTLSSHUTDOWN"
    BY <1>2, <1>3, <2>2 DEF cclink_sendcleconnected
  <2>3. CASE links[l].state = "WAITCONNCLEANONTLSSHUTDOWN"
    <3>1. l \in LiveLinks /\ links[l] \in Link
      BY <2>3 DEF LiveLinks, StructsOK
    <3>2. /\ links[l].p1 \in ClientSlots /\ links[l].p2 \in ClientSlots
          /\ CalleeId(l) \in Ids \cup {None}
          /\ links[l].sck_p2 = clients[links[l].p2].ip
      BY <2>3, <3>1 DEF LinkInv, LinkEndsArePrimaries, JoinedFromTheRightAddress,
                        CalleeJoined, CalleeId, StructsOK, Client
    <3>3. sent' = {Push(links[l].p1, "FOUND", CalleeId(l))}
      BY <1>3, <2>3 DEF cclink_sendcleconnected
    <3>4. /\ links'[l].p1 = links[l].p1
          /\ links'[l].p2 = links[l].p2
          /\ links'[l].sck_p2 = links[l].sck_p2
          /\ links'[l].state = "WAITCONNCLR"
      BY <1>3, <2>3, <3>1 DEF cclink_activate, StructsOK, Link
    <3>5. sent' \subseteq Message
      BY <3>2, <3>3 DEF Push, Message
    <3>6. l \in LiveLinks' /\ CalleeId(l)' = CalleeId(l)
      BY <1>3, <3>4 DEF LiveLinks, CalleeId
    <3>7. FoundOnlyWhenCalleeJoined'
      BY <1>3, <3>2, <3>3, <3>4, <3>6 DEF FoundOnlyWhenCalleeJoined, Push
    <3>8. QED
      BY <3>5, <3>7
  <2>4. QED
    BY <2>1, <2>2, <2>3
<1>4. QED
  BY <1>1, <1>2, <1>3 DEF newconn_shutdown

LEMMA NextMessages ==
    StructsOK /\ ControlInv /\ LinkInv /\ sent \subseteq Message /\ FoundOnlyWhenCalleeJoined
        /\ [Next]_vars => sent' \subseteq Message /\ FoundOnlyWhenCalleeJoined'
<1> DEFINE Good == sent' \subseteq Message /\ FoundOnlyWhenCalleeJoined'
<1> SUFFICES ASSUME StructsOK, ControlInv, LinkInv, sent \subseteq Message,
                    FoundOnlyWhenCalleeJoined, [Next]_vars
             PROVE  Good
  OBVIOUS
<1>1. CASE sent' = {}
  BY <1>1 DEF FoundOnlyWhenCalleeJoined
<1>2. CASE UNCHANGED <<clients, links, sent>>
  BY <1>2 DEF FoundOnlyWhenCalleeJoined, LiveLinks, CalleeId
<1>3. ASSUME NEW c \in ClientSlots, NEW id \in Ids \cup {None},
             NEW t \in {"CONNREQINC", "NOTFOUND", "PINGREP"}, sent' = {Push(c, t, id)}
      PROVE  Good
  BY <1>3 DEF FoundOnlyWhenCalleeJoined, Push, Message
<1>4. \A c \in ClientSlots : clients[c].id \in Ids \cup {None}
  BY DEF StructsOK, Client
<1>5. ASSUME NEW ip \in Ips, NEW slot \in NewconnSlots, process_listen_read(ip, slot)
      PROVE  Good
  BY <1>1, <1>2, <1>5 DEF process_listen_read, UseFreed
<1>6. ASSUME NEW n \in NewconnSlots, CloseNewconn(n)
      PROVE  Good
  BY <1>1, <1>2, <1>6 DEF CloseNewconn, UseFreed
<1>7. ASSUME NEW n \in NewconnSlots, newconn_shutdown(n)
      PROVE  Good
  BY <1>7, ShutdownMessages
<1>8. ASSUME NewconnStep
      PROVE  Good
  BY <1>1, <1>6, <1>7, <1>8
  DEF NewconnStep, newconn_fail, newconn_accepted, ReadRequests, procmsg_INITREQ,
      procmsg_INITREQ_rejected, procmsg_NODECONNREQ, process_newconn_write, procmsg_CONNID,
      procmsg_CONNID_refused
<1>9. ASSUME NEW i \in ClientSlots, NEW callee \in Ids, procmsg_CONNREQOUTG(i, callee)
      PROVE  Good
  <2>1. CASE sent' = {Push(i, "NOTFOUND", callee)}
    BY <1>3, <2>1
  <2>2. ASSUME tree[callee] # None, sent' = {Push(tree[callee], "CONNREQINC", clients[i].id)}
        PROVE  Good
    <3>1. tree[callee] \in ClientSlots
      BY <2>2 DEF StructsOK
    <3>2. QED
      BY <1>3, <1>4, <2>2, <3>1
  <2>3. QED
    BY <1>1, <1>9, <2>1, <2>2 DEF procmsg_CONNREQOUTG, client_tree_search
<1>10. ASSUME NEW c \in ClientSlots, procmsg_MULTILOGIN_client(c)
      PROVE  Good
  BY <1>4, <1>10 DEF procmsg_MULTILOGIN_client, FoundOnlyWhenCalleeJoined, Push, Message
<1>11. ASSUME NEW c \in ClientSlots, NEW caller \in Ids, procmsg_CONNDENY(c, caller)
      PROVE  Good
  <2>1. ASSUME NEW l \in LiveLinks, sent' = {Push(links[l].p1, "NOTFOUND", clients[c].id)}
        PROVE  Good
    <3>1. links[l].p1 \in ClientSlots
      BY DEF LinkInv, LinkEndsArePrimaries
    <3>2. QED
      BY <1>3, <1>4, <2>1, <3>1
  <2>2. QED
    BY <1>1, <1>11, <2>1 DEF procmsg_CONNDENY, cclink_list_search
<1>12. CASE process_timeouts
  <2>1. CASE UNCHANGED <<clients, links, sent>>
    BY <1>2, <2>1
  <2>2. ASSUME NEW idle \in SUBSET ClientSlots,
               sent' = {Push(c, "PINGREQ", None) : c \in idle}
        PROVE  Good
    BY <2>2 DEF FoundOnlyWhenCalleeJoined, Push, Message
  <2>3. Idle \ client_list_delete(process_timeouts_newconn, {}) \in SUBSET ClientSlots
    BY DEF Idle, LiveClients
  <2>4. QED
    BY <1>12, <2>1, <2>2, <2>3 DEF process_timeouts, UseFreed
<1>13. ASSUME NEW c \in ClientSlots, procmsg_PINGREQ_client(c)
      PROVE  Good
  BY <1>3, <1>13 DEF procmsg_PINGREQ_client
<1>14. CASE UNCHANGED vars
  BY <1>2, <1>14 DEF vars
<1> HIDE DEF Good
<1>15. ASSUME ClientStep
      PROVE  Good
  BY <1>1, <1>9, <1>10, <1>13, <1>15
  DEF ClientStep, c2n_authenticated, c2n_fail, procmsg_PINGREP_client
<1>16. QED
  BY <1>1, <1>5, <1>8, <1>11, <1>12, <1>14, <1>15
  DEF Next, OtherStep, Answer, procmsg_CONNALLOW, process_c2c_fail, Second, Undefined

\* The whole type invariant, the messages pushed included.
THEOREM TypeCorrect == Spec => []TypeOK
<1> DEFINE Inv == /\ StructsOK /\ ControlInv /\ LinkInv
                  /\ sent \subseteq Message /\ FoundOnlyWhenCalleeJoined
<1>1. Init => Inv
  BY InitType, InitControl, InitLinks DEF Init, FoundOnlyWhenCalleeJoined
<1>2. Inv /\ [Next]_vars => Inv'
  BY NextType, NextControl, NextLinks, NextMessages
<1>3. Inv => TypeOK
  BY DEF TypeOK
<1>4. QED
  BY <1>1, <1>2, <1>3, PTL DEF Spec

\* A caller is told FOUND only for its own call, once the callee's connection is in.
THEOREM FoundCorrect == Spec => []FoundOnlyWhenCalleeJoined
<1> DEFINE Inv == /\ StructsOK /\ ControlInv /\ LinkInv
                  /\ sent \subseteq Message /\ FoundOnlyWhenCalleeJoined
<1>1. Init => Inv
  BY InitType, InitControl, InitLinks DEF Init, FoundOnlyWhenCalleeJoined
<1>2. Inv /\ [Next]_vars => Inv'
  BY NextType, NextControl, NextLinks, NextMessages
<1>3. Inv => FoundOnlyWhenCalleeJoined
  OBVIOUS
<1>4. QED
  BY <1>1, <1>2, <1>3, PTL DEF Spec
-----------------------------------------------------------------------------
(* The node implements the call service *)

CallOf(l) == <<CallerId(l), CalleeId(l)>>

NodeInv == StructsOK /\ ControlInv /\ LinkInv

\* The primary of an id that takes part in a call is the end of the call.
LEMMA EndsAreServed ==
    ASSUME NodeInv, NEW l \in LiveLinks
    PROVE  /\ CallerId(l) \in Ids /\ tree[CallerId(l)] = links[l].p1
           /\ CalleeId(l) \in Ids /\ tree[CalleeId(l)] = links[l].p2
           /\ links[l].p1 \in ClientSlots /\ links[l].p2 \in ClientSlots
<1>1. /\ links[l].p1 \in ClientSlots /\ clients[links[l].p1].state = "CONNECTED"
      /\ links[l].p2 \in ClientSlots /\ clients[links[l].p2].state = "CONNECTED"
  BY DEF NodeInv, LinkInv, LinkEndsArePrimaries
<1>2. \A c \in ClientSlots : clients[c].state = "CONNECTED" =>
         clients[c].id \in Ids /\ tree[clients[c].id] = c
  BY DEF NodeInv, ControlInv, TreeIsPrimaries, Online
<1>3. QED
  BY <1>1, <1>2 DEF CallerId, CalleeId

LEMMA PhaseTypes ==
    ASSUME NEW st \in LinkStates \ {"FREE"}
    PROVE  PhaseOf(st) \in Service!Phases \ {"none"}
BY DEF PhaseOf, LinkStates, Service!Phases

\* CallPhase is the phase of the one link of the pair.
PhasesAreLinks ==
    /\ CallPhase \in [Ids \X Ids -> Service!Phases]
    /\ \A l \in LiveLinks : /\ CallOf(l) \in Ids \X Ids
                            /\ CallPhase[CallOf(l)] = PhaseOf(links[l].state)
                            /\ PhaseOf(links[l].state) # "none"
    /\ \A p \in Ids \X Ids : \/ CallPhase[p] = "none" /\ \A l \in LiveLinks : CallOf(l) # p
                             \/ \E l \in LiveLinks : CallOf(l) = p

LEMMA PhaseFacts == NodeInv => PhasesAreLinks
<1> SUFFICES ASSUME NodeInv PROVE PhasesAreLinks
  OBVIOUS
<1>1. ASSUME NEW l \in LiveLinks
      PROVE  PhaseOf(links[l].state) \in Service!Phases \ {"none"}
  <2>1. links[l].state \in LinkStates \ {"FREE"}
    BY DEF LiveLinks, NodeInv, StructsOK, Link
  <2>2. QED
    BY <2>1, PhaseTypes
<1>2. ASSUME NEW p \in Ids \X Ids, cclink_list_search(p[1], p[2]) = {}
      PROVE  /\ CallPhase[p] = "none"
             /\ \A l \in LiveLinks : CallOf(l) # p
  <2>1. CallPhase[p] = "none"
    BY <1>2 DEF CallPhase
  <2>2. \A l \in LiveLinks : CallOf(l) # p
    BY <1>2 DEF cclink_list_search, CallOf
  <2>3. QED
    BY <2>1, <2>2
<1>3. ASSUME NEW p \in Ids \X Ids, NEW l \in cclink_list_search(p[1], p[2])
      PROVE  /\ CallPhase[p] = PhaseOf(links[l].state)
             /\ l \in LiveLinks /\ CallOf(l) = p
  <2>1. l \in LiveLinks /\ CallerId(l) = p[1] /\ CalleeId(l) = p[2]
    BY DEF cclink_list_search
  <2>2. \A k \in cclink_list_search(p[1], p[2]) : k = l
    BY <2>1 DEF cclink_list_search, NodeInv, LinkInv, UniquePair
  <2>3. (CHOOSE k \in cclink_list_search(p[1], p[2]) : TRUE) = l
    BY <2>2
  <2>4. CallPhase[p] = PhaseOf(links[l].state)
    BY <2>3 DEF CallPhase
  <2>5. QED
    BY <2>1, <2>4 DEF CallOf
<1>4. ASSUME NEW l \in LiveLinks
      PROVE  /\ CallOf(l) \in Ids \X Ids
             /\ l \in cclink_list_search(CallOf(l)[1], CallOf(l)[2])
  BY EndsAreServed DEF CallOf, cclink_list_search
<1>5. CallPhase \in [Ids \X Ids -> Service!Phases]
  <2>1. \A p \in Ids \X Ids : CallPhase[p] \in Service!Phases
    BY <1>1, <1>2, <1>3 DEF Service!Phases
  <2>2. QED
    BY <2>1 DEF CallPhase
<1>6. \A l \in LiveLinks : /\ CallOf(l) \in Ids \X Ids
                           /\ CallPhase[CallOf(l)] = PhaseOf(links[l].state)
                           /\ PhaseOf(links[l].state) # "none"
  BY <1>1, <1>3, <1>4
<1>7. \A p \in Ids \X Ids :
         \/ CallPhase[p] = "none" /\ \A l \in LiveLinks : CallOf(l) # p
         \/ \E l \in LiveLinks : CallOf(l) = p
  BY <1>2, <1>3
<1>8. QED
  BY <1>5, <1>6, <1>7 DEF PhasesAreLinks

\* The same facts after a step.
LEMMA PhaseFactsNext == NodeInv' => PhasesAreLinks'
BY PhaseFacts, PTL

\* A step in which every call keeps its two ids and its phase changes no phase.
LEMMA PhasesKept ==
    ASSUME NodeInv, NodeInv', LiveLinks' = LiveLinks,
           \A l \in LiveLinks : /\ CallOf(l)' = CallOf(l)
                                /\ PhaseOf(links'[l].state) = PhaseOf(links[l].state)
    PROVE  UNCHANGED CallPhase
<1>1. ASSUME NEW p \in Ids \X Ids
      PROVE  CallPhase'[p] = CallPhase[p]
  <2>1. CASE \E l \in LiveLinks : CallOf(l) = p
    BY <2>1, PhaseFacts, PhaseFactsNext DEF PhasesAreLinks
  <2>2. CASE ~\E l \in LiveLinks : CallOf(l) = p
    <3>1. CallPhase[p] = "none"
      BY <2>2, PhaseFacts DEF PhasesAreLinks
    <3>2. ~\E l \in LiveLinks' : CallOf(l)' = p
      BY <2>2
    <3>3. CallPhase'[p] = "none"
      BY <3>2, PhaseFactsNext DEF PhasesAreLinks
    <3>4. QED
      BY <3>1, <3>3
  <2>3. QED
    BY <2>1, <2>2
<1>2. CallPhase \in [Ids \X Ids -> Service!Phases] /\ CallPhase' \in [Ids \X Ids -> Service!Phases]
  BY PhaseFacts, PhaseFactsNext DEF PhasesAreLinks
<1>3. QED
  BY <1>1, <1>2

\* One call goes on to its next phase.
LEMMA ServiceAdvances ==
    ASSUME NodeInv, NodeInv', LiveLinks' = LiveLinks, UNCHANGED tree, NEW l \in LiveLinks,
           \A k \in LiveLinks : /\ CallOf(k)' = CallOf(k)
                                /\ k # l => links'[k].state = links[k].state,
           <<PhaseOf(links[l].state), PhaseOf(links'[l].state)>> \in
               {<<"ringing", "allowed">>, <<"allowed", "calleeIn">>, <<"calleeIn", "talking">>}
    PROVE  Service!CallNext
<1> DEFINE i == CallerId(l)
           j == CalleeId(l)
           from == PhaseOf(links[l].state)
           to == PhaseOf(links'[l].state)
<1>1. i \in Ids /\ j \in Ids /\ CallOf(l) = <<i, j>>
  BY EndsAreServed DEF CallOf
<1>2. from \in Service!Phases /\ to \in Service!Phases
  BY DEF Service!Phases
<1>3. CallPhase \in [Ids \X Ids -> Service!Phases] /\ CallPhase' \in [Ids \X Ids -> Service!Phases]
  BY PhaseFacts, PhaseFactsNext DEF PhasesAreLinks
<1>4. CallPhase[<<i, j>>] = from /\ CallPhase'[<<i, j>>] = to
  BY <1>1, PhaseFacts, PhaseFactsNext DEF PhasesAreLinks
<1>5. ASSUME NEW p \in Ids \X Ids, p # <<i, j>>
      PROVE  CallPhase'[p] = CallPhase[p]
  <2>1. CASE \E k \in LiveLinks : CallOf(k) = p
    <3>1. PICK k \in LiveLinks : CallOf(k) = p
      BY <2>1
    <3>2. k # l /\ CallOf(k)' = p
      BY <1>1, <1>5, <3>1
    <3>3. CallPhase'[p] = PhaseOf(links'[k].state) /\ CallPhase[p] = PhaseOf(links[k].state)
      BY <3>1, <3>2, PhaseFacts, PhaseFactsNext DEF PhasesAreLinks
    <3>4. QED
      BY <3>2, <3>3
  <2>2. CASE ~\E k \in LiveLinks : CallOf(k) = p
    <3>1. CallPhase[p] = "none"
      BY <2>2, PhaseFacts DEF PhasesAreLinks
    <3>2. ~\E k \in LiveLinks' : CallOf(k)' = p
      BY <2>2
    <3>3. CallPhase'[p] = "none"
      BY <3>2, PhaseFactsNext DEF PhasesAreLinks
    <3>4. QED
      BY <3>1, <3>3
  <2>3. QED
    BY <2>1, <2>2
<1> HIDE DEF i, j, from, to
<1>6. CallPhase' = [CallPhase EXCEPT ![<<i, j>>] = to]
  BY <1>1, <1>3, <1>4, <1>5
<1>7. Service!Advance(i, j, from, to)
  BY <1>4, <1>6 DEF Service!Advance, from, to
<1>8. QED
  BY <1>1, <1>2, <1>7 DEF Service!CallNext

\* A call that did not exist starts to ring.
LEMMA ServiceRings ==
    ASSUME NodeInv, NodeInv', NEW l \in LiveLinks' \ LiveLinks, UNCHANGED tree,
           LiveLinks' = LiveLinks \cup {l},
           \A k \in LiveLinks : /\ CallOf(k)' = CallOf(k)
                                /\ links'[k].state = links[k].state,
           links'[l].state = "WAITREP",
           CallerId(l)' # CalleeId(l)',
           \A k \in LiveLinks : CallOf(k) # CallOf(l)'
    PROVE  Service!CallNext
<1> DEFINE i == CallerId(l)'
           j == CalleeId(l)'
<1>1. /\ i \in Ids /\ j \in Ids /\ CallOf(l)' = <<i, j>>
      /\ tree[i] # None /\ tree[j] # None
  <2>1. ASSUME NEW k \in LiveLinks'
        PROVE  /\ CallerId(k)' \in Ids /\ tree'[CallerId(k)'] # None
               /\ CalleeId(k)' \in Ids /\ tree'[CalleeId(k)'] # None
    <3>1. /\ links'[k].p1 \in ClientSlots /\ clients'[links'[k].p1].state = "CONNECTED"
          /\ links'[k].p2 \in ClientSlots /\ clients'[links'[k].p2].state = "CONNECTED"
      BY DEF NodeInv, LinkInv, LinkEndsArePrimaries
    <3>2. \A c \in ClientSlots : clients'[c].state = "CONNECTED" =>
             clients'[c].id \in Ids /\ tree'[clients'[c].id] # None
      BY DEF NodeInv, ControlInv, TreeIsPrimaries, Online
    <3>3. QED
      BY <3>1, <3>2 DEF CallerId, CalleeId
  <2>2. QED
    BY <2>1 DEF CallOf
<1>2. CallPhase \in [Ids \X Ids -> Service!Phases] /\ CallPhase' \in [Ids \X Ids -> Service!Phases]
  BY PhaseFacts, PhaseFactsNext DEF PhasesAreLinks
<1>3. CallPhase[<<i, j>>] = "none"
  <2>1. ~\E k \in LiveLinks : CallOf(k) = <<i, j>>
    BY <1>1
  <2> HIDE DEF i, j
  <2>2. <<i, j>> \in Ids \X Ids
    BY <1>1
  <2>3. QED
    BY <2>1, <2>2, PhaseFacts DEF PhasesAreLinks
<1>4. CallPhase'[<<i, j>>] = "ringing"
  <2>1. PhaseOf(links'[l].state) = "ringing"
    BY DEF PhaseOf
  <2>2. QED
    BY <1>1, <2>1, PhaseFactsNext DEF PhasesAreLinks
<1>5. ASSUME NEW p \in Ids \X Ids, p # <<i, j>>
      PROVE  CallPhase'[p] = CallPhase[p]
  <2>1. CASE \E k \in LiveLinks : CallOf(k) = p
    <3>1. PICK k \in LiveLinks : CallOf(k) = p
      BY <2>1
    <3>2. k \in LiveLinks' /\ CallOf(k)' = p
      BY <3>1
    <3>3. CallPhase'[p] = PhaseOf(links'[k].state) /\ CallPhase[p] = PhaseOf(links[k].state)
      BY <3>1, <3>2, PhaseFacts, PhaseFactsNext DEF PhasesAreLinks
    <3>4. QED
      BY <3>3
  <2>2. CASE ~\E k \in LiveLinks : CallOf(k) = p
    <3>1. CallPhase[p] = "none"
      BY <2>2, PhaseFacts DEF PhasesAreLinks
    <3>2. ~\E k \in LiveLinks' : CallOf(k)' = p
      BY <1>1, <1>5, <2>2
    <3>3. CallPhase'[p] = "none"
      BY <3>2, PhaseFactsNext DEF PhasesAreLinks
    <3>4. QED
      BY <3>1, <3>3
  <2>3. QED
    BY <2>1, <2>2
<1>6. i # j
  OBVIOUS
<1> HIDE DEF i, j
<1>7. CallPhase' = [CallPhase EXCEPT ![<<i, j>>] = "ringing"]
  BY <1>1, <1>2, <1>4, <1>5
<1>8. Service!Ring(i, j)
  BY <1>1, <1>3, <1>6, <1>7 DEF Service!Ring
<1>9. QED
  BY <1>1, <1>8 DEF Service!CallNext

\* A deletion ends calls, takes ids out of the tree and promotes secondaries: the ids
\* whose primary changes are those of deleted clients, and none keeps a call.
LEMMA ServiceEnds ==
    ASSUME NodeInv, NodeInv', NEW N \in SUBSET NewconnSlots,
           NEW C \in SUBSET ClientSlots, NEW L \in SUBSET LinkSlots, NEW cs,
           SameClients(cs), Delete(N, C, L, cs)
    PROVE  Service!CallNext
<1> DEFINE goneC == client_list_delete(N, C)
           D == {i \in Ids : tree'[i] # tree[i]}
<1>1. /\ tree' \in [Ids -> ClientSlots \cup {None}]
      /\ \A i \in Ids : tree'[i] # tree[i] => tree[i] \in goneC
  BY DEF Delete, client_tree_remove
<1>2. goneC \subseteq ClientSlots
  BY DEF client_list_delete
<1>3. \A i \in D : tree[i] # None /\ tree'[i] # tree[i]
  BY <1>1, <1>2, NoneAssumption
<1>4. \A l \in LinkSlots : \/ links'[l].state = "FREE"
                           \/ /\ links'[l] = links[l]
                              /\ links[l].p1 \notin goneC
                              /\ links[l].p2 \notin goneC
                              /\ SameEnd(links[l].p1)
                              /\ SameEnd(links[l].p2)
  BY Survivors DEF NodeInv, ControlInv, LinkInv
<1>5. ASSUME NEW p \in Ids \X Ids, CallPhase'[p] # "none"
      PROVE  CallPhase'[p] = CallPhase[p] /\ p[1] \notin D /\ p[2] \notin D
  <2>1. PICK l \in LiveLinks' : CallOf(l)' = p
    BY <1>5, PhaseFactsNext DEF PhasesAreLinks
  <2>2. l \in LinkSlots /\ links'[l].state # "FREE"
    BY DEF LiveLinks
  <2> HIDE DEF goneC
  <2>3. /\ links'[l] = links[l] /\ links[l].p1 \notin goneC /\ links[l].p2 \notin goneC
        /\ SameEnd(links[l].p1) /\ SameEnd(links[l].p2)
    BY <1>4, <2>2
  <2>4. l \in LiveLinks
    BY <2>2, <2>3 DEF LiveLinks
  <2>5. CallOf(l) = p
    BY <2>1, <2>3 DEF CallOf, CallerId, CalleeId, SameEnd
  <2>6. CallPhase[p] = PhaseOf(links[l].state)
    BY <2>4, <2>5, PhaseFacts DEF PhasesAreLinks
  <2>7. CallPhase'[p] = PhaseOf(links[l].state)
    BY <2>1, <2>3, PhaseFactsNext DEF PhasesAreLinks
  <2>8. tree[p[1]] = links[l].p1 /\ tree[p[2]] = links[l].p2
    BY <2>4, <2>5, EndsAreServed DEF CallOf
  <2>9. p[1] \notin D /\ p[2] \notin D
    BY <1>1, <2>3, <2>8
  <2>10. QED
    BY <2>6, <2>7, <2>9
<1>6. CallPhase' \in [Ids \X Ids -> Service!Phases]
  BY PhaseFactsNext DEF PhasesAreLinks
<1>7. D \in SUBSET Ids /\ \A i \in Ids \ D : tree'[i] = tree[i]
  OBVIOUS
<1> HIDE DEF D, goneC
<1>8. Service!End(D)
  BY <1>1, <1>3, <1>5, <1>6, <1>7 DEF Service!End, Service!Pairs
<1>9. QED
  BY <1>7, <1>8 DEF Service!CallNext

\* Steps that leave the links and the connected clients alone.
LEMMA QuietService ==
    ASSUME NodeInv, NodeInv', UNCHANGED <<links, tree>>,
           \A c \in ClientSlots : clients[c].state = "CONNECTED" => SameEnd(c)
    PROVE  UNCHANGED <<tree, CallPhase>>
<1>1. LiveLinks' = LiveLinks
  BY DEF LiveLinks
<1>2. \A l \in LiveLinks : CallOf(l)' = CallOf(l)
  BY DEF NodeInv, LinkInv, LinkEndsArePrimaries, SameEnd, CallOf, CallerId, CalleeId
<1>3. QED
  BY <1>1, <1>2, PhasesKept

\* The primary of a new id: no call is touched, and no other id has that connection.
LEMMA AuthenticatedService ==
    ASSUME NodeInv, NodeInv', NEW c \in ClientSlots, NEW id \in Ids, c2n_authenticated(c, id)
    PROVE  Service!CallNext \/ UNCHANGED <<tree, CallPhase>>
<1>1. /\ clients[c].state = "TLSNEGOTIATION"
      /\ \A d \in ClientSlots : d # c => clients'[d] = clients[d]
      /\ UNCHANGED links
  BY DEF c2n_authenticated, NodeInv, StructsOK
<1>2. \A d \in ClientSlots : clients[d].state = "CONNECTED" => SameEnd(d)
  BY <1>1 DEF SameEnd
<1>3. UNCHANGED CallPhase
  <2>1. LiveLinks' = LiveLinks
    BY <1>1 DEF LiveLinks
  <2>2. \A l \in LiveLinks : CallOf(l)' = CallOf(l)
    BY <1>1, <1>2
    DEF NodeInv, LinkInv, LinkEndsArePrimaries, SameEnd, CallOf, CallerId, CalleeId
  <2>3. QED
    BY <1>1, <2>1, <2>2, PhasesKept
<1>4. CASE tree[id] = None
  <2>1. tree' = [tree EXCEPT ![id] = c]
    BY <1>4 DEF c2n_authenticated, client_tree_search, client_tree_add
  <2>2. \A j \in Ids : tree[j] # c
    BY <1>1 DEF NodeInv, ControlInv, TreeIsPrimaries
  <2>3. Service!LogIn(id, c)
    BY <1>3, <1>4, <2>1, <2>2 DEF Service!LogIn
  <2>4. QED
    BY <2>3 DEF Service!CallNext
<1>5. CASE tree[id] # None
  BY <1>3, <1>5 DEF c2n_authenticated, client_tree_search
<1>6. QED
  BY <1>4, <1>5

LEMMA CloseNewconnService ==
    ASSUME NodeInv, NodeInv', NEW n \in NewconnSlots, CloseNewconn(n)
    PROVE  Service!CallNext \/ UNCHANGED <<tree, CallPhase>>
<1>1. CASE UsesFreed(n)
  BY <1>1, QuietService DEF CloseNewconn, UseFreed, SameEnd
<1>2. CASE ~UsesFreed(n)
  <2>1. {n} \in SUBSET NewconnSlots /\ {} \in SUBSET ClientSlots /\ {} \in SUBSET LinkSlots
    OBVIOUS
  <2>2. SameClients(clients)
    BY SameClientsNow DEF NodeInv
  <2>3. Delete({n}, {}, {}, clients)
    BY <1>2 DEF CloseNewconn
  <2>4. QED
    BY <2>1, <2>2, <2>3, ServiceEnds
<1>3. QED
  BY <1>1, <1>2

LEMMA ListenService ==
    ASSUME NodeInv, NodeInv', NEW ip \in Ips, NEW slot \in NewconnSlots,
           process_listen_read(ip, slot)
    PROVE  Service!CallNext \/ UNCHANGED <<tree, CallPhase>>
<1> DEFINE evicted == IF TableFull THEN {slot} ELSE {}
<1>1. CASE \E n \in evicted : UsesFreed(n)
  BY <1>1, QuietService DEF process_listen_read, UseFreed, SameEnd
<1>2. CASE ~\E n \in evicted : UsesFreed(n)
  <2>1. Delete(evicted, {}, {}, clients)
    BY <1>2 DEF process_listen_read
  <2>2. evicted \in SUBSET NewconnSlots /\ {} \in SUBSET ClientSlots /\ {} \in SUBSET LinkSlots
    OBVIOUS
  <2>3. SameClients(clients)
    BY SameClientsNow DEF NodeInv
  <2> HIDE DEF evicted
  <2>4. QED
    BY <2>1, <2>2, <2>3, ServiceEnds
<1>3. QED
  BY <1>1, <1>2

\* The first end that joins is the callee's; a CONNID changes no phase.
LEMMA ConnIdService ==
    ASSUME NodeInv, NodeInv', NEW n \in NewconnSlots, NEW caller \in Ids, NEW callee \in Ids,
           procmsg_CONNID(n, caller, callee)
    PROVE  UNCHANGED <<tree, CallPhase>>
<1>1. PICK l \in LiveLinks :
        /\ Joinable(l)
        /\ links' = [links EXCEPT ![l] = cclink_setwaitanontlsshutdown(l, n)]
  BY DEF procmsg_CONNID, cclink_list_search
<1>2. l \in LinkSlots /\ links[l] \in Link
  BY DEF LiveLinks, NodeInv, StructsOK
<1>3. /\ \A k \in LinkSlots : k # l => links'[k] = links[k]
      /\ links'[l] = cclink_setwaitanontlsshutdown(l, n)
  BY <1>1, <1>2 DEF NodeInv, StructsOK
<1>4. /\ links'[l].p1 = links[l].p1
      /\ links'[l].p2 = links[l].p2
      /\ links[l].state = "WAITCONNCLE" =>
            links'[l].state = "WAITCONNCLEANONTLSSHUTDOWN"
      /\ links[l].state = "WAITCONNCLR" =>
            links'[l].state = "WAITCONNCLRANONTLSSHUTDOWN"
  BY <1>2, <1>3 DEF cclink_setwaitanontlsshutdown, Link
<1>5. LiveLinks' = LiveLinks
  BY <1>1, <1>2, <1>3, <1>4 DEF LiveLinks, Joinable
<1>6. UNCHANGED <<clients, tree>>
  BY DEF procmsg_CONNID
<1>7. ASSUME NEW k \in LiveLinks
      PROVE  CallOf(k)' = CallOf(k) /\ PhaseOf(links'[k].state) = PhaseOf(links[k].state)
  <2>1. CASE k = l
    BY <1>1, <1>4, <1>6, <2>1 DEF CallOf, CallerId, CalleeId, PhaseOf, Joinable
  <2>2. CASE k # l
    BY <1>3, <1>6, <2>2 DEF CallOf, CallerId, CalleeId, LiveLinks
  <2>3. QED
    BY <2>1, <2>2
<1>8. QED
  BY <1>5, <1>6, <1>7, PhasesKept

\* The shutdown of the anonymous layer takes a call from allowed to calleeIn, and from
\* calleeIn to talking.
LEMMA ShutdownService ==
    ASSUME NodeInv, NodeInv', NEW n \in NewconnSlots, newconn_shutdown(n)
    PROVE  Service!CallNext \/ UNCHANGED <<tree, CallPhase>>
<1>1. CASE UsesFreed(n)
  BY <1>1, QuietService DEF newconn_shutdown, UseFreed, SameEnd
<1>2. ASSUME NEW c \in ClientSlots, newconns[n].cl = c,
             clients' = [clients EXCEPT ![c].state = "TLSNEGOTIATION"], UNCHANGED <<links, tree>>
      PROVE  UNCHANGED <<tree, CallPhase>>
  <2>1. clients[c].state = "WAITANONTLSSHUTDOWN"
    BY <1>2 DEF NodeInv, ControlInv, Owned
  <2>2. \A d \in ClientSlots : d # c => clients'[d] = clients[d]
    BY <1>2 DEF NodeInv, StructsOK
  <2>3. QED
    BY <1>2, <2>1, <2>2, QuietService DEF SameEnd
<1>3. ASSUME NEW l \in LinkSlots, newconns[n].cc = l,
             links' = [links EXCEPT ![l] = cclink_activate(l)], UNCHANGED <<clients, tree>>
      PROVE  Service!CallNext
  <2>1. links[l].state \in {"WAITCONNCLEANONTLSSHUTDOWN", "WAITCONNCLRANONTLSSHUTDOWN"}
    BY <1>3 DEF NodeInv, LinkInv, JoinOwned
  <2>2. l \in LiveLinks
    BY <2>1 DEF LiveLinks
  <2>3. /\ \A k \in LinkSlots : k # l => links'[k] = links[k]
        /\ links'[l] = cclink_activate(l)
        /\ links[l] \in Link
    BY <1>3 DEF NodeInv, StructsOK
  <2>4. /\ links'[l].p1 = links[l].p1
        /\ links'[l].p2 = links[l].p2
        /\ links'[l].state = IF links[l].state = "WAITCONNCLEANONTLSSHUTDOWN"
                             THEN "WAITCONNCLR" ELSE "ACTIVE"
    BY <2>3 DEF cclink_activate, Link
  <2>5. LiveLinks' = LiveLinks
    BY <2>1, <2>3, <2>4 DEF LiveLinks
  <2>6. \A k \in LiveLinks : /\ CallOf(k)' = CallOf(k)
                             /\ k # l => links'[k].state = links[k].state
    BY <1>3, <2>3, <2>4 DEF CallOf, CallerId, CalleeId, LiveLinks
  <2>7. <<PhaseOf(links[l].state), PhaseOf(links'[l].state)>> \in
           {<<"allowed", "calleeIn">>, <<"calleeIn", "talking">>}
    BY <2>1, <2>4 DEF PhaseOf
  <2>8. QED
    BY <1>3, <2>2, <2>5, <2>6, <2>7, ServiceAdvances
<1>4. QED
  BY <1>1, <1>2, <1>3 DEF newconn_shutdown

LEMMA ConnReqService ==
    ASSUME NodeInv, NodeInv', NEW i \in ClientSlots, NEW callee \in Ids,
           procmsg_CONNREQOUTG(i, callee)
    PROVE  Service!CallNext \/ UNCHANGED <<tree, CallPhase>>
<1>0. UNCHANGED tree
  BY DEF procmsg_CONNREQOUTG
<1>1. CASE UNCHANGED <<clients, links>>
  BY <1>0, <1>1, QuietService DEF SameEnd
<1>2. ASSUME NEW l \in LinkSlots \ LiveLinks, tree[callee] # None,
             cclink_list_search(clients[i].id, callee) = {},
             clients[i].id # callee,
             links' = [links EXCEPT ![l] = cclink_list_addlocal(i, tree[callee])],
             clients' = [clients EXCEPT ![tree[callee]].age = 0,
                                        ![tree[callee]].ticking = TRUE]
      PROVE  Service!CallNext
  <2>1. PICK o \in ClientSlots : tree[callee] = o
    BY <1>2 DEF NodeInv, StructsOK
  <2>2. clients[o].id = callee
    BY <2>1 DEF NodeInv, ControlInv, TreeIsPrimaries
  <2>3. \A c \in ClientSlots : SameEnd(c)
    BY <1>2, <2>1 DEF NodeInv, StructsOK, Client, SameEnd
  <2>4. /\ \A k \in LinkSlots : k # l => links'[k] = links[k]
        /\ links'[l].state = "WAITREP"
        /\ links'[l].p1 = i
        /\ links'[l].p2 = o
    BY <1>2, <2>1 DEF NodeInv, StructsOK, FreeLink, cclink_list_addlocal
  <2>5. LiveLinks' = LiveLinks \cup {l}
    BY <2>4 DEF LiveLinks
  <2>6. ASSUME NEW k \in LiveLinks
        PROVE  CallOf(k)' = CallOf(k) /\ links'[k].state = links[k].state
    <3>1. links'[k] = links[k]
      BY <2>4 DEF LiveLinks
    <3>2. links[k].p1 \in ClientSlots /\ links[k].p2 \in ClientSlots
      BY DEF NodeInv, LinkInv, LinkEndsArePrimaries
    <3>3. QED
      BY <2>3, <3>1, <3>2 DEF CallOf, CallerId, CalleeId, SameEnd
  <2>7. CallerId(l)' = clients[i].id /\ CalleeId(l)' = callee
    BY <2>2, <2>3, <2>4 DEF CallerId, CalleeId, SameEnd
  <2>8. \A k \in LiveLinks : CallOf(k) # CallOf(l)'
    BY <1>2, <2>7 DEF CallOf, cclink_list_search
  <2>9. QED
    BY <1>0, <1>2, <2>4, <2>5, <2>6, <2>7, <2>8, ServiceRings
<1>3. QED
  BY <1>1, <1>2 DEF procmsg_CONNREQOUTG, client_tree_search

LEMMA DeleteClientService ==
    ASSUME NodeInv, NodeInv', NEW c \in ClientSlots, NEW cs, SameClients(cs),
           DeleteClient(c, cs)
    PROVE  Service!CallNext
<1>1. {} \in SUBSET NewconnSlots /\ {c} \in SUBSET ClientSlots /\ {} \in SUBSET LinkSlots
  OBVIOUS
<1>2. QED
  BY <1>1, ServiceEnds DEF DeleteClient

LEMMA ConnAllowService ==
    ASSUME NodeInv, NodeInv', NEW c \in ClientSlots, NEW caller \in Ids,
           procmsg_CONNALLOW(c, caller)
    PROVE  Service!CallNext
<1>0. SameClients(Answered(c))
  BY SameClientsAnswered DEF NodeInv
<1>1. CASE DeleteClient(c, Answered(c))
  BY <1>0, <1>1, DeleteClientService
<1>2. ASSUME NEW l \in LiveLinks, Ringing(l),
             links' = [links EXCEPT ![l].state = "WAITCONNCLE"],
             clients' = Answered(c), UNCHANGED tree
      PROVE  Service!CallNext
  <2>1. l \in LinkSlots /\ links[l] \in Link
    BY DEF LiveLinks, NodeInv, StructsOK
  <2>2. /\ \A k \in LinkSlots : k # l => links'[k] = links[k]
        /\ links'[l].p1 = links[l].p1
        /\ links'[l].p2 = links[l].p2
        /\ links'[l].state = "WAITCONNCLE"
    BY <1>2, <2>1 DEF NodeInv, StructsOK, Link
  <2>3. \A d \in ClientSlots : SameEnd(d)
    BY <1>2, AnsweredEnds DEF NodeInv
  <2>4. LiveLinks' = LiveLinks
    BY <2>1, <2>2 DEF LiveLinks
  <2>5. ASSUME NEW k \in LiveLinks
        PROVE  CallOf(k)' = CallOf(k) /\ (k # l => links'[k].state = links[k].state)
    <3>1. links'[k].p1 = links[k].p1 /\ links'[k].p2 = links[k].p2
      BY <2>2 DEF LiveLinks
    <3>2. links[k].p1 \in ClientSlots /\ links[k].p2 \in ClientSlots
      BY DEF NodeInv, LinkInv, LinkEndsArePrimaries
    <3>3. QED
      BY <2>2, <2>3, <3>1, <3>2 DEF CallOf, CallerId, CalleeId, SameEnd, LiveLinks
  <2>6. <<PhaseOf(links[l].state), PhaseOf(links'[l].state)>> = <<"ringing", "allowed">>
    BY <1>2, <2>2 DEF PhaseOf, Ringing
  <2>7. QED
    BY <1>2, <2>4, <2>5, <2>6, ServiceAdvances
<1>3. QED
  BY <1>1, <1>2 DEF procmsg_CONNALLOW, cclink_list_search

LEMMA ConnDenyService ==
    ASSUME NodeInv, NodeInv', NEW c \in ClientSlots, NEW caller \in Ids,
           procmsg_CONNDENY(c, caller)
    PROVE  Service!CallNext
<1>0. SameClients(Answered(c))
  BY SameClientsAnswered DEF NodeInv
<1>1. CASE DeleteClient(c, Answered(c))
  BY <1>0, <1>1, DeleteClientService
<1>2. ASSUME NEW l \in LinkSlots, Delete({}, {}, {l}, Answered(c))
      PROVE  Service!CallNext
  <2>1. {} \in SUBSET NewconnSlots /\ {} \in SUBSET ClientSlots /\ {l} \in SUBSET LinkSlots
    OBVIOUS
  <2>2. QED
    BY <1>0, <1>2, <2>1, ServiceEnds
<1>3. QED
  BY <1>1, <1>2 DEF procmsg_CONNDENY, cclink_list_search, LiveLinks

LEMMA SecondService ==
    ASSUME NodeInv, NodeInv', Second
    PROVE  UNCHANGED <<tree, CallPhase>>
<1>1. \A c \in ClientSlots : SameEnd(c)
  BY DEF Second, NodeInv, StructsOK, Client, SameEnd
<1>2. \A l \in LinkSlots : /\ links'[l].state = links[l].state
                           /\ links'[l].p1 = links[l].p1
                           /\ links'[l].p2 = links[l].p2
  BY DEF Second, NodeInv, StructsOK, Link
<1>3. LiveLinks' = LiveLinks
  BY <1>2 DEF LiveLinks
<1>4. \A l \in LiveLinks : CallOf(l)' = CallOf(l) /\ links'[l].state = links[l].state
  BY <1>1, <1>2
  DEF NodeInv, LinkInv, LinkEndsArePrimaries, SameEnd, CallOf, CallerId, CalleeId, LiveLinks
<1>5. UNCHANGED tree
  BY DEF Second
<1>6. QED
  BY <1>3, <1>4, <1>5, PhasesKept

LEMMA TimeoutsService ==
    ASSUME NodeInv, NodeInv', process_timeouts
    PROVE  Service!CallNext \/ UNCHANGED <<tree, CallPhase>>
<1> DEFINE N == process_timeouts_newconn
           cs == process_timeouts_c2n(Idle \ client_list_delete(N, {}))
<1>1. CASE \E n \in N : UsesFreed(n)
  BY <1>1, QuietService DEF process_timeouts, UseFreed, SameEnd
<1>2. CASE ~\E n \in N : UsesFreed(n)
  <2>1. Delete(N, NoReply, process_timeouts_c2c, cs)
    BY <1>2 DEF process_timeouts
  <2>2. /\ N \in SUBSET NewconnSlots
        /\ NoReply \in SUBSET ClientSlots
        /\ process_timeouts_c2c \in SUBSET LinkSlots
    BY DEF process_timeouts_newconn, NoReply, process_timeouts_c2c, LiveNewconns,
           LiveClients, LiveLinks
  <2>3. SameClients(cs)
    BY DEF process_timeouts_c2n, SameClients, NodeInv, StructsOK, Client
  <2> HIDE DEF N, cs
  <2>4. QED
    BY <2>1, <2>2, <2>3, ServiceEnds
<1>3. QED
  BY <1>1, <1>2

LEMMA InitService == Init => Service!CallInit
<1> SUFFICES ASSUME Init PROVE Service!CallInit
  OBVIOUS
<1>1. LiveLinks = {}
  BY DEF Init, LiveLinks, FreeLink
<1>2. \A p \in Ids \X Ids : cclink_list_search(p[1], p[2]) = {}
  BY <1>1 DEF cclink_list_search
<1>3. CallPhase = [p \in Ids \X Ids |-> "none"]
  BY <1>2 DEF CallPhase
<1>4. QED
  BY <1>3 DEF Init, Service!CallInit, Service!Pairs

LEMMA NextService ==
    NodeInv /\ NodeInv' /\ [Next]_vars => [Service!CallNext]_(Service!cvars)
<1> DEFINE Served == Service!CallNext \/ UNCHANGED <<tree, CallPhase>>
<1> SUFFICES ASSUME NodeInv, NodeInv', [Next]_vars PROVE Served
  BY DEF Service!cvars
<1>1. ASSUME NEW ip \in Ips, NEW slot \in NewconnSlots, process_listen_read(ip, slot)
      PROVE  Served
  BY <1>1, ListenService
<1>2. ASSUME NEW n \in NewconnSlots,
             \/ newconn_fail(n)
             \/ \E caller, callee \in Ids : procmsg_CONNID_refused(n, caller, callee)
      PROVE  Served
  BY <1>2, CloseNewconnService DEF newconn_fail, procmsg_CONNID_refused
<1>3. ASSUME NEW n \in NewconnSlots, newconn_accepted(n) \/ process_newconn_write(n)
      PROVE  Served
  BY <1>3, QuietService DEF newconn_accepted, process_newconn_write, SameEnd
<1>4. ASSUME NEW n \in NewconnSlots, NEW C \in SUBSET ClientSlots, ReadRequests(n, C)
      PROVE  Served
  <2>1. UNCHANGED <<links, tree>>
    BY <1>4, RequestsFacts DEF NodeInv
  <2>2. \A c \in ClientSlots : clients[c].state = "CONNECTED" => SameEnd(c)
    BY <1>4, RequestsEnds DEF NodeInv
  <2>3. QED
    BY <2>1, <2>2, QuietService
<1>5. ASSUME NEW n \in NewconnSlots, NEW caller \in Ids, NEW callee \in Ids,
             procmsg_CONNID(n, caller, callee)
      PROVE  Served
  BY <1>5, ConnIdService
<1>6. ASSUME NEW n \in NewconnSlots, newconn_shutdown(n)
      PROVE  Served
  BY <1>6, ShutdownService
<1>7. ASSUME NEW c \in ClientSlots, NEW id \in Ids, c2n_authenticated(c, id)
      PROVE  Served
  BY <1>7, AuthenticatedService
<1>8. ASSUME NEW c \in ClientSlots, c2n_fail(c)
      PROVE  Served
  BY <1>8, SameClientsNow, DeleteClientService DEF c2n_fail, NodeInv
<1>9. ASSUME NEW i \in ClientSlots, NEW callee \in Ids, procmsg_CONNREQOUTG(i, callee)
      PROVE  Served
  BY <1>9, ConnReqService
<1>10. ASSUME NEW c \in ClientSlots, NEW caller \in Ids, Answer(c, caller)
      PROVE  Served
  BY <1>10, ConnAllowService, ConnDenyService DEF Answer
<1>11. ASSUME NEW c \in ClientSlots,
              procmsg_PINGREQ_client(c) \/ procmsg_MULTILOGIN_client(c)
      PROVE  Served
  BY <1>11, QuietService DEF procmsg_PINGREQ_client, procmsg_MULTILOGIN_client, SameEnd
<1>12. ASSUME NEW c \in ClientSlots, procmsg_PINGREP_client(c)
      PROVE  Served
  BY <1>12, AnsweredEnds, QuietService DEF procmsg_PINGREP_client, NodeInv
<1>13. ASSUME NEW l \in LinkSlots, process_c2c_fail(l)
      PROVE  Served
  <2>1. {} \in SUBSET NewconnSlots /\ {} \in SUBSET ClientSlots /\ {l} \in SUBSET LinkSlots
    OBVIOUS
  <2>2. SameClients(clients)
    BY SameClientsNow DEF NodeInv
  <2>3. QED
    BY <1>13, <2>1, <2>2, ServiceEnds DEF process_c2c_fail
<1>14. CASE Second
  BY <1>14, SecondService
<1>15. CASE process_timeouts
  BY <1>15, TimeoutsService
<1>16. CASE UNCHANGED vars
  BY <1>16, QuietService DEF vars, SameEnd
<1> HIDE DEF Served
<1>17. QED
  BY <1>1, <1>2, <1>3, <1>4, <1>5, <1>6, <1>7, <1>8, <1>9, <1>10, <1>11, <1>12, <1>13,
     <1>14, <1>15, <1>16
  DEF Next, OtherStep, NewconnStep, ClientStep, Undefined

\* The node implements the call service: seen through its tree and the phases of its
\* calls, every callback is a login, a ring, an advance, an end with its hand-overs, or
\* invisible, for any number of ids, connections and calls.
THEOREM CallServiceImplemented == Spec => ImplementsCallService
<1>1. Init => Service!CallInit
  BY InitService
<1>2. NodeInv /\ NodeInv' /\ [Next]_vars => [Service!CallNext]_(Service!cvars)
  BY NextService
<1>3. Spec => []NodeInv
  BY LinksCorrect DEF NodeInv
<1>4. QED
  BY <1>1, <1>2, <1>3, PTL DEF Spec, ImplementsCallService, Service!CallSpec
=============================================================================
