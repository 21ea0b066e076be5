-------------------------- MODULE N2NCalls_proofs --------------------------
(***************************************************************************)
(* Proofs about N2NCalls, for any number of nodes, clients, calls and      *)
(* moves of clients.                                                       *)
(***************************************************************************)
EXTENDS N2NCalls, FiniteSetTheorems, SequenceTheorems, WellFoundedInduction, TLAPS

-----------------------------------------------------------------------------
(* The inductive invariant.                                                *)

Messages == {"SEARCH", "N2NFOUND", "N2NCONNREQOUTG", "N2NALLOW", "N2NNOTFOUND", "N2NMSG"}

\* What may be on a link when the callees of the pairs J have joined.
Msgs(J) == {msg \in [m : Messages, caller : Ids, callee : Ids, len : Nat] :
              msg.m = "N2NALLOW" => <<msg.caller, msg.callee>> \in J}

\* What may be in the queue for client x then.
Notices(x, J) == {notice \in [m : {"CONNREQINC", "FOUND", "NOTFOUND"}, peer : Ids] :
                    notice.m = "FOUND" => <<x, notice.peer>> \in J}

Calls == [state : Setup \cup Active, caller : Ids, callee : Ids,
          node : Nodes \cup {None}, bufpos : Int]

\* What a call of a node with the clients on and the links lk points to is there.
Valid(cc, on, lk) ==
    /\ LocalId(cc) \in on
    /\ IF cc.state = "N2NCLR_WAITSEARCH" THEN cc.node = None ELSE cc.node \in lk

\* The list of calls of such a node.  Its positions are bounded: there is a last one.
ListOK(ccs, on, lk) ==
    /\ \E b \in Nat : DOMAIN ccs \subseteq 1..b
    /\ \A i \in DOMAIN ccs : ccs[i] \in Calls /\ Valid(ccs[i], on, lk)

\* What each node has of its clients, links and calls.
NodesOK ==
    /\ online \in [Nodes -> SUBSET Ids]
    /\ link \in [Nodes -> SUBSET Nodes]
    /\ DOMAIN cclinks = Nodes
    /\ cclinks = [n \in Nodes |-> cclinks[n]]
    /\ \A n \in Nodes : n \notin link[n] /\ ListOK(cclinks[n], online[n], link[n])

\* The queues of the clients.
InboxOK(box, J) ==
    /\ DOMAIN box = Ids
    /\ box = [x \in Ids |-> box[x]]
    /\ \A x \in Ids : box[x] \in Seq(Notices(x, J))

\* What is under way.
QueuesOK ==
    /\ joined \in SUBSET (Ids \X Ids)
    /\ dials \in [Ids -> SUBSET (Ids \X Ids)]
    /\ InboxOK(inbox, joined)
    /\ wire \in [Nodes -> [Nodes -> Seq(Msgs(joined))]]

N2NInv == NodesOK /\ QueuesOK

-----------------------------------------------------------------------------
(* Natural numbers.                                                        *)

\* A set of numbers that is not empty has a least one.
LEMMA LeastNumber == ASSUME NEW S \in SUBSET Nat, S # {}
                     PROVE  \E i \in S : \A j \in S : i <= j
<1>1. PICK i \in S : \A j \in S : ~(<<j, i>> \in OpToRel(<, Nat))
  BY NatLessThanWellFounded, WFMin, Zenon
<1>2. \A j \in S : ~(j < i)
  BY <1>1 DEF OpToRel
<1> QED
  BY <1>2

\* A bounded set of positions that is not empty has a last one.
LEMMA LastPosition == ASSUME NEW S, NEW b \in Nat, S \subseteq 1..b, S # {}
                      PROVE  \E i \in S : \A j \in S : j <= i
<1> DEFINE B == {c \in Nat : S \subseteq 1..c}
<1>1. B \in SUBSET Nat /\ B # {}
  OBVIOUS
<1>2. PICK c \in B : \A d \in B : c <= d
  BY <1>1, LeastNumber, Zenon
<1>3. c \in Nat /\ S \subseteq 1..c
  OBVIOUS
<1>4. c # 0
  <2> SUFFICES ASSUME c = 0 PROVE FALSE
    OBVIOUS
  <2>1. 1..c = {}
    OBVIOUS
  <2> QED
    BY <2>1, <1>3
<1>5. c \in S
  <2> SUFFICES ASSUME c \notin S PROVE FALSE
    OBVIOUS
  <2>1. c - 1 \in Nat /\ S \subseteq 1..(c - 1)
    BY <1>3, <1>4
  <2>2. c <= c - 1
    BY <2>1, <1>2
  <2> QED
    BY <2>2, <1>3
<1> QED
  BY <1>3, <1>5

-----------------------------------------------------------------------------
(* The list of calls.                                                      *)

\* The call that cclink_list_search finds is in the list, or it finds none.
LEMMA SearchFinds == ASSUME NEW ccs, NEW on, NEW lk, NEW x, NEW y, ListOK(ccs, on, lk),
                            cclink_list_search(ccs, x, y) # 0
                     PROVE  /\ cclink_list_search(ccs, x, y) \in DOMAIN ccs
                            /\ ccs[cclink_list_search(ccs, x, y)].caller = x
                            /\ ccs[cclink_list_search(ccs, x, y)].callee = y
<1> DEFINE S == Matches(ccs, x, y)
<1>1. S \in SUBSET Nat
  BY DEF Matches, ListOK
<1>2. S # {}
  BY DEF cclink_list_search, First
<1>3. \E i \in S : \A j \in S : i <= j
  BY <1>1, <1>2, LeastNumber, Zenon
<1>4. First(S) \in S
  BY <1>2, <1>3, Zenon DEF First
<1> QED
  BY <1>4 DEF cclink_list_search, Matches

\* A list with one more call.
LEMMA AddKeeps == ASSUME NEW ccs, NEW on, NEW lk, NEW cc, ListOK(ccs, on, lk),
                         cc \in Calls, Valid(cc, on, lk)
                  PROVE  ListOK(cclink_list_add(ccs, cc), on, lk)
<1> DEFINE last == CHOOSE i \in DOMAIN ccs : \A j \in DOMAIN ccs : j <= i
           new == IF DOMAIN ccs = {} THEN 1 ELSE last + 1
           new_list == [i \in DOMAIN ccs \cup {new} |-> IF i = new THEN cc ELSE ccs[i]]
<1>1. PICK b \in Nat : DOMAIN ccs \subseteq 1..b
  BY DEF ListOK
<1>2. new \in Nat \ {0} /\ (new = 1 \/ new <= b + 1)
  <2>1. CASE DOMAIN ccs = {}
    BY <2>1
  <2>2. CASE DOMAIN ccs # {}
    <3>1. \E i \in DOMAIN ccs : \A j \in DOMAIN ccs : j <= i
      BY <1>1, <2>2, LastPosition, Zenon
    <3>2. last \in DOMAIN ccs
      BY <3>1, Zenon
    <3>3. last \in 1..b
      BY <3>2, <1>1
    <3> QED
      BY <3>3, <2>2
  <2> QED
    BY <2>1, <2>2
<1> HIDE DEF new
<1>3. DOMAIN new_list \subseteq 1..(b + 1) /\ b + 1 \in Nat
  BY <1>1, <1>2
<1>4. \A i \in DOMAIN new_list : new_list[i] \in Calls /\ Valid(new_list[i], on, lk)
  BY DEF ListOK
<1>5. ListOK(new_list, on, lk)
  <2> HIDE DEF new_list
  <2> QED
    BY <1>3, <1>4 DEF ListOK
<1>6. cclink_list_add(ccs, cc) = new_list
  BY DEF cclink_list_add, new
<1> QED
  BY <1>5, <1>6

\* A list with some of its calls.
LEMMA PartKeeps == ASSUME NEW ccs, NEW on, NEW lk, ListOK(ccs, on, lk),
                          NEW S \in SUBSET DOMAIN ccs
                   PROVE  ListOK([j \in S |-> ccs[j]], on, lk)
BY DEF ListOK

\* A list in which one call is changed.
LEMMA ChangeKeeps == ASSUME NEW ccs, NEW on, NEW lk, NEW i \in DOMAIN ccs, NEW cc,
                            ListOK(ccs, on, lk), cc \in Calls, Valid(cc, on, lk)
                     PROVE  ListOK([ccs EXCEPT ![i] = cc], on, lk)
<1>1. DOMAIN [ccs EXCEPT ![i] = cc] = DOMAIN ccs
  OBVIOUS
<1>2. \A j \in DOMAIN ccs : [ccs EXCEPT ![i] = cc][j] = IF j = i THEN cc ELSE ccs[j]
  OBVIOUS
<1> QED
  BY <1>1, <1>2 DEF ListOK

\* The calls of client x are deleted before x.
LEMMA ByClientKeeps == ASSUME NEW ccs, NEW on, NEW lk, NEW x, ListOK(ccs, on, lk)
                       PROVE  ListOK(cclink_list_delete_by_client(ccs, x), on \ {x}, lk)
BY DEF ListOK, Valid, cclink_list_delete_by_client

\* The calls over the link with m are deleted before the link.
LEMMA ByNodelinkKeeps == ASSUME NEW ccs, NEW on, NEW lk, NEW m \in Nodes, ListOK(ccs, on, lk)
                         PROVE  ListOK(cclink_list_delete_by_nodelink(ccs, m), on, lk \ {m})
BY N2NCallsAssumption DEF ListOK, Valid, cclink_list_delete_by_nodelink

\* More clients and links.
LEMMA MoreKeeps == ASSUME NEW ccs, NEW on, NEW lk, NEW on2, NEW lk2, on \subseteq on2,
                          lk \subseteq lk2, ListOK(ccs, on, lk)
                   PROVE  ListOK(ccs, on2, lk2)
BY DEF ListOK, Valid

\* The steps of a call's state keep its end of the call, its link and its clients.
LEMMA StatesKeep == ASSUME NEW cc \in Calls, NEW on, NEW lk, Valid(cc, on, lk)
    PROVE  /\ cclink_setwaitconn(cc) \in Calls /\ Valid(cclink_setwaitconn(cc), on, lk)
           /\ cc.state # "N2NCLR_WAITSEARCH" =>
                /\ cclink_setwaitanontlsshutdown(cc) \in Calls
                /\ Valid(cclink_setwaitanontlsshutdown(cc), on, lk)
                /\ cclink_activate(cc) \in Calls
                /\ Valid(cclink_activate(cc), on, lk)
           /\ \A pos \in Int : /\ [cc EXCEPT !.bufpos = pos] \in Calls
                               /\ Valid([cc EXCEPT !.bufpos = pos], on, lk)
<1> USE DEF Calls, Setup, Active, CallerSide, IsCallerSide, LocalId, Valid
<1>1. cclink_setwaitconn(cc) \in Calls /\ Valid(cclink_setwaitconn(cc), on, lk)
  BY DEF cclink_setwaitconn
<1>2. ASSUME cc.state # "N2NCLR_WAITSEARCH"
      PROVE  /\ cclink_setwaitanontlsshutdown(cc) \in Calls
             /\ Valid(cclink_setwaitanontlsshutdown(cc), on, lk)
  BY <1>2 DEF cclink_setwaitanontlsshutdown
<1>3. ASSUME cc.state # "N2NCLR_WAITSEARCH"
      PROVE  cclink_activate(cc) \in Calls /\ Valid(cclink_activate(cc), on, lk)
  BY <1>3 DEF cclink_activate
<1>4. ASSUME NEW pos \in Int
      PROVE  /\ [cc EXCEPT !.bufpos = pos] \in Calls
             /\ Valid([cc EXCEPT !.bufpos = pos], on, lk)
  OBVIOUS
<1> QED
  BY <1>1, <1>2, <1>3, <1>4


-----------------------------------------------------------------------------
(* The queues.                                                             *)

\* What was allowed in a queue stays so when more callees have joined.
LEMMA MoreJoined == ASSUME NEW J, NEW K, J \subseteq K
                    PROVE  /\ Seq(Msgs(J)) \subseteq Seq(Msgs(K))
                           /\ \A x : Seq(Notices(x, J)) \subseteq Seq(Notices(x, K))
<1>1. Msgs(J) \subseteq Msgs(K)
  BY DEF Msgs
<1>2. ASSUME NEW x PROVE Notices(x, J) \subseteq Notices(x, K)
  BY DEF Notices
<1>3. ASSUME NEW S, NEW T, S \subseteq T PROVE Seq(S) \subseteq Seq(T)
  BY <1>3
<1>4. Seq(Msgs(J)) \subseteq Seq(Msgs(K))
  BY <1>1, <1>3
<1>5. ASSUME NEW x PROVE Seq(Notices(x, J)) \subseteq Seq(Notices(x, K))
  BY <1>2, <1>3
<1> QED
  BY <1>4, <1>5

\* Pushing messages for a node.
LEMMA PushKeeps == ASSUME NEW S, NEW w \in [Nodes -> [Nodes -> Seq(S)]], NEW n \in Nodes,
                          NEW m \in Nodes, NEW ms \in Seq(S)
                   PROVE  nodelink_wbuf_push(w, n, m, ms) \in [Nodes -> [Nodes -> Seq(S)]]
<1>1. w[n][m] \o ms \in Seq(S)
  OBVIOUS
<1>2. [w[n] EXCEPT ![m] = w[n][m] \o ms] \in [Nodes -> Seq(S)]
  BY <1>1
<1> QED
  BY <1>2 DEF nodelink_wbuf_push

\* Reading a message.
LEMMA ReadKeeps == ASSUME QueuesOK, NEW n \in Nodes, NEW m \in Nodes, wire[m][n] # <<>>
                   PROVE  /\ Head(wire[m][n]) \in Msgs(joined)
                          /\ Popped(n, m) \in [Nodes -> [Nodes -> Seq(Msgs(joined))]]
<1>1. wire[m][n] \in Seq(Msgs(joined)) /\ wire[m] \in [Nodes -> Seq(Msgs(joined))]
  BY DEF QueuesOK
<1>2. Tail(wire[m][n]) \in Seq(Msgs(joined)) /\ Head(wire[m][n]) \in Msgs(joined)
  BY <1>1
<1>3. [wire[m] EXCEPT ![n] = Tail(wire[m][n])] \in [Nodes -> Seq(Msgs(joined))]
  BY <1>1, <1>2
<1> QED
  BY <1>2, <1>3 DEF Popped, QueuesOK

\* One message for a node.
LEMMA OneMessage == ASSUME NEW J, NEW msg \in Msgs(J)
                    PROVE  <<msg>> \in Seq(Msgs(J))
OBVIOUS

LEMMA ToNodeTyped == ASSUME NEW J, NEW name \in Messages, NEW x \in Ids, NEW y \in Ids,
                            name = "N2NALLOW" => <<x, y>> \in J
                     PROVE  ToNode(name, x, y) \in Msgs(J) /\ <<ToNode(name, x, y)>> \in Seq(Msgs(J))
<1>1. ToNode(name, x, y) \in Msgs(J)
  BY DEF ToNode, Msgs
<1> QED
  BY <1>1, OneMessage

\* One more notice for a client.
LEMMA TellKeeps == ASSUME NEW J, NEW box, InboxOK(box, J), NEW x \in Ids, NEW peer \in Ids,
                          NEW name \in {"CONNREQINC", "FOUND", "NOTFOUND"},
                          name = "FOUND" => <<x, peer>> \in J
                   PROVE  InboxOK(client_wbuf_push(box, x, name, peer), J)
<1> DEFINE notice == [m |-> name, peer |-> peer]
<1>1. notice \in Notices(x, J)
  BY DEF Notices
<1>2. box[x] \in Seq(Notices(x, J))
  BY DEF InboxOK
<1>3. Append(box[x], notice) \in Seq(Notices(x, J))
  <2> HIDE DEF notice
  <2> QED
    BY <1>1, <1>2
<1> HIDE DEF notice
<1>4. ASSUME NEW new, new = [box EXCEPT ![x] = Append(box[x], notice)]
      PROVE  InboxOK(new, J)
  BY <1>3, <1>4 DEF InboxOK
<1>5. client_wbuf_push(box, x, name, peer) = [box EXCEPT ![x] = Append(box[x], notice)]
  BY DEF client_wbuf_push, notice
<1> QED
  BY <1>4, <1>5

\* A client reads a notice, or is gone.
LEMMA NoticeKeeps == ASSUME NEW J, NEW box, InboxOK(box, J), NEW x \in Ids
                     PROVE  /\ InboxOK([box EXCEPT ![x] = <<>>], J)
                            /\ box[x] # <<>> => /\ Head(box[x]) \in Notices(x, J)
                                                /\ InboxOK([box EXCEPT ![x] = Tail(@)], J)
<1>1. <<>> \in Seq(Notices(x, J))
  OBVIOUS
<1>2. box[x] \in Seq(Notices(x, J))
  BY DEF InboxOK
<1>3. box[x] # <<>> => Head(box[x]) \in Notices(x, J) /\ Tail(box[x]) \in Seq(Notices(x, J))
  BY <1>2
<1>4. ASSUME NEW q, q \in Seq(Notices(x, J))
      PROVE  InboxOK([box EXCEPT ![x] = q], J)
  BY <1>4 DEF InboxOK
<1> QED
  BY <1>1, <1>3, <1>4


-----------------------------------------------------------------------------
(* Clients log in and off, nodes get and lose their links.                 *)

\* A step that changes the calls of one node.
LEMMA CallsChange == ASSUME NodesOK, NEW n \in Nodes, NEW list, ListOK(list, online[n], link[n]),
                            cclinks' = [cclinks EXCEPT ![n] = list], UNCHANGED <<online, link>>
                     PROVE  NodesOK'
<1>1. DOMAIN cclinks' = Nodes /\ cclinks' = [k \in Nodes |-> cclinks'[k]]
  BY DEF NodesOK
<1>2. ASSUME NEW k \in Nodes PROVE ListOK(cclinks'[k], online[k], link[k])
  <2>1. cclinks'[k] = IF k = n THEN list ELSE cclinks[k]
    BY DEF NodesOK
  <2> QED
    BY <2>1 DEF NodesOK
<1> QED
  BY <1>1, <1>2 DEF NodesOK

\* A step that leaves clients, links and calls alone.
LEMMA NodesSame == ASSUME NodesOK, UNCHANGED <<online, link, cclinks>>
                   PROVE  NodesOK'
BY DEF NodesOK

LEMMA LoginKeeps == ASSUME N2NInv, NEW n \in Nodes, NEW x \in Ids, Login(n, x)
                    PROVE  N2NInv'
<1> USE DEF N2NInv, Login
<1>1. online' \in [Nodes -> SUBSET Ids] /\ \A k \in Nodes : online[k] \subseteq online'[k]
  BY DEF NodesOK
<1>2. \A k \in Nodes : ListOK(cclinks[k], online'[k], link[k])
  BY <1>1, MoreKeeps DEF NodesOK
<1>3. NodesOK'
  BY <1>1, <1>2 DEF NodesOK
<1> QED
  BY <1>3 DEF QueuesOK

\* A client is deleted with its queues and its calls.
LEMMA DeleteKeeps == ASSUME N2NInv, NEW n \in Nodes, NEW x \in Ids, client_list_delete(n, x),
                            UNCHANGED <<link, wire, joined>>
                     PROVE  N2NInv'
<1> USE DEF N2NInv, client_list_delete
<1>1. online' \in [Nodes -> SUBSET Ids]
  BY DEF NodesOK
<1>2. DOMAIN cclinks' = Nodes /\ cclinks' = [k \in Nodes |-> cclinks'[k]]
  BY DEF NodesOK
<1>3. ASSUME NEW k \in Nodes PROVE ListOK(cclinks'[k], online'[k], link[k])
  <2>1. CASE k = n
    <3>1. ListOK(cclink_list_delete_by_client(cclinks[n], x), online[n] \ {x}, link[n])
      BY ByClientKeeps DEF NodesOK
    <3>2. /\ cclinks'[n] = cclink_list_delete_by_client(cclinks[n], x)
          /\ online'[n] = online[n] \ {x}
      BY DEF NodesOK
    <3> QED
      BY <3>1, <3>2, <2>1
  <2>2. CASE k # n
    <3>1. cclinks'[k] = cclinks[k] /\ online'[k] = online[k]
      BY <2>2 DEF NodesOK
    <3> QED
      BY <3>1 DEF NodesOK
  <2> QED
    BY <2>1, <2>2
<1>4. NodesOK'
  BY <1>1, <1>2, <1>3 DEF NodesOK
<1>5. InboxOK(inbox', joined)
  BY NoticeKeeps DEF QueuesOK
<1> QED
  BY <1>4, <1>5 DEF QueuesOK

LEMMA LinkUpKeeps == ASSUME N2NInv, NEW n \in Nodes, NEW m \in Nodes, LinkUp(n, m)
                     PROVE  N2NInv'
<1> USE DEF N2NInv, LinkUp
<1>1. /\ link' \in [Nodes -> SUBSET Nodes]
      /\ \A k \in Nodes : link[k] \subseteq link'[k] /\ k \notin link'[k]
  BY DEF NodesOK
<1>2. ASSUME NEW k \in Nodes PROVE ListOK(cclinks[k], online[k], link'[k])
  <2>1. ListOK(cclinks[k], online[k], link[k]) /\ link[k] \subseteq link'[k]
    BY <1>1 DEF NodesOK
  <2> QED
    BY <2>1, MoreKeeps
<1>3. NodesOK'
  <2>1. NodesOK /\ UNCHANGED <<online, cclinks>>
    OBVIOUS
  <2> HIDE DEF N2NInv, LinkUp
  <2> QED
    BY <1>1, <1>2, <2>1 DEF NodesOK
<1> QED
  BY <1>3 DEF QueuesOK

\* A link is deleted with the calls over it.
LEMMA UnlinkKeeps == ASSUME NodesOK, NEW n \in Nodes, NEW m \in Nodes,
                            nodelink_list_delete(n, m), UNCHANGED online
                     PROVE  NodesOK'
<1> USE DEF nodelink_list_delete
<1>1. link' \in [Nodes -> SUBSET Nodes] /\ \A k \in Nodes : k \notin link'[k]
  BY DEF NodesOK
<1>2. DOMAIN cclinks' = Nodes /\ cclinks' = [k \in Nodes |-> cclinks'[k]]
  BY DEF NodesOK
<1>3. ASSUME NEW k \in Nodes PROVE ListOK(cclinks'[k], online[k], link'[k])
  <2>1. CASE k = n
    <3>1. ListOK(cclink_list_delete_by_nodelink(cclinks[n], m), online[n], link[n] \ {m})
      BY ByNodelinkKeeps DEF NodesOK
    <3>2. /\ cclinks'[n] = cclink_list_delete_by_nodelink(cclinks[n], m)
          /\ link'[n] = link[n] \ {m}
      BY DEF NodesOK
    <3> QED
      BY <3>1, <3>2, <2>1
  <2>2. CASE k # n
    <3>1. cclinks'[k] = cclinks[k] /\ link'[k] = link[k]
      BY <2>2 DEF NodesOK
    <3> QED
      BY <3>1 DEF NodesOK
  <2> QED
    BY <2>1, <2>2
<1> QED
  BY <1>1, <1>2, <1>3 DEF NodesOK

LEMMA LinkEndKeeps == ASSUME N2NInv, NEW n \in Nodes, NEW m \in Nodes,
                             LinkBreaks(n, m) \/ LinkEnds(n, m)
                      PROVE  N2NInv'
<1> USE DEF N2NInv
<1> DEFINE W == [Nodes -> Seq(Msgs(joined))]
<1>1. NodesOK'
  BY UnlinkKeeps DEF LinkBreaks, LinkEnds
<1>2. wire' \in [Nodes -> W]
  <2>1. wire \in [Nodes -> W] /\ <<>> \in Seq(Msgs(joined))
    BY DEF QueuesOK
  <2>2. CASE LinkEnds(n, m)
    <3>1. [wire[n] EXCEPT ![m] = <<>>] \in W
      BY <2>1
    <3> QED
      BY <2>1, <2>2, <3>1 DEF LinkEnds
  <2>3. CASE LinkBreaks(n, m)
    <3>1. PICK k \in 0..Len(wire[n][m]) :
              wire' = [wire EXCEPT ![m][n] = <<>>, ![n][m] = SubSeq(@, 1, k)]
      BY <2>3 DEF LinkBreaks
    <3> DEFINE w == [wire EXCEPT ![m] = [wire[m] EXCEPT ![n] = <<>>]]
    <3>2. w \in [Nodes -> W]
      <4>1. [wire[m] EXCEPT ![n] = <<>>] \in W
        BY <2>1
      <4> QED
        BY <2>1, <4>1
    <3>3. k \in 0..Len(wire[n][m]) /\ wire[n][m] \in Seq(Msgs(joined))
      BY <2>1
    <3>4. n # m /\ w[n] = wire[n]
      BY <2>1, <2>3 DEF LinkBreaks, NodesOK
    <3>5. SubSeq(w[n][m], 1, k) \in Seq(Msgs(joined))
      <4>1. \A i \in 1..k : i \in 1..Len(wire[n][m])
        BY <3>3
      <4> QED
        BY <3>3, <3>4, <4>1, SubSeqProperties
    <3> HIDE DEF w
    <3>6. [w[n] EXCEPT ![m] = SubSeq(w[n][m], 1, k)] \in W
      BY <3>2, <3>5
    <3>7. wire' = [w EXCEPT ![n] = [w[n] EXCEPT ![m] = SubSeq(w[n][m], 1, k)]]
      BY <2>1, <3>1, <3>4 DEF w
    <3> QED
      BY <3>2, <3>6, <3>7
  <2> QED
    BY <2>2, <2>3
<1> QED
  BY <1>1, <1>2 DEF QueuesOK, LinkBreaks, LinkEnds

LEMMA StopsKeeps == ASSUME N2NInv, NEW n \in Nodes, Stops(n)
                    PROVE  N2NInv'
<1> USE DEF N2NInv, Stops
<1>1. /\ online' \in [Nodes -> SUBSET Ids] /\ link' \in [Nodes -> SUBSET Nodes]
      /\ \A k \in Nodes : k \notin link'[k]
  BY DEF NodesOK
<1>2. DOMAIN cclinks' = Nodes /\ cclinks' = [k \in Nodes |-> cclinks'[k]]
  BY DEF NodesOK
<1>3. ASSUME NEW k \in Nodes PROVE ListOK(cclinks'[k], online'[k], link'[k])
  <2>1. CASE k = n
    <3>1. DOMAIN cclinks'[n] = {}
      BY DEF NodesOK
    <3>2. {} \subseteq 1..0
      OBVIOUS
    <3> QED
      BY <3>1, <3>2, <2>1 DEF ListOK
  <2>2. CASE k # n
    <3>1. cclinks'[k] = cclinks[k] /\ online'[k] = online[k] /\ link'[k] = link[k]
      BY <2>2 DEF NodesOK
    <3> QED
      BY <3>1 DEF NodesOK
  <2> QED
    BY <2>1, <2>2
<1>4. NodesOK'
  BY <1>1, <1>2, <1>3 DEF NodesOK
<1>5. InboxOK(inbox', joined)
  <2>1. ASSUME NEW x \in Ids PROVE inbox'[x] \in Seq(Notices(x, joined))
    <3>1. <<>> \in Seq(Notices(x, joined)) /\ inbox[x] \in Seq(Notices(x, joined))
      BY DEF QueuesOK, InboxOK
    <3> QED
      BY <3>1
  <2> QED
    BY <2>1 DEF InboxOK
<1>6. dials' \in [Ids -> SUBSET (Ids \X Ids)]
  BY DEF QueuesOK
<1>7. wire' \in [Nodes -> [Nodes -> Seq(Msgs(joined))]]
  <2>1. <<>> \in Seq(Msgs(joined))
    OBVIOUS
  <2> QED
    BY <2>1 DEF QueuesOK
<1> QED
  BY <1>4, <1>5, <1>6, <1>7 DEF QueuesOK


-----------------------------------------------------------------------------
(* The search.                                                             *)

LEMMA CallKeeps == ASSUME N2NInv, NEW n \in Nodes, NEW x \in Ids, NEW y \in Ids,
                          procmsg_CONNREQOUTG(n, x, y)
                   PROVE  N2NInv'
<1> USE DEF N2NInv
<1> DEFINE W == [Nodes -> Seq(Msgs(joined))]
           searching == cclink_list_findwaitsearch(cclinks[n], y)
           search == ToNode("SEARCH", y, y)
<1>1. x \in online[n] /\ UNCHANGED <<online, link, dials, joined>>
  BY DEF procmsg_CONNREQOUTG
<1>2. CASE searching \/ link[n] # {}
  <2>1. /\ cclinks' = [cclinks EXCEPT ![n] = cclink_list_addn2nclr(@, x, y)]
        /\ wire' = IF searching THEN wire
                   ELSE [wire EXCEPT ![n] = [m \in Nodes |->
                           IF m \in link[n] THEN Append(wire[n][m], search) ELSE wire[n][m]]]
        /\ UNCHANGED inbox
    BY <1>2 DEF procmsg_CONNREQOUTG
  <2>2. NodesOK'
    <3> DEFINE cc == NewLink("N2NCLR_WAITSEARCH", x, y, None)
    <3>1. cc \in Calls /\ Valid(cc, online[n], link[n])
      BY <1>1 DEF NewLink, Calls, Valid, Setup, LocalId, IsCallerSide, CallerSide
    <3> HIDE DEF cc
    <3>2. ListOK(cclink_list_add(cclinks[n], cc), online[n], link[n])
      BY <3>1, AddKeeps DEF NodesOK
    <3>3. cclinks' = [cclinks EXCEPT ![n] = cclink_list_add(cclinks[n], cc)]
      BY <2>1 DEF cclink_list_addn2nclr, cc
    <3> QED
      BY <1>1, <3>2, <3>3, CallsChange
  <2>3. wire' \in [Nodes -> W]
    <3>1. search \in Msgs(joined)
      BY ToNodeTyped DEF Messages
    <3>2. wire[n] \in W
      BY DEF QueuesOK
    <3> HIDE DEF search, searching
    <3>3. \A m \in Nodes : Append(wire[n][m], search) \in Seq(Msgs(joined))
      BY <3>1, <3>2
    <3>4. [m \in Nodes |-> IF m \in link[n] THEN Append(wire[n][m], search)
                           ELSE wire[n][m]] \in W
      BY <3>2, <3>3
    <3> QED
      BY <2>1, <3>4 DEF QueuesOK
  <2> QED
    BY <1>1, <2>1, <2>2, <2>3 DEF QueuesOK
<1>3. CASE ~(searching \/ link[n] # {})
  <2>1. inbox' = client_wbuf_push(inbox, x, "NOTFOUND", y) /\ UNCHANGED <<cclinks, wire>>
    BY <1>3 DEF procmsg_CONNREQOUTG
  <2>2. InboxOK(inbox', joined)
    BY <2>1, TellKeeps DEF QueuesOK
  <2> QED
    BY <1>1, <2>1, <2>2 DEF QueuesOK, NodesOK
<1> QED
  BY <1>2, <1>3

LEMMA SearchKeeps == ASSUME N2NInv, NEW n \in Nodes, NEW m \in Nodes, procmsg_SEARCH(n, m)
                     PROVE  N2NInv'
<1> USE DEF N2NInv
<1> DEFINE y == Head(wire[m][n]).callee
<1>1. wire[m][n] # <<>>
  BY DEF procmsg_SEARCH, Reads
<1>2. /\ y \in Ids
      /\ Popped(n, m) \in [Nodes -> [Nodes -> Seq(Msgs(joined))]]
  BY <1>1, ReadKeeps DEF Msgs
<1>3. /\ wire' = IF y \in online[n]
                 THEN nodelink_wbuf_push(Popped(n, m), n, m, <<ToNode("N2NFOUND", y, y)>>)
                 ELSE Popped(n, m)
      /\ UNCHANGED <<online, inbox, dials, link, cclinks, joined>>
  BY DEF procmsg_SEARCH
<1> HIDE DEF y
<1>4. <<ToNode("N2NFOUND", y, y)>> \in Seq(Msgs(joined))
  BY <1>2, ToNodeTyped DEF Messages
<1>5. wire' \in [Nodes -> [Nodes -> Seq(Msgs(joined))]]
  BY <1>2, <1>3, <1>4, PushKeeps
<1> QED
  BY <1>3, <1>5 DEF NodesOK, QueuesOK

LEMMA FoundKeeps == ASSUME N2NInv, NEW n \in Nodes, NEW m \in Nodes, procmsg_N2NFOUND(n, m)
                    PROVE  N2NInv'
<1> USE DEF N2NInv
<1> DEFINE y == Head(wire[m][n]).callee
           ccs == cclinks[n]
           waiting == {i \in DOMAIN ccs : WaitsForSearch(ccs[i], y)}
           request(i) == ToNode("N2NCONNREQOUTG", ccs[i].caller, y)
           list == [i \in DOMAIN ccs |->
                      IF i \in waiting THEN cclink_attach_remotecle_node(ccs[i], m) ELSE ccs[i]]
<1>1. wire[m][n] # <<>> /\ m \in link[n] /\ UNCHANGED <<online, inbox, dials, link, joined>>
  BY DEF procmsg_N2NFOUND, Reads
<1>2. /\ y \in Ids
      /\ Popped(n, m) \in [Nodes -> [Nodes -> Seq(Msgs(joined))]]
  BY <1>1, ReadKeeps DEF Msgs
<1>3. PICK order \in [1..Cardinality(waiting) -> waiting] :
          wire' = nodelink_wbuf_push(Popped(n, m), n, m,
                                     [k \in DOMAIN order |-> request(order[k])])
  BY DEF procmsg_N2NFOUND
<1>4. cclinks' = [cclinks EXCEPT ![n] = list]
  BY DEF procmsg_N2NFOUND
<1>5. ListOK(ccs, online[n], link[n])
  BY DEF NodesOK
<1> HIDE DEF y, ccs
<1>6. NodesOK'
  <2>1. ASSUME NEW i \in DOMAIN list PROVE list[i] \in Calls /\ Valid(list[i], online[n], link[n])
    <3>1. ccs[i] \in Calls /\ Valid(ccs[i], online[n], link[n])
      BY <1>5 DEF ListOK
    <3>2. CASE i \in waiting
      <4>1. ccs[i].state = "N2NCLR_WAITSEARCH"
        BY <3>2 DEF WaitsForSearch
      <4>2. list[i] = [ccs[i] EXCEPT !.state = "N2NCLR_WAITREP", !.node = m]
        BY <3>2 DEF cclink_attach_remotecle_node
      <4> QED
        BY <1>1, <3>1, <4>1, <4>2
        DEF Calls, Valid, Setup, Active, LocalId, IsCallerSide, CallerSide
    <3>3. CASE i \notin waiting
      BY <3>1, <3>3
    <3> QED
      BY <3>2, <3>3
  <2>2. DOMAIN list = DOMAIN ccs
    OBVIOUS
  <2>3. ListOK(list, online[n], link[n])
    <3> HIDE DEF list
    <3> QED
      BY <1>5, <2>1, <2>2 DEF ListOK
  <2> HIDE DEF list
  <2> QED
    BY <1>1, <1>4, <2>3, CallsChange
<1>7. [k \in DOMAIN order |-> request(order[k])] \in Seq(Msgs(joined))
  <2>1. Cardinality(waiting) \in Nat
    <3>1. PICK b \in Nat : DOMAIN ccs \subseteq 1..b
      BY <1>5 DEF ListOK
    <3>2. IsFiniteSet(1..b)
      BY FS_Interval
    <3>3. waiting \subseteq 1..b
      BY <3>1
    <3> HIDE DEF waiting
    <3>4. IsFiniteSet(waiting)
      BY <3>2, <3>3, FS_Subset
    <3> QED
      BY <3>4, FS_CardinalityType
  <2>2. ASSUME NEW i \in waiting PROVE request(i) \in Msgs(joined)
    <3>1. ccs[i].caller \in Ids
      BY <1>5 DEF ListOK, Calls
    <3> QED
      BY <1>2, <3>1, ToNodeTyped DEF Messages
  <2> HIDE DEF waiting, request
  <2>3. DOMAIN order = 1..Cardinality(waiting)
    OBVIOUS
  <2>4. \A k \in 1..Cardinality(waiting) : request(order[k]) \in Msgs(joined)
    BY <2>2
  <2> QED
    BY <2>1, <2>3, <2>4
<1>8. wire' \in [Nodes -> [Nodes -> Seq(Msgs(joined))]]
  BY <1>2, <1>3, <1>7, PushKeeps
<1> QED
  BY <1>1, <1>6, <1>8 DEF QueuesOK

LEMMA RequestKeeps == ASSUME N2NInv, NEW n \in Nodes, NEW m \in Nodes,
                             procmsg_N2NCONNREQOUTG(n, m)
                      PROVE  N2NInv'
<1> USE DEF N2NInv
<1> DEFINE x == Head(wire[m][n]).caller
           y == Head(wire[m][n]).callee
<1>1. wire[m][n] # <<>> /\ m \in link[n] /\ UNCHANGED <<online, dials, link, joined>>
  BY DEF procmsg_N2NCONNREQOUTG, Reads
<1>2. /\ x \in Ids /\ y \in Ids
      /\ Popped(n, m) \in [Nodes -> [Nodes -> Seq(Msgs(joined))]]
  BY <1>1, ReadKeeps DEF Msgs
<1>3. CASE y \in online[n]
  <2>1. /\ inbox' = client_wbuf_push(inbox, y, "CONNREQINC", x)
        /\ cclinks' = [cclinks EXCEPT ![n] = cclink_list_addn2ncle(cclinks[n], x, m, y)]
        /\ wire' = Popped(n, m)
    BY <1>3 DEF procmsg_N2NCONNREQOUTG
  <2> DEFINE cc == NewLink("N2NCLE_WAITREP", x, y, m)
  <2> HIDE DEF x, y
  <2>2. InboxOK(inbox', joined)
    BY <1>2, <2>1, TellKeeps DEF QueuesOK
  <2>3. cc \in Calls /\ Valid(cc, online[n], link[n])
    BY <1>1, <1>2, <1>3 DEF NewLink, Calls, Valid, Setup, LocalId, IsCallerSide, CallerSide
  <2> HIDE DEF cc
  <2>4. ListOK(cclink_list_add(cclinks[n], cc), online[n], link[n])
    BY <2>3, AddKeeps DEF NodesOK
  <2>5. cclinks' = [cclinks EXCEPT ![n] = cclink_list_add(cclinks[n], cc)]
    BY <2>1 DEF cclink_list_addn2ncle, cc
  <2>6. NodesOK'
    BY <1>1, <2>4, <2>5, CallsChange
  <2> QED
    BY <1>1, <1>2, <2>1, <2>2, <2>6 DEF QueuesOK
<1>4. CASE y \notin online[n]
  <2>1. /\ wire' = nodelink_wbuf_push(Popped(n, m), n, m, <<ToNode("N2NNOTFOUND", x, y)>>)
        /\ UNCHANGED <<inbox, cclinks>>
    BY <1>4 DEF procmsg_N2NCONNREQOUTG
  <2> HIDE DEF x, y
  <2>2. <<ToNode("N2NNOTFOUND", x, y)>> \in Seq(Msgs(joined))
    BY <1>2, ToNodeTyped DEF Messages
  <2>3. wire' \in [Nodes -> [Nodes -> Seq(Msgs(joined))]]
    BY <1>2, <2>1, <2>2, PushKeeps
  <2>4. NodesOK'
    BY <1>1, <2>1, NodesSame
  <2> QED
    BY <1>1, <2>1, <2>3, <2>4 DEF QueuesOK
<1> QED
  BY <1>3, <1>4


-----------------------------------------------------------------------------
(* The callee's answer, and what the nodes and the caller make of it.      *)

\* The call that the callee answers, and the notice it answers.
LEMMA AnswerTyped == ASSUME N2NInv, NEW n \in Nodes, NEW y \in Ids, Answers(n, y)
    PROVE  /\ Head(inbox[y]).peer \in Ids
           /\ InboxOK([inbox EXCEPT ![y] = Tail(@)], joined)
           /\ IsWaiting(n, Called(n, y)) =>
                /\ Called(n, y) \in DOMAIN cclinks[n]
                /\ cclinks[n][Called(n, y)] \in Calls
                /\ Valid(cclinks[n][Called(n, y)], online[n], link[n])
                /\ cclinks[n][Called(n, y)].node \in Nodes
<1> USE DEF N2NInv
<1>1. Head(inbox[y]) \in Notices(y, joined) /\ InboxOK([inbox EXCEPT ![y] = Tail(@)], joined)
  BY NoticeKeeps DEF QueuesOK, Answers
<1>2. ListOK(cclinks[n], online[n], link[n]) /\ link[n] \subseteq Nodes
  BY DEF NodesOK
<1>3. ASSUME IsWaiting(n, Called(n, y))
      PROVE  /\ Called(n, y) \in DOMAIN cclinks[n]
             /\ cclinks[n][Called(n, y)] \in Calls
             /\ Valid(cclinks[n][Called(n, y)], online[n], link[n])
             /\ cclinks[n][Called(n, y)].node \in Nodes
  <2>1. Called(n, y) \in DOMAIN cclinks[n] /\ cclinks[n][Called(n, y)].state = "N2NCLE_WAITREP"
    BY <1>2, <1>3, SearchFinds DEF IsWaiting, Called
  <2>2. /\ cclinks[n][Called(n, y)] \in Calls
        /\ Valid(cclinks[n][Called(n, y)], online[n], link[n])
    BY <1>2, <2>1 DEF ListOK
  <2> QED
    BY <1>2, <2>1, <2>2 DEF Valid
<1> QED
  BY <1>1, <1>3 DEF Notices

LEMMA AllowKeeps == ASSUME N2NInv, NEW n \in Nodes, NEW y \in Ids, procmsg_CONNALLOW(n, y)
                    PROVE  N2NInv'
<1> USE DEF N2NInv
<1> DEFINE i == Called(n, y)
           cc == cclinks[n][i]
           peer == Head(inbox[y]).peer
<1>1. Answers(n, y) /\ UNCHANGED <<link, wire, joined>>
  BY DEF procmsg_CONNALLOW
<1>2. peer \in Ids /\ InboxOK([inbox EXCEPT ![y] = Tail(@)], joined)
  BY <1>1, AnswerTyped
<1>3. CASE IsWaiting(n, i)
  <2>1. /\ cclinks' = [cclinks EXCEPT ![n] = [cclinks[n] EXCEPT ![i] = cclink_setwaitconn(cc)]]
        /\ inbox' = [inbox EXCEPT ![y] = Tail(@)]
        /\ dials' = [dials EXCEPT ![y] = @ \cup {<<peer, y>>}]
        /\ UNCHANGED online
    BY <1>3 DEF procmsg_CONNALLOW
  <2>2. /\ i \in DOMAIN cclinks[n] /\ cc \in Calls
        /\ Valid(cc, online[n], link[n]) /\ ListOK(cclinks[n], online[n], link[n])
    BY <1>1, <1>3, AnswerTyped DEF NodesOK
  <2> HIDE DEF i, cc, peer
  <2>3. ListOK([cclinks[n] EXCEPT ![i] = cclink_setwaitconn(cc)], online[n], link[n])
    BY <2>2, StatesKeep, ChangeKeeps
  <2>4. NodesOK'
    BY <1>1, <2>1, <2>3, CallsChange
  <2>5. dials' \in [Ids -> SUBSET (Ids \X Ids)]
    BY <1>2, <2>1 DEF QueuesOK
  <2> QED
    BY <1>1, <1>2, <2>1, <2>4, <2>5 DEF QueuesOK
<1>4. CASE ~IsWaiting(n, i)
  BY <1>1, <1>4, DeleteKeeps DEF procmsg_CONNALLOW
<1> QED
  BY <1>3, <1>4

LEMMA DenyKeeps == ASSUME N2NInv, NEW n \in Nodes, NEW y \in Ids, procmsg_CONNDENY(n, y)
                   PROVE  N2NInv'
<1> USE DEF N2NInv
<1> DEFINE i == Called(n, y)
           cc == cclinks[n][i]
           x == Head(inbox[y]).peer
<1>1. Answers(n, y) /\ UNCHANGED <<link, joined>>
  BY DEF procmsg_CONNDENY
<1>2. x \in Ids /\ InboxOK([inbox EXCEPT ![y] = Tail(@)], joined)
  BY <1>1, AnswerTyped
<1>3. CASE IsWaiting(n, i)
  <2>1. /\ wire' = nodelink_wbuf_push(wire, n, cc.node, <<ToNode("N2NNOTFOUND", x, y)>>)
        /\ cclinks' = [cclinks EXCEPT ![n] = cclink_list_delete(cclinks[n], i)]
        /\ inbox' = [inbox EXCEPT ![y] = Tail(@)]
        /\ UNCHANGED <<online, dials>>
    BY <1>3 DEF procmsg_CONNDENY
  <2>2. cc.node \in Nodes /\ ListOK(cclinks[n], online[n], link[n])
    BY <1>1, <1>3, AnswerTyped DEF NodesOK
  <2> HIDE DEF i, cc, x
  <2>3. ListOK(cclink_list_delete(cclinks[n], i), online[n], link[n])
    BY <2>2, PartKeeps DEF cclink_list_delete
  <2>4. NodesOK'
    BY <1>1, <2>1, <2>3, CallsChange
  <2>5. <<ToNode("N2NNOTFOUND", x, y)>> \in Seq(Msgs(joined))
    BY <1>2, ToNodeTyped DEF Messages
  <2>6. wire' \in [Nodes -> [Nodes -> Seq(Msgs(joined))]]
    BY <2>1, <2>2, <2>5, PushKeeps DEF QueuesOK
  <2> QED
    BY <1>1, <1>2, <2>1, <2>4, <2>6 DEF QueuesOK
<1>4. CASE ~IsWaiting(n, i)
  BY <1>1, <1>4, DeleteKeeps DEF procmsg_CONNDENY
<1> QED
  BY <1>3, <1>4

LEMMA ConnidKeeps == ASSUME N2NInv, NEW n \in Nodes, NEW x \in Ids, procmsg_CONNID(n, x)
                     PROVE  N2NInv'
<1> USE DEF N2NInv
<1>1. PICK pair \in dials[x] :
        LET i == cclink_list_search(cclinks[n], pair[1], pair[2])
        IN  /\ dials' = [dials EXCEPT ![x] = @ \ {pair}]
            /\ cclinks' = IF i # 0 /\ cclinks[n][i].state \in {"N2NCLR_WAITCONNCLR",
                                                             "N2NCLE_WAITCONNCLE"}
                          THEN [cclinks EXCEPT ![n][i] = cclink_setwaitanontlsshutdown(@)]
                          ELSE cclinks
            /\ UNCHANGED <<online, inbox, link, wire, joined>>
  BY DEF procmsg_CONNID
<1> DEFINE i == cclink_list_search(cclinks[n], pair[1], pair[2])
           cc == cclinks[n][i]
           ready == i # 0 /\ cc.state \in {"N2NCLR_WAITCONNCLR", "N2NCLE_WAITCONNCLE"}
<1>2. dials' \in [Ids -> SUBSET (Ids \X Ids)]
  BY <1>1 DEF QueuesOK
<1>3. CASE ready
  <2>1. cclinks' = [cclinks EXCEPT ![n] =
                      [cclinks[n] EXCEPT ![i] = cclink_setwaitanontlsshutdown(cc)]]
    BY <1>1, <1>3
  <2>2. ListOK(cclinks[n], online[n], link[n])
    BY DEF NodesOK
  <2>3. i \in DOMAIN cclinks[n] /\ cc.state # "N2NCLR_WAITSEARCH"
    BY <1>3, <2>2, SearchFinds
  <2>4. cc \in Calls /\ Valid(cc, online[n], link[n])
    BY <2>2, <2>3 DEF ListOK
  <2> HIDE DEF i, cc
  <2>5. ListOK([cclinks[n] EXCEPT ![i] = cclink_setwaitanontlsshutdown(cc)], online[n], link[n])
    BY <2>2, <2>3, <2>4, StatesKeep, ChangeKeeps
  <2>6. NodesOK'
    BY <1>1, <2>1, <2>5, CallsChange
  <2> QED
    BY <1>1, <1>2, <2>6 DEF QueuesOK
<1>4. CASE ~ready
  <2>1. NodesOK'
    BY <1>1, <1>4, NodesSame
  <2> QED
    BY <1>1, <1>2, <2>1 DEF QueuesOK
<1> QED
  BY <1>3, <1>4

LEMMA ConnectedKeeps == ASSUME N2NInv, NEW n \in Nodes, NEW i \in DOMAIN cclinks[n],
                               cclink_sendcleconnected(n, i)
                        PROVE  N2NInv'
<1> USE DEF N2NInv
<1> DEFINE cc == cclinks[n][i]
<1>1. /\ cc.state # "N2NCLR_WAITSEARCH"
      /\ cclinks' = [cclinks EXCEPT ![n] = [cclinks[n] EXCEPT ![i] = cclink_activate(cc)]]
      /\ UNCHANGED <<online, inbox, dials, link>>
  BY DEF cclink_sendcleconnected
<1>2. ListOK(cclinks[n], online[n], link[n]) /\ link[n] \subseteq Nodes
  BY DEF NodesOK
<1>3. cc \in Calls /\ Valid(cc, online[n], link[n])
  BY <1>2 DEF ListOK
<1>4. cc.caller \in Ids /\ cc.callee \in Ids /\ cc.node \in Nodes
  BY <1>1, <1>2, <1>3 DEF Calls, Valid
<1>5. \/ UNCHANGED <<wire, joined>>
      \/ /\ wire' = nodelink_wbuf_push(wire, n, cc.node,
                                       <<ToNode("N2NALLOW", cc.caller, cc.callee)>>)
         /\ joined' = joined \cup {<<cc.caller, cc.callee>>}
  BY DEF cclink_sendcleconnected
<1> HIDE DEF cc
<1>6. NodesOK'
  <2>1. ListOK([cclinks[n] EXCEPT ![i] = cclink_activate(cc)], online[n], link[n])
    BY <1>1, <1>2, <1>3, StatesKeep, ChangeKeeps
  <2> QED
    BY <1>1, <2>1, CallsChange
<1>7. CASE UNCHANGED <<wire, joined>>
  BY <1>1, <1>6, <1>7 DEF QueuesOK
<1>8. CASE /\ wire' = nodelink_wbuf_push(wire, n, cc.node,
                                       <<ToNode("N2NALLOW", cc.caller, cc.callee)>>)
           /\ joined' = joined \cup {<<cc.caller, cc.callee>>}
  <2>1. joined' \in SUBSET (Ids \X Ids) /\ joined \subseteq joined'
    BY <1>4, <1>8 DEF QueuesOK
  <2>2. /\ Seq(Msgs(joined)) \subseteq Seq(Msgs(joined'))
        /\ \A x : Seq(Notices(x, joined)) \subseteq Seq(Notices(x, joined'))
    BY <2>1, MoreJoined
  <2>3. InboxOK(inbox', joined')
    BY <1>1, <2>2 DEF QueuesOK, InboxOK
  <2>4. wire \in [Nodes -> [Nodes -> Seq(Msgs(joined'))]]
    BY <2>2 DEF QueuesOK
  <2>5. <<ToNode("N2NALLOW", cc.caller, cc.callee)>> \in Seq(Msgs(joined'))
    BY <1>4, <1>8, ToNodeTyped DEF Messages
  <2>6. wire' \in [Nodes -> [Nodes -> Seq(Msgs(joined'))]]
    BY <1>4, <1>8, <2>4, <2>5, PushKeeps
  <2> QED
    BY <1>1, <1>6, <2>1, <2>3, <2>6 DEF QueuesOK
<1> QED
  BY <1>5, <1>7, <1>8

LEMMA ToldKeeps == ASSUME N2NInv, NEW n \in Nodes, NEW x \in Ids, CallerTold(n, x)
                   PROVE  N2NInv'
<1> USE DEF N2NInv
<1>1. /\ inbox[x] # <<>>
      /\ inbox' = [inbox EXCEPT ![x] = Tail(@)]
      /\ UNCHANGED <<online, link, wire, cclinks, joined>>
  BY DEF CallerTold
<1>2. Head(inbox[x]) \in Notices(x, joined) /\ InboxOK(inbox', joined)
  BY <1>1, NoticeKeeps DEF QueuesOK
<1>3. dials' \in [Ids -> SUBSET (Ids \X Ids)]
  BY <1>2 DEF CallerTold, Notices, QueuesOK
<1>4. NodesOK'
  BY <1>1, NodesSame
<1> QED
  BY <1>1, <1>2, <1>3, <1>4 DEF QueuesOK


LEMMA AllowedKeeps == ASSUME N2NInv, NEW n \in Nodes, NEW m \in Nodes, procmsg_N2NALLOW(n, m)
                      PROVE  N2NInv'
<1> USE DEF N2NInv
<1> DEFINE msg == Head(wire[m][n])
           i == cclink_list_search(cclinks[n], msg.caller, msg.callee)
           cc == cclinks[n][i]
<1>1. wire[m][n] # <<>> /\ msg.m = "N2NALLOW"
  BY DEF procmsg_N2NALLOW, Reads
<1>2. /\ msg \in Msgs(joined)
      /\ Popped(n, m) \in [Nodes -> [Nodes -> Seq(Msgs(joined))]]
  BY <1>1, ReadKeeps
<1>3. CASE wire' = Popped(n, m) /\ UNCHANGED <<online, inbox, dials, link, cclinks, joined>>
  <2>1. NodesOK'
    BY <1>3, NodesSame
  <2> QED
    BY <1>2, <1>3, <2>1 DEF QueuesOK
<1>4. CASE /\ i # 0
           /\ wire' = Popped(n, m)
           /\ inbox' = client_wbuf_push(inbox, msg.caller, "FOUND", msg.callee)
           /\ cclinks' = [cclinks EXCEPT ![n] = [cclinks[n] EXCEPT ![i] = cclink_setwaitconn(cc)]]
           /\ UNCHANGED <<online, dials, link, joined>>
  <2>1. /\ msg.caller \in Ids /\ msg.callee \in Ids
        /\ <<msg.caller, msg.callee>> \in joined
    BY <1>1, <1>2 DEF Msgs
  <2>2. InboxOK(inbox', joined)
    BY <1>4, <2>1, TellKeeps DEF QueuesOK
  <2>3. ListOK(cclinks[n], online[n], link[n])
    BY DEF NodesOK
  <2>4. i \in DOMAIN cclinks[n]
    BY <1>4, <2>3, SearchFinds
  <2>5. cc \in Calls /\ Valid(cc, online[n], link[n])
    BY <2>3, <2>4 DEF ListOK
  <2> HIDE DEF i, cc, msg
  <2>6. ListOK([cclinks[n] EXCEPT ![i] = cclink_setwaitconn(cc)], online[n], link[n])
    BY <2>3, <2>4, <2>5, StatesKeep, ChangeKeeps
  <2>7. NodesOK'
    BY <1>4, <2>6, CallsChange
  <2> QED
    BY <1>2, <1>4, <2>2, <2>7 DEF QueuesOK
<1>5. CASE Stops(n)
  BY <1>5, StopsKeeps
<1> QED
  BY <1>3, <1>4, <1>5 DEF procmsg_N2NALLOW

LEMMA RefusedKeeps == ASSUME N2NInv, NEW n \in Nodes, NEW m \in Nodes, procmsg_N2NNOTFOUND(n, m)
                      PROVE  N2NInv'
<1> USE DEF N2NInv
<1> DEFINE msg == Head(wire[m][n])
           i == cclink_list_search(cclinks[n], msg.caller, msg.callee)
<1>1. wire[m][n] # <<>>
  BY DEF procmsg_N2NNOTFOUND, Reads
<1>2. /\ msg.caller \in Ids /\ msg.callee \in Ids
      /\ Popped(n, m) \in [Nodes -> [Nodes -> Seq(Msgs(joined))]]
  BY <1>1, ReadKeeps DEF Msgs
<1>3. CASE wire' = Popped(n, m) /\ UNCHANGED <<online, inbox, dials, link, cclinks, joined>>
  <2>1. NodesOK'
    BY <1>3, NodesSame
  <2> QED
    BY <1>2, <1>3, <2>1 DEF QueuesOK
<1>4. CASE /\ wire' = Popped(n, m)
           /\ inbox' = client_wbuf_push(inbox, msg.caller, "NOTFOUND", msg.callee)
           /\ cclinks' = [cclinks EXCEPT ![n] = cclink_list_delete(cclinks[n], i)]
           /\ UNCHANGED <<online, dials, link, joined>>
  <2> HIDE DEF i, msg
  <2>1. InboxOK(inbox', joined)
    BY <1>2, <1>4, TellKeeps DEF QueuesOK
  <2>2. ListOK(cclink_list_delete(cclinks[n], i), online[n], link[n])
    BY PartKeeps DEF NodesOK, cclink_list_delete
  <2>3. NodesOK'
    BY <1>4, <2>2, CallsChange
  <2> QED
    BY <1>2, <1>4, <2>1, <2>3 DEF QueuesOK
<1>5. CASE Stops(n)
  BY <1>5, StopsKeeps
<1> QED
  BY <1>3, <1>4, <1>5 DEF procmsg_N2NNOTFOUND

-----------------------------------------------------------------------------
(* The end of a call, and its data.                                        *)

\* A call ends by a timeout or because its client hangs up.
LEMMA EndKeeps == ASSUME N2NInv, NEW n \in Nodes, NEW i \in DOMAIN cclinks[n],
                         process_timeouts_c2c(n, i) \/ HangUp(n, i)
                  PROVE  N2NInv'
<1> USE DEF N2NInv
<1>1. /\ cclinks' = [cclinks EXCEPT ![n] = cclink_list_delete(cclinks[n], i)]
      /\ UNCHANGED <<online, inbox, dials, link, wire, joined>>
  BY DEF process_timeouts_c2c, HangUp
<1>2. ListOK(cclink_list_delete(cclinks[n], i), online[n], link[n])
  BY PartKeeps DEF NodesOK, cclink_list_delete
<1>3. NodesOK'
  BY <1>1, <1>2, CallsChange
<1> QED
  BY <1>1, <1>3 DEF QueuesOK

LEMMA DataReadKeeps == ASSUME N2NInv, NEW n \in Nodes, NEW i \in DOMAIN cclinks[n],
                              process_c2c_read(n, i)
                       PROVE  N2NInv'
<1> USE DEF N2NInv
<1> DEFINE cc == cclinks[n][i]
           to == IF IsCallerSide(cc) THEN cc.callee ELSE cc.caller
           data(len) == [m |-> "N2NMSG", caller |-> LocalId(cc), callee |-> to, len |-> len]
<1>1. cc.state \in Active /\ UNCHANGED <<online, inbox, dials, link, joined>>
  BY DEF process_c2c_read
<1>2. PICK len \in 1..DEFAULT_BUF_SIZE :
        /\ wire' = nodelink_wbuf_push(wire, n, cc.node, <<data(len)>>)
        /\ \E pos \in AfterWrite(cc, len) :
             cclinks' = IF pos = -2 THEN [cclinks EXCEPT ![n] = cclink_list_delete(@, i)]
                        ELSE [cclinks EXCEPT ![n][i].bufpos = pos]
  BY DEF process_c2c_read
<1>3. PICK pos \in AfterWrite(cc, len) :
        cclinks' = IF pos = -2 THEN [cclinks EXCEPT ![n] = cclink_list_delete(@, i)]
                   ELSE [cclinks EXCEPT ![n][i].bufpos = pos]
  BY <1>2
<1>4. ListOK(cclinks[n], online[n], link[n]) /\ link[n] \subseteq Nodes
  BY DEF NodesOK
<1>5. cc \in Calls /\ Valid(cc, online[n], link[n])
  BY <1>4 DEF ListOK
<1>6. cc.node \in Nodes
  BY <1>1, <1>4, <1>5 DEF Valid, Active
<1>7. wire' \in [Nodes -> [Nodes -> Seq(Msgs(joined))]]
  <2>1. LocalId(cc) \in Ids /\ to \in Ids
    BY <1>5 DEF LocalId, Calls
  <2>2. len \in Nat
    BY N2NCallsAssumption
  <2>3. data(len) \in Msgs(joined)
    BY <2>1, <2>2 DEF Msgs, Messages
  <2> HIDE DEF data, cc
  <2>4. <<data(len)>> \in Seq(Msgs(joined))
    BY <2>3, OneMessage
  <2> QED
    BY <1>2, <1>6, <2>4, PushKeeps DEF QueuesOK
<1>8. NodesOK'
  <2>1. CASE pos = -2
    <3>1. cclinks' = [cclinks EXCEPT ![n] = cclink_list_delete(cclinks[n], i)]
      BY <1>3, <2>1
    <3>2. ListOK(cclink_list_delete(cclinks[n], i), online[n], link[n])
      BY <1>4, PartKeeps DEF cclink_list_delete
    <3> QED
      BY <1>1, <3>1, <3>2, CallsChange
  <2>2. CASE pos # -2
    <3> DEFINE new == [cc EXCEPT !.bufpos = pos]
    <3>1. cclinks' = [cclinks EXCEPT ![n] = [cclinks[n] EXCEPT ![i] = new]]
      BY <1>3, <2>2
    <3>2. pos \in Int
      BY <1>5, N2NCallsAssumption DEF AfterWrite, Calls, Garbage
    <3>3. new \in Calls /\ Valid(new, online[n], link[n])
      <4> HIDE DEF cc
      <4> QED
        BY <1>5, <3>2, StatesKeep
    <3> HIDE DEF new
    <3>4. ListOK([cclinks[n] EXCEPT ![i] = new], online[n], link[n])
      BY <1>4, <3>3, ChangeKeeps
    <3> QED
      BY <1>1, <3>1, <3>4, CallsChange
  <2> QED
    BY <2>1, <2>2
<1> QED
  BY <1>1, <1>7, <1>8 DEF QueuesOK

LEMMA DataKeeps == ASSUME N2NInv, NEW n \in Nodes, NEW m \in Nodes, procmsg_N2NMSG(n, m)
                   PROVE  N2NInv'
<1> USE DEF N2NInv
<1> DEFINE msg == Head(wire[m][n])
           i == MsgFor(n, msg)
           pos == cclinks[n][i].bufpos
<1>1. wire[m][n] # <<>>
  BY DEF procmsg_N2NMSG, Reads
<1>2. /\ msg.caller \in Ids /\ msg.callee \in Ids /\ msg.len \in Nat
      /\ Popped(n, m) \in [Nodes -> [Nodes -> Seq(Msgs(joined))]]
  BY <1>1, ReadKeeps DEF Msgs
<1>3. ListOK(cclinks[n], online[n], link[n])
  BY DEF NodesOK
<1>4. CASE /\ wire' = nodelink_wbuf_push(Popped(n, m), n, m, <<NotFound(msg)>>)
           /\ UNCHANGED <<online, inbox, dials, link, cclinks, joined>>
  <2> HIDE DEF msg
  <2>1. <<NotFound(msg)>> \in Seq(Msgs(joined))
    BY <1>2, ToNodeTyped DEF Messages, NotFound
  <2>2. wire' \in [Nodes -> [Nodes -> Seq(Msgs(joined))]]
    BY <1>2, <1>4, <2>1, PushKeeps
  <2>3. NodesOK'
    BY <1>4, NodesSame
  <2> QED
    BY <1>4, <2>2, <2>3 DEF QueuesOK
<1>5. CASE /\ i # 0
           /\ wire' = Popped(n, m)
           /\ cclinks' = [cclinks EXCEPT ![n][i].bufpos = @ + msg.len]
           /\ UNCHANGED <<online, inbox, dials, link, joined>>
  <2> DEFINE cc == cclinks[n][i]
             new == [cc EXCEPT !.bufpos = pos + msg.len]
  <2>1. cclinks' = [cclinks EXCEPT ![n] = [cclinks[n] EXCEPT ![i] = new]]
    BY <1>5
  <2>2. i \in DOMAIN cclinks[n]
    BY <1>3, <1>5, SearchFinds DEF MsgFor
  <2>3. cc \in Calls /\ Valid(cc, online[n], link[n])
    BY <1>3, <2>2 DEF ListOK
  <2>4. pos + msg.len \in Int
    BY <1>2, <2>3 DEF Calls
  <2>5. new \in Calls /\ Valid(new, online[n], link[n])
    <3> HIDE DEF i, msg
    <3> QED
      BY <2>3, <2>4, StatesKeep
  <2> HIDE DEF new, i, msg
  <2>6. ListOK([cclinks[n] EXCEPT ![i] = new], online[n], link[n])
    BY <1>3, <2>2, <2>5, ChangeKeeps
  <2>7. NodesOK'
    BY <1>5, <2>1, <2>6, CallsChange
  <2> QED
    BY <1>2, <1>5, <2>7 DEF QueuesOK
<1>6. CASE /\ wire' = Popped(n, m)
           /\ cclinks' = [cclinks EXCEPT ![n] = cclink_list_delete(cclinks[n], i)]
           /\ UNCHANGED <<online, inbox, dials, link, joined>>
  <2> HIDE DEF i, msg
  <2>1. ListOK(cclink_list_delete(cclinks[n], i), online[n], link[n])
    BY <1>3, PartKeeps DEF cclink_list_delete
  <2>2. NodesOK'
    BY <1>6, <2>1, CallsChange
  <2> QED
    BY <1>2, <1>6, <2>2 DEF QueuesOK
<1>7. CASE Stops(n)
  BY <1>7, StopsKeeps
<1> QED
  BY <1>4, <1>5, <1>6, <1>7 DEF procmsg_N2NMSG

-----------------------------------------------------------------------------
(* The invariant of the specification.                                     *)

LEMMA InitOK == Init => N2NInv
<1> SUFFICES ASSUME Init PROVE N2NInv
  OBVIOUS
<1> USE DEF Init
<1>1. ASSUME NEW n \in Nodes PROVE n \notin link[n] /\ ListOK(cclinks[n], online[n], link[n])
  <2>1. DOMAIN cclinks[n] = {} /\ {} \subseteq 1..0
    OBVIOUS
  <2> QED
    BY <2>1 DEF ListOK
<1>2. NodesOK
  BY <1>1 DEF NodesOK
<1>3. InboxOK(inbox, joined)
  <2>1. ASSUME NEW x \in Ids PROVE <<>> \in Seq(Notices(x, joined))
    OBVIOUS
  <2> QED
    BY <2>1 DEF InboxOK
<1>4. <<>> \in Seq(Msgs(joined))
  OBVIOUS
<1>5. wire \in [Nodes -> [Nodes -> Seq(Msgs(joined))]]
  BY <1>4
<1> QED
  BY <1>2, <1>3, <1>5 DEF N2NInv, QueuesOK

LEMMA NextKeeps == N2NInv /\ [Next]_vars => N2NInv'
<1> SUFFICES ASSUME N2NInv, [Next]_vars PROVE N2NInv'
  OBVIOUS
<1>1. ASSUME NEW n \in Nodes, NEW m \in Nodes,
             LinkUp(n, m) \/ LinkBreaks(n, m) \/ process_n2n_read(n, m)
      PROVE  N2NInv'
  BY <1>1, LinkUpKeeps, LinkEndKeeps, SearchKeeps, FoundKeeps, RequestKeeps, AllowedKeeps,
     RefusedKeeps, DataKeeps DEF process_n2n_read
<1>2. ASSUME NEW n \in Nodes, NodeStops(n) PROVE N2NInv'
  BY <1>2, StopsKeeps DEF NodeStops
<1>3. ASSUME NEW n \in Nodes, NEW x \in Ids, Login(n, x) \/ Logout(n, x) \/ ClientActs(n, x)
      PROVE  N2NInv'
  <2>1. CASE Logout(n, x)
    BY <2>1, DeleteKeeps DEF Logout
  <2> QED
    BY <1>3, <2>1, LoginKeeps, AllowKeeps, DenyKeeps, ConnidKeeps, ToldKeeps DEF ClientActs
<1>4. ASSUME NEW n \in Nodes, NEW x \in Ids, NEW y \in Ids, procmsg_CONNREQOUTG(n, x, y)
      PROVE  N2NInv'
  BY <1>4, CallKeeps
<1>5. ASSUME NEW n \in Nodes, NEW i \in DOMAIN cclinks[n],
             \/ cclink_sendcleconnected(n, i) \/ process_timeouts_c2c(n, i)
             \/ HangUp(n, i) \/ process_c2c_read(n, i)
      PROVE  N2NInv'
  BY <1>5, ConnectedKeeps, EndKeeps, DataReadKeeps
<1>6. CASE UNCHANGED vars
  BY <1>6 DEF vars, N2NInv, NodesOK, QueuesOK
<1> QED
  BY <1>1, <1>2, <1>3, <1>4, <1>5, <1>6 DEF Next

LEMMA N2NInvariant == Spec => []N2NInv
BY InitOK, NextKeeps, PTL DEF Spec

\* Every call of every node points to a client that is there and, once its callee is
\* found, to a link that is there: whatever clients, links and nodes do, nothing is
\* pushed through a stale or a null nodelink (cclink_list_delete_by_client,
\* cclink_list_delete_by_nodelink).
THEOREM CallsPointRight == Spec => []PointersValid
<1>1. N2NInv => PointersValid
  BY DEF N2NInv, NodesOK, ListOK, Valid, PointersValid
<1> QED
  BY <1>1, N2NInvariant, PTL

\* A caller is told FOUND only after the callee's data connection has been there: an
\* N2NALLOW is sent when the callee joins, and never by procmsg_CONNALLOW.
THEOREM ToldAfterJoin == Spec => []FoundAfterJoin
<1>1. ASSUME N2NInv PROVE FoundAfterJoin
  <2>1. ASSUME NEW x \in Ids, NEW k \in DOMAIN inbox[x], inbox[x][k].m = "FOUND"
        PROVE  <<x, inbox[x][k].peer>> \in joined
    <3>1. inbox[x] \in Seq(Notices(x, joined))
      BY <1>1 DEF N2NInv, QueuesOK, InboxOK
    <3>2. inbox[x][k] \in Notices(x, joined)
      BY <3>1
    <3> QED
      BY <2>1, <3>2 DEF Notices
  <2> QED
    BY <2>1 DEF FoundAfterJoin
<1> QED
  BY <1>1, N2NInvariant, PTL
=============================================================================
