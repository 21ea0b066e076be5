-------------------------- MODULE NodeMesh_proofs --------------------------
(***************************************************************************)
(* Proofs about NodeMesh, for any number of nodes, names, connections,     *)
(* refreshes and faults.                                                   *)
(***************************************************************************)
EXTENDS NodeMesh, FiniteSetTheorems, SequenceTheorems, WellFoundedInduction, TLAPS

-----------------------------------------------------------------------------
(* The inductive invariant.                                                *)

\* The messages for the side that has made a connection and for the one that accepts.
ForOut == [m : {"INITRESPOK", "VERDIFFER", "NODELIST", "PINGREQ", "PINGREP"},
           nodes : SUBSET Nodes]
ForIn == [m : {"NODECONNREQ", "NEWNODE", "NODELISTREQ", "PINGREQ", "PINGREP"},
          nodes : SUBSET Nodes]

For(s) == IF s = "out" THEN ForOut ELSE ForIn

Ends == {"GONE", "THREAD", "NEWCONN", "SENDINGOK", "LINK"}

Conns == [by : Nodes \cup {"nobody"}, to : Nodes \cup {"nobody"}, via : Addrs \cup {"nobody"},
          end : [Sides -> Ends], q : [Sides -> Seq(ForOut \cup ForIn)],
          addr : BOOLEAN, node_addr : [Sides -> BOOLEAN],
          ticking : [Sides -> BOOLEAN], silent : BOOLEAN]

\* The list of nodes is asked for only after the asking node has announced itself.
Announced(q) == \A k \in DOMAIN q : q[k].m = "NODELISTREQ"
                                      => \E j \in DOMAIN q : j < k /\ q[j].m = "NEWNODE"

EndsOK(k) ==
    /\ k.end["out"] \in {"GONE", "THREAD", "LINK"}
    /\ k.end["in"] \in {"GONE", "NEWCONN", "SENDINGOK", "LINK"}
    /\ k.end["out"] # "GONE" \/ k.end["in"] # "GONE" => k.by \in Nodes /\ k.to \in Nodes
    /\ k.node_addr["in"] => k.end["in"] = "LINK"
    /\ k.end["out"] = "THREAD" => k.end["in"] \in {"GONE", "NEWCONN"}

\* What may be under way: nothing before the request to become a link, and nothing but
\* that request before it is read.
QueuesOK(k) ==
    /\ k.q["out"] \in Seq(ForOut)
    /\ k.q["in"] \in Seq(ForIn)
    /\ k.end["out"] = "THREAD" => k.q["in"] = <<>>
    /\ k.end["in"] = "NEWCONN" => /\ k.q["out"] = <<>>
                                  /\ k.q["in"] \in {<<>>, <<Msg("NODECONNREQ")>>}
                                  /\ k.end["out"] = "LINK" => k.q["in"] # <<>>
    /\ ~k.node_addr["in"] => Announced(k.q["in"])

ConnOK(k) == k \in Conns /\ EndsOK(k) /\ QueuesOK(k)

\* The accepting node has taken the announcement; the other one knows the address it has
\* connected to.
InKnown(k) == k.end["in"] = "LINK" /\ k.node_addr["in"]
OutKnown(k) == k.end["out"] = "LINK" /\ k.addr

\* One accepted link for two nodes, and none in the other direction if both are known.
PairsOK ==
    \A c, d \in Slots :
        InKnown(conns[c]) /\ InKnown(conns[d]) =>
          /\ conns[c].by = conns[d].by /\ conns[c].to = conns[d].to => c = d
          /\ ~(/\ conns[c].by = conns[d].to /\ conns[c].to = conns[d].by
               /\ OutKnown(conns[c]) /\ OutKnown(conns[d]))

\* Only an attempt that began before the link, and is not over, can count against a
\* linked node p.
RowOK(rows, p, wait) == p \in DOMAIN rows /\ rows[p] <= IF wait = "none" THEN 1 ELSE 0
RowsOK ==
    \A c \in Slots :
        InKnown(conns[c]) => RowOK(db[conns[c].to], conns[c].by, nodewait[conns[c].to][conns[c].by])

\* The connection of a thread that has connected is there.
IsThreadOf(k, n, a) == k.end["out"] = "THREAD" /\ k.by = n /\ k.via = a
ThreadsOK ==
    \A n \in Nodes, a \in Addrs :
        nodewait[n][a] = "CONNECTED" => \E c \in Slots : IsThreadOf(conns[c], n, a)

TablesOK ==
    /\ DOMAIN db = Nodes
    /\ db = [n \in Nodes |-> db[n]]
    /\ \A n \in Nodes : DOMAIN db[n] \subseteq Addrs /\ \A a \in DOMAIN db[n] : db[n][a] \in Nat
    /\ nodewait \in [Nodes -> [Addrs -> WaitStates]]

ConnsOK ==
    /\ DOMAIN conns = Slots
    /\ conns = [c \in Slots |-> conns[c]]
    /\ \A c \in Slots : ConnOK(conns[c])

MeshInv == TablesOK /\ ConnsOK /\ PairsOK /\ RowsOK /\ ThreadsOK

-----------------------------------------------------------------------------
(* Queues.                                                                 *)

LEMMA AnnouncedTail == ASSUME NEW S, NEW q \in Seq(S), q # <<>>, Announced(q),
                              Head(q).m # "NEWNODE"
                       PROVE  Announced(Tail(q))
<1>1. /\ Tail(q) \in Seq(S) /\ Len(Tail(q)) = Len(q) - 1 /\ Len(q) \in Nat
      /\ \A i \in 1..Len(q) - 1 : Tail(q)[i] = q[i + 1]
  BY HeadTailProperties
<1>2. DOMAIN Tail(q) = 1..Len(q) - 1 /\ DOMAIN q = 1..Len(q)
  BY <1>1
<1>3. ASSUME NEW k \in 1..Len(q) - 1, Tail(q)[k].m = "NODELISTREQ"
      PROVE  \E j \in 1..Len(q) - 1 : j < k /\ Tail(q)[j].m = "NEWNODE"
  <2>1. k + 1 \in 1..Len(q) /\ q[k + 1].m = "NODELISTREQ"
    BY <1>1, <1>3
  <2>2. PICK j \in 1..Len(q) : j < k + 1 /\ q[j].m = "NEWNODE"
    BY <1>2, <2>1 DEF Announced
  <2>3. j # 1
    BY <2>2, Head(q) = q[1]
  <2>4. j - 1 \in 1..Len(q) - 1 /\ j - 1 < k /\ Tail(q)[j - 1] = q[(j - 1) + 1] /\ (j - 1) + 1 = j
    BY <1>1, <2>2, <2>3
  <2> QED
    BY <2>2, <2>4
<1> QED
  BY <1>2, <1>3 DEF Announced

LEMMA AnnouncedConcat == ASSUME NEW S, NEW q \in Seq(S), NEW r \in Seq(S), Announced(q),
                                Announced(r)
                         PROVE  Announced(q \o r)
<1>1. /\ q \o r \in Seq(S) /\ Len(q \o r) = Len(q) + Len(r) /\ Len(q) \in Nat /\ Len(r) \in Nat
      /\ \A i \in 1..Len(q) + Len(r) :
            (q \o r)[i] = IF i <= Len(q) THEN q[i] ELSE r[i - Len(q)]
  BY ConcatProperties
<1>2. /\ DOMAIN (q \o r) = 1..Len(q) + Len(r)
      /\ DOMAIN q = 1..Len(q) /\ DOMAIN r = 1..Len(r)
  BY <1>1
<1>3. ASSUME NEW k \in 1..Len(q) + Len(r), (q \o r)[k].m = "NODELISTREQ"
      PROVE  \E j \in 1..Len(q) + Len(r) : j < k /\ (q \o r)[j].m = "NEWNODE"
  <2>1. CASE k <= Len(q)
    <3>1. k \in 1..Len(q) /\ q[k].m = "NODELISTREQ"
      BY <1>1, <1>3, <2>1
    <3>2. PICK j \in 1..Len(q) : j < k /\ q[j].m = "NEWNODE"
      BY <1>2, <3>1 DEF Announced
    <3>3. j \in 1..Len(q) + Len(r) /\ (q \o r)[j] = q[j]
      BY <1>1
    <3> QED
      BY <3>2, <3>3
  <2>2. CASE ~(k <= Len(q))
    <3>1. k - Len(q) \in 1..Len(r) /\ r[k - Len(q)].m = "NODELISTREQ"
      BY <1>1, <1>3, <2>2
    <3>2. PICK j \in 1..Len(r) : j < k - Len(q) /\ r[j].m = "NEWNODE"
      BY <1>2, <3>1 DEF Announced
    <3>3. /\ j + Len(q) \in 1..Len(q) + Len(r) /\ j + Len(q) < k
          /\ (q \o r)[j + Len(q)] = r[(j + Len(q)) - Len(q)] /\ (j + Len(q)) - Len(q) = j
      BY <1>1, <3>2
    <3> QED
      BY <3>2, <3>3
  <2> QED
    BY <2>1, <2>2
<1> QED
  BY <1>2, <1>3 DEF Announced

LEMMA Prefix == ASSUME NEW S, NEW q \in Seq(S), NEW k \in 0..Len(q)
                PROVE  /\ SubSeq(q, 1, k) \in Seq(S)
                       /\ Announced(q) => Announced(SubSeq(q, 1, k))
                       /\ q = <<>> => SubSeq(q, 1, k) = <<>>
                       /\ \A e : q = <<e>> => SubSeq(q, 1, k) \in {<<>>, <<e>>}
<1>1. k \in Nat /\ Len(q) \in Nat /\ k <= Len(q)
  OBVIOUS
<1>2. /\ SubSeq(q, 1, k) \in Seq(S) /\ Len(SubSeq(q, 1, k)) = k
      /\ \A i \in 1..k : SubSeq(q, 1, k)[i] = q[i]
  BY <1>1, SubSeqProperties
<1>3. DOMAIN SubSeq(q, 1, k) = 1..k /\ DOMAIN q = 1..Len(q)
  BY <1>2
<1>4. Announced(q) => Announced(SubSeq(q, 1, k))
  <2> SUFFICES ASSUME Announced(q), NEW i \in 1..k, SubSeq(q, 1, k)[i].m = "NODELISTREQ"
               PROVE  \E j \in 1..k : j < i /\ SubSeq(q, 1, k)[j].m = "NEWNODE"
    BY <1>3 DEF Announced
  <2>1. i \in 1..Len(q) /\ q[i].m = "NODELISTREQ"
    BY <1>1, <1>2
  <2>2. PICK j \in 1..Len(q) : j < i /\ q[j].m = "NEWNODE"
    BY <1>3, <2>1 DEF Announced
  <2>3. j \in 1..k /\ SubSeq(q, 1, k)[j] = q[j]
    BY <1>1, <1>2, <2>2
  <2> QED
    BY <2>2, <2>3
<1>5. q = <<>> => SubSeq(q, 1, k) = <<>>
  BY <1>1, <1>2
<1>6. ASSUME NEW e, q = <<e>> PROVE SubSeq(q, 1, k) \in {<<>>, <<e>>}
  <2>1. k = 0 \/ k = 1
    BY <1>1, <1>6
  <2>2. CASE k = 0
    BY <1>2, <2>2
  <2>3. CASE k = 1
    <3>1. e \in S
      BY <1>6
    <3>2. <<e>> \in Seq(S) /\ Len(<<e>>) = 1 /\ <<e>>[1] = e
      BY <3>1
    <3>3. \A i \in 1..1 : SubSeq(q, 1, k)[i] = <<e>>[i]
      BY <1>2, <1>6, <2>3
    <3> QED
      BY <1>2, <2>3, <3>2, <3>3, SeqEqual
  <2> QED
    BY <2>1, <2>2, <2>3
<1> QED
  BY <1>2, <1>4, <1>5, <1>6


-----------------------------------------------------------------------------
(* Connections.                                                            *)

\* Nothing more is known of a connection.
Forgets(k, new) ==
    /\ InKnown(new) => InKnown(k) /\ new.by = k.by /\ new.to = k.to
    /\ OutKnown(new) => OutKnown(k)

\* And the socket of a thread stays.
Shrinks(k, new) ==
    /\ Forgets(k, new)
    /\ k.end["out"] = "THREAD" => /\ new.end["out"] = "THREAD"
                                  /\ new.by = k.by /\ new.via = k.via

LEMMA FreeOK == ConnOK(Free) /\ ~InKnown(Free) /\ Free.end["out"] # "THREAD"
<1>1. <<>> \in Seq(ForOut \cup ForIn) /\ <<>> \in Seq(ForOut) /\ <<>> \in Seq(ForIn)
  OBVIOUS
<1>2. Free \in Conns
  BY <1>1 DEF Free, Conns, Ends, Addrs
<1>3. /\ Free.end["out"] = "GONE" /\ Free.end["in"] = "GONE"
      /\ Free.q["in"] = <<>> /\ Free.q["out"] = <<>>
      /\ ~Free.node_addr["in"]
  BY DEF Free, Sides
<1>4. DOMAIN <<>> = {}
  OBVIOUS
<1>5. Announced(<<>>)
  BY <1>4 DEF Announced
<1> QED
  BY <1>1, <1>2, <1>3, <1>5 DEF ConnOK, EndsOK, QueuesOK, InKnown

\* What is in a queue of either side.
LEMMA QueueTyped == ASSUME NEW k, ConnOK(k), NEW s \in Sides
                    PROVE  /\ k.q \in [Sides -> Seq(ForOut \cup ForIn)]
                           /\ k.q[s] \in Seq(For(s))
BY DEF ConnOK, QueuesOK, Sides, Conns, For

\* Another queue for side s.
LEMMA NewQueue == ASSUME NEW k, ConnOK(k), NEW s \in Sides,
                         NEW q \in Seq(For(s))
                  PROVE  LET new == [k EXCEPT !.q[s] = q]
                         IN  /\ new \in Conns
                             /\ new.q[s] = q /\ new.q[Other(s)] = k.q[Other(s)]
                             /\ new.end = k.end /\ new.node_addr = k.node_addr
                             /\ new.addr = k.addr /\ new.by = k.by /\ new.to = k.to
                             /\ new.via = k.via
<1> DEFINE qs == [k.q EXCEPT ![s] = q]
           new == [k EXCEPT !.q = qs]
<1>1. q \in Seq(ForOut \cup ForIn)
  BY DEF For
<1>2. k \in Conns /\ k.q \in [Sides -> Seq(ForOut \cup ForIn)]
  BY QueueTyped DEF ConnOK
<1>3. /\ qs \in [Sides -> Seq(ForOut \cup ForIn)]
      /\ qs[s] = q /\ qs[Other(s)] = k.q[Other(s)]
  BY <1>1, <1>2 DEF Sides, Other
<1> HIDE DEF qs
<1>4. /\ new \in Conns /\ new.q = qs
      /\ new.end = k.end /\ new.node_addr = k.node_addr
      /\ new.addr = k.addr /\ new.by = k.by /\ new.to = k.to /\ new.via = k.via
  BY <1>2, <1>3 DEF Conns
<1> QED
  BY <1>3, <1>4 DEF qs

\* Messages that may be pushed after the connection has become a link.
LEMMA PushOK == ASSUME NEW k, ConnOK(k), NEW s \in Sides,
                       NEW ms \in Seq(For(Other(s))),
                       s = "out" => Announced(ms),
                       k.end[s] = "LINK", k.end["in"] # "NEWCONN"
                PROVE  /\ ConnOK(nodelink_wbuf_push(k, s, ms))
                       /\ Shrinks(k, nodelink_wbuf_push(k, s, ms))
                       /\ nodelink_wbuf_push(k, s, ms).end = k.end
                       /\ nodelink_wbuf_push(k, s, ms).node_addr = k.node_addr
<1> DEFINE t == Other(s)
           q == k.q[t] \o ms
           new == [k EXCEPT !.q[t] = q]
<1>1. CASE k.end[t] = "GONE"
  BY <1>1 DEF nodelink_wbuf_push, Shrinks, Forgets
<1>2. CASE k.end[t] # "GONE"
  <2>1. t \in Sides /\ Other(t) = s /\ (t = "out" <=> s = "in")
    BY DEF Other, Sides
  <2>2. k.q[t] \in Seq(For(t))
    BY <2>1, QueueTyped
  <2>3. q \in Seq(For(t))
    BY <2>2
  <2>4. ASSUME t = "in", Announced(k.q[t]) PROVE Announced(q)
    <3>1. Announced(ms) /\ ms \in Seq(For(t))
      BY <2>1, <2>4 DEF Sides
    <3> HIDE DEF t
    <3> QED
      BY <2>2, <2>4, <3>1, AnnouncedConcat
  <2> HIDE DEF q, t
  <2>5. /\ new \in Conns
        /\ new.q[t] = q /\ new.q[s] = k.q[s]
        /\ new.end = k.end /\ new.node_addr = k.node_addr
        /\ new.addr = k.addr /\ new.by = k.by /\ new.to = k.to /\ new.via = k.via
    BY <2>1, <2>3, NewQueue
  <2>6. nodelink_wbuf_push(k, s, ms) = new
    BY <1>2 DEF nodelink_wbuf_push, q, t
  <2> HIDE DEF new
  <2>7. EndsOK(new)
    BY <2>5 DEF ConnOK, EndsOK
  <2>8. QueuesOK(new)
    <3>1. CASE s = "out"
      <4>1. t = "in" /\ q \in Seq(ForIn) /\ k.end["out"] # "THREAD"
        BY <2>1, <2>3, <3>1 DEF For, Sides
      <4> QED
        BY <2>4, <2>5, <3>1, <4>1 DEF ConnOK, QueuesOK
    <3>2. CASE s = "in"
      <4>1. t = "out" /\ q \in Seq(ForOut)
        BY <2>1, <2>3, <3>2 DEF For
      <4> QED
        BY <2>5, <3>2, <4>1 DEF ConnOK, QueuesOK
    <3> QED
      BY <3>1, <3>2 DEF Sides
  <2>9. Shrinks(k, new)
    BY <2>5 DEF Shrinks, Forgets, InKnown, OutKnown
  <2> QED
    BY <2>5, <2>6, <2>7, <2>8, <2>9 DEF ConnOK
<1> QED
  BY <1>1, <1>2

\* A message of a link is read, and is not the announcement.
LEMMA PopOK == ASSUME NEW k, ConnOK(k), NEW s \in Sides, k.end[s] = "LINK", k.q[s] # <<>>,
                      Head(k.q[s]).m # "NEWNODE"
               PROVE  /\ ConnOK(Pop(k, s)) /\ Shrinks(k, Pop(k, s))
                      /\ Pop(k, s).end = k.end /\ Pop(k, s).node_addr = k.node_addr
                      /\ Pop(k, s).by = k.by /\ Pop(k, s).to = k.to /\ Pop(k, s).via = k.via
                      /\ Pop(k, s).addr = k.addr
                      /\ Head(k.q[s]) \in For(s)
<1> DEFINE q == Tail(k.q[s])
           new == [k EXCEPT !.q[s] = q]
<1>1. k.q[s] \in Seq(For(s))
  BY QueueTyped
<1>2. /\ q \in Seq(For(s))
      /\ Head(k.q[s]) \in For(s)
  BY <1>1
<1>3. Announced(k.q[s]) => Announced(q)
  BY <1>1, AnnouncedTail
<1> HIDE DEF q
<1>4. /\ new \in Conns
      /\ new.q[s] = q /\ new.q[Other(s)] = k.q[Other(s)]
      /\ new.end = k.end /\ new.node_addr = k.node_addr
      /\ new.addr = k.addr /\ new.by = k.by /\ new.to = k.to /\ new.via = k.via
  BY <1>2, NewQueue
<1>5. Pop(k, s) = new
  BY DEF Pop, q
<1> HIDE DEF new
<1>6. EndsOK(new)
  BY <1>4 DEF ConnOK, EndsOK
<1>7. QueuesOK(new)
  <2>1. k.end["in"] # "NEWCONN" \/ s = "out"
    BY DEF Sides
  <2>2. CASE s = "out"
    BY <1>2, <1>4, <2>2 DEF ConnOK, QueuesOK, Other, For
  <2>3. CASE s = "in"
    BY <1>2, <1>3, <1>4, <2>3 DEF ConnOK, QueuesOK, EndsOK, Other, For
  <2> QED
    BY <2>2, <2>3 DEF Sides
<1>8. Shrinks(k, new)
  BY <1>4 DEF Shrinks, Forgets, InKnown, OutKnown
<1> QED
  BY <1>2, <1>4, <1>5, <1>6, <1>7, <1>8 DEF ConnOK

\* One side is closed that is no thread's.
LEMMA ClosedOK == ASSUME NEW k, ConnOK(k), NEW s \in Sides, k.end[s] # "THREAD",
                         NEW new \in Closed(k, s)
                  PROVE  ConnOK(new) /\ Shrinks(k, new)
<1>1. CASE k.end[Other(s)] = "GONE"
  <2>1. new = Free
    BY <1>1 DEF Closed
  <2>2. k.end["out"] # "THREAD"
    BY <1>1 DEF Other, Sides
  <2> QED
    BY <2>1, <2>2, FreeOK DEF Shrinks, Forgets, OutKnown, InKnown, Free, Sides
<1>2. CASE k.end[Other(s)] # "GONE"
  <2> DEFINE t == Other(s)
  <2>1. t \in Sides /\ s # t /\ (t = "out" <=> s = "in")
    BY DEF Other, Sides
  <2>2. PICK i \in 0..Len(k.q[t]) :
          new = [k EXCEPT !.end[s] = "GONE", !.q[s] = <<>>, !.ticking[s] = FALSE,
                          !.node_addr[s] = FALSE, !.addr = @ /\ s # "out",
                          !.q[t] = SubSeq(@, 1, i)]
    BY <1>2 DEF Closed
  <2>3. k.q[t] \in Seq(For(t))
    BY <2>1, QueueTyped
  <2> DEFINE rest == SubSeq(k.q[t], 1, i)
  <2>4. /\ rest \in Seq(For(t))
        /\ Announced(k.q[t]) => Announced(rest)
        /\ k.q[t] = <<>> => rest = <<>>
        /\ k.q[t] \in {<<>>, <<Msg("NODECONNREQ")>>} => rest \in {<<>>, <<Msg("NODECONNREQ")>>}
    BY <2>3, Prefix
  <2> HIDE DEF rest
  <2> DEFINE qs == [k.q EXCEPT ![s] = <<>>, ![t] = rest]
  <2>5. /\ k \in Conns /\ k.end \in [Sides -> Ends] /\ k.node_addr \in [Sides -> BOOLEAN]
        /\ k.ticking \in [Sides -> BOOLEAN] /\ k.addr \in BOOLEAN
        /\ k.q \in [Sides -> Seq(ForOut \cup ForIn)]
    BY DEF ConnOK, Conns
  <2>6. /\ qs \in [Sides -> Seq(ForOut \cup ForIn)]
        /\ qs[s] = <<>> /\ qs[t] = rest
    <3>1. rest \in Seq(ForOut \cup ForIn) /\ <<>> \in Seq(ForOut \cup ForIn)
      BY <2>4 DEF For
    <3> QED
      BY <2>1, <2>5, <3>1
  <2>7. new = [k EXCEPT !.end = [k.end EXCEPT ![s] = "GONE"], !.q = qs,
                        !.ticking = [k.ticking EXCEPT ![s] = FALSE],
                        !.node_addr = [k.node_addr EXCEPT ![s] = FALSE],
                        !.addr = k.addr /\ s # "out"]
    BY <2>1, <2>2, <2>5 DEF rest, Conns
  <2> HIDE DEF qs
  <2>8. /\ new.end = [k.end EXCEPT ![s] = "GONE"] /\ new.q = qs
        /\ new.ticking = [k.ticking EXCEPT ![s] = FALSE]
        /\ new.node_addr = [k.node_addr EXCEPT ![s] = FALSE]
        /\ new.addr = (k.addr /\ s # "out")
        /\ new.by = k.by /\ new.to = k.to /\ new.via = k.via /\ new.silent = k.silent
    BY <2>5, <2>7 DEF Conns
  <2>9. new \in Conns
    <3>1. /\ [k.end EXCEPT ![s] = "GONE"] \in [Sides -> Ends]
          /\ [k.ticking EXCEPT ![s] = FALSE] \in [Sides -> BOOLEAN]
          /\ [k.node_addr EXCEPT ![s] = FALSE] \in [Sides -> BOOLEAN]
          /\ (k.addr /\ s # "out") \in BOOLEAN
      BY <2>5 DEF Ends
    <3> QED
      BY <2>5, <2>6, <2>7, <3>1 DEF Conns
  <2>10. /\ new.end[s] = "GONE" /\ new.end[t] = k.end[t]
         /\ new.q[s] = <<>> /\ new.q[t] = rest
         /\ ~new.node_addr[s] /\ new.node_addr[t] = k.node_addr[t]
    BY <2>1, <2>5, <2>6, <2>8
  <2>11. EndsOK(new)
    BY <2>1, <2>8, <2>10 DEF ConnOK, EndsOK, Sides
  <2>12. QueuesOK(new)
    <3>1. <<>> \in Seq(ForOut) /\ <<>> \in Seq(ForIn) /\ Announced(<<>>)
      BY FreeOK DEF ConnOK, QueuesOK, Free, Sides
    <3>2. CASE s = "out"
      <4>1. t = "in" /\ rest \in Seq(ForIn)
        BY <2>1, <2>4, <3>2 DEF For, Sides
      <4> QED
        BY <2>4, <2>10, <3>1, <3>2, <4>1 DEF ConnOK, QueuesOK
    <3>3. CASE s = "in"
      <4>1. t = "out" /\ rest \in Seq(ForOut)
        BY <2>1, <2>4, <3>3 DEF For
      <4> QED
        BY <2>4, <2>10, <3>1, <3>3, <4>1 DEF ConnOK, QueuesOK
    <3> QED
      BY <3>2, <3>3 DEF Sides
  <2>13. Shrinks(k, new)
    BY <2>1, <2>8, <2>10 DEF Shrinks, Forgets, InKnown, OutKnown, Sides
  <2> QED
    BY <2>9, <2>11, <2>12, <2>13 DEF ConnOK
<1> QED
  BY <1>1, <1>2


-----------------------------------------------------------------------------
(* Steps of the event loop on one connection.                              *)

LEMMA AllForget == ASSUME PairsOK, \A c \in Slots : Forgets(conns[c], conns'[c])
                   PROVE  PairsOK'
<1>1. ASSUME NEW c \in Slots, InKnown(conns'[c])
      PROVE  InKnown(conns[c]) /\ conns'[c].by = conns[c].by /\ conns'[c].to = conns[c].to
  BY <1>1 DEF Forgets
<1>2. \A c \in Slots : OutKnown(conns'[c]) => OutKnown(conns[c])
  BY DEF Forgets
<1> QED
  BY <1>1, <1>2 DEF PairsOK

LEMMA AllShrink == ASSUME MeshInv, DOMAIN conns' = Slots, conns' = [c \in Slots |-> conns'[c]],
                          \A c \in Slots : ConnOK(conns'[c]) /\ Shrinks(conns[c], conns'[c])
                   PROVE  ConnsOK' /\ PairsOK' /\ (UNCHANGED <<db, nodewait>> => MeshInv')
<1>1. ConnsOK'
  BY DEF ConnsOK
<1>2. PairsOK'
  BY AllForget DEF MeshInv, Shrinks
<1>3. ASSUME UNCHANGED <<db, nodewait>> PROVE TablesOK' /\ RowsOK' /\ ThreadsOK'
  <2>1. TablesOK'
    BY <1>3 DEF MeshInv, TablesOK
  <2>2. RowsOK'
    BY <1>3 DEF MeshInv, RowsOK, Shrinks, Forgets
  <2>3. ThreadsOK'
    <3>1. \A c \in Slots, n \in Nodes, a \in Addrs :
            IsThreadOf(conns[c], n, a) => IsThreadOf(conns'[c], n, a)
      BY DEF Shrinks, IsThreadOf
    <3> QED
      BY <1>3, <3>1 DEF MeshInv, ThreadsOK
  <2> QED
    BY <2>1, <2>2, <2>3
<1> QED
  BY <1>1, <1>2, <1>3 DEF MeshInv

LEMMA OneShrinks == ASSUME MeshInv, NEW c \in Slots, NEW new, ConnOK(new),
                           Shrinks(conns[c], new), conns' = [conns EXCEPT ![c] = new]
                    PROVE  ConnsOK' /\ PairsOK' /\ (UNCHANGED <<db, nodewait>> => MeshInv')
<1>1. DOMAIN conns' = Slots /\ conns' = [d \in Slots |-> conns'[d]]
  BY DEF MeshInv, ConnsOK
<1>2. ASSUME NEW d \in Slots PROVE ConnOK(conns'[d]) /\ Shrinks(conns[d], conns'[d])
  <2>1. conns'[d] = IF d = c THEN new ELSE conns[d]
    BY DEF MeshInv, ConnsOK
  <2>2. Shrinks(conns[d], conns[d])
    BY DEF Shrinks, Forgets
  <2> QED
    BY <2>1, <2>2 DEF MeshInv, ConnsOK
<1> QED
  BY <1>1, <1>2, AllShrink

\* A link or a newconn is closed.
LEMMA DeleteKeeps == ASSUME MeshInv, NEW c \in Slots, NEW s \in Sides,
                            conns[c].end[s] # "THREAD", nodelink_list_delete(c, s),
                            UNCHANGED <<db, nodewait>>
                     PROVE  MeshInv'
<1>1. PICK new \in Closed(conns[c], s) : conns' = [conns EXCEPT ![c] = new]
  BY DEF nodelink_list_delete
<1>2. ConnOK(conns[c])
  BY DEF MeshInv, ConnsOK
<1>3. ConnOK(new) /\ Shrinks(conns[c], new)
  BY <1>2, ClosedOK
<1> QED
  BY <1>1, <1>3, OneShrinks

\* A message that may be sent on a link, alone.
LEMMA OneMsg == ASSUME NEW S, NEW msg \in S, msg.m # "NODELISTREQ"
                PROVE  <<msg>> \in Seq(S) /\ Announced(<<msg>>)
<1>1. <<msg>> \in Seq(S) /\ DOMAIN <<msg>> = 1..1 /\ <<msg>>[1] = msg
  OBVIOUS
<1> QED
  BY <1>1 DEF Announced

\* Reading a message and answering it with ms.
LEMMA AnswerOK == ASSUME NEW k, ConnOK(k), NEW s \in Sides, k.end[s] = "LINK", k.q[s] # <<>>,
                         Head(k.q[s]).m # "NEWNODE",
                         NEW ms \in Seq(For(Other(s))), s = "out" => Announced(ms)
                  PROVE  /\ ConnOK(nodelink_wbuf_push(Pop(k, s), s, ms))
                         /\ Shrinks(k, nodelink_wbuf_push(Pop(k, s), s, ms))
<1> DEFINE p == Pop(k, s)
<1>1. /\ ConnOK(p) /\ Shrinks(k, p) /\ p.end = k.end
  BY PopOK
<1>2. k.end["in"] # "NEWCONN"
  <2>1. CASE s = "out"
    BY <2>1 DEF ConnOK, QueuesOK
  <2>2. CASE s = "in"
    BY <2>2
  <2> QED
    BY <2>1, <2>2 DEF Sides
<1> HIDE DEF p
<1>3. /\ ConnOK(nodelink_wbuf_push(p, s, ms)) /\ Shrinks(p, nodelink_wbuf_push(p, s, ms))
  BY <1>1, <1>2, PushOK
<1>4. ASSUME NEW a, NEW b, NEW d, Shrinks(a, b), Shrinks(b, d) PROVE Shrinks(a, d)
  BY <1>4 DEF Shrinks, Forgets
<1>5. Shrinks(k, nodelink_wbuf_push(p, s, ms))
  BY <1>1, <1>3, <1>4
<1> QED
  BY <1>3, <1>5 DEF p

\* A message read by a link is one of those for its side.
LEMMA ReadTyped == ASSUME MeshInv, NEW c \in Slots, NEW s \in Sides, NEW m, Reads(c, s, m)
                   PROVE  /\ ConnOK(conns[c]) /\ conns[c].end[s] = "LINK" /\ conns[c].q[s] # <<>>
                          /\ Head(conns[c].q[s]) \in For(s) /\ Head(conns[c].q[s]).m = m
<1>1. ConnOK(conns[c]) /\ conns[c].q[s] \in Seq(For(s))
  BY QueueTyped DEF MeshInv, ConnsOK
<1> QED
  BY <1>1 DEF Reads, IsLink

LEMMA NodeRespKeeps == ASSUME MeshInv, NEW c \in Slots, NEW s \in Sides, procmsg_NODERESP(c, s)
                       PROVE  MeshInv'
<1>1. UNCHANGED <<db, nodewait>>
  BY DEF procmsg_NODERESP
<1>2. CASE Reads(c, s, "VERDIFFER") /\ nodelink_list_delete(c, s)
  BY <1>1, <1>2, DeleteKeeps DEF Reads, IsLink
<1>3. CASE /\ Reads(c, s, "INITRESPOK")
           /\ conns' = [conns EXCEPT ![c] =
                nodelink_wbuf_push(Pop(@, s), s, <<Msg("NEWNODE"), Msg("NODELISTREQ")>>)]
  <2> DEFINE ms == <<Msg("NEWNODE"), Msg("NODELISTREQ")>>
             k == conns[c]
  <2>1. /\ ConnOK(k) /\ k.end[s] = "LINK" /\ k.q[s] # <<>>
        /\ Head(k.q[s]) \in For(s) /\ Head(k.q[s]).m = "INITRESPOK"
    BY <1>3, ReadTyped
  <2>2. s = "out"
    BY <2>1 DEF For, ForIn, Sides
  <2>3. ms \in Seq(ForIn)
    <3>1. Msg("NEWNODE") \in ForIn /\ Msg("NODELISTREQ") \in ForIn
      BY DEF Msg, ForIn
    <3> QED
      BY <3>1
  <2>4. Announced(ms)
    <3>1. /\ DOMAIN ms = 1..2 /\ ms[1] = Msg("NEWNODE")
          /\ Msg("NEWNODE").m = "NEWNODE"
      BY DEF Msg
    <3>2. \A i \in 1..2 : i = 1 \/ 1 < i
      OBVIOUS
    <3> HIDE DEF ms
    <3> QED
      BY <3>1, <3>2 DEF Announced
  <2>5. ms \in Seq(For(Other(s)))
    BY <2>2, <2>3 DEF For, Other
  <2> DEFINE new == nodelink_wbuf_push(Pop(k, s), s, ms)
  <2> HIDE DEF ms, k
  <2>6. ConnOK(new) /\ Shrinks(k, new)
    BY <2>1, <2>4, <2>5, AnswerOK
  <2>7. conns' = [conns EXCEPT ![c] = new]
    BY <1>3 DEF ms, k
  <2> QED
    BY <1>1, <2>6, <2>7, OneShrinks DEF k
<1> QED
  BY <1>2, <1>3 DEF procmsg_NODERESP

LEMMA ListReqKeeps == ASSUME MeshInv, NEW c \in Slots, NEW s \in Sides,
                             procmsg_NODELISTREQ(c, s)
                      PROVE  MeshInv'
<1> DEFINE k == conns[c]
           others == {p \in Nodes \ {Peer(c, s)} : ByNodeAddr(At(c, s), p)}
           msg == [m |-> "NODELIST", nodes |-> others]
           new == nodelink_wbuf_push(Pop(k, s), s, <<msg>>)
<1>1. /\ conns' = [conns EXCEPT ![c] = new] /\ Reads(c, s, "NODELISTREQ")
      /\ UNCHANGED <<db, nodewait>>
  BY DEF procmsg_NODELISTREQ
<1>2. /\ ConnOK(k) /\ k.end[s] = "LINK" /\ k.q[s] # <<>>
      /\ Head(k.q[s]) \in For(s) /\ Head(k.q[s]).m = "NODELISTREQ"
  BY <1>1, ReadTyped
<1>3. s = "in"
  BY <1>2 DEF For, ForOut, Sides
<1>4. msg \in For(Other(s)) /\ msg.m # "NODELISTREQ"
  BY <1>3 DEF For, ForOut, Other
<1> HIDE DEF msg, k
<1>5. <<msg>> \in Seq(For(Other(s))) /\ Announced(<<msg>>)
  BY <1>4, OneMsg
<1>6. ConnOK(new) /\ Shrinks(k, new)
  BY <1>2, <1>5, AnswerOK
<1> HIDE DEF new
<1> QED
  BY <1>1, <1>6, OneShrinks DEF k

\* A ping is answered.
LEMMA PingReqKeeps == ASSUME MeshInv, NEW c \in Slots, NEW s \in Sides,
                             procmsg_PINGREQ_node(c, s)
                      PROVE  MeshInv'
<1> DEFINE k == conns[c]
           msg == Msg("PINGREP")
           new == nodelink_wbuf_push(Pop(k, s), s, <<msg>>)
<1>1. /\ conns' = [conns EXCEPT ![c] = new] /\ Reads(c, s, "PINGREQ")
      /\ UNCHANGED <<db, nodewait>>
  BY DEF procmsg_PINGREQ_node
<1>2. /\ ConnOK(k) /\ k.end[s] = "LINK" /\ k.q[s] # <<>> /\ Head(k.q[s]).m = "PINGREQ"
  BY <1>1, ReadTyped
<1>3. msg \in For(Other(s)) /\ msg.m # "NODELISTREQ"
  BY DEF For, ForOut, ForIn, Msg
<1> HIDE DEF msg, k
<1>4. <<msg>> \in Seq(For(Other(s))) /\ Announced(<<msg>>)
  BY <1>3, OneMsg
<1>5. ConnOK(new) /\ Shrinks(k, new)
  BY <1>2, <1>4, AnswerOK
<1> HIDE DEF new
<1> QED
  BY <1>1, <1>5, OneShrinks DEF k


\* The time of a ping is remembered or forgotten.
LEMMA TickingOK == ASSUME NEW k, ConnOK(k), NEW s \in Sides, NEW b \in BOOLEAN
                   PROVE  LET new == [k EXCEPT !.ticking[s] = b]
                          IN  ConnOK(new) /\ Shrinks(k, new) /\ new.end = k.end
<1> DEFINE t == [k.ticking EXCEPT ![s] = b]
           new == [k EXCEPT !.ticking = t]
<1>1. t \in [Sides -> BOOLEAN] /\ k \in Conns
  BY DEF ConnOK, Conns
<1> HIDE DEF t
<1>2. /\ new \in Conns /\ new.q = k.q
      /\ new.end = k.end /\ new.node_addr = k.node_addr
      /\ new.addr = k.addr /\ new.by = k.by /\ new.to = k.to /\ new.via = k.via
  BY <1>1 DEF Conns
<1>3. new = [k EXCEPT !.ticking[s] = b]
  BY DEF t
<1> HIDE DEF new
<1>4. ConnOK(new) /\ Shrinks(k, new)
  BY <1>2 DEF ConnOK, EndsOK, QueuesOK, Shrinks, Forgets, InKnown, OutKnown
<1> QED
  BY <1>2, <1>3, <1>4

LEMMA PingRepKeeps == ASSUME MeshInv, NEW c \in Slots, NEW s \in Sides,
                             procmsg_PINGREP_node(c, s)
                      PROVE  MeshInv'
<1> DEFINE k == conns[c]
           p == Pop(k, s)
           new == [p EXCEPT !.ticking[s] = FALSE]
<1>1. /\ conns' = [conns EXCEPT ![c] = new] /\ Reads(c, s, "PINGREP")
      /\ UNCHANGED <<db, nodewait>>
  BY DEF procmsg_PINGREP_node
<1>2. /\ ConnOK(k) /\ k.end[s] = "LINK" /\ k.q[s] # <<>> /\ Head(k.q[s]).m = "PINGREP"
  BY <1>1, ReadTyped
<1>3. ConnOK(p) /\ Shrinks(k, p)
  BY <1>2, PopOK
<1> HIDE DEF p
<1>4. ConnOK(new) /\ Shrinks(p, new)
  BY <1>3, TickingOK
<1> HIDE DEF new, k
<1>5. Shrinks(k, new)
  BY <1>3, <1>4 DEF Shrinks, Forgets
<1> QED
  BY <1>1, <1>4, <1>5, OneShrinks DEF k

LEMMA PingKeeps == ASSUME MeshInv, NEW c \in Slots, NEW s \in Sides, Ping(c, s)
                   PROVE  MeshInv'
<1> DEFINE k == conns[c]
           t == [k EXCEPT !.ticking[s] = TRUE]
           msg == Msg("PINGREQ")
           new == nodelink_wbuf_push(t, s, <<msg>>)
<1>1. /\ conns' = [conns EXCEPT ![c] = new] /\ k.end[s] = "LINK"
      /\ \A r \in Sides : k.q[r] = <<>>
      /\ UNCHANGED <<db, nodewait>>
  BY DEF Ping, IsLink
<1>2. ConnOK(k)
  BY DEF MeshInv, ConnsOK
<1>3. k.end["in"] # "NEWCONN"
  BY <1>1, <1>2 DEF ConnOK, QueuesOK, Sides
<1>4. msg \in For(Other(s)) /\ msg.m # "NODELISTREQ"
  BY DEF For, ForOut, ForIn, Msg
<1> HIDE DEF msg
<1>5. <<msg>> \in Seq(For(Other(s))) /\ Announced(<<msg>>)
  BY <1>4, OneMsg
<1>6. ConnOK(t) /\ Shrinks(k, t) /\ t.end = k.end
  BY <1>2, TickingOK
<1> HIDE DEF t
<1>7. ConnOK(new) /\ Shrinks(t, new)
  BY <1>1, <1>3, <1>5, <1>6, PushOK
<1> HIDE DEF new, k
<1>8. Shrinks(k, new)
  BY <1>6, <1>7 DEF Shrinks, Forgets
<1> QED
  BY <1>1, <1>7, <1>8, OneShrinks DEF k

\* What the closed end was does not matter.
LEMMA ClosedIgnores == ASSUME NEW k \in Conns, NEW e \in Ends
                       PROVE  Closed(k, "in") = Closed([k EXCEPT !.end["in"] = e], "in")
<1> DEFINE l == [k EXCEPT !.end = [k.end EXCEPT !["in"] = e]]
           Cut(x, i) == [x EXCEPT !.end["in"] = "GONE", !.q["in"] = <<>>, !.ticking["in"] = FALSE,
                                  !.node_addr["in"] = FALSE, !.addr = @ /\ "in" # "out",
                                  !.q["out"] = SubSeq(@, 1, i)]
<1>1. /\ k.end \in [Sides -> Ends] /\ [k.end EXCEPT !["in"] = e] \in [Sides -> Ends]
      /\ [[k.end EXCEPT !["in"] = e] EXCEPT !["in"] = "GONE"] = [k.end EXCEPT !["in"] = "GONE"]
      /\ [k.end EXCEPT !["in"] = e]["out"] = k.end["out"]
  BY DEF Conns, Sides
<1>2. /\ l \in Conns /\ l.end = [k.end EXCEPT !["in"] = e] /\ l.q = k.q
      /\ l.ticking = k.ticking /\ l.node_addr = k.node_addr /\ l.addr = k.addr
      /\ l.by = k.by /\ l.to = k.to /\ l.via = k.via /\ l.silent = k.silent
  BY <1>1 DEF Conns
<1> HIDE DEF l
<1>3. ASSUME NEW i PROVE Cut(l, i) = Cut(k, i)
  <2> DEFINE Q(x) == [x.q EXCEPT !["in"] = <<>>, !["out"] = SubSeq(@, 1, i)]
             Fields(x) == [by |-> x.by, to |-> x.to, via |-> x.via,
                           end |-> [x.end EXCEPT !["in"] = "GONE"], q |-> Q(x),
                           addr |-> x.addr /\ "in" # "out",
                           node_addr |-> [x.node_addr EXCEPT !["in"] = FALSE],
                           ticking |-> [x.ticking EXCEPT !["in"] = FALSE], silent |-> x.silent]
  <2>1. ASSUME NEW x \in Conns PROVE Cut(x, i) = Fields(x)
    <3>1. Cut(x, i) = [x EXCEPT !.end = [x.end EXCEPT !["in"] = "GONE"], !.q = Q(x),
                                !.ticking = [x.ticking EXCEPT !["in"] = FALSE],
                                !.node_addr = [x.node_addr EXCEPT !["in"] = FALSE],
                                !.addr = x.addr /\ "in" # "out"]
      BY DEF Conns
    <3> HIDE DEF Q, Cut
    <3> QED
      BY <3>1 DEF Conns
  <2>2. Fields(l) = Fields(k)
    BY <1>1, <1>2
  <2> HIDE DEF Fields, Cut
  <2> QED
    BY <1>2, <2>1, <2>2
<1>4. Closed(k, "in") = IF k.end["out"] = "GONE" THEN {Free}
                        ELSE {Cut(k, i) : i \in 0..Len(k.q["out"])}
  BY DEF Closed, Other
<1>5. Closed(l, "in") = IF l.end["out"] = "GONE" THEN {Free}
                        ELSE {Cut(l, i) : i \in 0..Len(l.q["out"])}
  BY DEF Closed, Other
<1> HIDE DEF Cut
<1>6. l.end["out"] = k.end["out"] /\ l.q = k.q
  BY <1>1, <1>2
<1>7. Closed(l, "in") = Closed(k, "in")
  BY <1>3, <1>4, <1>5, <1>6
<1> QED
  BY <1>7 DEF l

\* The request of a node to become a link, which is all that is in the queue.
LEMMA ConnReqKeeps == ASSUME MeshInv, NEW c \in Slots, procmsg_NODECONNREQ(c)
                      PROVE  MeshInv'
<1> DEFINE k == conns[c]
           p == Pop(k, "in")
           End(e) == [p EXCEPT !.end["in"] = e]
<1>1. /\ ConnOK(k) /\ k.end["in"] = "NEWCONN" /\ k.q["in"] # <<>>
      /\ UNCHANGED <<db, nodewait>>
  BY DEF MeshInv, ConnsOK, procmsg_NODECONNREQ
<1>2. /\ k.q["out"] = <<>> /\ Tail(k.q["in"]) = <<>>
      /\ k.end["out"] # "THREAD" /\ ~k.node_addr["in"] /\ k \in Conns
  <2>1. k.q["in"] = <<Msg("NODECONNREQ")>> /\ k.q["out"] = <<>>
    BY <1>1 DEF ConnOK, QueuesOK
  <2>2. Tail(<<Msg("NODECONNREQ")>>) = <<>>
    OBVIOUS
  <2>3. k.end["out"] # "THREAD" /\ ~k.node_addr["in"] /\ k \in Conns
    BY <1>1 DEF ConnOK, QueuesOK, EndsOK
  <2> QED
    BY <2>1, <2>2, <2>3
<1>3. <<>> \in Seq(ForOut) /\ <<>> \in Seq(ForIn) /\ Announced(<<>>)
  BY FreeOK DEF ConnOK, QueuesOK, Free, Sides
<1>4. /\ p \in Conns /\ p.q["in"] = <<>> /\ p.q["out"] = <<>>
      /\ p.end = k.end /\ p.node_addr = k.node_addr
      /\ p.addr = k.addr /\ p.by = k.by /\ p.to = k.to /\ p.via = k.via
  <2>1. <<>> \in Seq(For("in")) /\ "in" \in Sides
    BY <1>3 DEF For, Sides
  <2> QED
    <3>1. p = [k EXCEPT !.q["in"] = <<>>]
      BY <1>2 DEF Pop
    <3>2. Other("in") = "out"
      BY DEF Other
    <3> HIDE DEF p, k
    <3>3. LET new == [k EXCEPT !.q["in"] = <<>>]
          IN  /\ new \in Conns
              /\ new.q["in"] = <<>> /\ new.q[Other("in")] = k.q[Other("in")]
              /\ new.end = k.end /\ new.node_addr = k.node_addr
              /\ new.addr = k.addr /\ new.by = k.by /\ new.to = k.to
              /\ new.via = k.via
      BY <1>1, <2>1, NewQueue
    <3> QED
      BY <1>2, <3>1, <3>2, <3>3
<1> HIDE DEF p
<1>5. ASSUME NEW e \in {"LINK", "SENDINGOK"}, NEW q \in Seq(ForOut), NEW new,
             new = [p EXCEPT !.q["out"] = q, !.end["in"] = e] \/ (q = <<>> /\ new = End(e))
      PROVE  ConnOK(new) /\ Shrinks(k, new)
  <2> DEFINE es == [p.end EXCEPT !["in"] = e]
             qs == [p.q EXCEPT !["out"] = q]
  <2>1. /\ es \in [Sides -> Ends] /\ es["in"] = e /\ es["out"] = k.end["out"]
    BY <1>4 DEF Conns, Sides, Ends
  <2>2. /\ qs \in [Sides -> Seq(ForOut \cup ForIn)] /\ qs["in"] = <<>> /\ qs["out"] = q
    BY <1>4 DEF Conns, Sides
  <2>3. new = [p EXCEPT !.q = qs, !.end = es]
    <3>1. CASE q = <<>> /\ new = End(e)
      <4>1. qs = p.q
        BY <1>4, <3>1 DEF Conns
      <4>2. [p EXCEPT !.q = p.q, !.end = es] = [p EXCEPT !.end = es]
        BY <1>4 DEF Conns
      <4> QED
        BY <3>1, <4>1, <4>2
    <3>2. CASE new = [p EXCEPT !.q["out"] = q, !.end["in"] = e]
      BY <1>4, <3>2 DEF Conns
    <3> QED
      BY <1>5, <3>1, <3>2
  <2> HIDE DEF es, qs
  <2>4. /\ new \in Conns /\ new.q = qs /\ new.end = es /\ new.node_addr = k.node_addr
        /\ new.addr = k.addr /\ new.by = k.by /\ new.to = k.to /\ new.via = k.via
    BY <1>4, <2>1, <2>2, <2>3 DEF Conns
  <2>5. EndsOK(new)
    BY <1>1, <1>2, <2>1, <2>4 DEF ConnOK, EndsOK
  <2>6. QueuesOK(new)
    BY <1>2, <1>3, <2>1, <2>2, <2>4 DEF QueuesOK
  <2>7. Shrinks(k, new)
    BY <1>2, <2>1, <2>4 DEF Shrinks, Forgets, InKnown, OutKnown
  <2> QED
    BY <2>4, <2>5, <2>6, <2>7 DEF ConnOK
<1> DEFINE Answered(a) == nodelink_wbuf_push(p, "in", <<Msg(a)>>)
<1>6. ASSUME NEW a \in {"INITRESPOK", "VERDIFFER"}
      PROVE  /\ <<Msg(a)>> \in Seq(ForOut)
             /\ Answered(a) = IF k.end["out"] = "GONE" THEN p
                              ELSE [p EXCEPT !.q["out"] = <<Msg(a)>>]
  <2>1. Msg(a) \in ForOut
    BY DEF Msg, ForOut
  <2>2. <<Msg(a)>> \in Seq(ForOut) /\ <<>> \o <<Msg(a)>> = <<Msg(a)>>
    BY <2>1
  <2>3. [p EXCEPT !.q["out"] = @ \o <<Msg(a)>>] = [p EXCEPT !.q["out"] = <<Msg(a)>>]
    BY <1>4, <2>2
  <2> QED
    BY <1>4, <2>2, <2>3 DEF nodelink_wbuf_push, Other
<1>7. CASE conns' = [conns EXCEPT ![c] = [Answered("INITRESPOK") EXCEPT !.end["in"] = "LINK"]]
  <2> DEFINE new == [Answered("INITRESPOK") EXCEPT !.end["in"] = "LINK"]
  <2>1. ConnOK(new) /\ Shrinks(k, new)
    <3>1. <<Msg("INITRESPOK")>> \in Seq(ForOut)
      BY <1>6
    <3>2. CASE k.end["out"] = "GONE"
      <4>1. new = End("LINK")
        BY <1>6, <3>2
      <4> QED
        BY <1>3, <1>5, <4>1
    <3>3. CASE k.end["out"] # "GONE"
      <4>1. new = [p EXCEPT !.q["out"] = <<Msg("INITRESPOK")>>, !.end["in"] = "LINK"]
        BY <1>6, <3>3
      <4> QED
        BY <1>5, <3>1, <4>1
    <3> QED
      BY <3>2, <3>3
  <2> HIDE DEF new, k
  <2> QED
    BY <1>1, <1>7, <2>1, OneShrinks DEF new, k
<1>8. CASE \E new \in Closed(Answered("VERDIFFER"), "in") : conns' = [conns EXCEPT ![c] = new]
  <2>1. PICK new \in Closed(Answered("VERDIFFER"), "in") : conns' = [conns EXCEPT ![c] = new]
    BY <1>8
  <2> DEFINE r == Answered("VERDIFFER")
             link == [r EXCEPT !.end["in"] = "LINK"]
  <2>2. ConnOK(link) /\ Shrinks(k, link)
    <3>1. <<Msg("VERDIFFER")>> \in Seq(ForOut)
      BY <1>6
    <3>2. CASE k.end["out"] = "GONE"
      <4>1. link = End("LINK")
        BY <1>6, <3>2
      <4> QED
        BY <1>3, <1>5, <4>1
    <3>3. CASE k.end["out"] # "GONE"
      <4>1. link = [p EXCEPT !.q["out"] = <<Msg("VERDIFFER")>>, !.end["in"] = "LINK"]
        BY <1>6, <3>3
      <4> QED
        BY <1>5, <3>1, <4>1
    <3> QED
      BY <3>2, <3>3
  <2>3. Closed(r, "in") = Closed(link, "in")
    <3>1. r \in Conns
      <4>1. [p.q EXCEPT !["out"] = <<Msg("VERDIFFER")>>] \in [Sides -> Seq(ForOut \cup ForIn)]
        <5>1. <<Msg("VERDIFFER")>> \in Seq(ForOut)
          BY <1>6
        <5>2. <<Msg("VERDIFFER")>> \in Seq(ForOut \cup ForIn) /\ p.q \in [Sides -> Seq(ForOut \cup ForIn)]
          BY <1>4, <5>1 DEF Conns
        <5> QED
          BY <5>2
      <4>2. [p EXCEPT !.q = [p.q EXCEPT !["out"] = <<Msg("VERDIFFER")>>]] \in Conns
        BY <1>4, <4>1 DEF Conns
      <4> QED
        BY <1>4, <1>6, <4>2
    <3> HIDE DEF r
    <3> QED
      BY <3>1, ClosedIgnores DEF Ends
  <2> HIDE DEF r, link
  <2>4. link.end["in"] # "THREAD" /\ "in" \in Sides
    BY <2>2 DEF ConnOK, EndsOK, Sides
  <2>5. ConnOK(new) /\ Shrinks(link, new)
    BY <2>1, <2>2, <2>3, <2>4, ClosedOK DEF r
  <2>6. Shrinks(k, new)
    BY <2>2, <2>5 DEF Shrinks, Forgets
  <2> QED
    BY <1>1, <2>1, <2>5, <2>6, OneShrinks
<1>9. CASE conns' = [conns EXCEPT ![c] = End("SENDINGOK")]
  <2>1. ConnOK(End("SENDINGOK")) /\ Shrinks(k, End("SENDINGOK"))
    BY <1>3, <1>5
  <2> QED
    BY <1>1, <1>9, <2>1, OneShrinks
<1> QED
  BY <1>7, <1>8, <1>9 DEF procmsg_NODECONNREQ, p


-----------------------------------------------------------------------------
(* Announcements and lists of nodes.                                       *)

\* Rows of a database with new addresses.
LEMMA SaveTyped == ASSUME TablesOK, NEW n \in Nodes, NEW new \in SUBSET Addrs,
                          db' = [db EXCEPT ![n] = PICA_nodeaddr_save(@, new)],
                          UNCHANGED nodewait
                   PROVE  /\ TablesOK'
                          /\ \A m \in Nodes : \A p : /\ DOMAIN db[m] \subseteq DOMAIN db'[m]
                                                     /\ p \in DOMAIN db[m] => db'[m][p] <= db[m][p]
                          /\ \A p \in new : p \in DOMAIN db'[n] /\ db'[n][p] = 0
<1> DEFINE rows == PICA_nodeaddr_save(db[n], new)
<1>1. /\ DOMAIN rows = DOMAIN db[n] \cup new
      /\ \A a \in DOMAIN rows : rows[a] = IF a \in new THEN 0 ELSE db[n][a]
  BY DEF PICA_nodeaddr_save
<1>2. DOMAIN db[n] \subseteq Addrs /\ \A a \in DOMAIN db[n] : db[n][a] \in Nat
  BY DEF TablesOK
<1> HIDE DEF rows
<1>3. /\ DOMAIN db' = Nodes /\ db' = [m \in Nodes |-> db'[m]]
      /\ \A m \in Nodes : db'[m] = IF m = n THEN rows ELSE db[m]
  BY DEF TablesOK, rows
<1>4. \A m \in Nodes : DOMAIN db'[m] \subseteq Addrs /\ \A a \in DOMAIN db'[m] : db'[m][a] \in Nat
  BY <1>1, <1>2, <1>3 DEF TablesOK
<1>5. TablesOK'
  BY <1>3, <1>4 DEF TablesOK
<1>6. ASSUME NEW m \in Nodes, NEW p
      PROVE  /\ DOMAIN db[m] \subseteq DOMAIN db'[m]
             /\ p \in DOMAIN db[m] => db'[m][p] <= db[m][p]
  <2>1. p \in DOMAIN db[m] => db[m][p] \in Nat
    BY DEF TablesOK
  <2> QED
    BY <1>1, <1>2, <1>3, <2>1
<1>7. \A p \in new : p \in DOMAIN db'[n] /\ db'[n][p] = 0
  BY <1>1, <1>3
<1> QED
  BY <1>5, <1>6, <1>7

\* The rows of the links that were there stay good when addresses are saved.
LEMMA SaveKeepsRows == ASSUME MeshInv, NEW n \in Nodes, NEW new \in SUBSET Addrs,
                              db' = [db EXCEPT ![n] = PICA_nodeaddr_save(@, new)],
                              UNCHANGED nodewait, NEW c \in Slots, InKnown(conns[c])
                       PROVE  RowOK(db'[conns[c].to], conns[c].by, nodewait'[conns[c].to][conns[c].by])
<1> DEFINE m == conns[c].to
           p == conns[c].by
<1>1. m \in Nodes /\ p \in Nodes
  BY DEF MeshInv, ConnsOK, ConnOK, EndsOK, InKnown
<1>2. p \in DOMAIN db[m] /\ db[m][p] <= (IF nodewait[m][p] = "none" THEN 1 ELSE 0) /\ db[m][p] \in Nat
  BY <1>1 DEF MeshInv, RowsOK, RowOK, TablesOK
<1>3. TablesOK' /\ p \in DOMAIN db'[m] /\ db'[m][p] <= db[m][p]
  BY <1>1, <1>2, SaveTyped DEF MeshInv
<1>4. db'[m][p] \in Nat
  BY <1>1, <1>3 DEF TablesOK
<1> QED
  BY <1>2, <1>3, <1>4 DEF RowOK

\* A link learns the address of the other node.
LEMMA NodeAddrFields == ASSUME NEW k \in Conns, NEW s \in Sides
                        PROVE  LET new == [k EXCEPT !.node_addr[s] = TRUE]
                               IN  /\ new \in Conns /\ new.q = k.q /\ new.end = k.end
                                   /\ new.node_addr[s] = TRUE
                                   /\ \A t \in Sides \ {s} : new.node_addr[t] = k.node_addr[t]
                                   /\ new.addr = k.addr /\ new.by = k.by /\ new.to = k.to
                                   /\ new.via = k.via
<1> DEFINE na == [k.node_addr EXCEPT ![s] = TRUE]
           new == [k EXCEPT !.node_addr = na]
<1>1. na \in [Sides -> BOOLEAN] /\ na[s] = TRUE /\ \A t \in Sides \ {s} : na[t] = k.node_addr[t]
  BY DEF Conns
<1> HIDE DEF na
<1>2. /\ new \in Conns /\ new.q = k.q
      /\ new.end = k.end /\ new.node_addr = na
      /\ new.addr = k.addr /\ new.by = k.by /\ new.to = k.to /\ new.via = k.via
  BY <1>1 DEF Conns
<1>3. new = [k EXCEPT !.node_addr[s] = TRUE]
  BY DEF na
<1> HIDE DEF new
<1> QED
  BY <1>1, <1>2, <1>3

LEMMA NodeListKeeps == ASSUME MeshInv, NEW c \in Slots, NEW s \in Sides, procmsg_NODELIST(c, s)
                       PROVE  MeshInv'
<1> DEFINE k == conns[c]
           p == Pop(k, s)
           new == [p EXCEPT !.node_addr[s] = TRUE]
           nodes == {n \in Head(k.q[s]).nodes : kind[n] # "private"}
<1>1. /\ conns' = [conns EXCEPT ![c] = new] /\ Reads(c, s, "NODELIST")
      /\ db' = [db EXCEPT ![At(c, s)] = PICA_nodeaddr_save(@, nodes)]
      /\ UNCHANGED nodewait
  BY DEF procmsg_NODELIST
<1>2. /\ ConnOK(k) /\ k.end[s] = "LINK" /\ k.q[s] # <<>>
      /\ Head(k.q[s]) \in For(s) /\ Head(k.q[s]).m = "NODELIST"
  BY <1>1, ReadTyped
<1>3. s = "out"
  BY <1>2 DEF For, ForIn, Sides
<1>4. nodes \in SUBSET Addrs /\ At(c, s) \in Nodes
  BY <1>2, <1>3 DEF For, ForOut, Addrs, At, ConnOK, EndsOK
<1>5. ConnOK(p) /\ Shrinks(k, p)
  BY <1>2, PopOK
<1> HIDE DEF p
<1>6. /\ new \in Conns /\ new.q = p.q /\ new.end = p.end
      /\ new.node_addr["in"] = p.node_addr["in"]
      /\ new.addr = p.addr /\ new.by = p.by /\ new.to = p.to /\ new.via = p.via
  <2>1. p \in Conns /\ "in" \in Sides \ {s}
    BY <1>3, <1>5 DEF ConnOK, Sides
  <2> QED
    BY <2>1, NodeAddrFields
<1> HIDE DEF new, k, nodes
<1>7. ConnOK(new) /\ Shrinks(k, new)
  BY <1>5, <1>6 DEF ConnOK, EndsOK, QueuesOK, Shrinks, Forgets, InKnown, OutKnown
<1>8. ConnsOK' /\ PairsOK'
  BY <1>1, <1>7, OneShrinks DEF k
<1>9. TablesOK'
  BY <1>1, <1>4, SaveTyped DEF MeshInv
<1>10. \A d \in Slots : Shrinks(conns[d], conns'[d])
  <2>1. \A d \in Slots : conns'[d] = IF d = c THEN new ELSE conns[d]
    BY <1>1 DEF MeshInv, ConnsOK
  <2>2. \A d \in Slots : Shrinks(conns[d], conns[d])
    BY DEF Shrinks, Forgets
  <2> QED
    BY <1>7, <2>1, <2>2 DEF k
<1>11. RowsOK'
  <2> SUFFICES ASSUME NEW d \in Slots, InKnown(conns'[d])
               PROVE  RowOK(db'[conns'[d].to], conns'[d].by, nodewait'[conns'[d].to][conns'[d].by])
    BY DEF RowsOK
  <2>1. InKnown(conns[d]) /\ conns'[d].by = conns[d].by /\ conns'[d].to = conns[d].to
    BY <1>10 DEF Shrinks, Forgets
  <2> QED
    BY <1>1, <1>4, <2>1, SaveKeepsRows
<1>12. ThreadsOK'
  <2>1. \A d \in Slots, n \in Nodes, a \in Addrs :
          IsThreadOf(conns[d], n, a) => IsThreadOf(conns'[d], n, a)
    BY <1>10 DEF Shrinks, IsThreadOf
  <2> QED
    BY <1>1, <2>1 DEF MeshInv, ThreadsOK
<1> QED
  BY <1>8, <1>9, <1>11, <1>12 DEF MeshInv


\* The announcement is taken: there was no other link of the two nodes that is known.
LEMMA NewNodeKeeps == ASSUME MeshInv, NEW c \in Slots, NEW s \in Sides, procmsg_NEWNODE(c, s)
                      PROVE  MeshInv'
<1> DEFINE k == conns[c]
           n == k.to
           p == k.by
           q == Tail(k.q["in"])
           popped == Pop(k, "in")
           new == [popped EXCEPT !.node_addr["in"] = TRUE]
<1>1. Reads(c, s, "NEWNODE") /\ UNCHANGED nodewait
  BY DEF procmsg_NEWNODE
<1>2. /\ ConnOK(k) /\ k.end[s] = "LINK" /\ k.q[s] # <<>>
      /\ Head(k.q[s]) \in For(s) /\ Head(k.q[s]).m = "NEWNODE"
  BY <1>1, ReadTyped
<1>3. s = "in" /\ At(c, s) = n /\ Peer(c, s) = p
  BY <1>2 DEF For, ForOut, Sides, At, Peer, Other
<1>4. CASE nodelink_list_delete(c, s) /\ UNCHANGED db
  BY <1>1, <1>2, <1>4, DeleteKeeps
<1>5. CASE /\ ~nodelink_search_by_ipv4addr(n, p)
           /\ conns' = [conns EXCEPT ![c] = new]
           /\ db' = [db EXCEPT ![n] = PICA_nodeaddr_save(@, {p})]
  <2>1. n \in Nodes /\ p \in Nodes /\ {p} \in SUBSET Addrs
    BY <1>2, <1>3 DEF ConnOK, EndsOK, Addrs
  <2>2. /\ popped \in Conns
        /\ popped.q["in"] = q /\ popped.q["out"] = k.q["out"]
        /\ popped.end = k.end /\ popped.node_addr = k.node_addr
        /\ popped.addr = k.addr /\ popped.by = k.by /\ popped.to = k.to
        /\ popped.via = k.via /\ q \in Seq(ForIn)
    <3>1. k.q["in"] \in Seq(ForIn) /\ k.q["in"] # <<>>
      BY <1>2, <1>3 DEF ConnOK, QueuesOK
    <3>2. q \in Seq(ForIn)
      BY <3>1
    <3>3. q \in Seq(For("in")) /\ "in" \in Sides /\ Other("in") = "out"
      BY <3>2 DEF For, Sides, Other
    <3>4. popped = [k EXCEPT !.q["in"] = q]
      BY DEF Pop
    <3> HIDE DEF q, popped, k
    <3>5. LET l == [k EXCEPT !.q["in"] = q]
          IN  /\ l \in Conns
              /\ l.q["in"] = q /\ l.q[Other("in")] = k.q[Other("in")]
              /\ l.end = k.end /\ l.node_addr = k.node_addr
              /\ l.addr = k.addr /\ l.by = k.by /\ l.to = k.to
              /\ l.via = k.via
      BY <1>2, <3>3, NewQueue
    <3> QED
      BY <3>2, <3>3, <3>4, <3>5
  <2> HIDE DEF popped, q
  <2>3. /\ new \in Conns /\ new.q = popped.q /\ new.end = k.end /\ new.node_addr["in"] = TRUE
        /\ new.addr = k.addr /\ new.by = p /\ new.to = n /\ new.via = k.via
    <3>1. "in" \in Sides
      BY DEF Sides
    <3> QED
      BY <2>2, <3>1, NodeAddrFields
  <2> HIDE DEF new
  <2>4. ConnOK(new)
    <3>1. EndsOK(new)
      BY <1>2, <1>3, <2>3 DEF ConnOK, EndsOK
    <3>2. QueuesOK(new)
      BY <1>2, <1>3, <2>2, <2>3 DEF ConnOK, EndsOK, QueuesOK
    <3> QED
      BY <2>3, <3>1, <3>2 DEF ConnOK
  <2>5. \A d \in Slots : conns'[d] = IF d = c THEN new ELSE conns[d]
    BY <1>5 DEF MeshInv, ConnsOK
  <2>6. ConnsOK'
    <3>1. DOMAIN conns' = Slots /\ conns' = [d \in Slots |-> conns'[d]]
      BY <1>5 DEF MeshInv, ConnsOK
    <3> QED
      BY <2>4, <2>5, <3>1 DEF MeshInv, ConnsOK
  <2>7. ASSUME NEW d \in Slots, InKnown(conns[d]), conns[d].by = p, conns[d].to = n
        PROVE  FALSE
    <3>1. <<d, "in">> \in nodelink_list(n)
      BY <2>7 DEF nodelink_list, InKnown, At, IsLink, Sides
    <3>2. conns[d].node_addr["in"] /\ Peer(d, "in") = p
      BY <2>7 DEF InKnown, Peer, At, Other
    <3>3. ByNodeAddr(n, p)
      BY <3>1, <3>2 DEF ByNodeAddr
    <3> QED
      BY <1>5, <3>3 DEF nodelink_search_by_ipv4addr
  <2>8. ASSUME NEW d \in Slots, OutKnown(conns[d]), conns[d].by = n, conns[d].to = p
        PROVE  FALSE
    <3>1. <<d, "out">> \in nodelink_list(n)
      BY <2>8 DEF nodelink_list, OutKnown, At, IsLink, Sides
    <3>2. conns[d].addr /\ Peer(d, "out") = p
      BY <2>8 DEF OutKnown, Peer, At, Other
    <3>3. ByAddr(n, p)
      BY <3>1, <3>2 DEF ByAddr
    <3> QED
      BY <1>5, <3>3 DEF nodelink_search_by_ipv4addr
  <2>9. OutKnown(new) <=> OutKnown(k)
    BY <2>3 DEF OutKnown
  <2>10. PairsOK'
    <3> SUFFICES ASSUME NEW d \in Slots, NEW e \in Slots,
                        InKnown(conns'[d]), InKnown(conns'[e])
                 PROVE  /\ conns'[d].by = conns'[e].by /\ conns'[d].to = conns'[e].to => d = e
                        /\ ~(/\ conns'[d].by = conns'[e].to /\ conns'[d].to = conns'[e].by
                             /\ OutKnown(conns'[d]) /\ OutKnown(conns'[e]))
      BY DEF PairsOK
    <3>1. CASE d # c /\ e # c
      BY <2>5, <3>1 DEF MeshInv, PairsOK
    <3>2. CASE d = c /\ e = c
      BY <2>3, <2>5, <2>8, <2>9, <3>2
    <3>3. CASE d = c /\ e # c
      BY <2>3, <2>5, <2>7, <2>8, <3>3
    <3>4. CASE d # c /\ e = c
      BY <2>3, <2>5, <2>7, <2>8, <3>4
    <3> QED
      BY <3>1, <3>2, <3>3, <3>4
  <2>11. TablesOK' /\ p \in DOMAIN db'[n] /\ db'[n][p] = 0
    BY <1>1, <1>5, <2>1, SaveTyped DEF MeshInv
  <2>12. RowsOK'
    <3> SUFFICES ASSUME NEW d \in Slots, InKnown(conns'[d])
                 PROVE  RowOK(db'[conns'[d].to], conns'[d].by, nodewait'[conns'[d].to][conns'[d].by])
      BY DEF RowsOK
    <3>1. CASE d = c
      BY <2>3, <2>5, <2>11, <3>1 DEF RowOK
    <3>2. CASE d # c
      <4>1. conns'[d] = conns[d]
        BY <2>5, <3>2
      <4> QED
        BY <1>1, <1>5, <2>1, <4>1, SaveKeepsRows
    <3> QED
      BY <3>1, <3>2
  <2>13. ThreadsOK'
    <3>1. \A d \in Slots, m \in Nodes, a \in Addrs :
            IsThreadOf(conns[d], m, a) => IsThreadOf(conns'[d], m, a)
      BY <2>3, <2>5 DEF IsThreadOf
    <3> QED
      BY <1>1, <3>1 DEF MeshInv, ThreadsOK
  <2> QED
    BY <2>6, <2>10, <2>11, <2>12, <2>13 DEF MeshInv
<1> QED
  BY <1>3, <1>4, <1>5 DEF procmsg_NEWNODE


-----------------------------------------------------------------------------
(* The nodewait list and its threads.                                      *)

LEMMA WaitTyped == ASSUME TablesOK, NEW n \in Nodes, NEW a \in Addrs, NEW st \in WaitStates,
                          nodewait' = [nodewait EXCEPT ![n][a] = st]
                   PROVE  /\ nodewait' \in [Nodes -> [Addrs -> WaitStates]]
                          /\ \A m \in Nodes, b \in Addrs :
                                nodewait'[m][b] = IF m = n /\ b = a THEN st ELSE nodewait[m][b]
<1>1. nodewait \in [Nodes -> [Addrs -> WaitStates]]
  BY DEF TablesOK
<1>2. nodewait' = [nodewait EXCEPT ![n] = [nodewait[n] EXCEPT ![a] = st]]
  OBVIOUS
<1>3. [nodewait[n] EXCEPT ![a] = st] \in [Addrs -> WaitStates]
  BY <1>1
<1> QED
  BY <1>1, <1>2, <1>3

\* The nodes of a link that is known.
LEMMA KnownNodes == ASSUME MeshInv, NEW c \in Slots, InKnown(conns[c])
                    PROVE  /\ conns[c].to \in Nodes /\ conns[c].by \in Nodes
                           /\ conns[c].by \in Addrs
BY DEF MeshInv, ConnsOK, ConnOK, EndsOK, InKnown, Addrs

\* An entry goes on, or goes.
LEMMA WaitKeeps == ASSUME MeshInv, NEW n \in Nodes, NEW a \in Addrs, NEW st \in WaitStates,
                          nodewait[n][a] # "none", st # "CONNECTED", SetWait(n, a, st),
                          UNCHANGED <<db, conns>>
                   PROVE  MeshInv'
<1>1. /\ nodewait' \in [Nodes -> [Addrs -> WaitStates]]
      /\ \A m \in Nodes, b \in Addrs :
            nodewait'[m][b] = IF m = n /\ b = a THEN st ELSE nodewait[m][b]
  BY WaitTyped DEF MeshInv, SetWait
<1>2. TablesOK'
  BY <1>1 DEF MeshInv, TablesOK
<1>3. ConnsOK' /\ PairsOK'
  BY DEF MeshInv, ConnsOK, PairsOK
<1>4. RowsOK'
  <2> SUFFICES ASSUME NEW c \in Slots, InKnown(conns[c])
               PROVE  RowOK(db[conns[c].to], conns[c].by, nodewait'[conns[c].to][conns[c].by])
    BY DEF RowsOK
  <2> DEFINE m == conns[c].to
             p == conns[c].by
  <2>1. m \in Nodes /\ p \in Addrs
    BY KnownNodes
  <2>2. RowOK(db[m], p, nodewait[m][p]) /\ db[m][p] \in Nat
    BY <2>1 DEF MeshInv, RowsOK, TablesOK, RowOK
  <2>3. nodewait[m][p] = "none" => nodewait'[m][p] = "none"
    BY <1>1, <2>1
  <2> QED
    BY <2>2, <2>3 DEF RowOK
<1>5. ThreadsOK'
  BY <1>1 DEF MeshInv, ThreadsOK
<1> QED
  BY <1>2, <1>3, <1>4, <1>5 DEF MeshInv

\* A set of numbers that is not empty has a least one.
LEMMA LeastSlot == ASSUME NEW S \in SUBSET Nat, S # {}
                   PROVE  \E i \in S : \A j \in S : i <= j
<1>1. PICK i \in S : \A j \in S : ~(<<j, i>> \in OpToRel(<, Nat))
  BY NatLessThanWellFounded, WFMin, Zenon
<1>2. \A j \in S : ~(j < i)
  BY <1>1 DEF OpToRel
<1> QED
  BY <1>2

\* The thread's connection takes a free slot.
LEMMA ConnectedKeeps == ASSUME MeshInv, NEW n \in Nodes, NEW a \in Addrs,
                               Waits(n, a, "HANDSHAKE"), Connected(n, a), UNCHANGED db
                        PROVE  MeshInv'
<1> DEFINE c == CHOOSE c \in Slots : /\ conns[c] = Free
                                     /\ \A d \in Slots : conns[d] = Free => c <= d
           es == [s \in Sides |-> IF s = "out" THEN "THREAD" ELSE "NEWCONN"]
           new == [Free EXCEPT !.by = n, !.to = Host[a], !.via = a, !.end = es]
<1>1. c \in Slots /\ conns[c] = Free
  <2> DEFINE S == {d \in Slots : conns[d] = Free}
  <2>1. S \in SUBSET Nat /\ S # {}
    BY NodeMeshAssumption DEF Connected, Slots
  <2>2. \E i \in S : \A j \in S : i <= j
    BY <2>1, LeastSlot, Zenon
  <2>3. \E i \in Slots : conns[i] = Free /\ \A d \in Slots : conns[d] = Free => i <= d
    BY <2>2
  <2> QED
    BY <2>3, Zenon
<1>2. conns' = [conns EXCEPT ![c] = new] /\ SetWait(n, a, "CONNECTED")
  BY DEF Connected
<1> HIDE DEF c
<1>3. Host[a] \in Nodes
  BY NodeMeshAssumption
<1>4. es \in [Sides -> Ends] /\ es["out"] = "THREAD" /\ es["in"] = "NEWCONN"
  BY DEF Sides, Ends
<1> HIDE DEF es
<1>5. /\ new \in Conns /\ new.end = es /\ new.by = n /\ new.to = Host[a] /\ new.via = a
      /\ new.q = Free.q /\ new.node_addr = Free.node_addr /\ new.addr = Free.addr
  BY <1>3, <1>4, FreeOK DEF ConnOK, Conns
<1>6. /\ Free.q["in"] = <<>> /\ Free.q["out"] = <<>> /\ ~Free.node_addr["in"] /\ QueuesOK(Free)
  BY FreeOK DEF Free, Sides, ConnOK
<1> HIDE DEF new
<1>7. ConnOK(new) /\ ~InKnown(new)
  <2>1. EndsOK(new)
    BY <1>3, <1>4, <1>5, <1>6 DEF EndsOK
  <2>2. QueuesOK(new)
    BY <1>4, <1>5, <1>6 DEF QueuesOK
  <2> QED
    BY <1>4, <1>5, <2>1, <2>2 DEF ConnOK, InKnown
<1>8. \A d \in Slots : conns'[d] = IF d = c THEN new ELSE conns[d]
  BY <1>2 DEF MeshInv, ConnsOK
<1>9. ConnsOK'
  <2>1. DOMAIN conns' = Slots /\ conns' = [d \in Slots |-> conns'[d]]
    BY <1>2 DEF MeshInv, ConnsOK
  <2> QED
    BY <1>7, <1>8, <2>1 DEF MeshInv, ConnsOK
<1>10. /\ nodewait' \in [Nodes -> [Addrs -> WaitStates]]
       /\ \A m \in Nodes, b \in Addrs :
             nodewait'[m][b] = IF m = n /\ b = a THEN "CONNECTED" ELSE nodewait[m][b]
  <2>1. "CONNECTED" \in WaitStates
    BY DEF WaitStates
  <2> QED
    BY <1>2, <2>1, WaitTyped DEF MeshInv, SetWait
<1>11. TablesOK'
  BY <1>10 DEF MeshInv, TablesOK
<1>12. \A d \in Slots : InKnown(conns'[d]) => conns'[d] = conns[d]
  BY <1>7, <1>8
<1>13. PairsOK'
  BY <1>12 DEF MeshInv, PairsOK
<1>14. RowsOK'
  <2> SUFFICES ASSUME NEW d \in Slots, InKnown(conns'[d])
               PROVE  RowOK(db'[conns'[d].to], conns'[d].by, nodewait'[conns'[d].to][conns'[d].by])
    BY DEF RowsOK
  <2>1. conns'[d] = conns[d]
    BY <1>12
  <2> DEFINE m == conns[d].to
             p == conns[d].by
  <2>2. m \in Nodes /\ p \in Addrs
    BY <2>1, KnownNodes
  <2>3. RowOK(db[m], p, nodewait[m][p])
    BY <2>1 DEF MeshInv, RowsOK
  <2>4. nodewait'[m][p] = "none" <=> nodewait[m][p] = "none"
    BY <1>10, <2>2 DEF Waits
  <2> QED
    BY <2>1, <2>3, <2>4 DEF RowOK
<1>15. ThreadsOK'
  <2> SUFFICES ASSUME NEW m \in Nodes, NEW b \in Addrs, nodewait'[m][b] = "CONNECTED"
               PROVE  \E d \in Slots : IsThreadOf(conns'[d], m, b)
    BY DEF ThreadsOK
  <2>1. CASE m = n /\ b = a
    BY <1>1, <1>4, <1>5, <1>8, <2>1 DEF IsThreadOf
  <2>2. CASE ~(m = n /\ b = a)
    <3>1. PICK d \in Slots : IsThreadOf(conns[d], m, b)
      BY <1>10, <2>2 DEF MeshInv, ThreadsOK
    <3>2. d # c
      BY <1>1, <3>1, FreeOK DEF IsThreadOf
    <3> QED
      BY <1>8, <3>1, <3>2
  <2> QED
    BY <2>1, <2>2
<1> QED
  BY <1>9, <1>11, <1>13, <1>14, <1>15 DEF MeshInv

LEMMA ThreadKeeps == ASSUME MeshInv, NEW n \in Nodes, NEW a \in Addrs,
                            \/ Thread(n, a)
                            \/ ThreadLost(n, a) \/ SSL_connect_unacknowledged(n, a)
                     PROVE  MeshInv'
<1>1. CASE SSL_connect(n, a) /\ Waits(n, a, "HANDSHAKE") /\ Connected(n, a)
  <2>1. UNCHANGED db
    BY <1>1 DEF SSL_connect
  <2> QED
    BY <1>1, <2>1, ConnectedKeeps
<1>2. ASSUME ~(SSL_connect(n, a) /\ Waits(n, a, "HANDSHAKE") /\ Connected(n, a)) PROVE MeshInv'
  <2>1. PICK st \in {"RESOLVED", "RESOLVING_FAILED", "HANDSHAKE", "CONNECT_FAILED", "LOST"} :
            SetWait(n, a, st)
    BY <1>2 DEF Thread, nodewait_resolve_thread, nodewait_connect_thread, SSL_connect,
                ThreadLost, SSL_connect_unacknowledged
  <2>2. nodewait[n][a] # "none" /\ UNCHANGED <<db, conns>>
    BY <1>2 DEF Thread, nodewait_resolve_thread, nodewait_connect_thread, SSL_connect,
                ThreadLost, SSL_connect_unacknowledged, Waits
  <2>3. st \in WaitStates /\ st # "CONNECTED"
    BY DEF WaitStates
  <2> QED
    BY <2>1, <2>2, <2>3, WaitKeeps
<1> QED
  BY <1>1, <1>2

\* What a success and a failure do to the rows of a node.
LEMMA UpdateTyped == ASSUME TablesOK, NEW n \in Nodes, NEW a \in Addrs, NEW alive \in BOOLEAN,
                            db' = [db EXCEPT ![n] = PICA_nodeaddr_update(@, a, alive)]
                     PROVE  /\ DOMAIN db' = Nodes /\ db' = [m \in Nodes |-> db'[m]]
                            /\ \A m \in Nodes : /\ DOMAIN db'[m] = DOMAIN db[m]
                                                /\ DOMAIN db'[m] \subseteq Addrs
                            /\ \A m \in Nodes : \A b \in DOMAIN db'[m] :
                                 /\ db'[m][b] \in Nat
                                 /\ ~(m = n /\ b = a) \/ alive => db'[m][b] <= db[m][b]
                                 /\ db'[m][b] <= db[m][b] + 1
<1> DEFINE rows == PICA_nodeaddr_update(db[n], a, alive)
<1>1. /\ DOMAIN rows = DOMAIN db[n]
      /\ \A b \in DOMAIN rows : rows[b] = IF b # a THEN db[n][b]
                           ELSE IF alive THEN 0
                           ELSE IF db[n][b] < MaxInactive THEN db[n][b] + 1 ELSE MaxInactive
  BY DEF PICA_nodeaddr_update
<1>2. /\ \A m \in Nodes : DOMAIN db[m] \subseteq Addrs /\ \A b \in DOMAIN db[m] : db[m][b] \in Nat
      /\ MaxInactive \in Nat
  BY NodeMeshAssumption DEF TablesOK
<1> HIDE DEF rows
<1>3. /\ DOMAIN db' = Nodes /\ db' = [m \in Nodes |-> db'[m]]
      /\ \A m \in Nodes : db'[m] = IF m = n THEN rows ELSE db[m]
  BY DEF TablesOK, rows
<1>4. ASSUME NEW m \in Nodes, NEW b \in DOMAIN db'[m]
      PROVE  /\ db'[m][b] \in Nat
             /\ ~(m = n /\ b = a) \/ alive => db'[m][b] <= db[m][b]
             /\ db'[m][b] <= db[m][b] + 1
  <2>1. CASE m = n
    <3>1. b \in DOMAIN db[n] /\ db[n][b] \in Nat
      BY <1>1, <1>2, <1>3, <2>1
    <3>2. db'[m][b] = rows[b] /\ b \in DOMAIN rows
      BY <1>3, <2>1
    <3> QED
      BY <1>1, <1>2, <2>1, <3>1, <3>2
  <2>2. CASE m # n
    BY <1>2, <1>3, <2>2
  <2> QED
    BY <2>1, <2>2
<1> QED
  BY <1>1, <1>2, <1>3, <1>4


LEMMA ResolvedKeeps == ASSUME MeshInv, NEW n \in Nodes, NEW a \in Addrs,
                              process_nodewait_RESOLVED(n, a)
                       PROVE  MeshInv'
<1>1. PICK st \in {"none", "CONNECTING"} : SetWait(n, a, st)
  BY DEF process_nodewait_RESOLVED
<1>2. nodewait[n][a] # "none" /\ UNCHANGED <<db, conns>>
  BY DEF process_nodewait_RESOLVED, Waits
<1>3. st \in WaitStates /\ st # "CONNECTED"
  BY DEF WaitStates
<1> QED
  BY <1>1, <1>2, <1>3, WaitKeeps

\* The rows of linked nodes after an attempt of n is over: only the row of the address
\* that was tried gets worse, and it was not counted against before.
LEMMA OverKeepsRows == ASSUME MeshInv, NEW n \in Nodes, NEW a \in Addrs, NEW alive \in BOOLEAN,
                              nodewait[n][a] # "none", SetWait(n, a, "none"),
                              db' = [db EXCEPT ![n] = PICA_nodeaddr_update(@, a, alive)]
                       PROVE  /\ TablesOK'
                              /\ \A c \in Slots : InKnown(conns[c]) =>
                                   RowOK(db'[conns[c].to], conns[c].by,
                                         nodewait'[conns[c].to][conns[c].by])
                              /\ \A m \in Nodes, b \in Addrs :
                                   nodewait'[m][b] = IF m = n /\ b = a THEN "none" ELSE nodewait[m][b]
<1>1. /\ nodewait' \in [Nodes -> [Addrs -> WaitStates]]
      /\ \A m \in Nodes, b \in Addrs :
            nodewait'[m][b] = IF m = n /\ b = a THEN "none" ELSE nodewait[m][b]
  <2>1. "none" \in WaitStates
    BY DEF WaitStates
  <2> QED
    BY <2>1, WaitTyped DEF MeshInv, SetWait
<1>2. /\ DOMAIN db' = Nodes /\ db' = [m \in Nodes |-> db'[m]]
      /\ \A m \in Nodes : DOMAIN db'[m] = DOMAIN db[m] /\ DOMAIN db'[m] \subseteq Addrs
      /\ \A m \in Nodes : \A b \in DOMAIN db'[m] :
           /\ db'[m][b] \in Nat
           /\ ~(m = n /\ b = a) \/ alive => db'[m][b] <= db[m][b]
           /\ db'[m][b] <= db[m][b] + 1
  BY UpdateTyped DEF MeshInv
<1>3. TablesOK'
  BY <1>1, <1>2 DEF TablesOK
<1>4. ASSUME NEW c \in Slots, InKnown(conns[c])
      PROVE  RowOK(db'[conns[c].to], conns[c].by, nodewait'[conns[c].to][conns[c].by])
  <2> DEFINE m == conns[c].to
             p == conns[c].by
  <2>1. m \in Nodes /\ p \in Addrs
    BY <1>4, KnownNodes
  <2>2. /\ p \in DOMAIN db[m] /\ db[m][p] <= (IF nodewait[m][p] = "none" THEN 1 ELSE 0)
        /\ db[m][p] \in Nat
    BY <1>4, <2>1 DEF MeshInv, RowsOK, TablesOK, RowOK
  <2>3. /\ p \in DOMAIN db'[m] /\ db'[m][p] \in Nat /\ db'[m][p] <= db[m][p] + 1
        /\ ~(m = n /\ p = a) => db'[m][p] <= db[m][p]
    BY <1>2, <2>1, <2>2
  <2>4. nodewait'[m][p] = IF m = n /\ p = a THEN "none" ELSE nodewait[m][p]
    BY <1>1, <2>1
  <2> HIDE DEF m, p
  <2>5. db'[m][p] <= IF nodewait'[m][p] = "none" THEN 1 ELSE 0
    BY <2>2, <2>3, <2>4
  <2>6. RowOK(db'[m], p, nodewait'[m][p])
    BY <2>3, <2>5 DEF RowOK
  <2> QED
    BY <2>6 DEF m, p
<1> QED
  BY <1>1, <1>3, <1>4

LEMMA FailedKeeps == ASSUME MeshInv, NEW n \in Nodes, NEW a \in Addrs,
                            process_nodewait_FAILED(n, a)
                     PROVE  MeshInv'
<1>1. /\ nodewait[n][a] # "none" /\ SetWait(n, a, "none") /\ UNCHANGED conns
      /\ db' = [db EXCEPT ![n] = PICA_nodeaddr_update(@, a, FALSE)]
  BY DEF process_nodewait_FAILED, Waits
<1>2. /\ TablesOK'
      /\ \A c \in Slots : InKnown(conns[c]) =>
           RowOK(db'[conns[c].to], conns[c].by, nodewait'[conns[c].to][conns[c].by])
      /\ \A m \in Nodes, b \in Addrs :
           nodewait'[m][b] = IF m = n /\ b = a THEN "none" ELSE nodewait[m][b]
  BY <1>1, OverKeepsRows
<1>3. ConnsOK' /\ PairsOK'
  BY <1>1 DEF MeshInv, ConnsOK, PairsOK
<1>4. RowsOK'
  BY <1>1, <1>2 DEF RowsOK
<1>5. ThreadsOK'
  BY <1>1, <1>2 DEF MeshInv, ThreadsOK
<1> QED
  BY <1>2, <1>3, <1>4, <1>5 DEF MeshInv

\* The thread's connection becomes a link, whose other end is not one yet.
LEMMA TakeOverKeeps == ASSUME MeshInv, NEW n \in Nodes, NEW a \in Addrs,
                              process_nodewait_CONNECTED(n, a)
                       PROVE  MeshInv'
<1> DEFINE c == CHOOSE c \in Slots : /\ conns[c].by = n /\ conns[c].via = a
                                     /\ conns[c].end["out"] = "THREAD"
           k == conns[c]
           Taken(seen) == [k EXCEPT !.end["out"] = "LINK", !.addr = seen]
           req == <<Msg("NODECONNREQ")>>
<1>1. /\ Waits(n, a, "CONNECTED") /\ SetWait(n, a, "none")
      /\ db' = [db EXCEPT ![n] = PICA_nodeaddr_update(@, a, TRUE)]
  BY DEF process_nodewait_CONNECTED
<1>2. PICK seen \in BOOLEAN :
        conns' = [conns EXCEPT ![c] = nodelink_wbuf_push(Taken(seen), "out", req)]
  BY DEF process_nodewait_CONNECTED
<1>3. c \in Slots /\ IsThreadOf(k, n, a)
  <2>1. \E d \in Slots : /\ conns[d].by = n /\ conns[d].via = a
                         /\ conns[d].end["out"] = "THREAD"
    BY <1>1 DEF Waits, MeshInv, ThreadsOK, IsThreadOf
  <2> QED
    BY <2>1, Zenon DEF IsThreadOf
<1> HIDE DEF c
<1>4. /\ ConnOK(k) /\ k \in Conns /\ k.end["out"] = "THREAD" /\ k.q["in"] = <<>>
      /\ k.end["in"] \in {"GONE", "NEWCONN"} /\ ~k.node_addr["in"]
      /\ k.end \in [Sides -> Ends] /\ k.by \in Nodes /\ k.to \in Nodes
      /\ k.q \in [Sides -> Seq(ForOut \cup ForIn)] /\ k.q["out"] \in Seq(ForOut)
  BY <1>3 DEF MeshInv, ConnsOK, ConnOK, EndsOK, QueuesOK, IsThreadOf, Conns
<1>5. req \in Seq(ForIn) /\ Announced(req) /\ req # <<>> /\ <<>> \o req = req
  <2>1. Msg("NODECONNREQ") \in ForIn /\ Msg("NODECONNREQ").m # "NODELISTREQ"
    BY DEF Msg, ForIn
  <2>2. req \in Seq(ForIn) /\ Announced(req)
    BY <2>1, OneMsg
  <2> QED
    BY <2>2
<1>6. <<>> \in Seq(ForIn) /\ Announced(<<>>)
  BY FreeOK DEF ConnOK, QueuesOK, Free, Sides
<1> DEFINE new == nodelink_wbuf_push(Taken(seen), "out", req)
           es == [k.end EXCEPT !["out"] = "LINK"]
           qs == IF k.end["in"] = "GONE" THEN k.q ELSE [k.q EXCEPT !["in"] = req]
<1>7. /\ es \in [Sides -> Ends] /\ es["out"] = "LINK" /\ es["in"] = k.end["in"]
  BY <1>4 DEF Sides, Ends
<1>8. /\ qs \in [Sides -> Seq(ForOut \cup ForIn)] /\ qs["out"] = k.q["out"]
      /\ qs["in"] = IF k.end["in"] = "GONE" THEN <<>> ELSE req
  <2>1. req \in Seq(ForOut \cup ForIn)
    BY <1>5
  <2> HIDE DEF req
  <2> QED
    BY <1>4, <2>1 DEF Sides
<1> HIDE DEF req
<1>9. new = [k EXCEPT !.end = es, !.q = qs, !.addr = seen]
  <2> DEFINE t == [k EXCEPT !.end = es, !.addr = seen]
  <2>1. Taken(seen) = t
    OBVIOUS
  <2>2. /\ t.end = es /\ t.q = k.q /\ t \in Conns
    BY <1>4, <1>7 DEF Conns
  <2>3. new = IF k.end["in"] = "GONE" THEN t ELSE [t EXCEPT !.q["in"] = @ \o req]
    BY <1>7, <2>1, <2>2 DEF nodelink_wbuf_push, Other
  <2>4. CASE k.end["in"] = "GONE"
    <3>1. [k EXCEPT !.end = es, !.q = k.q, !.addr = seen] = t
      BY <1>4 DEF Conns
    <3> QED
      BY <2>3, <2>4, <3>1
  <2>5. CASE k.end["in"] # "GONE"
    <3>1. [t EXCEPT !.q["in"] = @ \o req] = [t EXCEPT !.q = [t.q EXCEPT !["in"] = req]]
      BY <1>4, <1>5, <2>2
    <3>2. [t EXCEPT !.q = [t.q EXCEPT !["in"] = req]]
            = [k EXCEPT !.end = es, !.q = [k.q EXCEPT !["in"] = req], !.addr = seen]
      BY <1>4, <2>2 DEF Conns
    <3> HIDE DEF t, es
    <3> QED
      BY <2>3, <2>5, <3>1, <3>2
  <2> QED
    BY <2>4, <2>5
<1> HIDE DEF es, qs, new
<1>10. /\ new \in Conns /\ new.end = es /\ new.q = qs /\ new.addr = seen
       /\ new.by = k.by /\ new.to = k.to /\ new.via = k.via /\ new.node_addr = k.node_addr
  BY <1>4, <1>7, <1>8, <1>9 DEF Conns
<1>11. ConnOK(new) /\ ~InKnown(new)
  <2>1. EndsOK(new)
    BY <1>4, <1>7, <1>10 DEF EndsOK
  <2>2. QueuesOK(new)
    <3>1. new.q["in"] \in Seq(ForIn) /\ Announced(new.q["in"])
      BY <1>5, <1>6, <1>8, <1>10
    <3>2. k.end["in"] = "NEWCONN" => k.q["out"] = <<>>
      BY <1>4 DEF ConnOK, QueuesOK
    <3> QED
      BY <1>4, <1>5, <1>7, <1>8, <1>10, <3>1, <3>2 DEF QueuesOK, req
  <2> QED
    BY <1>4, <1>10, <2>1, <2>2 DEF ConnOK, InKnown
<1>12. \A d \in Slots : conns'[d] = IF d = c THEN new ELSE conns[d]
  BY <1>2 DEF MeshInv, ConnsOK, new
<1>13. ConnsOK'
  <2>1. DOMAIN conns' = Slots /\ conns' = [d \in Slots |-> conns'[d]]
    BY <1>2 DEF MeshInv, ConnsOK
  <2> QED
    BY <1>11, <1>12, <2>1 DEF MeshInv, ConnsOK
<1>14. \A d \in Slots : InKnown(conns'[d]) => conns'[d] = conns[d]
  BY <1>11, <1>12
<1>15. PairsOK'
  BY <1>14 DEF MeshInv, PairsOK
<1>16. /\ TablesOK'
       /\ \A d \in Slots : InKnown(conns[d]) =>
            RowOK(db'[conns[d].to], conns[d].by, nodewait'[conns[d].to][conns[d].by])
       /\ \A m \in Nodes, b \in Addrs :
            nodewait'[m][b] = IF m = n /\ b = a THEN "none" ELSE nodewait[m][b]
  BY <1>1, OverKeepsRows DEF Waits
<1>17. RowsOK'
  BY <1>14, <1>16 DEF RowsOK
<1>18. ThreadsOK'
  <2> SUFFICES ASSUME NEW m \in Nodes, NEW b \in Addrs, nodewait'[m][b] = "CONNECTED"
               PROVE  \E d \in Slots : IsThreadOf(conns'[d], m, b)
    BY DEF ThreadsOK
  <2>1. ~(m = n /\ b = a) /\ nodewait[m][b] = "CONNECTED"
    BY <1>16
  <2>2. PICK d \in Slots : IsThreadOf(conns[d], m, b)
    BY <2>1 DEF MeshInv, ThreadsOK
  <2>3. d # c
    BY <1>3, <2>1, <2>2 DEF IsThreadOf
  <2> QED
    BY <1>12, <2>2, <2>3
<1> QED
  BY <1>13, <1>15, <1>16, <1>17, <1>18 DEF MeshInv


-----------------------------------------------------------------------------
(* A refresh.                                                              *)

LEMMA FiniteLinks == ASSUME NEW n PROVE Cardinality(nodelink_list(n)) \in Nat
<1>1. IsFiniteSet(1..MaxConns)
  BY NodeMeshAssumption, FS_Interval
<1>2. IsFiniteSet({"out"}) /\ IsFiniteSet({"in"})
  BY FS_Singleton
<1>3. Sides = {"out"} \cup {"in"}
  BY DEF Sides
<1>4. IsFiniteSet(Sides)
  BY <1>2, <1>3, FS_Union
<1>5. IsFiniteSet(Slots \X Sides)
  BY <1>1, <1>4, FS_Product DEF Slots
<1>6. nodelink_list(n) \subseteq Slots \X Sides
  BY DEF nodelink_list
<1>7. IsFiniteSet(nodelink_list(n))
  BY <1>5, <1>6, FS_Subset
<1> QED
  BY <1>7, FS_CardinalityType

\* A row that counts one failure is old enough for no threshold, and no attempt begins
\* at a node there is a link with.
LEMMA RefreshKeeps == ASSUME MeshInv, NEW n \in Nodes, process_timeouts(n)
                      PROVE  MeshInv'
<1> DEFINE links == Cardinality(nodelink_list(n))
           Rows(calls) == IF links > 0
                          THEN PICA_nodeaddr_cleanold(db[n], clean_treshold(links, calls))
                          ELSE db[n]
<1>1. /\ UNCHANGED conns
      /\ \A a \in Addrs : nodewait[n][a] = "none"
  BY DEF process_timeouts
<1>2. PICK calls \in 0..MaxCalls :
        /\ db' = [db EXCEPT ![n] = Rows(calls)]
        /\ nodewait' = [nodewait EXCEPT ![n] =
             [a \in Addrs |-> IF a \in PICA_node_joinskynet(n, Rows(calls))
                              THEN "RESOLVING" ELSE "none"]]
  BY DEF process_timeouts
<1> DEFINE rows == Rows(calls)
           wanted == PICA_node_joinskynet(n, rows)
           waits == [a \in Addrs |-> IF a \in wanted THEN "RESOLVING" ELSE "none"]
<1>3. clean_treshold(links, calls) \in Nat /\ clean_treshold(links, calls) >= 1
  <2>1. links \in Nat /\ calls \in Nat /\ Capacity \in Nat
    BY FiniteLinks, NodeMeshAssumption
  <2> QED
    BY <2>1 DEF clean_treshold
<1>4. /\ DOMAIN rows \subseteq DOMAIN db[n]
      /\ \A a \in DOMAIN rows : rows[a] = db[n][a]
      /\ \A a \in DOMAIN db[n] : db[n][a] <= 1 => a \in DOMAIN rows
  <2> DEFINE t == clean_treshold(links, calls)
  <2>1. \A a \in DOMAIN db[n] : db[n][a] \in Nat
    BY DEF MeshInv, TablesOK
  <2>2. \A a \in DOMAIN db[n] : db[n][a] <= 1 => db[n][a] <= t
    BY <1>3, <2>1
  <2> HIDE DEF t
  <2>3. /\ DOMAIN PICA_nodeaddr_cleanold(db[n], t) = {a \in DOMAIN db[n] : db[n][a] <= t}
        /\ \A a \in DOMAIN PICA_nodeaddr_cleanold(db[n], t) :
              PICA_nodeaddr_cleanold(db[n], t)[a] = db[n][a]
    BY DEF PICA_nodeaddr_cleanold, Restrict
  <2>4. rows = PICA_nodeaddr_cleanold(db[n], t) \/ rows = db[n]
    BY DEF t
  <2> HIDE DEF rows
  <2> QED
    BY <2>2, <2>3, <2>4
<1> HIDE DEF rows
<1>5. ASSUME NEW a \in Nodes, nodelink_search_by_ipv4addr(n, a) PROVE a \notin wanted
  BY <1>5 DEF PICA_node_joinskynet
<1> HIDE DEF wanted
<1>6. /\ waits \in [Addrs -> WaitStates]
      /\ \A a \in Addrs : waits[a] = IF a \in wanted THEN "RESOLVING" ELSE "none"
  BY DEF WaitStates
<1> HIDE DEF waits
<1>7. /\ DOMAIN db' = Nodes /\ db' = [m \in Nodes |-> db'[m]]
      /\ \A m \in Nodes : db'[m] = IF m = n THEN rows ELSE db[m]
  BY <1>2 DEF MeshInv, TablesOK, rows
<1>8. /\ nodewait' \in [Nodes -> [Addrs -> WaitStates]]
      /\ \A m \in Nodes : nodewait'[m] = IF m = n THEN waits ELSE nodewait[m]
  BY <1>2, <1>6 DEF MeshInv, TablesOK, waits, wanted, rows
<1>9. TablesOK'
  <2>1. ASSUME NEW m \in Nodes
        PROVE  DOMAIN db'[m] \subseteq Addrs /\ \A a \in DOMAIN db'[m] : db'[m][a] \in Nat
    BY <1>4, <1>7 DEF MeshInv, TablesOK
  <2> QED
    BY <1>7, <1>8, <2>1 DEF TablesOK
<1>10. ConnsOK' /\ PairsOK'
  BY <1>1 DEF MeshInv, ConnsOK, PairsOK
<1>11. RowsOK'
  <2> SUFFICES ASSUME NEW c \in Slots, InKnown(conns[c])
               PROVE  RowOK(db'[conns[c].to], conns[c].by, nodewait'[conns[c].to][conns[c].by])
    BY <1>1 DEF RowsOK
  <2> DEFINE m == conns[c].to
             p == conns[c].by
  <2>1. m \in Nodes /\ p \in Nodes /\ p \in Addrs
    BY KnownNodes
  <2>2. RowOK(db[m], p, nodewait[m][p])
    BY DEF MeshInv, RowsOK
  <2>3. CASE m # n
    BY <1>7, <1>8, <2>1, <2>2, <2>3
  <2>4. CASE m = n
    <3>1. p \in DOMAIN db[n] /\ db[n][p] <= 1
      BY <1>1, <2>1, <2>2, <2>4 DEF RowOK
    <3>2. p \in DOMAIN rows /\ rows[p] <= 1
      BY <1>4, <3>1
    <3>3. nodelink_search_by_ipv4addr(n, p)
      <4>1. <<c, "in">> \in nodelink_list(n)
        BY <2>4 DEF nodelink_list, InKnown, At, IsLink, Sides
      <4>2. conns[c].node_addr["in"] /\ Peer(c, "in") = p
        BY DEF InKnown, Peer, At, Other
      <4> QED
        BY <4>1, <4>2 DEF nodelink_search_by_ipv4addr, ByNodeAddr
    <3>4. waits[p] = "none"
      BY <1>5, <1>6, <2>1, <3>3
    <3>5. db'[m] = rows /\ nodewait'[m][p] = "none"
      BY <1>7, <1>8, <2>1, <2>4, <3>4
    <3> QED
      BY <3>2, <3>5 DEF RowOK
  <2> QED
    BY <2>3, <2>4
<1>12. ThreadsOK'
  <2> SUFFICES ASSUME NEW m \in Nodes, NEW a \in Addrs, nodewait'[m][a] = "CONNECTED"
               PROVE  \E c \in Slots : IsThreadOf(conns[c], m, a)
    BY <1>1 DEF ThreadsOK
  <2>1. m # n
    BY <1>6, <1>8
  <2>2. nodewait[m][a] = "CONNECTED"
    BY <1>8, <2>1
  <2> QED
    BY <2>2 DEF MeshInv, ThreadsOK
<1> QED
  BY <1>9, <1>10, <1>11, <1>12 DEF MeshInv

-----------------------------------------------------------------------------
(* A node stops.                                                           *)

\* A connection after node n has stopped, as in Crash.
After(n, silent, conn) ==
    IF n \notin {conn.by, conn.to} THEN conn
    ELSE LET ends == [s \in Sides |-> IF n = IF s = "out" THEN conn.by ELSE conn.to
                                      THEN "GONE" ELSE conn.end[s]]
         IN  IF \A s \in Sides : ends[s] = "GONE" THEN Free
             ELSE [conn EXCEPT !.end = ends, !.silent = @ \/ silent,
                      !.addr = @ /\ ends["out"] # "GONE",
                      !.q = [s \in Sides |-> IF ends[s] = "GONE" THEN <<>> ELSE @[s]],
                      !.node_addr = [s \in Sides |-> @[s] /\ ends[s] # "GONE"],
                      !.ticking = [s \in Sides |-> @[s] /\ ends[s] # "GONE"]]

LEMMA AfterOK == ASSUME NEW n \in Nodes, NEW silent \in BOOLEAN, NEW k, ConnOK(k)
                 PROVE  LET new == After(n, silent, k)
                        IN  /\ ConnOK(new) /\ Forgets(k, new)
                            /\ InKnown(new) => new.to # n
                            /\ k.end["out"] = "THREAD" /\ k.by # n =>
                                 new.end["out"] = "THREAD" /\ new.by = k.by /\ new.via = k.via
<1> DEFINE ends == [s \in Sides |-> IF n = IF s = "out" THEN k.by ELSE k.to
                                    THEN "GONE" ELSE k.end[s]]
           new == After(n, silent, k)
           qs == [s \in Sides |-> IF ends[s] = "GONE" THEN <<>> ELSE k.q[s]]
           na == [s \in Sides |-> k.node_addr[s] /\ ends[s] # "GONE"]
           ti == [s \in Sides |-> k.ticking[s] /\ ends[s] # "GONE"]
<1>1. CASE n \notin {k.by, k.to}
  BY <1>1 DEF After, Forgets, InKnown
<1>2. CASE n \in {k.by, k.to} /\ \A s \in Sides : ends[s] = "GONE"
  <2>1. new = Free
    BY <1>2 DEF After
  <2>2. k.by # n => k.end["out"] = "GONE"
    BY <1>2 DEF Sides
  <2>3. ~OutKnown(Free)
    BY DEF OutKnown, Free, Sides
  <2> HIDE DEF new
  <2>4. ConnOK(new) /\ ~InKnown(new) /\ ~OutKnown(new)
    BY <2>1, <2>3, FreeOK
  <2> QED
    BY <2>2, <2>4 DEF Forgets, new
<1>3. CASE n \in {k.by, k.to} /\ ~(\A s \in Sides : ends[s] = "GONE")
  <2>1. new = [k EXCEPT !.end = ends, !.silent = @ \/ silent,
                        !.addr = @ /\ ends["out"] # "GONE", !.q = qs, !.node_addr = na,
                        !.ticking = ti]
    BY <1>3 DEF After
  <2>2. /\ k \in Conns /\ k.end \in [Sides -> Ends] /\ k.node_addr \in [Sides -> BOOLEAN]
        /\ k.ticking \in [Sides -> BOOLEAN] /\ k.addr \in BOOLEAN /\ k.silent \in BOOLEAN
        /\ k.q \in [Sides -> Seq(ForOut \cup ForIn)]
    BY DEF ConnOK, Conns
  <2>3. /\ ends["out"] = IF n = k.by THEN "GONE" ELSE k.end["out"]
        /\ ends["in"] = IF n = k.to THEN "GONE" ELSE k.end["in"]
        /\ ends \in [Sides -> Ends]
    BY <2>2 DEF Sides, Ends
  <2>4. <<>> \in Seq(ForOut) /\ <<>> \in Seq(ForIn) /\ Announced(<<>>)
    BY FreeOK DEF ConnOK, QueuesOK, Free, Sides
  <2>5. /\ qs \in [Sides -> Seq(ForOut \cup ForIn)]
        /\ qs["out"] = IF ends["out"] = "GONE" THEN <<>> ELSE k.q["out"]
        /\ qs["in"] = IF ends["in"] = "GONE" THEN <<>> ELSE k.q["in"]
    <3>1. <<>> \in Seq(ForOut \cup ForIn)
      OBVIOUS
    <3> HIDE DEF ends
    <3> QED
      BY <2>2, <3>1 DEF Sides
  <2>6. /\ na \in [Sides -> BOOLEAN] /\ ti \in [Sides -> BOOLEAN]
        /\ na["in"] = (k.node_addr["in"] /\ ends["in"] # "GONE")
    BY <2>2 DEF Sides
  <2> HIDE DEF ends, qs, na, ti, new
  <2>7. /\ new.end = ends /\ new.q = qs /\ new.node_addr = na
        /\ new.addr = (k.addr /\ ends["out"] # "GONE")
        /\ new.by = k.by /\ new.to = k.to /\ new.via = k.via
    BY <2>1, <2>2 DEF Conns
  <2>8. new \in Conns
    <3>1. (k.addr /\ ends["out"] # "GONE") \in BOOLEAN /\ (k.silent \/ silent) \in BOOLEAN
      BY <2>2
    <3> QED
      BY <2>1, <2>2, <2>3, <2>5, <2>6, <3>1 DEF Conns
  <2>9. EndsOK(new)
    BY <2>3, <2>6, <2>7 DEF ConnOK, EndsOK
  <2>10. QueuesOK(new)
    <3>1. /\ new.q["out"] \in Seq(ForOut) /\ new.q["in"] \in Seq(ForIn)
      BY <2>4, <2>5, <2>7 DEF ConnOK, QueuesOK
    <3>2. new.end["out"] = "THREAD" => new.q["in"] = <<>>
      BY <2>3, <2>5, <2>7 DEF ConnOK, QueuesOK
    <3>3. new.end["in"] = "NEWCONN" => /\ new.q["out"] = <<>>
                                       /\ new.q["in"] \in {<<>>, <<Msg("NODECONNREQ")>>}
                                       /\ new.end["out"] = "LINK" => new.q["in"] # <<>>
      BY <2>3, <2>5, <2>7 DEF ConnOK, QueuesOK
    <3>4. ~new.node_addr["in"] => Announced(new.q["in"])
      BY <2>3, <2>4, <2>5, <2>6, <2>7 DEF ConnOK, QueuesOK
    <3> QED
      BY <3>1, <3>2, <3>3, <3>4 DEF QueuesOK
  <2>11. Forgets(k, new) /\ (InKnown(new) => new.to # n)
    BY <2>3, <2>6, <2>7 DEF Forgets, InKnown, OutKnown
  <2>12. k.end["out"] = "THREAD" /\ k.by # n =>
           new.end["out"] = "THREAD" /\ new.by = k.by /\ new.via = k.via
    BY <2>3, <2>7
  <2> QED
    BY <2>8, <2>9, <2>10, <2>11, <2>12 DEF ConnOK, new
<1> QED
  BY <1>1, <1>2, <1>3

LEMMA CrashKeeps == ASSUME MeshInv, NEW n \in Nodes, Crash(n)
                    PROVE  MeshInv'
<1>1. PICK quiet \in BOOLEAN : conns' = [c \in Slots |-> After(n, quiet, conns[c])]
  BY DEF Crash, After
<1>2. UNCHANGED db
  BY DEF Crash
<1>3. /\ nodewait' \in [Nodes -> [Addrs -> WaitStates]]
      /\ \A m \in Nodes, a \in Addrs :
            nodewait'[m][a] \in IF m = n THEN {"none"}
                               ELSE IF nodewait[m][a] = "HANDSHAKE" THEN {"HANDSHAKE", "HUNG", "BROKEN"}
                               ELSE {nodewait[m][a]}
  <2>1. PICK silent \in BOOLEAN : nodewait' = [m \in Nodes |-> [a \in Addrs |->
                    IF m = n THEN "none"
                    ELSE IF nodewait[m][a] = "HANDSHAKE" /\ Host[a] = n
                    THEN IF silent THEN "HUNG" ELSE "BROKEN"
                    ELSE nodewait[m][a]]]
    BY DEF Crash
  <2>2. nodewait \in [Nodes -> [Addrs -> WaitStates]]
    BY DEF MeshInv, TablesOK
  <2> QED
    BY <2>1, <2>2 DEF WaitStates
<1>4. TablesOK'
  BY <1>2, <1>3 DEF MeshInv, TablesOK
<1>5. ASSUME NEW c \in Slots
      PROVE  /\ ConnOK(conns'[c]) /\ Forgets(conns[c], conns'[c])
             /\ InKnown(conns'[c]) => conns'[c].to # n
             /\ conns[c].end["out"] = "THREAD" /\ conns[c].by # n =>
                  /\ conns'[c].end["out"] = "THREAD"
                  /\ conns'[c].by = conns[c].by /\ conns'[c].via = conns[c].via
  <2>1. conns'[c] = After(n, quiet, conns[c]) /\ ConnOK(conns[c])
    BY <1>1 DEF MeshInv, ConnsOK
  <2> QED
    BY <2>1, AfterOK
<1>6. ConnsOK'
  BY <1>1, <1>5 DEF ConnsOK
<1>7. PairsOK'
  BY <1>5, AllForget DEF MeshInv
<1>8. RowsOK'
  <2> SUFFICES ASSUME NEW c \in Slots, InKnown(conns'[c])
               PROVE  RowOK(db[conns'[c].to], conns'[c].by, nodewait'[conns'[c].to][conns'[c].by])
    BY <1>2 DEF RowsOK
  <2>1. /\ InKnown(conns[c]) /\ conns'[c].by = conns[c].by /\ conns'[c].to = conns[c].to
        /\ conns[c].to # n
    BY <1>5 DEF Forgets
  <2>2. nodewait'[conns[c].to][conns[c].by] = "none" <=> nodewait[conns[c].to][conns[c].by] = "none"
    BY <1>3, <2>1, KnownNodes
  <2> QED
    BY <2>1, <2>2 DEF MeshInv, RowsOK, RowOK
<1>9. ThreadsOK'
  <2> SUFFICES ASSUME NEW m \in Nodes, NEW a \in Addrs, nodewait'[m][a] = "CONNECTED"
               PROVE  \E c \in Slots : IsThreadOf(conns'[c], m, a)
    BY DEF ThreadsOK
  <2>1. m # n /\ nodewait[m][a] = "CONNECTED"
    BY <1>3
  <2>2. PICK c \in Slots : IsThreadOf(conns[c], m, a)
    BY <2>1 DEF MeshInv, ThreadsOK
  <2> QED
    BY <1>5, <2>1, <2>2 DEF IsThreadOf
<1> QED
  BY <1>4, <1>6, <1>7, <1>8, <1>9 DEF MeshInv


-----------------------------------------------------------------------------
(* The invariant holds, and what follows from it.                          *)

LEMMA InitOK == Init => MeshInv
<1> SUFFICES ASSUME Init PROVE MeshInv
  OBVIOUS
<1>1. PICK known \in Known : db = [n \in Nodes |-> [a \in known[n] |-> 1]]
  BY DEF Init
<1>2. \A n \in Nodes : known[n] \subseteq Addrs
  BY NodeMeshAssumption
<1>3. nodewait = [n \in Nodes |-> [a \in Addrs |-> "none"]] /\ conns = [c \in Slots |-> Free]
  BY DEF Init
<1>4. TablesOK
  BY <1>1, <1>2, <1>3 DEF TablesOK, WaitStates
<1>5. ConnsOK
  BY <1>3, FreeOK DEF ConnsOK
<1>6. \A c \in Slots : ~InKnown(conns[c])
  BY <1>3, FreeOK
<1>7. PairsOK /\ RowsOK
  BY <1>6 DEF PairsOK, RowsOK
<1>8. ThreadsOK
  BY <1>3 DEF ThreadsOK
<1> QED
  BY <1>4, <1>5, <1>7, <1>8 DEF MeshInv

LEMMA MeshInvSame == MeshInv /\ UNCHANGED <<db, nodewait, conns>> => MeshInv'
BY DEF MeshInv, TablesOK, ConnsOK, PairsOK, RowsOK, ThreadsOK

LEMMA NextKeeps == MeshInv /\ [Next]_vars => MeshInv'
<1> SUFFICES ASSUME MeshInv, [Next]_vars PROVE MeshInv'
  OBVIOUS
<1>1. CASE UNCHANGED vars
  BY <1>1, MeshInvSame DEF vars
<1>2. ASSUME NEW n \in Nodes, process_timeouts(n) \/ Crash(n) \/ Restart(n) PROVE MeshInv'
  <2>1. CASE Restart(n)
    BY <2>1, MeshInvSame DEF Restart
  <2> QED
    BY <1>2, <2>1, RefreshKeeps, CrashKeeps
<1>3. ASSUME NEW n \in Nodes, NEW a \in Addrs,
             \/ Thread(n, a) \/ process_nodewait(n, a)
             \/ ThreadLost(n, a) \/ SSL_connect_unacknowledged(n, a)
      PROVE  MeshInv'
  BY <1>3, ThreadKeeps, ResolvedKeeps, TakeOverKeeps, FailedKeeps DEF process_nodewait
<1>4. ASSUME NEW c \in Slots, procmsg_NODECONNREQ(c) \/ newconn_close(c) PROVE MeshInv'
  <2>1. CASE newconn_close(c)
    <3>1. conns[c].end["in"] # "THREAD" /\ nodelink_list_delete(c, "in")
          /\ UNCHANGED <<db, nodewait>> /\ "in" \in Sides
      BY <2>1 DEF newconn_close, Sides
    <3> QED
      BY <3>1, DeleteKeeps
  <2> QED
    BY <1>4, <2>1, ConnReqKeeps
<1>5. ASSUME NEW c \in Slots, NEW s \in Sides,
             process_n2n_EOF(c, s) \/ process_n2n_error(c, s) \/ NoReply(c, s)
      PROVE  MeshInv'
  <2>1. conns[c].end[s] # "THREAD" /\ nodelink_list_delete(c, s) /\ UNCHANGED <<db, nodewait>>
    BY <1>5 DEF process_n2n_EOF, process_n2n_error, NoReply, IsLink
  <2> QED
    BY <2>1, DeleteKeeps
<1>6. ASSUME NEW c \in Slots, NEW s \in Sides,
             process_n2n_read(c, s) \/ process_n2n_error(c, s) \/ process_timeouts_n2n(c, s)
      PROVE  MeshInv'
  BY <1>5, <1>6, NodeRespKeeps, NewNodeKeeps, ListReqKeeps, NodeListKeeps, PingReqKeeps,
     PingRepKeeps, PingKeeps DEF process_n2n_read, process_timeouts_n2n
<1> QED
  BY <1>1, <1>2, <1>3, <1>4, <1>6 DEF Next

LEMMA MeshInvariant == Spec => []MeshInv
<1> QED
  BY InitOK, NextKeeps, PTL DEF Spec

\* However connections, announcements, broken links, crashes and restarts of any number of
\* nodes interleave, procmsg_NEWNODE leaves no two nodes with two links whose addresses
\* they know, and no node with one to itself.
THEOREM OneLinkAlways == Spec => []OneLinkPerPair
<1>1. ASSUME MeshInv PROVE OneLinkPerPair
  <2> SUFFICES ASSUME NEW c \in Slots, NEW d \in Slots, Established(c), Established(d),
                      {conns[c].by, conns[c].to} = {conns[d].by, conns[d].to},
                      conns[c].addr, conns[d].addr
               PROVE  c = d /\ conns[c].by # conns[c].to
    BY DEF OneLinkPerPair
  <2>1. /\ InKnown(conns[c]) /\ OutKnown(conns[c])
        /\ InKnown(conns[d]) /\ OutKnown(conns[d])
    BY DEF Established, IsLink, InKnown, OutKnown
  <2>2. \/ conns[c].by = conns[d].by /\ conns[c].to = conns[d].to
        \/ conns[c].by = conns[d].to /\ conns[c].to = conns[d].by
    OBVIOUS
  <2> QED
    BY <1>1, <2>1, <2>2 DEF MeshInv, PairsOK
<1> QED
  BY <1>1, MeshInvariant, PTL

\* A node keeps in its database the address of every node that has announced itself on a
\* link it still has: PICA_nodeaddr_cleanold never deletes it, since at most the attempt
\* that was under way when the link came can have counted against it.
THEOREM PeersKnownAlways == Spec => []KnowsItsPeers
<1>1. ASSUME MeshInv PROVE KnowsItsPeers
  BY <1>1 DEF MeshInv, RowsOK, RowOK, KnowsItsPeers, InKnown, IsLink
<1> QED
  BY <1>1, MeshInvariant, PTL

\* procmsg_NODELISTREQ never dereferences a null node_addr: whatever is cut off, the list
\* is asked for behind the announcement, and a refused announcement closes the link.
THEOREM RequesterKnownAlways == Spec => []RequesterKnown
<1>1. ASSUME MeshInv PROVE RequesterKnown
  <2> SUFFICES ASSUME NEW c \in Slots, NEW s \in Sides, Reads(c, s, "NODELISTREQ")
               PROVE  conns[c].node_addr[s]
    BY DEF RequesterKnown
  <2> DEFINE q == conns[c].q["in"]
  <2>1. /\ ConnOK(conns[c]) /\ conns[c].q[s] # <<>> /\ Head(conns[c].q[s]) \in For(s)
        /\ Head(conns[c].q[s]).m = "NODELISTREQ"
    BY <1>1, ReadTyped
  <2>2. s = "in"
    BY <2>1 DEF For, ForOut, Sides
  <2>3. q \in Seq(ForIn) /\ (~conns[c].node_addr["in"] => Announced(q))
    BY <2>1 DEF ConnOK, QueuesOK
  <2>4. 1 \in DOMAIN q /\ q[1].m = "NODELISTREQ" /\ DOMAIN q \subseteq Nat \ {0}
    BY <2>1, <2>2, <2>3
  <2>5. ~Announced(q)
    BY <2>4 DEF Announced
  <2> QED
    BY <2>2, <2>3, <2>5
<1> QED
  BY <1>1, MeshInvariant, PTL
=============================================================================
