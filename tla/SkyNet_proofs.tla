---------------------------- MODULE SkyNet_proofs ----------------------------
(****************************************************************************)
(* The client application, for every set of nodes and every bound: the       *)
(* pointers SkyNet keeps are alive, it keeps trying to log in, no message    *)
(* overtakes one that waits, and no more messages are marked as delivered    *)
(* than the peer has received.                                               *)
(****************************************************************************)
EXTENDS SkyNet, SequenceTheorems, FiniteSetTheorems, WellFoundedInduction, TLAPS

-----------------------------------------------------------------------------
(* The operators the model is built from.                                    *)

\* A set of naturals that is not empty has a least element.
LEMMA LeastNat ==
    ASSUME NEW S, S \subseteq Nat, S # {}
    PROVE  \E x \in S : \A y \in S : x <= y
<1>1. PICK x \in S : \A y \in S : ~(<<y, x>> \in OpToRel(<, Nat))
  BY NatLessThanWellFounded, WFMin, Zenon
<1>2. \A y \in S : ~(y < x)
  BY <1>1 DEF OpToRel
<1> QED BY <1>2

\* A function on 1..k is a sequence.
LEMMA FunctionIsSeq ==
    ASSUME NEW S, NEW k \in Nat, NEW f \in [1 .. k -> S]
    PROVE  f \in Seq(S) /\ Len(f) = k
OBVIOUS

\* Every set of numbers up to n can be listed in order.
LEMMA Listing ==
    ASSUME NEW n \in Nat, NEW S, S \subseteq 1 .. n
    PROVE  \E q \in Seq(S) : Len(q) <= n /\ InOrder(q, S)
<1> DEFINE Bad == {m \in Nat : \E T \in SUBSET (1 .. m) :
                     ~\E q \in Seq(T) : Len(q) <= m /\ InOrder(q, T)}
<1> SUFFICES ASSUME Bad # {}
             PROVE  FALSE
  OBVIOUS
<1>1. PICK m \in Bad : \A k \in Bad : m <= k
  BY LeastNat
<1>2. PICK T \in SUBSET (1 .. m) : ~\E q \in Seq(T) : Len(q) <= m /\ InOrder(q, T)
  OBVIOUS
<1>3. m # 0
  <2> SUFFICES ASSUME m = 0
               PROVE  FALSE
    OBVIOUS
  <2>1. T = {}
    OBVIOUS
  <2>2. <<>> \in Seq(T) /\ Len(<<>>) = 0 /\ DOMAIN <<>> = {}
    OBVIOUS
  <2>3. InOrder(<<>>, T)
    BY <2>1, <2>2 DEF InOrder, ToSet
  <2>4. Len(<<>>) <= m
    BY <2>2
  <2> QED BY <1>2, <2>2, <2>3, <2>4, Zenon
<1>4. m - 1 \in Nat /\ m - 1 \notin Bad
  <2>1. m \in Nat /\ ~(m <= m - 1) /\ m - 1 \in Nat
    BY <1>3
  <2> HIDE DEF Bad
  <2> QED BY <1>1, <2>1
<1>5. T \ {m} \in SUBSET (1 .. m - 1)
  BY <1>3
<1>6. PICK q \in Seq(T \ {m}) : Len(q) <= m - 1 /\ InOrder(q, T \ {m})
  BY <1>4, <1>5
<1>7. q \in Seq(T) /\ Len(q) \in Nat /\ DOMAIN q = 1 .. Len(q)
  BY SeqMonotonic
<1>8. CASE m \notin T
  <2>1. T \ {m} = T
    BY <1>8
  <2>2. InOrder(q, T)
    BY <1>6, <2>1, Zenon
  <2>3. Len(q) <= m
    BY <1>6, <1>7
  <2> QED BY <1>2, <1>7, <2>2, <2>3, Zenon
<1>9. CASE m \in T
  <2> DEFINE r == Append(q, m)
  <2>1. /\ r \in Seq(T) /\ Len(r) = Len(q) + 1
        /\ \A i \in 1 .. Len(q) : r[i] = q[i]
        /\ r[Len(q) + 1] = m
    BY <1>7, <1>9, AppendProperties
  <2>2. DOMAIN r = 1 .. Len(q) + 1
    BY <1>7, <2>1
  <2> HIDE DEF r
  <2>3. \A i \in 1 .. Len(q) : q[i] \in T \ {m}
    BY <1>6, <1>7, ElementOfSeq
  <2>4. \A x \in T \ {m} : \E i \in 1 .. Len(q) : q[i] = x
    BY <1>6, <1>7 DEF InOrder, ToSet
  <2>5. \A i \in DOMAIN r : r[i] \in T
    BY <1>7, <1>9, <2>1, <2>2, <2>3
  <2>6. \A x \in T : \E i \in DOMAIN r : r[i] = x
    <3> SUFFICES ASSUME NEW x \in T
                 PROVE  \E i \in DOMAIN r : r[i] = x
      OBVIOUS
    <3>1. CASE x = m
      BY <1>7, <2>1, <2>2, <3>1
    <3>2. CASE x # m
      BY <1>7, <2>1, <2>2, <2>4, <3>2
    <3> QED BY <3>1, <3>2
  <2>7. ToSet(r) = T
    BY <2>5, <2>6 DEF ToSet
  <2>8. ASSUME NEW i \in DOMAIN r, NEW j \in DOMAIN r, i < j
        PROVE  r[i] < r[j]
    <3>1. i \in 1 .. Len(q) /\ r[i] = q[i] /\ q[i] \in T \ {m}
      BY <1>7, <2>1, <2>2, <2>3, <2>8
    <3>2. CASE j = Len(q) + 1
      <4>1. q[i] \in 1 .. m /\ q[i] # m
        BY <3>1
      <4> QED BY <2>1, <3>1, <3>2, <4>1
    <3>3. CASE j # Len(q) + 1
      <4>1. j \in 1 .. Len(q) /\ r[j] = q[j]
        BY <1>7, <2>1, <2>2, <3>3
      <4> QED BY <1>6, <1>7, <2>8, <3>1, <4>1 DEF InOrder
    <3> QED BY <3>2, <3>3
  <2>9. InOrder(r, T)
    BY <2>7, <2>8 DEF InOrder
  <2> QED BY <1>2, <1>6, <1>7, <2>1, <2>9
<1> QED BY <1>8, <1>9, FunctionIsSeq

\* GetUndeliveredMessages returns a list of messages of the history.
LEMMA UndeliveredType ==
    ASSUME hist \in Seq(BOOLEAN), Len(hist) <= MaxTexts
    PROVE  Undelivered \in Seq(1 .. MaxTexts)
<1> DEFINE open == {n \in DOMAIN hist : ~hist[n]}
<1>0. Len(hist) \in Nat /\ DOMAIN hist = 1 .. Len(hist) /\ MaxTexts \in Nat
  BY LenProperties, SkyNetAssumption
<1>1. open \subseteq 1 .. Len(hist)
  BY <1>0
<1>2. PICK q \in Seq(open) : Len(q) <= Len(hist) /\ InOrder(q, open)
  <2> HIDE DEF open
  <2> QED BY <1>0, <1>1, Listing, Zenon
<1>3. Len(q) \in 0 .. Len(hist) /\ q \in [1 .. Len(q) -> open]
  BY <1>0, <1>2
<1>4. q \in BoundedSeq(open, Len(hist))
  BY <1>3 DEF BoundedSeq, SeqOf
<1>5. Undelivered \in BoundedSeq(open, Len(hist))
  BY <1>2, <1>4 DEF Undelivered
<1>6. PICK k \in 0 .. Len(hist) : Undelivered \in [1 .. k -> open]
  BY <1>5 DEF BoundedSeq, SeqOf
<1>7. \A x \in open : x \in 1 .. MaxTexts
  BY <1>0
<1>8. Undelivered \in [1 .. k -> 1 .. MaxTexts]
  BY <1>6, <1>7
<1>9. k \in Nat
  BY <1>0
<1> QED BY <1>8, <1>9, FunctionIsSeq

\* flush_queues stops at a message that is too long, or leaves nothing.
LEMMA FlushedHead ==
    ASSUME NEW queue \in Seq(1 .. MaxTexts)
    PROVE  /\ Sendable(queue) \in 0 .. Len(queue)
           /\ Flushed(queue) \in Seq(1 .. MaxTexts)
           /\ Flushed(queue) # <<>> => Flushed(queue)[1] \in TooLong
<1> DEFINE bad == {i \in DOMAIN queue : queue[i] \in TooLong}
<1>1. Len(queue) \in Nat /\ DOMAIN queue = 1 .. Len(queue)
  OBVIOUS
<1>2. bad \subseteq Nat /\ bad \subseteq 1 .. Len(queue)
  BY <1>1
<1>3. CASE bad = {}
  <2>1. Sendable(queue) = Len(queue)
    BY <1>3 DEF Sendable
  <2>2. SubSeq(queue, Len(queue) + 1, Len(queue)) = <<>>
    BY <1>1, SubSeqEmpty
  <2>3. Flushed(queue) = <<>>
    BY <2>1, <2>2 DEF Flushed
  <2> QED BY <1>1, <2>1, <2>3
<1>4. CASE bad # {}
  <2> DEFINE first == CHOOSE i \in bad : \A j \in bad : i <= j
  <2>1. first \in bad
    <3> HIDE DEF bad
    <3>1. \E i \in bad : \A j \in bad : i <= j
      BY <1>2, <1>4, LeastNat
    <3> QED BY <3>1
  <2>2. Sendable(queue) = first - 1
    BY <1>4 DEF Sendable
  <2> HIDE DEF first
  <2>3. first \in 1 .. Len(queue) /\ queue[first] \in TooLong
    BY <1>1, <2>1
  <2>4. first - 1 \in 0 .. Len(queue) /\ (first - 1) + 1 = first
    BY <1>1, <2>3
  <2>5. Flushed(queue) = SubSeq(queue, first, Len(queue))
    BY <2>2, <2>4 DEF Flushed
  <2>6. /\ SubSeq(queue, first, Len(queue)) \in Seq(1 .. MaxTexts)
        /\ SubSeq(queue, first, Len(queue))[1] = queue[first]
    <3>0. \A i \in first .. Len(queue) : i \in 1 .. Len(queue)
      BY <1>1, <2>3
    <3>1. \A i \in first .. Len(queue) : queue[i] \in 1 .. MaxTexts
      BY <3>0, ElementOfSeq, Zenon
    <3>2. first \in Int /\ Len(queue) \in Int /\ 1 \in 1 .. Len(queue) - first + 1
      BY <1>1, <2>3
    <3>3. SubSeq(queue, first, Len(queue))[1] = queue[first + 1 - 1]
      BY <1>1, <2>3, <3>2
    <3>4. SubSeq(queue, first, Len(queue)) \in Seq(1 .. MaxTexts)
      BY <3>1, <3>2, SubSeqProperties, Zenon
    <3>5. first + 1 - 1 = first
      BY <3>2
    <3> QED BY <3>3, <3>4, <3>5
  <2> QED BY <2>2, <2>3, <2>4, <2>5, <2>6
<1> QED BY <1>3, <1>4

\* The stages of a login that is not complete.
LoginStages ==
    {"CONNECTING", "WAITINGREP", "WAITINGTLS"}

\* The stages are those of the logins and the last one.
LEMMA AllStages == {Stages[i] : i \in DOMAIN Stages} = LoginStages \cup {"CONNECTED"}
<1>1. DOMAIN Stages = 1 .. 4
  BY DEF Stages
<1>2. /\ Stages[1] = "CONNECTING" /\ Stages[2] = "WAITINGREP" /\ Stages[3] = "WAITINGTLS"
      /\ Stages[4] = "CONNECTED"
  BY DEF Stages
<1>3. 1 .. 4 = {1, 2, 3, 4}
  OBVIOUS
<1> QED BY <1>1, <1>2, <1>3 DEF LoginStages

\* A login that is not in its last stage goes on to another stage of a login.
LEMMA NextLoginStage ==
    ASSUME NEW state \in LoginStages \ {"WAITINGTLS"}
    PROVE  NextStage(state) \in LoginStages
<1>1. DOMAIN Stages = 1 .. 4
  BY DEF Stages
<1>2. /\ Stages[1] = "CONNECTING" /\ Stages[2] = "WAITINGREP" /\ Stages[3] = "WAITINGTLS"
      /\ Stages[4] = "CONNECTED"
  BY DEF Stages
<1> DEFINE i == CHOOSE k \in DOMAIN Stages : Stages[k] = state
<1>3. \E k \in DOMAIN Stages : Stages[k] = state
  BY <1>1, <1>2 DEF LoginStages
<1>4. i \in 1 .. 4 /\ Stages[i] = state
  BY <1>1, <1>3
<1>5. NextStage(state) = Stages[i + 1]
  BY DEF NextStage
<1> HIDE DEF i
<1>6. i \in 1 .. 2
  BY <1>2, <1>4 DEF LoginStages
<1> QED BY <1>2, <1>5, <1>6 DEF LoginStages

-----------------------------------------------------------------------------
(* The control connections.                                                  *)

\* A c2n that connects is in a stage of its login and belongs to a Join that was made;
\* active_nodelink is connected, unless it is the one a failed login left behind and it
\* was freed in the rest of that pass; the one that is served is connected; and while
\* that pass lasts no login is under way.
Logins ==
    /\ \A l \in sky.connecting_nodes : c2n[l] \in LoginStages /\ l[1] <= sky.joins
    /\ sky.active_nodelink # None =>
          /\ \/ c2n[sky.active_nodelink] = "CONNECTED"
             \/ c2n[sky.active_nodelink] = "freed" /\ sky.active_nodelink = sky.left
          /\ sky.active_nodelink[1] <= sky.joins
    /\ Serving => sky.active_nodelink # None /\ c2n[sky.active_nodelink] = "CONNECTED"
    /\ sky.turn => /\ ~sky.self_aware /\ sky.connecting_nodes = {}
                   /\ sky.left = sky.active_nodelink

LoginInv ==
    /\ TypeOK
    /\ Len(hist) <= MaxTexts
    /\ Logins
    /\ KeepsTrying

\* What TypeOK says of the single fields.
LEMMA FieldTypes ==
    ASSUME TypeOK
    PROVE  /\ sky.alive \in BOOLEAN /\ sky.policy \in Policies /\ sky.joins \in 0 .. MaxJoins
           /\ sky.self_aware \in BOOLEAN /\ sky.active_nodelink \in C2n \cup {None}
           /\ sky.connecting_nodes \in SUBSET C2n /\ sky.timer \in BOOLEAN
           /\ sky.stranded \in BOOLEAN /\ sky.offline \in BOOLEAN /\ sky.event \in BOOLEAN
           /\ sky.left \in C2n \cup {None} /\ sky.turn \in BOOLEAN
           /\ sky.msgqueue \in Seq(1 .. MaxTexts)
BY DEF TypeOK, Fields

\* An element of C2n is a pair of a number and a node.
LEMMA C2nNumber == \A l \in C2n : l[1] \in 1 .. MaxJoins
BY DEF C2n

\* A c2n that connects is not the active one, and no pass is left to be ended.
LEMMA ServedLogin ==
    ASSUME LoginInv, NEW l \in C2n, l \in sky.connecting_nodes
    PROVE  c2n[l] \in LoginStages /\ l # sky.active_nodelink /\ ~sky.turn
BY SkyNetAssumption DEF LoginInv, Logins, LoginStages

\* Steps that touch no c2n and only the message queue, the event, the end of a pass or
\* the death of SkyNet.
LEMMA QuietLogins ==
    ASSUME LoginInv, c2n' = c2n, hist' = hist, sky' \in Fields,
           sky'.joins = sky.joins, sky'.self_aware = sky.self_aware,
           sky'.active_nodelink = sky.active_nodelink,
           sky'.connecting_nodes = sky.connecting_nodes, sky'.timer = sky.timer,
           sky'.stranded = sky.stranded, sky'.offline = sky.offline,
           sky'.left = sky.left, sky'.turn => sky.turn
    PROVE  LoginInv'
BY DEF LoginInv, TypeOK, Logins, KeepsTrying, Serving

\* Steps that leave SkyNet's fields and the history alone.
LEMMA UnchangedLogins ==
    ASSUME LoginInv, c2n' = c2n, hist' = hist, sky' = sky
    PROVE  LoginInv'
BY DEF LoginInv, TypeOK, Logins, KeepsTrying, Serving

\* A stage of a login.
LEMMA StageLogins ==
    ASSUME LoginInv, NEW l \in C2n, process_c2n(l)
    PROVE  LoginInv'
<1>1. /\ l \in sky.connecting_nodes /\ c2n[l] \in LoginStages /\ l # sky.active_nodelink
      /\ ~sky.turn
  BY ServedLogin DEF process_c2n
<1>2. NextStage(c2n[l]) \in LoginStages
  BY <1>1, NextLoginStage DEF process_c2n
<1>3. c2n' = [c2n EXCEPT ![l] = NextStage(c2n[l])] /\ sky' = sky /\ hist' = hist
  BY DEF process_c2n
<1> QED BY <1>1, <1>2, <1>3, AllStages, FieldTypes
           DEF LoginInv, TypeOK, Logins, KeepsTrying, Serving

\* The fields nodelink_activated leaves.
LEMMA ActivatedFields ==
    ASSUME LoginInv, NEW l \in C2n
    PROVE  LET s == nodelink_activated(sky, l)
           IN  /\ s \in Fields
               /\ s.alive = sky.alive /\ s.policy = sky.policy /\ s.joins = sky.joins
               /\ s.timer = sky.timer /\ s.stranded = sky.stranded
               /\ s.self_aware
               /\ s.connecting_nodes = sky.connecting_nodes \ {l}
               /\ s.active_nodelink = IF sky.self_aware THEN sky.active_nodelink ELSE l
               /\ s.offline = (sky.self_aware /\ sky.offline)
               /\ s.left = IF sky.self_aware THEN sky.left ELSE None
               /\ s.turn = sky.turn
               /\ sky.self_aware => s.msgqueue = sky.msgqueue
<1> DEFINE t == [sky EXCEPT !.connecting_nodes = @ \ {l}]
<1>1. sky \in Fields /\ sky.connecting_nodes \in SUBSET C2n
  BY FieldTypes DEF LoginInv, TypeOK
<1>2. t \in Fields
  BY <1>1 DEF Fields
<1>3. /\ t.alive = sky.alive /\ t.policy = sky.policy /\ t.joins = sky.joins
      /\ t.timer = sky.timer /\ t.stranded = sky.stranded /\ t.offline = sky.offline
      /\ t.self_aware = sky.self_aware /\ t.active_nodelink = sky.active_nodelink
      /\ t.msgqueue = sky.msgqueue /\ t.left = sky.left /\ t.turn = sky.turn
      /\ t.connecting_nodes = sky.connecting_nodes \ {l}
  BY <1>1 DEF Fields
<1>4. CASE sky.self_aware
  <2>1. nodelink_activated(sky, l) = t
    BY <1>4 DEF nodelink_activated
  <2>2. sky.offline = (sky.self_aware /\ sky.offline)
    BY <1>4, FieldTypes DEF LoginInv
  <2> HIDE DEF t
  <2> QED BY <1>2, <1>3, <1>4, <2>1, <2>2
<1>5. CASE ~sky.self_aware
  <2> DEFINE q == IF t.msgqueue = <<>> THEN Undelivered ELSE t.msgqueue
  <2>1. q \in Seq(1 .. MaxTexts)
    BY <1>3, UndeliveredType, FieldTypes DEF LoginInv, TypeOK
  <2>2. nodelink_activated(sky, l) =
          [t EXCEPT !.self_aware = TRUE, !.active_nodelink = l, !.offline = FALSE,
                    !.left = None, !.msgqueue = q]
    BY <1>5 DEF nodelink_activated
  <2> HIDE DEF t, q
  <2>3. nodelink_activated(sky, l) \in Fields
    BY <1>2, <2>1, <2>2 DEF Fields
  <2> QED BY <1>2, <1>3, <1>5, <2>2, <2>3 DEF Fields
<1> QED BY <1>4, <1>5, FieldTypes DEF LoginInv

\* The fields nodelink_closed leaves when the active c2n of a self-aware client has gone.
LEMMA ClosedFields ==
    ASSUME NEW s \in Fields, s.self_aware, s.active_nodelink \in C2n
    PROVE  LET t == nodelink_closed(s, s.active_nodelink)
           IN  /\ t \in Fields
               /\ t.alive = s.alive /\ t.joins = s.joins /\ t.stranded = s.stranded
               /\ t.connecting_nodes = s.connecting_nodes
               /\ t.offline = s.offline /\ t.msgqueue = s.msgqueue
               /\ t.left = s.left /\ t.turn = s.turn
               /\ ~t.self_aware /\ t.active_nodelink = None /\ t.timer
BY DEF nodelink_closed, Fields

\* The last stage of a login.
LEMMA ActivateLogins ==
    ASSUME LoginInv, NEW l \in C2n, c2n_stage6_nodelistrequest(l)
    PROVE  LoginInv'
<1> DEFINE s == nodelink_activated(sky, l)
<1>1. /\ l \in sky.connecting_nodes /\ c2n[l] \in LoginStages /\ l # sky.active_nodelink
      /\ l[1] <= sky.joins /\ ~sky.turn
  BY ServedLogin DEF c2n_stage6_nodelistrequest, LoginInv, Logins
<1>2. /\ sky' = s /\ hist' = hist
      /\ c2n' = [c2n EXCEPT ![l] = IF sky.self_aware THEN "freed" ELSE "CONNECTED"]
  BY DEF c2n_stage6_nodelistrequest
<1>3. /\ s \in Fields /\ s.joins = sky.joins /\ s.self_aware
      /\ s.timer = sky.timer /\ s.stranded = sky.stranded
      /\ s.connecting_nodes = sky.connecting_nodes \ {l}
      /\ s.active_nodelink = IF sky.self_aware THEN sky.active_nodelink ELSE l
      /\ s.left = (IF sky.self_aware THEN sky.left ELSE None) /\ s.turn = sky.turn
  BY ActivatedFields
<1> HIDE DEF s
<1>4. c2n' \in [C2n -> {"unused", "freed"} \cup {Stages[i] : i \in DOMAIN Stages}]
  BY <1>2, AllStages DEF LoginInv, TypeOK
<1>5. TypeOK' /\ (Len(hist) <= MaxTexts)'
  BY <1>2, <1>3, <1>4 DEF LoginInv, TypeOK
<1>6. \A k \in C2n \ {l} : c2n'[k] = c2n[k]
  BY <1>2 DEF LoginInv, TypeOK
<1>7. ~sky.self_aware => c2n'[l] = "CONNECTED"
  BY <1>2 DEF LoginInv, TypeOK
<1>8. sky.active_nodelink \in C2n \cup {None} /\ sky.connecting_nodes \subseteq C2n
  BY FieldTypes DEF LoginInv
<1>9. Logins'
  BY <1>1, <1>2, <1>3, <1>6, <1>7, <1>8, SkyNetAssumption DEF LoginInv, Logins, Serving
<1> QED BY <1>2, <1>3, <1>5, <1>9 DEF LoginInv, KeepsTrying

\* The last stage of a login whose MULTILOGIN message cannot be made.
LEMMA MultiloginLogins ==
    ASSUME LoginInv, NEW l \in C2n, c2n_optstage7_multilogin(l)
    PROVE  LoginInv'
<1> DEFINE s == nodelink_activated(sky, l)
<1>1. l \in sky.connecting_nodes /\ l # sky.active_nodelink /\ ~sky.turn
  BY ServedLogin DEF c2n_optstage7_multilogin, LoginInv, Logins
<1>2. /\ sky' = IF sky.self_aware THEN [s EXCEPT !.alive = FALSE] ELSE nodelink_closed(s, l)
      /\ hist' = hist
      /\ c2n' = [c2n EXCEPT ![l] = "freed"]
  BY DEF c2n_optstage7_multilogin
<1>3. /\ s \in Fields /\ s.joins = sky.joins /\ s.self_aware
      /\ s.timer = sky.timer /\ s.stranded = sky.stranded
      /\ s.connecting_nodes = sky.connecting_nodes \ {l}
      /\ s.active_nodelink = IF sky.self_aware THEN sky.active_nodelink ELSE l
      /\ s.left = (IF sky.self_aware THEN sky.left ELSE None) /\ s.turn = sky.turn
  BY ActivatedFields
<1> HIDE DEF s
<1>4. c2n' \in [C2n -> {"unused", "freed"} \cup {Stages[i] : i \in DOMAIN Stages}]
  BY <1>2 DEF LoginInv, TypeOK
<1>5. \A k \in C2n \ {l} : c2n'[k] = c2n[k]
  BY <1>2 DEF LoginInv, TypeOK
<1>6. sky.active_nodelink \in C2n \cup {None} /\ sky.connecting_nodes \subseteq C2n
  BY FieldTypes DEF LoginInv
<1>7. CASE sky.self_aware
  <2>1. sky' = [s EXCEPT !.alive = FALSE]
    BY <1>2, <1>7
  <2>2. /\ sky' \in Fields /\ sky'.joins = sky.joins /\ sky'.self_aware
        /\ sky'.connecting_nodes = sky.connecting_nodes \ {l}
        /\ sky'.active_nodelink = sky.active_nodelink /\ sky'.left = sky.left
        /\ sky'.turn = sky.turn
    BY <1>3, <1>7, <2>1 DEF Fields
  <2>3. TypeOK' /\ (Len(hist) <= MaxTexts)'
    BY <1>2, <1>4, <2>2 DEF LoginInv, TypeOK
  <2>4. Logins'
    BY <1>1, <1>5, <1>6, <1>7, <2>2 DEF LoginInv, Logins, Serving
  <2> QED BY <2>2, <2>3, <2>4 DEF LoginInv, KeepsTrying
<1>8. CASE ~sky.self_aware
  <2>1. s.active_nodelink = l
    BY <1>3, <1>8
  <2>2. sky' = nodelink_closed(s, s.active_nodelink)
    BY <1>2, <1>8, <2>1
  <2>3. /\ sky' \in Fields /\ sky'.joins = sky.joins
        /\ sky'.connecting_nodes = sky.connecting_nodes \ {l}
        /\ ~sky'.self_aware /\ sky'.active_nodelink = None /\ sky'.timer /\ ~sky'.turn
    BY <1>1, <1>3, <2>1, <2>2, ClosedFields
  <2>4. TypeOK' /\ (Len(hist) <= MaxTexts)'
    BY <1>2, <1>4, <2>3 DEF LoginInv, TypeOK
  <2>5. Logins'
    BY <1>1, <1>5, <1>6, <2>3 DEF LoginInv, Logins, Serving
  <2> QED BY <2>3, <2>4, <2>5 DEF LoginInv, KeepsTrying
<1> QED BY <1>7, <1>8

\* A login that fails.
LEMMA FailedLogins ==
    ASSUME LoginInv, NEW l \in C2n, c2n_failed(l)
    PROVE  LoginInv'
<1>1. l \in sky.connecting_nodes /\ l # sky.active_nodelink /\ ~sky.turn
  BY ServedLogin DEF c2n_failed
<1>2. sky' = nodelink_failed(sky, l) /\ hist' = hist /\ c2n' = [c2n EXCEPT ![l] = "freed"]
  BY DEF c2n_failed
<1>3. /\ sky \in Fields /\ sky.active_nodelink \in C2n \cup {None}
      /\ sky.connecting_nodes \subseteq C2n /\ sky.self_aware \in BOOLEAN
      /\ sky.left \in C2n \cup {None}
  BY FieldTypes DEF LoginInv, TypeOK
<1>4. /\ sky' \in Fields /\ sky'.joins = sky.joins
      /\ sky'.connecting_nodes = sky.connecting_nodes \ {l}
      /\ sky'.active_nodelink = sky.active_nodelink
      /\ sky'.self_aware => sky.self_aware
      /\ sky'.connecting_nodes # {} \/ sky'.timer
      /\ \/ sky'.left = sky.left /\ ~sky'.turn
         \/ /\ sky.self_aware /\ ~sky'.self_aware /\ sky'.left = sky.active_nodelink
            /\ sky'.connecting_nodes = {}
  <2> DEFINE t == [sky EXCEPT !.connecting_nodes = @ \ {l}]
  <2>1. t \in Fields
    BY <1>3 DEF Fields
  <2>2. /\ t.joins = sky.joins /\ t.connecting_nodes = sky.connecting_nodes \ {l}
        /\ t.active_nodelink = sky.active_nodelink /\ t.self_aware = sky.self_aware
        /\ t.left = sky.left /\ t.turn = sky.turn
    BY <1>3 DEF Fields
  <2> DEFINE left == IF sky.self_aware THEN sky.active_nodelink ELSE t.left
  <2>3. \/ sky' = t /\ t.connecting_nodes # {}
        \/ /\ sky' = [t EXCEPT !.self_aware = FALSE, !.timer = TRUE, !.turn = sky.self_aware,
                               !.left = left]
           /\ t.connecting_nodes = {}
    BY <1>2 DEF nodelink_failed
  <2>4. /\ left \in C2n \cup {None}
        /\ sky.self_aware => left = sky.active_nodelink
        /\ ~sky.self_aware => left = sky.left
    BY <1>3, <2>2
  <2> HIDE DEF t, left
  <2>5. CASE sky' = t /\ t.connecting_nodes # {}
    BY <1>1, <2>1, <2>2, <2>5
  <2>6. CASE /\ sky' = [t EXCEPT !.self_aware = FALSE, !.timer = TRUE, !.turn = sky.self_aware,
                                 !.left = left]
             /\ t.connecting_nodes = {}
    <3>1. /\ sky' \in Fields /\ sky'.joins = t.joins
          /\ sky'.connecting_nodes = t.connecting_nodes
          /\ sky'.active_nodelink = t.active_nodelink
          /\ ~sky'.self_aware /\ sky'.timer /\ sky'.left = left /\ sky'.turn = sky.self_aware
      BY <1>3, <2>1, <2>4, <2>6 DEF Fields
    <3> QED BY <1>3, <2>2, <2>4, <2>6, <3>1
  <2> QED BY <2>3, <2>5, <2>6
<1>5. c2n' \in [C2n -> {"unused", "freed"} \cup {Stages[i] : i \in DOMAIN Stages}]
  BY <1>2 DEF LoginInv, TypeOK
<1>6. \A k \in C2n \ {l} : c2n'[k] = c2n[k]
  BY <1>2 DEF LoginInv, TypeOK
<1>7. TypeOK' /\ (Len(hist) <= MaxTexts)'
  BY <1>2, <1>4, <1>5 DEF LoginInv, TypeOK
<1>8. Logins'
  BY <1>1, <1>3, <1>4, <1>6 DEF LoginInv, Logins, Serving
<1> QED BY <1>4, <1>7, <1>8 DEF LoginInv, KeepsTrying

\* The active c2n ends; the client that is not self-aware any more keeps the pointer.
LEMMA CloseLogins ==
    ASSUME LoginInv, Serving, hist' = hist,
           PICA_close_c2n(nodelink_closed(sky, sky.active_nodelink))
    PROVE  LoginInv'
<1> DEFINE l == sky.active_nodelink
           t == nodelink_closed(sky, l)
<1>1. /\ sky \in Fields /\ l \in C2n /\ sky.connecting_nodes \subseteq C2n
      /\ l \notin sky.connecting_nodes /\ l[1] <= sky.joins
  BY FieldTypes DEF LoginInv, TypeOK, Logins, LoginStages
<1>2. c2n' = [c2n EXCEPT ![l] = "freed"] /\ sky' = [t EXCEPT !.turn = FALSE]
  BY DEF PICA_close_c2n
<1>3. /\ sky' \in Fields /\ sky'.joins = sky.joins
      /\ sky'.connecting_nodes = sky.connecting_nodes
      /\ ~sky'.self_aware /\ ~sky'.turn
      /\ \/ sky'.active_nodelink = None /\ sky'.timer
         \/ /\ ~sky.self_aware /\ sky'.active_nodelink = l /\ sky'.left = l
            /\ sky'.timer = sky.timer /\ sky'.offline = sky.offline
            /\ sky'.stranded = sky.stranded
  <2>1. CASE sky.self_aware
    <3>1. /\ t \in Fields /\ t.joins = sky.joins /\ t.connecting_nodes = sky.connecting_nodes
          /\ ~t.self_aware /\ t.active_nodelink = None /\ t.timer
      BY <1>1, <2>1, ClosedFields
    <3> HIDE DEF t
    <3> QED BY <1>2, <3>1 DEF Fields
  <2>2. CASE ~sky.self_aware
    <3>1. sky.turn /\ sky.connecting_nodes = {} /\ sky.left = l
      BY <2>2 DEF LoginInv, Logins, Serving
    <3>2. t = [sky EXCEPT !.connecting_nodes = @ \ {l}]
      BY <2>2 DEF nodelink_closed
    <3>3. sky.connecting_nodes \ {l} = sky.connecting_nodes
      BY <3>1
    <3>4. t = sky
      BY <1>1, <3>2, <3>3 DEF Fields
    <3> HIDE DEF t, l
    <3>5. sky.active_nodelink = l
      BY DEF l
    <3> QED BY <1>1, <1>2, <2>2, <3>1, <3>4, <3>5 DEF Fields
  <2> QED BY <2>1, <2>2
<1>4. c2n' \in [C2n -> {"unused", "freed"} \cup {Stages[i] : i \in DOMAIN Stages}]
  BY <1>2 DEF LoginInv, TypeOK
<1>5. c2n'[l] = "freed" /\ \A k \in C2n \ {l} : c2n'[k] = c2n[k]
  BY <1>1, <1>2 DEF LoginInv, TypeOK
<1> HIDE DEF l, t
<1>6. TypeOK' /\ (Len(hist) <= MaxTexts)'
  BY <1>3, <1>4 DEF LoginInv, TypeOK
<1>7. Logins'
  BY <1>1, <1>3, <1>5 DEF LoginInv, Logins, Serving
<1>8. KeepsTrying'
  BY <1>3 DEF LoginInv, KeepsTrying
<1> QED BY <1>6, <1>7, <1>8 DEF LoginInv

\* Join gives up the logins that are under way and starts new ones.
LEMMA JoinLogins ==
    ASSUME LoginInv, NEW timer \in BOOLEAN, ~sky.self_aware, ~sky.turn, Join(timer)
    PROVE  LoginInv'
<1>1. PICK reached \in SUBSET Nodes :
        LET new == PICA_new_c2n(sky.joins + 1, reached)
        IN  /\ sky.joins < MaxJoins
            /\ sky' = [sky EXCEPT !.joins = @ + 1, !.connecting_nodes = new, !.timer = timer,
                                  !.stranded = (reached = {}), !.offline = FALSE]
            /\ c2n' = [l \in C2n |-> IF l \in new THEN "CONNECTING"
                                     ELSE IF l \in sky.connecting_nodes THEN "freed"
                                     ELSE c2n[l]]
            /\ hist' = hist
  BY DEF Join
<1> DEFINE new == PICA_new_c2n(sky.joins + 1, reached)
<1>2. /\ sky \in Fields /\ sky.active_nodelink \in C2n \cup {None} /\ sky.joins \in 0 .. MaxJoins
      /\ sky.joins < MaxJoins /\ MaxJoins \in Nat
  BY <1>1, FieldTypes, SkyNetAssumption DEF LoginInv, TypeOK
<1>3. new \in SUBSET C2n /\ (\A l \in new : l[1] = sky.joins + 1) /\ (new = {} <=> reached = {})
  <2>1. new = {sky.joins + 1} \X reached
    BY DEF PICA_new_c2n
  <2>2. sky.joins + 1 \in 1 .. MaxJoins
    BY <1>2
  <2>3. \A r \in reached : <<sky.joins + 1, r>> \in new
    BY <2>1
  <2>4. \A l \in new : \E r \in reached : l = <<sky.joins + 1, r>>
    BY <2>1
  <2> HIDE DEF new
  <2>5. new \in SUBSET C2n
    BY <2>2, <2>4 DEF C2n
  <2>6. \A l \in new : l[1] = sky.joins + 1
    BY <2>4
  <2>7. new = {} <=> reached = {}
    BY <2>3, <2>4, Zenon
  <2> QED BY <2>5, <2>6, <2>7
<1>4. /\ sky' = [sky EXCEPT !.joins = @ + 1, !.connecting_nodes = new, !.timer = timer,
                            !.stranded = (reached = {}), !.offline = FALSE]
      /\ c2n' = [l \in C2n |-> IF l \in new THEN "CONNECTING"
                               ELSE IF l \in sky.connecting_nodes THEN "freed" ELSE c2n[l]]
      /\ hist' = hist
  BY <1>1
<1> HIDE DEF new
<1>5. sky.joins + 1 \in 0 .. MaxJoins /\ (reached = {}) \in BOOLEAN
  BY <1>2
<1>6. /\ sky' \in Fields /\ sky'.joins = sky.joins + 1 /\ sky'.connecting_nodes = new
      /\ sky'.stranded = (reached = {}) /\ sky'.self_aware = sky.self_aware
      /\ sky'.active_nodelink = sky.active_nodelink /\ sky'.left = sky.left
      /\ sky'.turn = sky.turn
  BY <1>2, <1>3, <1>4, <1>5 DEF Fields
<1>7. c2n' \in [C2n -> {"unused", "freed"} \cup {Stages[i] : i \in DOMAIN Stages}]
  BY <1>4, AllStages DEF LoginInv, TypeOK, LoginStages
<1>8. TypeOK' /\ (Len(hist) <= MaxTexts)'
  BY <1>4, <1>6, <1>7 DEF LoginInv, TypeOK
<1>9. \A l \in new : c2n'[l] = "CONNECTING"
  BY <1>3, <1>4
<1>10. sky.active_nodelink # None =>
         /\ sky.active_nodelink \notin new
         /\ sky.active_nodelink \notin sky.connecting_nodes
         /\ c2n'[sky.active_nodelink] = c2n[sky.active_nodelink]
  <2> SUFFICES ASSUME sky.active_nodelink # None
               PROVE  /\ sky.active_nodelink \notin new
                      /\ sky.active_nodelink \notin sky.connecting_nodes
                      /\ c2n'[sky.active_nodelink] = c2n[sky.active_nodelink]
    OBVIOUS
  <2>1. /\ sky.active_nodelink \in C2n /\ sky.active_nodelink[1] <= sky.joins
        /\ sky.active_nodelink \notin sky.connecting_nodes
    BY <1>2 DEF LoginInv, Logins, LoginStages
  <2>2. sky.active_nodelink[1] # sky.joins + 1
    BY <1>2, <2>1, C2nNumber
  <2>3. sky.active_nodelink \notin new
    BY <1>3, <2>2
  <2> QED BY <1>4, <2>1, <2>3
<1>11. sky.active_nodelink # None => sky.active_nodelink[1] <= sky.joins + 1
  BY <1>2, C2nNumber DEF LoginInv, Logins
<1>12. Logins'
  BY <1>2, <1>3, <1>6, <1>9, <1>10, <1>11 DEF LoginInv, Logins, LoginStages, Serving
<1>13. KeepsTrying'
  BY <1>3, <1>6 DEF KeepsTrying
<1> QED BY <1>8, <1>12, <1>13 DEF LoginInv

\* Exit gives up all logins, and the active c2n of a self-aware client.
LEMMA ExitLogins ==
    ASSUME LoginInv, NEW s \in Fields,
           s.active_nodelink = sky.active_nodelink, s.self_aware = sky.self_aware,
           s.connecting_nodes = sky.connecting_nodes, s.joins = sky.joins,
           s.left = sky.left, ~s.turn, Exit(s)
    PROVE  LoginInv'
<1>1. sky.active_nodelink \in C2n \cup {None}
  BY FieldTypes DEF LoginInv
<1> DEFINE a == IF s.self_aware THEN None ELSE s.active_nodelink
<1>2. a \in C2n \cup {None} /\ <<>> \in Seq(1 .. MaxTexts)
  BY <1>1
<1>3. /\ sky' = [s EXCEPT !.self_aware = FALSE, !.msgqueue = <<>>, !.connecting_nodes = {},
                          !.active_nodelink = a, !.offline = TRUE]
      /\ c2n' = [l \in C2n |-> IF \/ l \in s.connecting_nodes
                                  \/ s.self_aware /\ l = s.active_nodelink
                               THEN "freed" ELSE c2n[l]]
      /\ hist' = hist
  BY DEF Exit
<1>4. /\ ~sky.self_aware => a = sky.active_nodelink
      /\ sky.self_aware => a = None
  OBVIOUS
<1> HIDE DEF a
<1>5. /\ sky' \in Fields /\ ~sky'.self_aware /\ sky'.connecting_nodes = {}
      /\ sky'.active_nodelink = a /\ sky'.offline /\ sky'.joins = sky.joins
      /\ sky'.left = sky.left /\ ~sky'.turn
  BY <1>2, <1>3 DEF Fields
<1>6. c2n' \in [C2n -> {"unused", "freed"} \cup {Stages[i] : i \in DOMAIN Stages}]
  BY <1>3 DEF LoginInv, TypeOK
<1>7. TypeOK' /\ (Len(hist) <= MaxTexts)'
  BY <1>3, <1>5, <1>6 DEF LoginInv, TypeOK
<1>8. a # None => /\ c2n'[a] = "CONNECTED" \/ (c2n'[a] = "freed" /\ a = sky.left)
                  /\ a[1] <= sky.joins
  BY <1>1, <1>3, <1>4 DEF LoginInv, Logins, LoginStages
<1>9. Logins'
  BY <1>5, <1>8 DEF Logins, Serving
<1> QED BY <1>5, <1>7, <1>9 DEF LoginInv, KeepsTrying

\* The other steps of the control connection.
LEMMA EventLogins ==
    ASSUME LoginInv, procmsg_MULTILOGIN \/ multilogin_event \/ timerEvent_ends
    PROVE  LoginInv'
<1>1. sky \in Fields
  BY DEF LoginInv, TypeOK
<1>2. CASE procmsg_MULTILOGIN
  <2>1. sky' = [sky EXCEPT !.event = TRUE] /\ c2n' = c2n /\ hist' = hist
    BY <1>2 DEF procmsg_MULTILOGIN
  <2>2. sky' \in Fields
    BY <1>1, <2>1 DEF Fields
  <2>3. /\ sky'.joins = sky.joins /\ sky'.self_aware = sky.self_aware
        /\ sky'.active_nodelink = sky.active_nodelink
        /\ sky'.connecting_nodes = sky.connecting_nodes /\ sky'.timer = sky.timer
        /\ sky'.stranded = sky.stranded /\ sky'.offline = sky.offline
        /\ sky'.left = sky.left /\ sky'.turn = sky.turn
    BY <1>1, <2>1 DEF Fields
  <2> QED BY <2>1, <2>2, <2>3, QuietLogins
<1>3. CASE multilogin_event
  <2> DEFINE s == [sky EXCEPT !.event = FALSE]
  <2>1. /\ s \in Fields /\ s.active_nodelink = sky.active_nodelink
        /\ s.self_aware = sky.self_aware /\ s.connecting_nodes = sky.connecting_nodes
        /\ s.joins = sky.joins /\ s.timer = sky.timer
        /\ s.stranded = sky.stranded /\ s.offline = sky.offline
        /\ s.left = sky.left /\ s.turn = sky.turn /\ ~sky.turn
    BY <1>1, <1>3 DEF Fields, multilogin_event
  <2>2. \/ Exit(s)
        \/ /\ \E lives \in BOOLEAN : sky' = [s EXCEPT !.alive = lives]
           /\ c2n' = c2n /\ hist' = hist
    BY <1>3 DEF multilogin_event
  <2> HIDE DEF s
  <2>3. CASE Exit(s)
    BY <2>1, <2>3, ExitLogins
  <2>4. ASSUME NEW lives \in BOOLEAN, sky' = [s EXCEPT !.alive = lives], c2n' = c2n, hist' = hist
        PROVE  LoginInv'
    <3>1. sky' \in Fields
      BY <2>1, <2>4 DEF Fields
    <3>2. /\ sky'.joins = sky.joins /\ sky'.self_aware = sky.self_aware
          /\ sky'.active_nodelink = sky.active_nodelink
          /\ sky'.connecting_nodes = sky.connecting_nodes /\ sky'.timer = sky.timer
          /\ sky'.stranded = sky.stranded /\ sky'.offline = sky.offline
          /\ sky'.left = sky.left /\ sky'.turn = sky.turn
      BY <2>1, <2>4 DEF Fields
    <3> QED BY <2>4, <3>1, <3>2, QuietLogins
  <2> QED BY <2>2, <2>3, <2>4
<1>4. CASE timerEvent_ends
  <2>1. sky' = [sky EXCEPT !.turn = FALSE] /\ c2n' = c2n /\ hist' = hist
    BY <1>4 DEF timerEvent_ends
  <2>2. sky' \in Fields
    BY <1>1, <2>1 DEF Fields
  <2>3. /\ sky'.joins = sky.joins /\ sky'.self_aware = sky.self_aware
        /\ sky'.active_nodelink = sky.active_nodelink
        /\ sky'.connecting_nodes = sky.connecting_nodes /\ sky'.timer = sky.timer
        /\ sky'.stranded = sky.stranded /\ sky'.offline = sky.offline
        /\ sky'.left = sky.left /\ ~sky'.turn
    BY <1>1, <2>1 DEF Fields
  <2> QED BY <2>1, <2>2, <2>3, QuietLogins
<1> QED BY <1>2, <1>3, <1>4

\* SendMessage adds to the history and may add to the queue.
LEMMA SendLogins ==
    ASSUME LoginInv, SendMessage
    PROVE  LoginInv'
<1> DEFINE n == Len(hist) + 1
<1>1. /\ sky \in Fields /\ hist \in Seq(BOOLEAN) /\ Len(hist) \in Nat /\ Len(hist) < MaxTexts
      /\ MaxTexts \in Nat /\ sky.msgqueue \in Seq(1 .. MaxTexts)
  BY FieldTypes, LenProperties, SkyNetAssumption DEF LoginInv, TypeOK, SendMessage
<1>2. hist' = Append(hist, FALSE) /\ c2n' = c2n
  BY DEF SendMessage, Add
<1>3. hist' \in Seq(BOOLEAN) /\ Len(hist') = Len(hist) + 1
  <2>1. FALSE \in BOOLEAN
    OBVIOUS
  <2> QED BY <1>1, <1>2, <2>1, AppendProperties, Zenon
<1>4. Len(hist') <= MaxTexts /\ n \in 1 .. MaxTexts
  BY <1>1, <1>3
<1>5. \/ sky' = sky
      \/ \E lives \in BOOLEAN :
            sky' = [sky EXCEPT !.msgqueue = Append(sky.msgqueue, n), !.alive = lives]
  BY DEF SendMessage
<1> HIDE DEF n
<1>6. Append(sky.msgqueue, n) \in Seq(1 .. MaxTexts)
  BY <1>1, <1>4
<1>7. /\ sky' \in Fields /\ sky'.joins = sky.joins /\ sky'.self_aware = sky.self_aware
      /\ sky'.active_nodelink = sky.active_nodelink
      /\ sky'.connecting_nodes = sky.connecting_nodes /\ sky'.timer = sky.timer
      /\ sky'.stranded = sky.stranded /\ sky'.offline = sky.offline
      /\ sky'.left = sky.left /\ sky'.turn = sky.turn
  BY <1>1, <1>5, <1>6 DEF Fields
<1>8. TypeOK'
  BY <1>2, <1>3, <1>7 DEF LoginInv, TypeOK
<1>9. Logins' /\ KeepsTrying'
  BY <1>2, <1>7 DEF LoginInv, Logins, KeepsTrying, Serving
<1> QED BY <1>4, <1>8, <1>9 DEF LoginInv

\* A channel is established: only the queue changes.
LEMMA EstablishedLogins ==
    ASSUME LoginInv, NEW i, c2c_established_cb(i)
    PROVE  LoginInv'
<1>1. sky \in Fields /\ sky.msgqueue \in Seq(1 .. MaxTexts)
  BY FieldTypes DEF LoginInv, TypeOK
<1> DEFINE q == IF sky.self_aware THEN Flushed(sky.msgqueue) ELSE sky.msgqueue
<1>2. sky' = [sky EXCEPT !.msgqueue = q] /\ c2n' = c2n /\ hist' = hist
  BY DEF c2c_established_cb
<1>3. q \in Seq(1 .. MaxTexts)
  BY <1>1, FlushedHead
<1> HIDE DEF q
<1>4. /\ sky' \in Fields /\ sky'.joins = sky.joins /\ sky'.self_aware = sky.self_aware
      /\ sky'.active_nodelink = sky.active_nodelink
      /\ sky'.connecting_nodes = sky.connecting_nodes /\ sky'.timer = sky.timer
      /\ sky'.stranded = sky.stranded /\ sky'.offline = sky.offline
      /\ sky'.left = sky.left /\ sky'.turn = sky.turn
  BY <1>1, <1>2, <1>3 DEF Fields
<1> QED BY <1>2, <1>4, QuietLogins

\* SetDelivered returns a history of the same length.
LEMMA DeliveredType ==
    ASSUME NEW h \in Seq(BOOLEAN)
    PROVE  SetDelivered(h) \in Seq(BOOLEAN) /\ Len(SetDelivered(h)) = Len(h)
<1> DEFINE open == {n \in DOMAIN h : ~h[n]}
<1>1. Len(h) \in Nat /\ DOMAIN h = 1 .. Len(h)
  BY LenProperties
<1>2. CASE open = {}
  BY <1>2 DEF SetDelivered
<1>3. CASE open # {}
  <2> DEFINE first == CHOOSE n \in open : \A m \in open : n <= m
  <2>1. first \in open
    <3>1. open \subseteq Nat
      BY <1>1
    <3> HIDE DEF open
    <3>2. \E n \in open : \A m \in open : n <= m
      BY <1>3, <3>1, LeastNat
    <3> QED BY <3>2
  <2>2. SetDelivered(h) = [h EXCEPT ![first] = TRUE]
    BY <1>3 DEF SetDelivered
  <2> HIDE DEF first
  <2>3. first \in 1 .. Len(h) /\ TRUE \in BOOLEAN
    BY <1>1, <2>1
  <2>4. h \in [1 .. Len(h) -> BOOLEAN]
    BY LenProperties
  <2>5. [h EXCEPT ![first] = TRUE] \in [1 .. Len(h) -> BOOLEAN]
    BY <2>3, <2>4, Zenon
  <2> QED BY <1>1, <2>2, <2>5, FunctionIsSeq
<1> QED BY <1>2, <1>3

\* A receipt only marks a message of the history.
LEMMA ReceiptLogins ==
    ASSUME LoginInv, NEW i, procmsg_MSGOK(i)
    PROVE  LoginInv'
<1>1. hist' = SetDelivered(hist) /\ sky' = sky /\ c2n' = c2n
  BY DEF procmsg_MSGOK
<1>2. hist' \in Seq(BOOLEAN) /\ Len(hist') = Len(hist)
  BY <1>1, DeliveredType DEF LoginInv, TypeOK
<1> QED BY <1>1, <1>2 DEF LoginInv, TypeOK, Logins, KeepsTrying, Serving

\* The invariant of the control connections is inductive.
LEMMA NextLogins == LoginInv /\ [Next]_vars => LoginInv'
<1> SUFFICES ASSUME LoginInv, [Next]_vars
             PROVE  LoginInv'
  OBVIOUS
<1>1. ASSUME Control
      PROVE  LoginInv'
  <2>1. CASE c2n_closed
    BY <2>1, CloseLogins DEF c2n_closed
  <2>2. CASE UserJoins \/ ReconnectTimer
    BY <2>2, JoinLogins, FieldTypes DEF UserJoins, ReconnectTimer, Idle, LoginInv
  <2>3. CASE UserExits
    <3>1. sky \in Fields /\ Exit(sky) /\ ~sky.turn
      BY <2>3 DEF UserExits, LoginInv, TypeOK, Idle
    <3> QED BY <3>1, ExitLogins
  <2> QED BY <1>1, <2>1, <2>2, <2>3, StageLogins, ActivateLogins, MultiloginLogins,
             FailedLogins, EventLogins DEF Control
<1>2. CASE procmsg_FOUND
  <2>1. CASE chans = <<>>
    BY <1>2, <2>1, CloseLogins DEF procmsg_FOUND
  <2>2. CASE chans # <<>>
    <3>1. sky' = sky /\ c2n' = c2n /\ hist' = hist
      BY <1>2, <2>2 DEF procmsg_FOUND
    <3> QED BY <3>1, UnchangedLogins
  <2> QED BY <2>1, <2>2
<1>3. CASE procmsg_NOTFOUND
  <2>1. CASE chans = <<>>
    BY <1>3, <2>1, CloseLogins DEF procmsg_NOTFOUND
  <2>2. CASE chans # <<>>
    <3>1. sky' = sky /\ c2n' = c2n /\ hist' = hist
      BY <1>3, <2>2 DEF procmsg_NOTFOUND
    <3> QED BY <3>1, UnchangedLogins
  <2> QED BY <2>1, <2>2
<1>4. CASE procmsg_CONNREQINC
  BY <1>4, UnchangedLogins DEF procmsg_CONNREQINC
<1>5. CASE reconnect_c2c
  BY <1>5, UnchangedLogins DEF reconnect_c2c
<1>6. ASSUME NEW i \in DOMAIN chans, Channel(i)
      PROVE  LoginInv'
  <2>1. CASE process_c2c_failed(i)
    BY <2>1, UnchangedLogins DEF process_c2c_failed
  <2>2. CASE process_c2c_closed(i)
    BY <2>2, UnchangedLogins DEF process_c2c_closed
  <2>3. CASE PICA_write_c2c(i)
    BY <2>3, UnchangedLogins DEF PICA_write_c2c
  <2>4. CASE PeerReads(i)
    BY <2>4, UnchangedLogins DEF PeerReads
  <2> QED BY <1>6, <2>1, <2>2, <2>3, <2>4, EstablishedLogins, ReceiptLogins DEF Channel
<1>7. CASE UNCHANGED vars
  BY <1>7, UnchangedLogins DEF vars
<1> QED BY <1>1, <1>2, <1>3, <1>4, <1>5, <1>6, <1>7, SendLogins DEF Next

\* The state SkyNet starts in.
LEMMA InitLogins == Init => LoginInv
<1> SUFFICES ASSUME Init
             PROVE  LoginInv
  OBVIOUS
<1>1. PICK policy \in Policies :
        sky = [alive |-> TRUE, policy |-> policy, joins |-> 0, self_aware |-> FALSE,
               active_nodelink |-> None, connecting_nodes |-> {}, timer |-> FALSE,
               stranded |-> FALSE, offline |-> TRUE, event |-> FALSE,
               left |-> None, turn |-> FALSE, msgqueue |-> <<>>]
  BY DEF Init
<1>2. <<>> \in Seq(1 .. MaxTexts) /\ <<>> \in Seq(BOOLEAN) /\ Len(<<>>) = 0
  BY EmptySeq
<1>3. 0 \in 0 .. MaxJoins /\ 0 <= MaxTexts
  BY SkyNetAssumption
<1>4. sky \in Fields
  BY <1>1, <1>2, <1>3 DEF Fields
<1>5. c2n \in [C2n -> {"unused", "freed"} \cup {Stages[i] : i \in DOMAIN Stages}]
  BY DEF Init
<1>6. hist \in Seq(BOOLEAN) /\ Len(hist) <= MaxTexts
  BY <1>2, <1>3 DEF Init
<1>7. sky.connecting_nodes = {} /\ sky.active_nodelink = None /\ ~sky.self_aware /\ sky.offline
      /\ ~sky.turn
  BY <1>1
<1> QED BY <1>4, <1>5, <1>6, <1>7 DEF LoginInv, TypeOK, Logins, KeepsTrying, Serving

\* The fields of SkyNet, the stages of its c2n's and its history keep their types,
\* through every order of logins, failures, exits and messages.
THEOREM SkyTypes == Spec => []TypeOK
<1>1. LoginInv => TypeOK
  BY DEF LoginInv
<1> QED BY <1>1, InitLogins, NextLogins, PTL DEF Spec

\* No pointer SkyNet keeps is to a c2n that has been freed, however many logins run at
\* the same time, but active_nodelink when it is closed in the pass in which a failed login
\* took the self-awareness; and what a pass serves is connected (timerEvent,
\* nodelink_activated, nodelink_closed, nodelink_failed, Join, Exit).
THEOREM LinksAliveAlways == Spec => []LinksAreAlive
<1>1. LoginInv => LinksAreAlive
  BY FieldTypes DEF LoginInv, Logins, LinksAreAlive, LoginStages
<1> QED BY <1>1, InitLogins, NextLogins, PTL DEF Spec

\* A client that is not connected is connecting or will try again by itself.
THEOREM TriesForEver == Spec => []KeepsTrying
<1>1. LoginInv => KeepsTrying
  BY DEF LoginInv
<1> QED BY <1>1, InitLogins, NextLogins, PTL DEF Spec

-----------------------------------------------------------------------------
(* The channels.                                                             *)

ChanStates == {"NEW", "STARTING", "ACTIVE"}

Texts == Seq(1 .. MaxTexts)

Chan == [outgoing : BOOLEAN, state : ChanStates, write_buf : Texts, wire : Texts,
         acks : Nat, spent : BOOLEAN]

\* The MSGOKs on their way back, one pair for each.
Tokens(cs) == {t \in Nat \X Nat : t[1] \in DOMAIN cs /\ t[2] \in 1 .. cs[t[1]].acks}

Marked(h) == {n \in DOMAIN h : h[n]}

\* A mark or a MSGOK under way stands for a message the peer has received.
MarksBacked ==
    /\ IsFiniteSet(Tokens(chans))
    /\ Cardinality(Marked(hist)) + Cardinality(Tokens(chans)) <= Len(received)

\* The channels that have something to be written.
Waiting(cs) == {i \in DOMAIN cs : cs[i].write_buf # <<>>}

\* Only an established channel has something to be written.  While a message that can be
\* sent is in the queue, a self-aware client has no established channel, and in the rest of
\* the pass that took its self-awareness it has nothing to write.
Order ==
    /\ Waiting(chans) \subseteq ActiveChannels(chans)
    /\ (sky.msgqueue # <<>> /\ sky.msgqueue[1] \notin TooLong) =>
          /\ sky.self_aware => ActiveChannels(chans) = {}
          /\ sky.turn => Waiting(chans) = {}

ChannelInv ==
    /\ chans \in Seq(Chan)
    /\ received \in Texts
    /\ sky.active_nodelink = None => chans = <<>>
    /\ Order
    /\ MarksBacked

\* The channel c has become d, which is not newly established and has no more to write and
\* no more MSGOKs; one that is not established any more has nothing to write.
Lesser(d, c) ==
    /\ d.acks <= c.acks
    /\ IsActive(d) => IsActive(c)
    /\ d.write_buf # <<>> => c.write_buf # <<>> /\ (IsActive(c) => IsActive(d))

\* The list ds has been got from cs by removing channels and changing others to lesser ones.
Shrinks(ds, cs) ==
    \E f \in [DOMAIN ds -> DOMAIN cs] :
        /\ \A i, j \in DOMAIN ds : f[i] = f[j] => i = j
        /\ \A j \in DOMAIN ds : Lesser(ds[j], cs[f[j]])

\* A channel that was just made.
LEMMA NewChannelType ==
    ASSUME NEW out \in BOOLEAN, NEW state \in ChanStates
    PROVE  /\ NewChannel(out, state) \in Chan
           /\ NewChannel(out, state).acks = 0
           /\ NewChannel(out, state).state = state
           /\ NewChannel(out, state).write_buf = <<>>
<1>1. <<>> \in Texts
  BY EmptySeq DEF Texts
<1> QED BY <1>1 DEF NewChannel, Chan

\* The channel list as a sequence.
LEMMA ChanSeq ==
    ASSUME NEW cs \in Seq(Chan)
    PROVE  /\ Len(cs) \in Nat /\ DOMAIN cs = 1 .. Len(cs)
           /\ \A i \in DOMAIN cs : cs[i] \in Chan /\ cs[i].acks \in Nat
<1>1. Len(cs) \in Nat /\ DOMAIN cs = 1 .. Len(cs)
  BY LenProperties
<1>2. \A i \in DOMAIN cs : cs[i] \in Chan
  BY <1>1, ElementOfSeq
<1> QED BY <1>1, <1>2 DEF Chan

\* Changing one channel of the list.
LEMMA UpdateChan ==
    ASSUME NEW cs \in Seq(Chan), NEW i \in DOMAIN cs, NEW c \in Chan
    PROVE  /\ [cs EXCEPT ![i] = c] \in Seq(Chan)
           /\ DOMAIN [cs EXCEPT ![i] = c] = DOMAIN cs
           /\ [cs EXCEPT ![i] = c][i] = c
           /\ \A j \in DOMAIN cs \ {i} : [cs EXCEPT ![i] = c][j] = cs[j]
<1>1. Len(cs) \in Nat /\ DOMAIN cs = 1 .. Len(cs) /\ cs \in [1 .. Len(cs) -> Chan]
  BY LenProperties
<1>2. [cs EXCEPT ![i] = c] \in [1 .. Len(cs) -> Chan]
  BY <1>1
<1>3. [cs EXCEPT ![i] = c] \in Seq(Chan)
  BY <1>1, <1>2, FunctionIsSeq
<1> QED BY <1>1, <1>3

\* Removing one channel of the list.
LEMMA RemoveChan ==
    ASSUME NEW cs \in Seq(Chan), NEW i \in DOMAIN cs
    PROVE  RemoveAt(cs, i) \in Seq(Chan) /\ Shrinks(RemoveAt(cs, i), cs)
<1>1. /\ Len(cs) \in Nat /\ DOMAIN cs = 1 .. Len(cs)
      /\ \A j \in DOMAIN cs : cs[j] \in Chan /\ cs[j].acks \in Nat
  BY ChanSeq
<1>2. PICK a \in Seq(Chan) : /\ a = SubSeq(cs, 1, i - 1)
                             /\ Len(a) = i - 1 /\ \A j \in 1 .. i - 1 : a[j] = cs[j]
  <2>1. SubSeq(cs, 1, i - 1) \in Seq(Chan)
    BY <1>1
  <2>2. /\ Len(SubSeq(cs, 1, i - 1)) = i - 1
        /\ \A j \in 1 .. i - 1 : SubSeq(cs, 1, i - 1)[j] = cs[j]
    BY <1>1
  <2> QED BY <2>1, <2>2
<1>3. PICK b \in Seq(Chan) : /\ b = SubSeq(cs, i + 1, Len(cs))
                             /\ Len(b) = Len(cs) - i
                             /\ \A j \in 1 .. Len(cs) - i : b[j] = cs[i + j]
  <2>1. SubSeq(cs, i + 1, Len(cs)) \in Seq(Chan)
    BY <1>1
  <2>2. /\ Len(SubSeq(cs, i + 1, Len(cs))) = Len(cs) - i
        /\ \A j \in 1 .. Len(cs) - i : SubSeq(cs, i + 1, Len(cs))[j] = cs[i + j]
    BY <1>1
  <2> QED BY <2>1, <2>2
<1>4. PICK ds \in Seq(Chan) : /\ ds = RemoveAt(cs, i)
                              /\ Len(ds) = Len(cs) - 1
                              /\ \A j \in 1 .. Len(cs) - 1 :
                                    ds[j] = IF j < i THEN cs[j] ELSE cs[j + 1]
  <2>0. /\ a \o b \in Seq(Chan)
        /\ Len(a \o b) = Len(a) + Len(b)
        /\ \A j \in 1 .. Len(a) + Len(b) : (a \o b)[j] =
                IF j <= Len(a) THEN a[j] ELSE b[j - Len(a)]
    BY ConcatProperties, Zenon
  <2>3. i \in Int /\ Len(cs) \in Int /\ Len(a) = i - 1 /\ Len(b) = Len(cs) - i
    BY <1>1, <1>2, <1>3
  <2>4. Len(a \o b) = Len(cs) - 1
    BY <2>0, <2>3
  <2>1. a \o b \in Seq(Chan) /\ Len(a \o b) = Len(cs) - 1
    BY <2>0, <2>4
  <2>2. ASSUME NEW j \in 1 .. Len(cs) - 1
        PROVE  (a \o b)[j] = IF j < i THEN cs[j] ELSE cs[j + 1]
    <3>1. j \in 1 .. Len(a) + Len(b)
      BY <1>1, <1>2, <1>3
    <3>2. CASE j < i
      BY <1>1, <1>2, <2>0, <3>1, <3>2
    <3>3. CASE ~(j < i)
      <4>1. j - Len(a) \in 1 .. Len(cs) - i /\ i + (j - Len(a)) = j + 1
        BY <2>3, <3>3
      <4>2. (a \o b)[j] = b[j - Len(a)]
        BY <1>1, <1>2, <2>0, <3>1, <3>3
      <4> QED BY <1>3, <3>3, <4>1, <4>2
    <3> QED BY <3>2, <3>3
  <2>5. RemoveAt(cs, i) = a \o b
    BY <1>2, <1>3 DEF RemoveAt
  <2> QED BY <2>1, <2>2, <2>5
<1> DEFINE f == [j \in DOMAIN ds |-> IF j < i THEN j ELSE j + 1]
<1>5. DOMAIN ds = 1 .. Len(cs) - 1
  BY <1>1, <1>4
<1>6. /\ f \in [DOMAIN ds -> DOMAIN cs]
      /\ \A j \in DOMAIN ds : f[j] = IF j < i THEN j ELSE j + 1
  BY <1>1, <1>5
<1> HIDE DEF f
<1>7. \A j, k \in DOMAIN ds : f[j] = f[k] => j = k
  BY <1>1, <1>5, <1>6
<1>8. \A j \in DOMAIN ds : ds[j] = cs[f[j]] /\ cs[f[j]].acks \in Nat
  BY <1>1, <1>4, <1>5, <1>6
<1>9. \A j \in DOMAIN ds : Lesser(ds[j], cs[f[j]])
  BY <1>8 DEF Lesser
<1>10. Shrinks(ds, cs)
  BY <1>6, <1>7, <1>9 DEF Shrinks
<1> QED BY <1>4, <1>10

\* Removing the last channel of the list.
LEMMA FrontChan ==
    ASSUME NEW cs \in Seq(Chan), cs # <<>>
    PROVE  Front(cs) \in Seq(Chan) /\ Shrinks(Front(cs), cs)
<1>1. /\ Len(cs) \in Nat /\ DOMAIN cs = 1 .. Len(cs) /\ Len(cs) # 0
      /\ \A j \in DOMAIN cs : cs[j] \in Chan /\ cs[j].acks \in Nat
  BY ChanSeq, EmptySeq
<1>2. PICK ds \in Seq(Chan) : /\ ds = Front(cs) /\ Len(ds) = Len(cs) - 1
                              /\ \A j \in 1 .. Len(cs) - 1 : ds[j] = cs[j]
  <2>1. SubSeq(cs, 1, Len(cs) - 1) \in Seq(Chan)
    BY <1>1
  <2>2. /\ Len(SubSeq(cs, 1, Len(cs) - 1)) = Len(cs) - 1
        /\ \A j \in 1 .. Len(cs) - 1 : SubSeq(cs, 1, Len(cs) - 1)[j] = cs[j]
    BY <1>1
  <2> QED BY <2>1, <2>2 DEF Front
<1> DEFINE f == [j \in DOMAIN ds |-> j]
<1>3. DOMAIN ds = 1 .. Len(cs) - 1
  BY <1>1, <1>2
<1>4. f \in [DOMAIN ds -> DOMAIN cs] /\ \A j \in DOMAIN ds : f[j] = j
  BY <1>1, <1>3
<1> HIDE DEF f
<1>5. \A j \in DOMAIN ds : Lesser(ds[j], cs[f[j]])
  BY <1>1, <1>2, <1>3, <1>4 DEF Lesser
<1>6. Shrinks(ds, cs)
  BY <1>4, <1>5 DEF Shrinks
<1> QED BY <1>2, <1>6

\* A list that shrinks has no new established channel, no more to write and no more MSGOKs.
LEMMA ShrinkFacts ==
    ASSUME NEW cs \in Seq(Chan), NEW ds \in Seq(Chan), Shrinks(ds, cs)
    PROVE  /\ ActiveChannels(cs) = {} => ActiveChannels(ds) = {}
           /\ Waiting(cs) = {} => Waiting(ds) = {}
           /\ Waiting(cs) \subseteq ActiveChannels(cs) => Waiting(ds) \subseteq ActiveChannels(ds)
           /\ IsFiniteSet(Tokens(cs)) =>
                IsFiniteSet(Tokens(ds)) /\ Cardinality(Tokens(ds)) <= Cardinality(Tokens(cs))
<1>1. /\ DOMAIN cs \subseteq Nat /\ DOMAIN ds \subseteq Nat
      /\ \A i \in DOMAIN cs : cs[i].acks \in Nat
      /\ \A i \in DOMAIN ds : ds[i].acks \in Nat
  <2>1. \A xs \in Seq(Chan) : DOMAIN xs \subseteq Nat /\ \A i \in DOMAIN xs : xs[i].acks \in Nat
    BY ChanSeq
  <2> QED BY <2>1
<1>2. PICK f \in [DOMAIN ds -> DOMAIN cs] :
        /\ \A i, j \in DOMAIN ds : f[i] = f[j] => i = j
        /\ \A j \in DOMAIN ds : Lesser(ds[j], cs[f[j]])
  BY DEF Shrinks
<1>3. ActiveChannels(cs) = {} => ActiveChannels(ds) = {}
  BY <1>2 DEF ActiveChannels, Lesser
<1>5. Waiting(cs) = {} => Waiting(ds) = {}
  BY <1>2 DEF Waiting, Lesser
<1>6. Waiting(cs) \subseteq ActiveChannels(cs) => Waiting(ds) \subseteq ActiveChannels(ds)
  BY <1>2 DEF Waiting, ActiveChannels, Lesser
<1>4. ASSUME IsFiniteSet(Tokens(cs))
      PROVE  IsFiniteSet(Tokens(ds)) /\ Cardinality(Tokens(ds)) <= Cardinality(Tokens(cs))
  <2> DEFINE g == [t \in Tokens(ds) |-> <<f[t[1]], t[2]>>]
  <2>1. ASSUME NEW t \in Tokens(ds)
        PROVE  <<f[t[1]], t[2]>> \in Tokens(cs)
    <3>1. /\ t \in Nat \X Nat /\ t[1] \in DOMAIN ds /\ t[2] \in Nat
          /\ 1 <= t[2] /\ t[2] <= ds[t[1]].acks
      BY <1>1 DEF Tokens
    <3>2. /\ f[t[1]] \in DOMAIN cs /\ f[t[1]] \in Nat
          /\ ds[t[1]].acks <= cs[f[t[1]]].acks
          /\ ds[t[1]].acks \in Nat /\ cs[f[t[1]]].acks \in Nat
      BY <1>1, <1>2, <3>1 DEF Lesser
    <3>3. t[2] \in 1 .. cs[f[t[1]]].acks
      BY <3>1, <3>2
    <3> QED BY <3>1, <3>2, <3>3 DEF Tokens
  <2>2. g \in [Tokens(ds) -> Tokens(cs)]
    BY <2>1
  <2>3. ASSUME NEW t \in Tokens(ds), NEW u \in Tokens(ds), g[t] = g[u]
        PROVE  t = u
    <3>1. f[t[1]] = f[u[1]] /\ t[2] = u[2]
      BY <2>3
    <3>2. t[1] \in DOMAIN ds /\ u[1] \in DOMAIN ds /\ t \in Nat \X Nat /\ u \in Nat \X Nat
      BY DEF Tokens
    <3>3. t[1] = u[1]
      BY <1>2, <3>1, <3>2
    <3>4. t = <<t[1], t[2]>> /\ u = <<u[1], u[2]>>
      BY <3>2
    <3> QED BY <3>1, <3>3, <3>4
  <2> HIDE DEF g
  <2>4. g \in Injection(Tokens(ds), Tokens(cs))
    BY <2>2, <2>3 DEF Injection, IsInjective
  <2> QED BY <1>4, <2>4, FS_Injection
<1> QED BY <1>3, <1>4, <1>5, <1>6

\* Two lists whose channels have the same MSGOKs.
LEMMA SameTokens ==
    ASSUME NEW cs, NEW ds, DOMAIN cs = DOMAIN ds, \A i \in DOMAIN cs : cs[i].acks = ds[i].acks
    PROVE  Tokens(cs) = Tokens(ds)
BY DEF Tokens

\* A channel added to the list is not established and has no MSGOKs.
LEMMA AppendChan ==
    ASSUME NEW cs \in Seq(Chan), NEW c \in Chan, c.acks = 0, ~IsActive(c), c.write_buf = <<>>
    PROVE  /\ Append(cs, c) \in Seq(Chan) /\ Waiting(Append(cs, c)) = Waiting(cs)
           /\ ActiveChannels(Append(cs, c)) = ActiveChannels(cs)
           /\ Tokens(Append(cs, c)) = Tokens(cs)
<1> DEFINE ds == Append(cs, c)
<1>1. /\ ds \in Seq(Chan) /\ Len(ds) = Len(cs) + 1
      /\ \A i \in 1 .. Len(cs) : ds[i] = cs[i]
      /\ ds[Len(cs) + 1] = c
  BY AppendProperties
<1>2. Len(cs) \in Nat /\ DOMAIN cs = 1 .. Len(cs) /\ DOMAIN ds = 1 .. Len(cs) + 1
  BY <1>1, LenProperties
<1> HIDE DEF ds
<1>3. \A i \in DOMAIN ds : i \in DOMAIN cs \/ i = Len(cs) + 1
  BY <1>2
<1>4. Len(cs) + 1 \notin DOMAIN cs /\ DOMAIN cs \subseteq DOMAIN ds
  BY <1>2
<1>5. \A i \in DOMAIN cs : ds[i] = cs[i]
  BY <1>1, <1>2
<1>6. ActiveChannels(ds) = ActiveChannels(cs)
  BY <1>1, <1>3, <1>4, <1>5 DEF ActiveChannels
<1>9. Waiting(ds) = Waiting(cs)
  BY <1>1, <1>3, <1>4, <1>5 DEF Waiting
<1>7. ASSUME NEW t \in Nat \X Nat
      PROVE  t \in Tokens(ds) <=> t \in Tokens(cs)
  <2>1. CASE t[1] \in DOMAIN cs
    BY <1>4, <1>5, <2>1 DEF Tokens
  <2>2. CASE t[1] \notin DOMAIN cs
    <3>1. t \notin Tokens(cs)
      BY <2>2 DEF Tokens
    <3>2. ASSUME t \in Tokens(ds)
          PROVE  FALSE
      <4>1. t[1] = Len(cs) + 1 /\ t[2] \in 1 .. ds[t[1]].acks
        BY <1>3, <2>2, <3>2 DEF Tokens
      <4>2. t[2] \in 1 .. 0
        BY <1>1, <4>1
      <4> QED BY <4>2
    <3> QED BY <3>1, <3>2
  <2> QED BY <2>1, <2>2
<1>8. Tokens(ds) = Tokens(cs)
  <2>1. Tokens(ds) \subseteq Nat \X Nat /\ Tokens(cs) \subseteq Nat \X Nat
    BY DEF Tokens
  <2> QED BY <1>7, <2>1
<1> QED BY <1>1, <1>6, <1>8, <1>9 DEF ds

\* An empty list.
LEMMA NoChans ==
    /\ <<>> \in Seq(Chan) /\ ActiveChannels(<<>>) = {} /\ Tokens(<<>>) = {}
    /\ Waiting(<<>>) = {}
<1>1. <<>> \in Seq(Chan) /\ DOMAIN <<>> = {}
  BY EmptySeq
<1> QED BY <1>1 DEF ActiveChannels, Tokens, Waiting

\* The marks of a history are finitely many.
LEMMA MarksFinite ==
    ASSUME NEW h \in Seq(BOOLEAN)
    PROVE  IsFiniteSet(Marked(h)) /\ Cardinality(Marked(h)) \in Nat
<1>1. Len(h) \in Nat /\ DOMAIN h = 1 .. Len(h)
  BY LenProperties
<1>2. IsFiniteSet(1 .. Len(h))
  BY <1>1, FS_Interval
<1>3. Marked(h) \in SUBSET (1 .. Len(h))
  BY <1>1 DEF Marked
<1>4. IsFiniteSet(Marked(h))
  BY <1>2, <1>3, FS_Subset
<1> QED BY <1>4, FS_CardinalityType

\* All channels go with the active c2n.
LEMMA DropChannels ==
    ASSUME LoginInv, ChannelInv, chans' = <<>>, received' = received, hist' = hist
    PROVE  ChannelInv'
<1>1. /\ chans' \in Seq(Chan) /\ ActiveChannels(chans') = {} /\ Tokens(chans') = {}
      /\ Waiting(chans') = {}
  BY NoChans
<1>2. IsFiniteSet({}) /\ Cardinality({}) = 0
  BY FS_EmptySet
<1>3. /\ Cardinality(Tokens(chans)) \in Nat /\ Cardinality(Marked(hist)) \in Nat
      /\ Cardinality(Marked(hist)) + Cardinality(Tokens(chans)) <= Len(received)
      /\ Len(received) \in Nat
  BY MarksFinite, FS_CardinalityType DEF LoginInv, TypeOK, ChannelInv, MarksBacked, Texts
<1>4. MarksBacked'
  <2>1. Cardinality(Marked(hist)) + 0 <= Len(received)
    BY <1>3
  <2>2. Tokens(chans)' = {}
    BY <1>1
  <2> QED BY <1>2, <2>1, <2>2 DEF MarksBacked
<1> QED BY <1>1, <1>4 DEF ChannelInv, Order

\* Steps that leave the channels, the history and the peer alone, do not add to the
\* queue, do not lose the active c2n and do not make the client self-aware.
LEMMA SameChannels ==
    ASSUME ChannelInv, chans' = chans, received' = received, hist' = hist,
           sky'.msgqueue \in {sky.msgqueue, <<>>},
           sky'.active_nodelink = None => sky.active_nodelink = None,
           sky'.self_aware => sky.self_aware, sky'.turn => sky.turn \/ sky.self_aware
    PROVE  ChannelInv'
<1>1. Order'
  BY DEF ChannelInv, Order
<1>2. MarksBacked'
  BY DEF ChannelInv, MarksBacked
<1> QED BY <1>1, <1>2 DEF ChannelInv

\* Steps that remove a channel or change one without establishing it.
LEMMA FewerChannels ==
    ASSUME LoginInv, ChannelInv, received' = received, hist' = hist, chans' \in Seq(Chan),
           Shrinks(chans', chans), sky' = sky, chans # <<>>
    PROVE  ChannelInv'
<1>1. chans \in Seq(Chan) /\ IsFiniteSet(Tokens(chans))
  BY DEF ChannelInv, MarksBacked
<1>2. /\ ActiveChannels(chans) = {} => ActiveChannels(chans') = {}
      /\ Waiting(chans) = {} => Waiting(chans') = {}
      /\ Waiting(chans) \subseteq ActiveChannels(chans) =>
           Waiting(chans') \subseteq ActiveChannels(chans')
  BY <1>1, ShrinkFacts
<1>3. IsFiniteSet(Tokens(chans')) /\ Cardinality(Tokens(chans')) <= Cardinality(Tokens(chans))
  BY <1>1, ShrinkFacts
<1>4. /\ Cardinality(Tokens(chans)) \in Nat /\ Cardinality(Tokens(chans')) \in Nat
      /\ Cardinality(Marked(hist)) \in Nat
      /\ Cardinality(Marked(hist)) + Cardinality(Tokens(chans)) <= Len(received)
      /\ Len(received) \in Nat
  BY <1>1, <1>3, MarksFinite, FS_CardinalityType
     DEF LoginInv, TypeOK, ChannelInv, MarksBacked, Texts
<1>5. MarksBacked'
  BY <1>3, <1>4 DEF MarksBacked
<1>6. Order'
  BY <1>2 DEF ChannelInv, Order
<1> QED BY <1>5, <1>6 DEF ChannelInv

\* A channel is added; the client has an active c2n.
LEMMA MoreChannels ==
    ASSUME ChannelInv, received' = received, Marked(hist') = Marked(hist),
           NEW out \in BOOLEAN, NEW state \in ChanStates \ {"ACTIVE"},
           chans' = Append(chans, NewChannel(out, state)),
           sky'.active_nodelink # None, sky'.self_aware = sky.self_aware,
           sky'.turn = sky.turn,
           sky'.msgqueue = sky.msgqueue \/ ActiveChannels(chans) = {}
    PROVE  ChannelInv'
<1> DEFINE c == NewChannel(out, state)
<1>1. c \in Chan /\ c.acks = 0 /\ ~IsActive(c) /\ c.write_buf = <<>>
  BY NewChannelType DEF IsActive
<1> HIDE DEF c
<1>2. chans \in Seq(Chan)
  BY DEF ChannelInv
<1>3. /\ Append(chans, c) \in Seq(Chan)
      /\ ActiveChannels(Append(chans, c)) = ActiveChannels(chans)
      /\ Tokens(Append(chans, c)) = Tokens(chans)
      /\ Waiting(Append(chans, c)) = Waiting(chans)
  BY <1>1, <1>2, AppendChan
<1>4. chans' = Append(chans, c)
  BY DEF c
<1>5. MarksBacked'
  BY <1>3, <1>4 DEF ChannelInv, MarksBacked
<1>6. Order'
  BY <1>3, <1>4 DEF ChannelInv, Order
<1> QED BY <1>3, <1>4, <1>5, <1>6 DEF ChannelInv

\* A step of a login.
LEMMA LoginChannels ==
    ASSUME LoginInv, ChannelInv, NEW l \in C2n,
           \/ process_c2n(l) \/ c2n_stage6_nodelistrequest(l)
           \/ c2n_optstage7_multilogin(l) \/ c2n_failed(l)
    PROVE  ChannelInv'
<1>1. sky \in Fields
  BY DEF LoginInv, TypeOK
<1> DEFINE s == nodelink_activated(sky, l)
<1>2. /\ s \in Fields
      /\ sky.self_aware => s.msgqueue = sky.msgqueue
      /\ s.active_nodelink = (IF sky.self_aware THEN sky.active_nodelink ELSE l)
      /\ s.turn = sky.turn
  BY ActivatedFields
<1> HIDE DEF s
<1>3. CASE process_c2n(l)
  BY <1>3, SameChannels DEF process_c2n
<1>4. CASE c2n_stage6_nodelistrequest(l)
  <2>1. /\ sky' = s /\ hist' = hist /\ received' = received
        /\ chans' = IF sky.self_aware THEN chans
                    ELSE IF ~sky.self_aware /\ s.msgqueue # <<>>
                    THEN PICA_new_c2c(<<>>) ELSE <<>>
    BY <1>4 DEF c2n_stage6_nodelistrequest, s
  <2>2. CASE sky.self_aware
    <3>1. /\ chans' = chans /\ sky'.msgqueue \in {sky.msgqueue, <<>>}
          /\ sky'.active_nodelink = sky.active_nodelink
          /\ sky'.turn = sky.turn
      BY <1>2, <2>1, <2>2
    <3> QED BY <2>1, <2>2, <3>1, SameChannels
  <2>3. CASE ~sky.self_aware /\ chans' = <<>>
    BY <2>1, <2>3, DropChannels
  <2>4. CASE ~sky.self_aware /\ chans' = PICA_new_c2c(<<>>)
    <3> DEFINE c == NewChannel(TRUE, "NEW")
    <3>1. c \in Chan /\ c.acks = 0 /\ ~IsActive(c) /\ c.write_buf = <<>>
      BY NewChannelType DEF IsActive, ChanStates
    <3>2. chans' = Append(<<>>, c)
      BY <2>4 DEF PICA_new_c2c
    <3> HIDE DEF c
    <3>3. /\ chans' \in Seq(Chan) /\ ActiveChannels(chans') = {} /\ Tokens(chans') = {}
          /\ Waiting(chans') = {}
      BY <3>1, <3>2, NoChans, AppendChan
    <3>4. IsFiniteSet({}) /\ Cardinality({}) = 0
      BY FS_EmptySet
    <3>5. /\ Cardinality(Tokens(chans)) \in Nat /\ Cardinality(Marked(hist)) \in Nat
          /\ Cardinality(Marked(hist)) + Cardinality(Tokens(chans)) <= Len(received)
          /\ Len(received) \in Nat
      BY MarksFinite, FS_CardinalityType DEF LoginInv, TypeOK, ChannelInv, MarksBacked, Texts
    <3>9. hist' = hist /\ received' = received
      BY <2>1
    <3>6. MarksBacked'
      <4>1. Cardinality(Marked(hist)) + 0 <= Len(received)
        BY <3>5
      <4> QED BY <3>3, <3>4, <3>9, <4>1 DEF MarksBacked
    <3>7. sky'.active_nodelink = l /\ l # None
      BY <1>2, <2>1, <2>4, SkyNetAssumption
    <3>8. Order'
      BY <3>3 DEF Order
    <3> QED BY <2>1, <3>3, <3>6, <3>7, <3>8 DEF ChannelInv
  <2> QED BY <2>1, <2>2, <2>3, <2>4
<1>5. CASE c2n_optstage7_multilogin(l)
  <2>1. /\ sky' = IF sky.self_aware THEN [s EXCEPT !.alive = FALSE] ELSE nodelink_closed(s, l)
        /\ chans' = IF sky.self_aware THEN chans ELSE <<>>
        /\ hist' = hist /\ received' = received
    BY <1>5 DEF c2n_optstage7_multilogin, s
  <2>2. CASE sky.self_aware
    <3>1. /\ chans' = chans /\ sky'.msgqueue = sky.msgqueue
          /\ sky'.active_nodelink = sky.active_nodelink
          /\ sky'.turn = sky.turn
      BY <1>2, <2>1, <2>2 DEF Fields
    <3> QED BY <2>1, <2>2, <3>1, SameChannels
  <2>3. CASE ~sky.self_aware
    BY <2>1, <2>3, DropChannels
  <2> QED BY <2>2, <2>3
<1>6. CASE c2n_failed(l)
  <2>1. /\ sky' = nodelink_failed(sky, l) /\ chans' = chans /\ hist' = hist
        /\ received' = received
    BY <1>6 DEF c2n_failed
  <2>2. /\ sky'.msgqueue = sky.msgqueue /\ sky'.active_nodelink = sky.active_nodelink
        /\ sky'.self_aware => sky.self_aware
        /\ sky'.turn => sky.turn \/ sky.self_aware
    BY <1>1, <2>1 DEF nodelink_failed, Fields
  <2> QED BY <2>1, <2>2, SameChannels
<1> QED BY <1>3, <1>4, <1>5, <1>6

\* The other steps of the control connection.
LEMMA ControlChannels ==
    ASSUME LoginInv, ChannelInv, Control
    PROVE  ChannelInv'
<1>1. sky \in Fields
  BY DEF LoginInv, TypeOK
<1>2. CASE c2n_closed
  BY <1>2, DropChannels DEF c2n_closed, PICA_close_c2n
<1>3. ASSUME NEW timer, Join(timer)
      PROVE  ChannelInv'
  <2>1. PICK new, b : sky' = [sky EXCEPT !.joins = @ + 1, !.connecting_nodes = new,
                                         !.timer = timer, !.stranded = b, !.offline = FALSE]
    BY <1>3 DEF Join
  <2>2. /\ sky'.msgqueue = sky.msgqueue /\ sky'.active_nodelink = sky.active_nodelink
        /\ sky'.self_aware = sky.self_aware /\ sky'.turn = sky.turn
    BY <1>1, <2>1 DEF Fields
  <2>3. chans' = chans /\ hist' = hist /\ received' = received
    BY <1>3 DEF Join
  <2> QED BY <2>2, <2>3, SameChannels
<1>4. ASSUME NEW s \in Fields, s.active_nodelink = sky.active_nodelink, s.turn = sky.turn,
             Exit(s)
      PROVE  ChannelInv'
  <2>1. /\ hist' = hist /\ received' = received
        /\ chans' = IF s.self_aware THEN <<>> ELSE chans
        /\ sky' = [s EXCEPT !.self_aware = FALSE, !.msgqueue = <<>>, !.connecting_nodes = {},
                            !.active_nodelink = IF s.self_aware THEN None ELSE @,
                            !.offline = TRUE]
    BY <1>4 DEF Exit
  <2>2. CASE s.self_aware
    BY <2>1, <2>2, DropChannels
  <2>3. CASE ~s.self_aware
    <3>1. /\ sky'.msgqueue = <<>> /\ sky'.active_nodelink = sky.active_nodelink
          /\ ~sky'.self_aware /\ sky'.turn = sky.turn
      BY <1>4, <2>1, <2>3 DEF Fields
    <3> QED BY <2>1, <2>3, <3>1, SameChannels
  <2> QED BY <2>2, <2>3
<1>5. CASE procmsg_MULTILOGIN
  <2>1. /\ sky' = [sky EXCEPT !.event = TRUE] /\ chans' = chans /\ hist' = hist
        /\ received' = received
    BY <1>5 DEF procmsg_MULTILOGIN
  <2>2. /\ sky'.msgqueue = sky.msgqueue /\ sky'.active_nodelink = sky.active_nodelink
        /\ sky'.self_aware = sky.self_aware /\ sky'.turn = sky.turn
    BY <1>1, <2>1 DEF Fields
  <2> QED BY <2>1, <2>2, SameChannels
<1>8. CASE timerEvent_ends
  <2>1. /\ sky' = [sky EXCEPT !.turn = FALSE] /\ chans' = chans /\ hist' = hist
        /\ received' = received
    BY <1>8 DEF timerEvent_ends
  <2>2. /\ sky'.msgqueue = sky.msgqueue /\ sky'.active_nodelink = sky.active_nodelink
        /\ sky'.self_aware = sky.self_aware /\ ~sky'.turn
    BY <1>1, <2>1 DEF Fields
  <2> QED BY <2>1, <2>2, SameChannels
<1>6. CASE multilogin_event
  <2> DEFINE s == [sky EXCEPT !.event = FALSE]
  <2>1. /\ s \in Fields /\ s.active_nodelink = sky.active_nodelink /\ s.msgqueue = sky.msgqueue
        /\ s.self_aware = sky.self_aware /\ s.turn = sky.turn
    BY <1>1 DEF Fields
  <2>2. \/ Exit(s)
        \/ /\ \E lives \in BOOLEAN : sky' = [s EXCEPT !.alive = lives]
           /\ chans' = chans /\ hist' = hist /\ received' = received
    BY <1>6 DEF multilogin_event
  <2> HIDE DEF s
  <2>3. CASE Exit(s)
    BY <1>4, <2>1, <2>3
  <2>4. ASSUME NEW lives \in BOOLEAN, sky' = [s EXCEPT !.alive = lives],
               chans' = chans, hist' = hist, received' = received
        PROVE  ChannelInv'
    <3>1. /\ sky'.msgqueue = sky.msgqueue /\ sky'.active_nodelink = sky.active_nodelink
          /\ sky'.self_aware = sky.self_aware /\ sky'.turn = sky.turn
      BY <2>1, <2>4 DEF Fields
    <3> QED BY <2>4, <3>1, SameChannels
  <2> QED BY <2>2, <2>3, <2>4
<1>7. CASE UserExits
  BY <1>1, <1>4, <1>7 DEF UserExits
<1> QED BY <1>2, <1>3, <1>5, <1>6, <1>7, <1>8, LoginChannels
           DEF Control, UserJoins, ReconnectTimer

\* A channel changed to a lesser one.
LEMMA UpdateShrinks ==
    ASSUME NEW cs \in Seq(Chan), NEW i \in DOMAIN cs, NEW c \in Chan, Lesser(c, cs[i])
    PROVE  [cs EXCEPT ![i] = c] \in Seq(Chan) /\ Shrinks([cs EXCEPT ![i] = c], cs)
<1> DEFINE ds == [cs EXCEPT ![i] = c]
           f == [j \in DOMAIN ds |-> j]
<1>1. /\ ds \in Seq(Chan) /\ DOMAIN ds = DOMAIN cs /\ ds[i] = c
      /\ \A j \in DOMAIN cs \ {i} : ds[j] = cs[j]
  BY UpdateChan
<1>2. \A j \in DOMAIN cs : cs[j].acks \in Nat
  BY ChanSeq
<1> HIDE DEF ds
<1>3. f \in [DOMAIN ds -> DOMAIN cs] /\ \A j \in DOMAIN ds : f[j] = j
  BY <1>1
<1> HIDE DEF f
<1>4. \A j \in DOMAIN ds : Lesser(ds[j], cs[f[j]])
  BY <1>1, <1>2, <1>3 DEF Lesser
<1>5. Shrinks(ds, cs)
  BY <1>3, <1>4 DEF Shrinks
<1> QED BY <1>1, <1>5 DEF ds

\* FOUND restarts the last channel.
LEMMA FoundChannels ==
    ASSUME LoginInv, ChannelInv, procmsg_FOUND
    PROVE  ChannelInv'
<1>1. CASE chans = <<>>
  BY <1>1, DropChannels DEF procmsg_FOUND, PICA_close_c2n
<1>2. CASE chans # <<>>
  <2> DEFINE i == Len(chans)
             n == NewChannel(chans[i].outgoing, "STARTING")
             c == [n EXCEPT !.spent = chans[i].spent \/ IsActive(chans[i])]
  <2>1. /\ chans' = [chans EXCEPT ![i] = c] /\ sky' = sky /\ hist' = hist
        /\ received' = received
    BY <1>2 DEF procmsg_FOUND
  <2>2. chans \in Seq(Chan) /\ i \in DOMAIN chans
    BY <1>2, ChanSeq, EmptySeq DEF ChannelInv
  <2>3. chans[i] \in Chan /\ chans[i].acks \in Nat
    BY <2>2, ChanSeq
  <2>4. n \in Chan /\ n.acks = 0 /\ n.state = "STARTING" /\ n.write_buf = <<>>
    <3>1. chans[i].outgoing \in BOOLEAN
      BY <2>3 DEF Chan
    <3> QED BY <3>1, NewChannelType DEF ChanStates
  <2> HIDE DEF n, i
  <2>5. c \in Chan /\ c.acks = 0 /\ c.state = "STARTING" /\ c.write_buf = <<>>
    <3>1. (chans[i].spent \/ IsActive(chans[i])) \in BOOLEAN
      OBVIOUS
    <3> QED BY <2>4, <3>1 DEF Chan
  <2> HIDE DEF c
  <2>7. Lesser(c, chans[i])
    BY <2>3, <2>5 DEF IsActive, Lesser
  <2>6. chans' \in Seq(Chan) /\ Shrinks(chans', chans)
    BY <2>1, <2>2, <2>5, <2>7, UpdateShrinks, Zenon
  <2> QED BY <1>2, <2>1, <2>6, FewerChannels
<1> QED BY <1>1, <1>2

\* NOTFOUND removes the last channel.
LEMMA NotFoundChannels ==
    ASSUME LoginInv, ChannelInv, procmsg_NOTFOUND
    PROVE  ChannelInv'
<1>1. CASE chans = <<>>
  BY <1>1, DropChannels DEF procmsg_NOTFOUND, PICA_close_c2n
<1>2. CASE chans # <<>>
  <2>1. chans' = Front(chans) /\ sky' = sky /\ hist' = hist /\ received' = received
    BY <1>2 DEF procmsg_NOTFOUND
  <2>2. chans' \in Seq(Chan) /\ Shrinks(chans', chans)
    BY <1>2, <2>1, FrontChan DEF ChannelInv
  <2> QED BY <1>2, <2>1, <2>2, FewerChannels
<1> QED BY <1>1, <1>2

\* A channel goes.
LEMMA RemoveChannels ==
    ASSUME LoginInv, ChannelInv, NEW i \in DOMAIN chans,
           process_c2c_failed(i) \/ process_c2c_closed(i)
    PROVE  ChannelInv'
<1>1. chans' = RemoveAt(chans, i) /\ sky' = sky /\ hist' = hist /\ received' = received
  BY DEF process_c2c_failed, process_c2c_closed
<1>2. chans \in Seq(Chan) /\ chans # <<>>
  BY EmptySeq DEF ChannelInv
<1>3. chans' \in Seq(Chan) /\ Shrinks(chans', chans)
  BY <1>1, <1>2, RemoveChan
<1> QED BY <1>1, <1>2, <1>3, FewerChannels

\* What waits in write_buf goes to the peer.
LEMMA WriteChannels ==
    ASSUME LoginInv, ChannelInv, NEW i \in DOMAIN chans, PICA_write_c2c(i)
    PROVE  ChannelInv'
<1>1. chans \in Seq(Chan) /\ chans # <<>> /\ chans[i] \in Chan /\ chans[i].acks \in Nat
  BY ChanSeq, EmptySeq DEF ChannelInv
<1> DEFINE c == [chans[i] EXCEPT !.wire = chans[i].wire \o chans[i].write_buf,
                                 !.write_buf = <<>>]
<1>2. chans' = [chans EXCEPT ![i] = c] /\ sky' = sky /\ hist' = hist /\ received' = received
  BY <1>1 DEF PICA_write_c2c, Chan
<1>3. chans[i].wire \o chans[i].write_buf \in Texts /\ <<>> \in Texts
  <2>1. chans[i].wire \in Texts /\ chans[i].write_buf \in Texts
    BY <1>1 DEF Chan
  <2> QED BY <2>1, ConcatProperties, EmptySeq DEF Texts
<1>4. /\ c \in Chan /\ c.acks = chans[i].acks /\ c.state = chans[i].state
      /\ c.write_buf = <<>>
  BY <1>1, <1>3 DEF Chan
<1> HIDE DEF c
<1>6. Lesser(c, chans[i])
  BY <1>1, <1>4 DEF IsActive, Lesser
<1>5. chans' \in Seq(Chan) /\ Shrinks(chans', chans)
  BY <1>1, <1>2, <1>4, <1>6, UpdateShrinks, Zenon
<1> QED BY <1>1, <1>2, <1>5, FewerChannels

\* The peer reads a message: one more received, one more MSGOK.
LEMMA PeerChannels ==
    ASSUME LoginInv, ChannelInv, NEW i \in DOMAIN chans, PeerReads(i)
    PROVE  ChannelInv'
<1>1. /\ chans \in Seq(Chan) /\ chans # <<>> /\ chans[i] \in Chan /\ chans[i].acks \in Nat
      /\ i \in Nat /\ \A j \in DOMAIN chans : chans[j].acks \in Nat
  BY ChanSeq, EmptySeq DEF ChannelInv
<1>2. chans[i].wire \in Texts /\ chans[i].wire # <<>>
  BY <1>1 DEF Chan, PeerReads
<1>3. Tail(chans[i].wire) \in Texts /\ Head(chans[i].wire) \in 1 .. MaxTexts
  BY <1>2, HeadTailProperties DEF Texts
<1> DEFINE c == [chans[i] EXCEPT !.wire = Tail(chans[i].wire), !.acks = chans[i].acks + 1]
<1>4. /\ chans' = [chans EXCEPT ![i] = c] /\ sky' = sky /\ hist' = hist
      /\ received' = Append(received, Head(chans[i].wire))
  BY <1>1 DEF PeerReads, Chan
<1>5. /\ c \in Chan /\ c.acks = chans[i].acks + 1 /\ c.state = chans[i].state
      /\ c.write_buf = chans[i].write_buf
  <2>1. chans[i].acks + 1 \in Nat
    BY <1>1
  <2> QED BY <1>1, <1>3, <2>1 DEF Chan
<1> HIDE DEF c
<1>6. /\ chans' \in Seq(Chan) /\ DOMAIN chans' = DOMAIN chans /\ chans'[i] = c
      /\ \A j \in DOMAIN chans \ {i} : chans'[j] = chans[j]
  BY <1>1, <1>4, <1>5, UpdateChan
<1>7. received' \in Texts /\ Len(received') = Len(received) + 1 /\ Len(received) \in Nat
  BY <1>3, <1>4, AppendProperties, LenProperties DEF ChannelInv, Texts
<1>8. ActiveChannels(chans') = ActiveChannels(chans) /\ Waiting(chans') = Waiting(chans)
  BY <1>5, <1>6 DEF ActiveChannels, IsActive, Waiting
<1> DEFINE new == <<i, chans[i].acks + 1>>
<1>9. Tokens(chans') = Tokens(chans) \cup {new}
  <2>1. ASSUME NEW t \in Nat \X Nat
        PROVE  t \in Tokens(chans') <=> t \in Tokens(chans) \cup {new}
    <3>1. CASE t[1] = i
      <4>1. t = <<i, t[2]>> /\ t[2] \in Nat
        BY <3>1
      <4>2. t \in Tokens(chans') <=> t[2] \in 1 .. chans[i].acks + 1
        BY <1>5, <1>6, <3>1 DEF Tokens
      <4>3. t \in Tokens(chans) <=> t[2] \in 1 .. chans[i].acks
        BY <3>1 DEF Tokens
      <4>4. t = new <=> t[2] = chans[i].acks + 1
        BY <4>1
      <4> HIDE DEF new
      <4>5. t[2] \in 1 .. chans[i].acks + 1 <=>
              t[2] \in 1 .. chans[i].acks \/ t[2] = chans[i].acks + 1
        BY <1>1, <4>1
      <4> QED BY <4>2, <4>3, <4>4, <4>5
    <3>2. CASE t[1] # i
      <4>1. t # new
        BY <3>2
      <4> HIDE DEF new
      <4>2. t \in Tokens(chans') <=> t \in Tokens(chans)
        BY <1>6, <3>2 DEF Tokens
      <4> QED BY <4>1, <4>2
    <3> QED BY <3>1, <3>2
  <2>2. new \in Nat \X Nat
    BY <1>1
  <2>3. Tokens(chans') \subseteq Nat \X Nat /\ Tokens(chans) \subseteq Nat \X Nat
    BY DEF Tokens
  <2> HIDE DEF new
  <2> QED BY <2>1, <2>2, <2>3
<1> HIDE DEF new
<1>10. /\ IsFiniteSet(Tokens(chans)) /\ Cardinality(Tokens(chans)) \in Nat
       /\ Cardinality(Marked(hist)) \in Nat
       /\ Cardinality(Marked(hist)) + Cardinality(Tokens(chans)) <= Len(received)
  BY MarksFinite, FS_CardinalityType DEF LoginInv, TypeOK, ChannelInv, MarksBacked
<1>11. /\ IsFiniteSet(Tokens(chans) \cup {new})
       /\ \/ Cardinality(Tokens(chans) \cup {new}) = Cardinality(Tokens(chans))
          \/ Cardinality(Tokens(chans) \cup {new}) = Cardinality(Tokens(chans)) + 1
  BY <1>10, FS_AddElement
<1>12. MarksBacked'
  <2>1. Cardinality(Marked(hist)) + Cardinality(Tokens(chans')) <= Len(received')
    BY <1>7, <1>9, <1>10, <1>11
  <2> QED BY <1>4, <1>9, <1>11, <2>1 DEF MarksBacked
<1>13. Order'
  BY <1>4, <1>8 DEF ChannelInv, Order
<1> QED BY <1>1, <1>4, <1>6, <1>7, <1>12, <1>13 DEF ChannelInv

\* A receipt takes a MSGOK and marks at most one message.
LEMMA ReceiptChannels ==
    ASSUME LoginInv, ChannelInv, NEW i \in DOMAIN chans, procmsg_MSGOK(i)
    PROVE  ChannelInv'
<1>1. /\ chans \in Seq(Chan) /\ chans # <<>> /\ chans[i] \in Chan /\ chans[i].acks \in Nat
      /\ i \in Nat /\ \A j \in DOMAIN chans : chans[j].acks \in Nat
  BY ChanSeq, EmptySeq DEF ChannelInv
<1>2. chans[i].acks > 0 /\ chans[i].acks - 1 \in Nat
  BY <1>1 DEF procmsg_MSGOK
<1> DEFINE c == [chans[i] EXCEPT !.acks = chans[i].acks - 1]
<1>3. /\ chans' = [chans EXCEPT ![i] = c] /\ sky' = sky /\ received' = received
      /\ hist' = SetDelivered(hist)
  BY <1>1 DEF procmsg_MSGOK, Chan
<1>4. /\ c \in Chan /\ c.acks = chans[i].acks - 1 /\ c.state = chans[i].state
      /\ c.write_buf = chans[i].write_buf
  BY <1>1, <1>2 DEF Chan
<1> HIDE DEF c
<1>5. /\ chans' \in Seq(Chan) /\ DOMAIN chans' = DOMAIN chans /\ chans'[i] = c
      /\ \A j \in DOMAIN chans \ {i} : chans'[j] = chans[j]
  BY <1>1, <1>3, <1>4, UpdateChan
<1>6. ActiveChannels(chans') = ActiveChannels(chans) /\ Waiting(chans') = Waiting(chans)
  BY <1>4, <1>5 DEF ActiveChannels, IsActive, Waiting
<1> DEFINE old == <<i, chans[i].acks>>
<1>7. Tokens(chans') = Tokens(chans) \ {old}
  <2>1. ASSUME NEW t \in Nat \X Nat
        PROVE  t \in Tokens(chans') <=> t \in Tokens(chans) \ {old}
    <3>1. CASE t[1] = i
      <4>1. t = <<i, t[2]>> /\ t[2] \in Nat
        BY <3>1
      <4>2. t \in Tokens(chans') <=> t[2] \in 1 .. chans[i].acks - 1
        BY <1>4, <1>5, <3>1 DEF Tokens
      <4>3. t \in Tokens(chans) <=> t[2] \in 1 .. chans[i].acks
        BY <3>1 DEF Tokens
      <4>4. t = old <=> t[2] = chans[i].acks
        BY <4>1
      <4> HIDE DEF old
      <4>5. t[2] \in 1 .. chans[i].acks - 1 <=>
              t[2] \in 1 .. chans[i].acks /\ t[2] # chans[i].acks
        BY <1>1, <4>1
      <4> QED BY <4>2, <4>3, <4>4, <4>5
    <3>2. CASE t[1] # i
      <4>1. t # old
        BY <3>2
      <4> HIDE DEF old
      <4>2. t \in Tokens(chans') <=> t \in Tokens(chans)
        BY <1>5, <3>2 DEF Tokens
      <4> QED BY <4>1, <4>2
    <3> QED BY <3>1, <3>2
  <2>2. Tokens(chans') \subseteq Nat \X Nat /\ Tokens(chans) \subseteq Nat \X Nat
    BY DEF Tokens
  <2> HIDE DEF old
  <2> QED BY <2>1, <2>2
<1>8. old \in Tokens(chans)
  BY <1>1, <1>2 DEF Tokens
<1> HIDE DEF old
<1>9. /\ IsFiniteSet(Tokens(chans)) /\ Cardinality(Tokens(chans)) \in Nat
      /\ IsFiniteSet(Marked(hist)) /\ Cardinality(Marked(hist)) \in Nat
      /\ Cardinality(Marked(hist)) + Cardinality(Tokens(chans)) <= Len(received)
      /\ Len(received) \in Nat
  BY MarksFinite, FS_CardinalityType, LenProperties
     DEF LoginInv, TypeOK, ChannelInv, MarksBacked, Texts
<1>10. /\ IsFiniteSet(Tokens(chans) \ {old})
       /\ Cardinality(Tokens(chans) \ {old}) = Cardinality(Tokens(chans)) - 1
  BY <1>8, <1>9, FS_RemoveElement
<1>11. \/ Cardinality(Marked(hist')) = Cardinality(Marked(hist))
       \/ Cardinality(Marked(hist')) = Cardinality(Marked(hist)) + 1
  <2> DEFINE open == {n \in DOMAIN hist : ~hist[n]}
  <2>1. CASE open = {}
    <3>1. hist' = hist
      BY <1>3, <2>1 DEF SetDelivered
    <3> QED BY <3>1
  <2>2. CASE open # {}
    <3> DEFINE first == CHOOSE n \in open : \A m \in open : n <= m
    <3>1. hist' = [hist EXCEPT ![first] = TRUE]
      BY <1>3, <2>2 DEF SetDelivered
    <3> HIDE DEF first
    <3>2. DOMAIN hist' = DOMAIN hist /\ \A n \in DOMAIN hist : n # first => hist'[n] = hist[n]
      BY <3>1, Zenon
    <3>3. \A n \in DOMAIN hist : n = first => hist'[n]
      BY <3>1
    <3>4. Marked(hist') = Marked(hist) \/ Marked(hist') = Marked(hist) \cup {first}
      BY <3>2, <3>3 DEF Marked
    <3> QED BY <1>9, <3>4, FS_AddElement
  <2> QED BY <2>1, <2>2
<1>12. MarksBacked'
  <2>1. Cardinality(Marked(hist')) + Cardinality(Tokens(chans')) <= Len(received)
    BY <1>7, <1>9, <1>10, <1>11
  <2> QED BY <1>3, <1>7, <1>10, <2>1 DEF MarksBacked
<1>13. Order'
  BY <1>3, <1>6 DEF ChannelInv, Order
<1> QED BY <1>1, <1>3, <1>5, <1>12, <1>13 DEF ChannelInv

\* find_active_chan returns an established channel when there is one.
LEMMA FoundChan ==
    ASSUME NEW cs \in Seq(Chan), ActiveChannels(cs) # {}
    PROVE  find_active_chan(cs) \in ActiveChannels(cs) /\ find_active_chan(cs) \in DOMAIN cs
<1>1. ActiveChannels(cs) \subseteq Nat /\ ActiveChannels(cs) \subseteq DOMAIN cs
  BY ChanSeq DEF ActiveChannels
<1>2. \E i \in ActiveChannels(cs) : \A j \in ActiveChannels(cs) : i <= j
  BY <1>1, LeastNat
<1>3. find_active_chan(cs) \in ActiveChannels(cs)
  BY <1>2 DEF find_active_chan
<1> QED BY <1>1, <1>3

\* Channel i of the list has other text to be written.
WithText(cs, i, b) == [cs EXCEPT ![i].write_buf = b]

\* More text for one channel: nothing else of the list changes.
LEMMA AddText ==
    ASSUME NEW cs \in Seq(Chan), NEW i \in DOMAIN cs, NEW b \in Texts
    PROVE  /\ WithText(cs, i, b) \in Seq(Chan) /\ Tokens(WithText(cs, i, b)) = Tokens(cs)
           /\ ActiveChannels(WithText(cs, i, b)) = ActiveChannels(cs)
           /\ Waiting(WithText(cs, i, b)) \subseteq Waiting(cs) \cup {i}
<1> DEFINE c == [cs[i] EXCEPT !.write_buf = b]
           ds == [cs EXCEPT ![i] = c]
<1>1. cs[i] \in Chan
  BY ChanSeq
<1>2. c \in Chan /\ c.acks = cs[i].acks /\ c.state = cs[i].state
  BY <1>1 DEF Chan
<1>3. WithText(cs, i, b) = ds
  BY DEF WithText
<1> HIDE DEF c
<1>4. /\ ds \in Seq(Chan) /\ DOMAIN ds = DOMAIN cs /\ ds[i] = c
      /\ \A j \in DOMAIN cs \ {i} : ds[j] = cs[j]
  BY <1>2, UpdateChan
<1> HIDE DEF ds
<1>5. \A j \in DOMAIN cs : ds[j].acks = cs[j].acks /\ ds[j].state = cs[j].state
  BY <1>2, <1>4
<1>6. Tokens(ds) = Tokens(cs)
  BY <1>4, <1>5, SameTokens
<1>7. ActiveChannels(ds) = ActiveChannels(cs)
  BY <1>4, <1>5 DEF ActiveChannels, IsActive
<1>8. Waiting(ds) \subseteq Waiting(cs) \cup {i}
  BY <1>4 DEF Waiting
<1> QED BY <1>3, <1>4, <1>6, <1>7, <1>8

\* A channel is established and the queue is sent on it.
LEMMA FlushedChannels ==
    ASSUME LoginInv, ChannelInv, NEW i \in DOMAIN chans, c2c_established_cb(i), sky.self_aware
    PROVE  ChannelInv'
<1>1. /\ chans \in Seq(Chan) /\ chans # <<>> /\ chans[i] \in Chan
      /\ sky \in Fields /\ sky.msgqueue \in Texts
  BY ChanSeq, EmptySeq, FieldTypes DEF ChannelInv, LoginInv, TypeOK, Texts
<1> DEFINE c == [chans[i] EXCEPT !.state = "ACTIVE"]
           cs == [chans EXCEPT ![i] = c]
           k == find_active_chan(cs)
           sent == SubSeq(sky.msgqueue, 1, Sendable(sky.msgqueue))
<1>2. c \in Chan /\ c.acks = chans[i].acks /\ c.state = "ACTIVE"
  BY <1>1 DEF Chan, ChanStates
<1>3. [chans EXCEPT ![i].state = "ACTIVE"] = cs
  OBVIOUS
<1>4. /\ chans' = [cs EXCEPT ![k].write_buf = cs[k].write_buf \o sent]
      /\ sky' = [sky EXCEPT !.msgqueue = Flushed(sky.msgqueue)]
      /\ hist' = hist /\ received' = received
  <2>1. chans' = flush_queues(cs, sky.msgqueue)
    BY <1>3 DEF c2c_established_cb
  <2>2. flush_queues(cs, sky.msgqueue) = [cs EXCEPT ![k].write_buf = cs[k].write_buf \o sent]
    BY DEF flush_queues
  <2> QED BY <2>1, <2>2 DEF c2c_established_cb
<1> HIDE DEF c
<1>5. /\ cs \in Seq(Chan) /\ DOMAIN cs = DOMAIN chans /\ cs[i] = c
      /\ \A j \in DOMAIN chans \ {i} : cs[j] = chans[j]
  BY <1>1, <1>2, UpdateChan
<1> HIDE DEF cs
<1>6. Tokens(cs) = Tokens(chans)
  BY <1>2, <1>5, SameTokens
<1>7. ActiveChannels(cs) # {}
  BY <1>2, <1>5 DEF ActiveChannels, IsActive
<1>8. k \in DOMAIN cs /\ k \in ActiveChannels(cs)
  BY <1>5, <1>7, FoundChan
<1> HIDE DEF k
<1>9. /\ Sendable(sky.msgqueue) \in 0 .. Len(sky.msgqueue)
      /\ Flushed(sky.msgqueue) # <<>> => Flushed(sky.msgqueue)[1] \in TooLong
  BY <1>1, FlushedHead DEF Texts
<1>10. sent \in Texts
  <2>1. Len(sky.msgqueue) \in Nat
    BY <1>1 DEF Texts
  <2>2. \A j \in 1 .. Sendable(sky.msgqueue) : sky.msgqueue[j] \in 1 .. MaxTexts
    <3>1. \A j \in 1 .. Sendable(sky.msgqueue) : j \in 1 .. Len(sky.msgqueue)
      BY <1>9, <2>1
    <3> QED BY <1>1, <3>1, ElementOfSeq, Zenon DEF Texts
  <2>3. 1 \in Int /\ Sendable(sky.msgqueue) \in Int
    BY <1>9, <2>1
  <2> QED BY <2>2, <2>3, SubSeqProperties, Zenon DEF Texts
<1> HIDE DEF sent
<1>11. cs[k].write_buf \o sent \in Texts
  <2>1. cs[k] \in Chan
    BY <1>5, <1>8, ChanSeq
  <2>2. cs[k].write_buf \in Texts
    BY <2>1 DEF Chan
  <2> QED BY <1>10, <2>2, ConcatProperties DEF Texts
<1>12. /\ chans' \in Seq(Chan) /\ Tokens(chans') = Tokens(cs)
       /\ ActiveChannels(chans') = ActiveChannels(cs)
       /\ Waiting(chans') \subseteq Waiting(cs) \cup {k}
  <2>1. chans' = WithText(cs, k, cs[k].write_buf \o sent)
    BY <1>4 DEF WithText
  <2> QED BY <1>5, <1>8, <1>11, <2>1, AddText
<1>13. MarksBacked'
  BY <1>4, <1>6, <1>12 DEF ChannelInv, MarksBacked
<1>14. /\ sky'.msgqueue = Flushed(sky.msgqueue)
       /\ sky'.active_nodelink = sky.active_nodelink
  BY <1>1, <1>4 DEF Fields
<1>15. Waiting(cs) \subseteq ActiveChannels(cs)
  BY <1>2, <1>5 DEF ChannelInv, Order, Waiting, ActiveChannels, IsActive
<1>16. Order'
  BY <1>8, <1>9, <1>12, <1>14, <1>15 DEF Order
<1> QED BY <1>1, <1>4, <1>12, <1>13, <1>14, <1>16 DEF ChannelInv

\* A channel is established in the rest of a pass that took the self-awareness: the queue
\* waits, and nothing is written.
LEMMA UnflushedChannels ==
    ASSUME LoginInv, ChannelInv, NEW i \in DOMAIN chans, c2c_established_cb(i), ~sky.self_aware
    PROVE  ChannelInv'
<1>1. /\ chans \in Seq(Chan) /\ chans # <<>> /\ chans[i] \in Chan
      /\ sky \in Fields /\ sky.turn /\ ~IsActive(chans[i])
  BY ChanSeq, EmptySeq, FieldTypes
     DEF ChannelInv, LoginInv, TypeOK, c2c_established_cb, Serving, IsActive
<1> DEFINE c == [chans[i] EXCEPT !.state = "ACTIVE"]
<1>2. /\ c \in Chan /\ c.acks = chans[i].acks /\ c.state = "ACTIVE"
      /\ c.write_buf = chans[i].write_buf
  BY <1>1 DEF Chan, ChanStates
<1>3. /\ chans' = [chans EXCEPT ![i] = c] /\ hist' = hist /\ received' = received
      /\ sky' = [sky EXCEPT !.msgqueue = sky.msgqueue]
  BY DEF c2c_established_cb
<1>4. sky' = sky
  BY <1>1, <1>3 DEF Fields
<1> HIDE DEF c
<1>5. /\ chans' \in Seq(Chan) /\ DOMAIN chans' = DOMAIN chans /\ chans'[i] = c
      /\ \A j \in DOMAIN chans \ {i} : chans'[j] = chans[j]
  BY <1>1, <1>2, <1>3, UpdateChan
<1>6. Tokens(chans') = Tokens(chans)
  BY <1>2, <1>5, SameTokens
<1>7. Waiting(chans') = Waiting(chans) /\ ActiveChannels(chans) \subseteq ActiveChannels(chans')
  BY <1>2, <1>5 DEF Waiting, ActiveChannels, IsActive
<1>8. Order'
  BY <1>4, <1>7 DEF ChannelInv, Order
<1>9. MarksBacked'
  BY <1>3, <1>6 DEF ChannelInv, MarksBacked
<1> QED BY <1>1, <1>3, <1>4, <1>5, <1>8, <1>9 DEF ChannelInv

\* A message is sent at once, or it waits behind the others.
LEMMA SendChannels ==
    ASSUME LoginInv, ChannelInv, SendMessage
    PROVE  ChannelInv'
<1> DEFINE n == Len(hist) + 1
           i == find_active_chan(chans)
<1>1. /\ sky \in Fields /\ chans \in Seq(Chan) /\ hist \in Seq(BOOLEAN) /\ Len(hist) \in Nat
      /\ DOMAIN hist = 1 .. Len(hist) /\ n \in 1 .. MaxTexts
  <2>1. Len(hist) \in Nat /\ DOMAIN hist = 1 .. Len(hist)
    BY LenProperties DEF LoginInv, TypeOK
  <2>3. Len(hist) < MaxTexts /\ MaxTexts \in Nat
    BY SkyNetAssumption DEF SendMessage
  <2>2. n \in 1 .. MaxTexts
    BY <2>1, <2>3
  <2> QED BY <2>1, <2>2 DEF LoginInv, TypeOK, ChannelInv
<1>2. hist' = Append(hist, FALSE) /\ received' = received
  BY DEF SendMessage, Add
<1>3. Marked(hist') = Marked(hist)
  <2>1. FALSE \in BOOLEAN
    OBVIOUS
  <2>2. /\ hist' \in Seq(BOOLEAN) /\ Len(hist') = Len(hist) + 1
        /\ \A j \in 1 .. Len(hist) : hist'[j] = hist[j]
        /\ hist'[Len(hist) + 1] = FALSE
    BY <1>1, <1>2, <2>1, AppendProperties, Zenon
  <2>3. DOMAIN hist' = 1 .. Len(hist')
    BY <2>2, LenProperties, Zenon
  <2>4. \A j \in DOMAIN hist' : j \in DOMAIN hist \/ j = Len(hist) + 1
    BY <1>1, <2>2, <2>3
  <2>5. DOMAIN hist \subseteq DOMAIN hist'
    BY <1>1, <2>2, <2>3
  <2>6. \A j \in DOMAIN hist : hist'[j] = hist[j]
    BY <1>1, <2>2
  <2>7. \A j \in DOMAIN hist' : hist'[j] => j \in DOMAIN hist /\ hist[j]
    BY <2>2, <2>4, <2>6, Zenon
  <2> QED BY <2>5, <2>6, <2>7, Zenon DEF Marked
<1>4. CASE sky.active_nodelink # None /\ ActiveChannels(chans) # {}
  <2>1. /\ sky' = sky
        /\ chans' = chans \/ chans' = [chans EXCEPT ![i] = PICA_send_msg(chans[i], n)]
    BY <1>4 DEF SendMessage
  <2>2. i \in DOMAIN chans /\ i \in ActiveChannels(chans)
    BY <1>1, <1>4, FoundChan
  <2> HIDE DEF i, n
  <2>3. chans[i] \in Chan
    BY <1>1, <2>2, ChanSeq
  <2>4. Append(chans[i].write_buf, n) \in Texts
    <3>1. chans[i].write_buf \in Texts
      BY <2>3 DEF Chan
    <3> QED BY <1>1, <3>1, AppendProperties DEF Texts
  <2>5. [chans EXCEPT ![i] = PICA_send_msg(chans[i], n)]
          = [chans EXCEPT ![i].write_buf = Append(chans[i].write_buf, n)]
    BY <2>2 DEF PICA_send_msg
  <2>6. /\ chans' \in Seq(Chan) /\ Tokens(chans') = Tokens(chans)
        /\ ActiveChannels(chans') = ActiveChannels(chans)
        /\ Waiting(chans') \subseteq Waiting(chans) \cup {i}
    <3> DEFINE ds == WithText(chans, i, Append(chans[i].write_buf, n))
    <3>1. /\ ds \in Seq(Chan) /\ Tokens(ds) = Tokens(chans)
          /\ ActiveChannels(ds) = ActiveChannels(chans)
          /\ Waiting(ds) \subseteq Waiting(chans) \cup {i}
      BY <1>1, <2>2, <2>4, AddText
    <3>2. chans' = chans \/ chans' = ds
      BY <2>1, <2>5 DEF WithText
    <3> HIDE DEF ds
    <3> QED BY <1>1, <3>1, <3>2
  <2>7. MarksBacked'
    BY <1>2, <1>3, <2>6 DEF ChannelInv, MarksBacked
  <2>8. Order'
    BY <1>4, <2>1, <2>2, <2>6 DEF ChannelInv, Order, SendMessage, Idle
  <2> QED BY <1>2, <1>4, <2>1, <2>6, <2>7, <2>8 DEF ChannelInv
<1>5. CASE ~(sky.active_nodelink # None /\ ActiveChannels(chans) # {})
  <2>1. ActiveChannels(chans) = {}
    BY <1>5, NoChans DEF ChannelInv
  <2>2. /\ \E lives \in BOOLEAN :
              sky' = [sky EXCEPT !.msgqueue = Append(sky.msgqueue, n), !.alive = lives]
        /\ \/ CanCall /\ chans' = PICA_new_c2c(chans)
           \/ chans' = chans
    BY <1>5 DEF SendMessage
  <2>3. /\ sky'.active_nodelink = sky.active_nodelink /\ sky'.self_aware = sky.self_aware
        /\ sky'.turn = sky.turn
    BY <1>1, <2>2 DEF Fields
  <2>4. CASE CanCall /\ chans' = PICA_new_c2c(chans)
    <3>1. chans' = Append(chans, NewChannel(TRUE, "NEW"))
      BY <2>4 DEF PICA_new_c2c
    <3>2. "NEW" \in ChanStates \ {"ACTIVE"} /\ TRUE \in BOOLEAN
      BY DEF ChanStates
    <3>3. sky'.active_nodelink # None
      BY <2>3, <2>4 DEF CanCall
    <3> QED BY <1>2, <1>3, <2>1, <2>3, <3>1, <3>2, <3>3, MoreChannels
  <2>5. CASE chans' = chans
    <3>1. MarksBacked'
      BY <1>2, <1>3, <2>5 DEF ChannelInv, MarksBacked
    <3>2. Order'
      BY <2>1, <2>5 DEF ChannelInv, Order
    <3> QED BY <1>2, <2>3, <2>5, <3>1, <3>2 DEF ChannelInv
  <2> QED BY <2>2, <2>4, <2>5
<1> QED BY <1>4, <1>5

\* The invariant of the channels is inductive.
LEMMA NextChannels == LoginInv /\ ChannelInv /\ [Next]_vars => ChannelInv'
<1> SUFFICES ASSUME LoginInv, ChannelInv, [Next]_vars
             PROVE  ChannelInv'
  OBVIOUS
<1>1. /\ "NEW" \in ChanStates \ {"ACTIVE"} /\ "STARTING" \in ChanStates \ {"ACTIVE"}
      /\ TRUE \in BOOLEAN /\ FALSE \in BOOLEAN
  BY DEF ChanStates
<1>2. CASE procmsg_CONNREQINC
  <2>1. /\ chans' = Append(chans, NewChannel(FALSE, "STARTING")) /\ sky' = sky /\ hist' = hist
        /\ received' = received /\ Serving
    BY <1>2 DEF procmsg_CONNREQINC
  <2>2. sky.active_nodelink # None
    BY <2>1 DEF LoginInv, Logins
  <2> QED BY <1>1, <2>1, <2>2, MoreChannels
<1>3. CASE reconnect_c2c
  <2>1. /\ chans' = Append(chans, NewChannel(TRUE, "NEW")) /\ sky' = sky /\ hist' = hist
        /\ received' = received /\ Serving
    BY <1>3 DEF reconnect_c2c, PICA_new_c2c, Serving
  <2>2. sky.active_nodelink # None
    BY <2>1 DEF LoginInv, Logins
  <2> QED BY <1>1, <2>1, <2>2, MoreChannels
<1>4. CASE UNCHANGED vars
  BY <1>4, SameChannels DEF vars
<1>5. ASSUME NEW i \in DOMAIN chans, Channel(i)
      PROVE  ChannelInv'
  BY <1>5, FlushedChannels, UnflushedChannels, RemoveChannels, WriteChannels, PeerChannels, ReceiptChannels
     DEF Channel
<1> QED BY <1>2, <1>3, <1>4, <1>5, ControlChannels, FoundChannels, NotFoundChannels,
           SendChannels DEF Next

\* There are no channels at first.
LEMMA InitChannels == Init => ChannelInv
<1> SUFFICES ASSUME Init
             PROVE  ChannelInv
  OBVIOUS
<1>1. chans = <<>> /\ hist = <<>> /\ received = <<>> /\ <<>> \in Texts /\ Len(<<>>) = 0
  BY EmptySeq DEF Init, Texts
<1>2. /\ Marked(hist) = {} /\ Tokens(chans) = {} /\ chans \in Seq(Chan)
      /\ ActiveChannels(chans) = {} /\ Waiting(chans) = {}
  <2>1. DOMAIN <<>> = {}
    OBVIOUS
  <2>2. Marked(<<>>) = {}
    BY <2>1 DEF Marked
  <2> QED BY <1>1, <2>2, NoChans
<1>3. IsFiniteSet({}) /\ Cardinality({}) = 0
  BY FS_EmptySet
<1>4. MarksBacked
  <2>1. Len(received) = 0
    BY <1>1
  <2>2. Cardinality(Marked(hist)) + Cardinality(Tokens(chans)) <= Len(received)
    BY <1>2, <1>3, <2>1
  <2> QED BY <1>2, <1>3, <2>2 DEF MarksBacked
<1> QED BY <1>1, <1>2, <1>4 DEF ChannelInv, Order

\* Both invariants hold of the client.
LEMMA ChannelsCorrect == Spec => [](LoginInv /\ ChannelInv)
<1>1. Init => LoginInv /\ ChannelInv
  BY InitLogins, InitChannels
<1>2. (LoginInv /\ ChannelInv) /\ [Next]_vars => (LoginInv /\ ChannelInv)'
  BY NextLogins, NextChannels
<1> QED BY <1>1, <1>2, PTL DEF Spec

\* flush_queues and SendMessage: no message is about to be written to the peer while an
\* earlier one waits in the queue, but behind one that is too long to be sent, also in the
\* rest of a pass in which a failed login has taken the self-awareness.
THEOREM NeverOvertaken == Spec => []NothingOvertakes
<1>1. LoginInv /\ ChannelInv => NothingOvertakes
  BY DEF ChannelInv, Order, NothingOvertakes, Serving, Waiting, ActiveChannels
<1> QED BY <1>1, ChannelsCorrect, PTL

\* SetDelivered: every mark in the history stands for a message the peer has received,
\* though receipts carry no number and channels, with the receipts on them, are lost.
THEOREM MarksCorrect == Spec => []MarksAreReceipts
<1>1. LoginInv /\ ChannelInv => MarksAreReceipts
  <2> SUFFICES ASSUME LoginInv, ChannelInv
               PROVE  MarksAreReceipts
    OBVIOUS
  <2>1. /\ Cardinality(Tokens(chans)) \in Nat /\ Cardinality(Marked(hist)) \in Nat
        /\ Cardinality(Marked(hist)) + Cardinality(Tokens(chans)) <= Len(received)
        /\ Len(received) \in Nat
    BY MarksFinite, FS_CardinalityType, LenProperties
       DEF LoginInv, TypeOK, ChannelInv, MarksBacked, Texts
  <2>2. Cardinality(Marked(hist)) <= Len(received)
    BY <2>1
  <2> QED BY <2>2 DEF MarksAreReceipts, Marked
<1> QED BY <1>1, ChannelsCorrect, PTL
=============================================================================
