-------------------------- MODULE MsgStream_proofs --------------------------
(***************************************************************************)
(* How bytes become messages, for every kind of connection, size of byte   *)
(* and cut of the stream: each message is handed over whole, once, in      *)
(* order and as soon as it is complete, and there is always room to read.  *)
(***************************************************************************)
EXTENDS MsgStream, SequenceTheorems, WellFoundedInduction, TLAPS

-----------------------------------------------------------------------------
(* Sequences.                                                              *)

\* A set of naturals that is not empty has a least element.
LEMMA LeastOf ==
    ASSUME NEW S, S \subseteq Nat, S # {}
    PROVE  \E x \in S : \A y \in S : x <= y
<1>1. PICK x \in S : \A y \in S : ~(<<y, x>> \in OpToRel(<, Nat))
  BY NatLessThanWellFounded, WFMin, Zenon
<1>2. \A y \in S : ~(y < x)
  BY <1>1 DEF OpToRel
<1> QED BY <1>2

\* What FlattenSeq chooses: the concatenations of the first elements.
Flats(s, f) ==
    f = [i \in 1 .. Len(s) |-> IF i = 1 THEN s[i] ELSE f[i - 1] \o s[i]]

LEMMA FlatsGrow ==
    ASSUME NEW S, NEW s \in Seq(Seq(S)), NEW x \in Seq(S), Len(s) > 0,
           NEW f \in [1 .. Len(s) -> Seq(S)], Flats(s, f), NEW e,
           e = [i \in 1 .. Len(s) + 1 |-> IF i <= Len(s) THEN f[i] ELSE f[Len(s)] \o x]
    PROVE  e \in [1 .. Len(Append(s, x)) -> Seq(S)] /\ Flats(Append(s, x), e)
<1> DEFINE n == Len(s)
           t == Append(s, x)
           g == [i \in 1 .. n + 1 |-> IF i <= n THEN f[i] ELSE f[n] \o x]
<1>1. n \in Nat /\ n >= 1 /\ Len(t) = n + 1 /\ t \in Seq(Seq(S)) /\ t[n + 1] = x
      /\ \A i \in 1 .. n : t[i] = s[i]
  OBVIOUS
<1>2. f[n] \o x \in Seq(S)
  <2>1. n \in 1 .. Len(s)
    BY <1>1
  <2> HIDE DEF n
  <2>2. f[n] \in Seq(S)
    BY <2>1
  <2> QED BY <2>2, ConcatProperties
<1>3. \A i \in 1 .. n : f[i] = IF i = 1 THEN s[i] ELSE f[i - 1] \o s[i]
  BY Zenon DEF Flats
<1> HIDE DEF n, t
<1>4. g \in [1 .. n + 1 -> Seq(S)]
  BY <1>1, <1>2 DEF n
<1>5. ASSUME NEW i \in 1 .. n + 1
      PROVE  g[i] = IF i = 1 THEN t[i] ELSE g[i - 1] \o t[i]
  <2>1. CASE i = n + 1
    <3>1. n \in 1 .. n + 1 /\ n + 1 \in 1 .. n + 1 /\ ~(n + 1 <= n) /\ n <= n
          /\ i # 1 /\ i - 1 = n
      BY <1>1, <2>1
    <3>2. g[n + 1] = f[n] \o x /\ g[n] = f[n]
      BY <3>1
    <3> HIDE DEF g
    <3> QED BY <1>1, <2>1, <3>1, <3>2
  <2>2. CASE i <= n
    <3>1. i \in 1 .. n
      BY <1>1, <2>2
    <3>2. g[i] = f[i] /\ t[i] = s[i] /\ f[i] = IF i = 1 THEN s[i] ELSE f[i - 1] \o s[i]
      BY <1>1, <1>3, <3>1
    <3>3. i # 1 => g[i - 1] = f[i - 1]
      BY <1>1, <3>1
    <3> QED BY <3>2, <3>3
  <2> QED BY <1>1, <2>1, <2>2
<1> DEFINE G == [i \in 1 .. Len(t) |-> IF i = 1 THEN t[i] ELSE g[i - 1] \o t[i]]
<1>6. g = G
  <2>1. DOMAIN g = 1 .. n + 1 /\ DOMAIN G = 1 .. n + 1
    BY <1>1
  <2>2. \A i \in 1 .. n + 1 : g[i] = G[i]
    BY <1>1, <1>5
  <2>3. g = [i \in DOMAIN g |-> g[i]] /\ G = [i \in DOMAIN G |-> G[i]]
    OBVIOUS
  <2> HIDE DEF g, G
  <2> QED BY <2>1, <2>2, <2>3
<1>7. Flats(t, g)
  BY <1>6, Zenon DEF Flats
<1>8. e = g
  BY DEF n
<1> HIDE DEF g
<1> QED BY <1>1, <1>4, <1>7, <1>8 DEF t

\* It exists for every sequence of sequences.
LEMMA FlatsExist ==
    ASSUME NEW S, NEW s \in Seq(Seq(S)), Len(s) > 0
    PROVE  \E f \in [1 .. Len(s) -> Seq(S)] : Flats(s, f)
<1> DEFINE Bad == {k \in Nat : k > 0 /\ \E t \in Seq(Seq(S)) :
                     Len(t) = k /\ ~\E f \in [1 .. Len(t) -> Seq(S)] : Flats(t, f)}
<1> SUFFICES ASSUME Bad # {}
             PROVE  FALSE
  <2>1. Len(s) \in Nat
    OBVIOUS
  <2> QED BY <2>1
<1>1. PICK k \in Bad : \A j \in Bad : k <= j
  BY LeastOf
<1>2. PICK t \in Seq(Seq(S)) :
        Len(t) = k /\ ~\E f \in [1 .. Len(t) -> Seq(S)] : Flats(t, f)
  OBVIOUS
<1>3. k \in Nat /\ k > 0
  OBVIOUS
<1>4. CASE k = 1
  <2> DEFINE f == [i \in 1 .. 1 |-> t[i]]
  <2>1. t[1] \in Seq(S)
    BY <1>2, <1>3, ElementOfSeq
  <2>2. f \in [1 .. Len(t) -> Seq(S)] /\ DOMAIN f = 1 .. 1
    BY <1>2, <1>4, <2>1
  <2>3. f = [i \in 1 .. Len(t) |-> IF i = 1 THEN t[i] ELSE f[i - 1] \o t[i]]
    BY <1>2, <1>4
  <2> QED BY <1>2, <2>2, <2>3, Zenon DEF Flats
<1>5. CASE k > 1
  <2> DEFINE r == SubSeq(t, 1, k - 1)
             x == t[k]
  <2>1. r \in Seq(Seq(S)) /\ Len(r) = k - 1 /\ x \in Seq(S) /\ t = Append(r, x)
    BY <1>2, <1>3, <1>5
  <2>2. k - 1 \notin Bad /\ k - 1 \in Nat /\ k - 1 > 0
    <3>1. k - 1 \in Nat /\ k - 1 > 0 /\ ~(k <= k - 1)
      BY <1>3, <1>5
    <3> HIDE DEF Bad
    <3> QED BY <1>1, <3>1
  <2> HIDE DEF r, x
  <2>3. PICK f \in [1 .. Len(r) -> Seq(S)] : Flats(r, f)
    BY <2>1, <2>2
  <2> DEFINE e == [i \in 1 .. Len(r) + 1 |-> IF i <= Len(r) THEN f[i] ELSE f[Len(r)] \o x]
  <2>4. \E g \in [1 .. Len(Append(r, x)) -> Seq(S)] : Flats(Append(r, x), g)
    <3>1. e = [i \in 1 .. Len(r) + 1 |-> IF i <= Len(r) THEN f[i] ELSE f[Len(r)] \o x]
      OBVIOUS
    <3>3. r \in Seq(Seq(S)) /\ x \in Seq(S) /\ Len(r) > 0
      BY <2>1, <2>2
    <3> HIDE DEF e
    <3>2. e \in [1 .. Len(Append(r, x)) -> Seq(S)] /\ Flats(Append(r, x), e)
      BY <2>3, <3>1, <3>3, FlatsGrow
    <3> QED BY <3>2, Zenon
  <2> QED BY <1>2, <2>1, <2>4
<1> QED BY <1>3, <1>4, <1>5

\* There is only one.
LEMMA FlatsUnique ==
    ASSUME NEW s, Len(s) \in Nat, Len(s) > 0, NEW f, NEW g, Flats(s, f), Flats(s, g)
    PROVE  f[Len(s)] = g[Len(s)]
<1> DEFINE n == Len(s)
           Bad == {i \in 1 .. n : f[i] # g[i]}
<1> SUFFICES ASSUME Bad # {}
             PROVE  FALSE
  <2>1. n \in 1 .. n
    OBVIOUS
  <2> HIDE DEF n
  <2> QED BY <2>1 DEF n
<1>0. \A i \in 1 .. n : /\ f[i] = IF i = 1 THEN s[i] ELSE f[i - 1] \o s[i]
                        /\ g[i] = IF i = 1 THEN s[i] ELSE g[i - 1] \o s[i]
  BY Zenon DEF Flats
<1>1. PICK i \in Bad : \A j \in Bad : i <= j
  <2>1. Bad \subseteq Nat
    OBVIOUS
  <2> HIDE DEF Bad
  <2> QED BY <2>1, LeastOf
<1>2. i \in 1 .. n /\ f[i] # g[i]
  OBVIOUS
<1>3. i # 1
  BY <1>0, <1>2
<1>4. i - 1 \in 1 .. n /\ ~(i <= i - 1)
  BY <1>2, <1>3
<1>5. f[i - 1] = g[i - 1]
  <2>1. i - 1 \notin Bad
    <3> HIDE DEF Bad
    <3> QED BY <1>1, <1>4
  <2> QED BY <1>4, <2>1
<1> HIDE DEF n, Bad
<1> QED BY <1>0, <1>2, <1>3, <1>5

\* FlattenSeq of a sequence of sequences, one more at the end.
LEMMA FlattenIs ==
    ASSUME NEW S, NEW s \in Seq(Seq(S)), Len(s) > 0,
           NEW f, Flats(s, f)
    PROVE  FlattenSeq(s) = f[Len(s)]
<1> DEFINE h == CHOOSE flatten : flatten = [i \in 1 .. Len(s) |->
                    IF i = 1 THEN s[i] ELSE flatten[i - 1] \o s[i]]
<1>1. Flats(s, h)
  BY Zenon DEF Flats
<1>2. FlattenSeq(s) = h[Len(s)]
  BY DEF FlattenSeq
<1> HIDE DEF h
<1>3. Len(s) \in Nat
  OBVIOUS
<1> QED BY <1>1, <1>2, <1>3, FlatsUnique

LEMMA FlattenEmpty == FlattenSeq(<<>>) = <<>>
BY DEF FlattenSeq

LEMMA FlattenAppend ==
    ASSUME NEW S, NEW s \in Seq(Seq(S)), NEW x \in Seq(S)
    PROVE  /\ FlattenSeq(s) \in Seq(S)
           /\ FlattenSeq(Append(s, x)) = FlattenSeq(s) \o x
<1>1. Append(s, x) \in Seq(Seq(S)) /\ Len(Append(s, x)) = Len(s) + 1 /\ Len(s) \in Nat
  OBVIOUS
<1>2. CASE Len(s) = 0
  <2> DEFINE f == [i \in 1 .. 1 |-> x]
  <2>1. s = <<>>
    BY <1>2
  <2>2. Append(s, x)[1] = x /\ Len(Append(s, x)) = 1
    BY <2>1
  <2>3. f = [i \in 1 .. Len(Append(s, x)) |->
               IF i = 1 THEN Append(s, x)[i] ELSE f[i - 1] \o Append(s, x)[i]]
    BY <2>2
  <2>4. Flats(Append(s, x), f)
    BY <2>3, Zenon DEF Flats
  <2>5. f[1] = x
    OBVIOUS
  <2>8. FlattenSeq(Append(s, x)) = x
    <3> DEFINE t == Append(s, x)
    <3>1. t \in Seq(Seq(S)) /\ Len(t) > 0 /\ Flats(t, f) /\ Len(t) = 1
      BY <1>1, <2>2, <2>4
    <3> HIDE DEF f, t
    <3>2. FlattenSeq(t) = f[Len(t)]
      BY <3>1, FlattenIs
    <3> QED BY <2>5, <3>1, <3>2 DEF t
  <2>6. FlattenSeq(s) = <<>>
    BY <2>1, FlattenEmpty
  <2>7. <<>> \in Seq(S) /\ <<>> \o x = x
    OBVIOUS
  <2> QED BY <2>6, <2>7, <2>8
<1>3. CASE Len(s) > 0
  <2>1. PICK f \in [1 .. Len(s) -> Seq(S)] : Flats(s, f)
    BY <1>3, FlatsExist
  <2> DEFINE g == [i \in 1 .. Len(s) + 1 |-> IF i <= Len(s) THEN f[i] ELSE f[Len(s)] \o x]
  <2>2. g \in [1 .. Len(Append(s, x)) -> Seq(S)] /\ Flats(Append(s, x), g)
    <3>1. g = [i \in 1 .. Len(s) + 1 |-> IF i <= Len(s) THEN f[i] ELSE f[Len(s)] \o x]
      OBVIOUS
    <3> HIDE DEF g
    <3> QED BY <1>3, <2>1, <3>1, FlatsGrow
  <2>3. g[Len(s) + 1] = f[Len(s)] \o x
    BY <1>1, <1>3
  <2> HIDE DEF g
  <2>4. FlattenSeq(Append(s, x)) = g[Len(s) + 1]
    <3> DEFINE t == Append(s, x)
    <3>1. t \in Seq(Seq(S)) /\ Len(t) > 0 /\ Flats(t, g) /\ Len(t) = Len(s) + 1
      BY <1>1, <2>2
    <3> HIDE DEF t
    <3>2. FlattenSeq(t) = g[Len(t)]
      BY <3>1, FlattenIs
    <3> QED BY <3>1, <3>2 DEF t
  <2>5. FlattenSeq(s) = f[Len(s)]
    BY <1>3, <2>1, FlattenIs
  <2>6. f[Len(s)] \in Seq(S)
    <3>1. Len(s) \in 1 .. Len(s)
      BY <1>1, <1>3
    <3> QED BY <2>1, <3>1
  <2> QED BY <2>3, <2>4, <2>5, <2>6
<1> QED BY <1>1, <1>2, <1>3

-----------------------------------------------------------------------------
(* The size of the next message.                                           *)

LEMMA ReaderFacts ==
    ASSUME reader \in Readers
    PROVE  /\ Base \in Nat /\ Base > 0 /\ UINT_MAX \in Nat
           /\ DOMAIN msgs \subseteq Byte
           /\ reader.bufsize \in Nat /\ reader.bufsize > 1 /\ 1 + reader.bufsize < UINT_MAX
           /\ reader.grows \in BOOLEAN
           /\ \A id \in DOMAIN msgs :
                /\ msgs[id].fixedsz \in BOOLEAN
                /\ msgs[id].fixedsz => msgs[id].sz \in Nat /\ msgs[id].sz >= 2
                /\ ~msgs[id].fixedsz => msgs[id].sz \in {1, 2}
                /\ LargestSize(msgs[id]) + reader.bufsize <= UINT_MAX
                /\ reader.grows \/ LargestSize(msgs[id]) <= reader.bufsize
BY StreamAssumption DEF Reader, msgs

\* The number a length field stands for.
LEMMA TailFacts ==
    ASSUME Base \in Nat, Base > 0, NEW b \in Seq(Byte), NEW sz \in {1, 2}, Len(b) >= 2 + sz
    PROVE  /\ TailLen(b, sz) \in Nat
           /\ TailLen(b, sz) = IF sz = 1 THEN b[3] ELSE b[3] + Base * b[4]
           /\ TailLen(b, sz) < IF sz = 1 THEN Base ELSE Base * Base
<1>1. Len(b) \in Nat /\ b[3] \in 0 .. Base - 1
  BY ElementOfSeq DEF Byte
<1>2. CASE sz = 1
  <2>1. TailLen(b, sz) = b[3] + Base * 0
    BY <1>2 DEF TailLen
  <2> QED BY <1>1, <1>2, <2>1
<1>3. CASE sz = 2
  <2>1. b[4] \in 0 .. Base - 1
    BY <1>1, <1>3, ElementOfSeq DEF Byte
  <2>2. TailLen(b, sz) = b[3] + Base * b[4]
    BY <1>3 DEF TailLen
  <2>3. \A x, y \in 0 .. Base - 1 : x + Base * y \in Nat /\ x + Base * y < Base * Base
    <3> TAKE x, y \in 0 .. Base - 1
    <3>1. Base * y <= Base * (Base - 1) /\ Base * (Base - 1) = Base * Base - Base
      OBVIOUS
    <3>2. Base * y \in Nat
      OBVIOUS
    <3> QED BY <3>1, <3>2
  <2>4. b[3] + Base * b[4] \in Nat /\ b[3] + Base * b[4] < Base * Base
    BY <1>1, <2>1, <2>3, Zenon
  <2>5. sz # 1
    BY <1>3
  <2> QED BY <2>2, <2>4, <2>5, Zenon
<1> QED BY <1>2, <1>3

\* What a message that is there or only begins says of its size.
SizeOK(b, size) ==
    /\ size \in Nat
    /\ size = 0 <=> CannotBegin(b)
    /\ size # 0 /\ size <= Len(b) => size >= 2 /\ b[1] \in DOMAIN msgs
    /\ \A n \in 0 .. Len(b) : IsMessage(SubSeq(b, 1, n)) <=> n = size /\ size # 0
    /\ size > Len(b) => \/ Len(b) < 2
                        \/ b[1] \in DOMAIN msgs /\ Len(b) < LargestSize(msgs[b[1]])

LEMMA SizeFacts ==
    ASSUME reader \in Readers, NEW b \in Seq(Byte), Len(b) < UINT_MAX
    PROVE  SizeOK(b, PICA_msggetsize(b))
<1> DEFINE size == PICA_msggetsize(b)
<1>1. Len(b) \in Nat /\ UINT_MAX \in Nat /\ Base \in Nat /\ Base > 0
  BY ReaderFacts
<1>2. ASSUME NEW n \in 0 .. Len(b)
      PROVE  /\ Len(SubSeq(b, 1, n)) = n
             /\ \A i \in 1 .. n : SubSeq(b, 1, n)[i] = b[i]
  BY <1>1
<1>3. CASE Len(b) < 2
  <2>1. size = UINT_MAX /\ size > Len(b)
    BY <1>1, <1>3 DEF PICA_msggetsize
  <2>2. ~CannotBegin(b)
    BY <1>1, <1>3 DEF CannotBegin
  <2>3. \A n \in 0 .. Len(b) : ~IsMessage(SubSeq(b, 1, n)) /\ n # size
    BY <1>1, <1>2, <1>3, <2>1 DEF IsMessage
  <2>4. size # 0
    BY <1>1, <2>1
  <2> HIDE DEF size
  <2>5. SizeOK(b, size)
    BY <1>1, <1>3, <2>1, <2>2, <2>3, <2>4 DEF SizeOK
  <2> QED BY <2>5 DEF size
<1>4. CASE Len(b) >= 2 /\ (b[1] # b[2] \/ b[1] \notin DOMAIN msgs)
  <2>1. size = 0 /\ ~(Len(b) < 2)
    BY <1>1, <1>4 DEF PICA_msggetsize
  <2>2. CannotBegin(b)
    BY <1>4 DEF CannotBegin
  <2>3. \A n \in 0 .. Len(b) : ~IsMessage(SubSeq(b, 1, n))
    <3> SUFFICES ASSUME NEW n \in 0 .. Len(b), IsMessage(SubSeq(b, 1, n))
                 PROVE  FALSE
      OBVIOUS
    <3>1. n >= 2
      BY <1>2 DEF IsMessage
    <3>2. SubSeq(b, 1, n)[1] = b[1] /\ SubSeq(b, 1, n)[2] = b[2]
      BY <1>1, <1>2, <3>1
    <3> QED BY <1>4, <3>2 DEF IsMessage
  <2> HIDE DEF size
  <2>4. SizeOK(b, size)
    BY <1>1, <2>1, <2>2, <2>3 DEF SizeOK
  <2> QED BY <2>4 DEF size
<1>5. CASE Len(b) >= 2 /\ b[1] = b[2] /\ b[1] \in DOMAIN msgs
  <2> DEFINE t == msgs[b[1]]
  <2>1. /\ t.fixedsz \in BOOLEAN
        /\ t.fixedsz => t.sz \in Nat /\ t.sz >= 2
        /\ ~t.fixedsz => t.sz \in {1, 2}
        /\ LargestSize(t) <= UINT_MAX
    <3>1. LargestSize(t) + reader.bufsize <= UINT_MAX /\ reader.bufsize \in Nat
      BY <1>5, ReaderFacts
    <3>2. /\ t.fixedsz \in BOOLEAN
          /\ t.fixedsz => t.sz \in Nat /\ t.sz >= 2
          /\ ~t.fixedsz => t.sz \in {1, 2}
      BY <1>5, ReaderFacts
    <3>3. LargestSize(t) \in Nat
      <4> HIDE DEF t
      <4> QED BY <1>1, <3>2 DEF LargestSize
    <3> HIDE DEF t
    <3> QED BY <1>1, <3>1, <3>2, <3>3
  <2>2. ~CannotBegin(b)
    BY <1>1, <1>5 DEF CannotBegin
  <2>3. size = IF t.fixedsz THEN t.sz
               ELSE IF Len(b) >= t.sz + 2 THEN 2 + t.sz + TailLen(b, t.sz) ELSE UINT_MAX
    <3>1. ~(Len(b) < 2) /\ ~(b[1] # b[2] \/ b[1] \notin DOMAIN msgs)
      BY <1>1, <1>5
    <3> QED BY <3>1 DEF PICA_msggetsize
  <2>4. ASSUME NEW n \in 2 .. Len(b)
        PROVE  IsMessage(SubSeq(b, 1, n)) <=>
                 IF t.fixedsz THEN n = t.sz
                 ELSE n >= 2 + t.sz /\ n - 2 - t.sz = TailLen(b, t.sz)
    <3> DEFINE m == SubSeq(b, 1, n)
    <3>1. /\ Len(m) = n /\ m[1] = b[1] /\ m[2] = b[2] /\ n \in Nat /\ n >= 2
          /\ n >= 3 => m[3] = b[3]
          /\ n >= 4 => m[4] = b[4]
      BY <1>1, <1>2
    <3> HIDE DEF m
    <3>2. IsMessage(m) <=>
            IF t.fixedsz THEN Len(m) = t.sz
            ELSE /\ Len(m) >= 2 + t.sz
                 /\ Len(m) - 2 - t.sz = (IF t.sz = 1 THEN m[3] ELSE m[3] + Base * m[4])
      <4>1. Len(m) >= 2 /\ m[1] = m[2] /\ m[1] \in DOMAIN msgs
        BY <1>5, <3>1
      <4>2. msgs[m[1]] = t
        BY <3>1
      <4> HIDE DEF t
      <4> QED BY <4>1, <4>2, Zenon DEF IsMessage
    <3>3. CASE t.fixedsz
      BY <3>1, <3>2, <3>3 DEF m
    <3>4. CASE ~t.fixedsz /\ n >= 2 + t.sz
      <4> HIDE DEF t
      <4>1. t.sz \in {1, 2} /\ Len(b) >= 2 + t.sz
        BY <1>1, <2>1, <3>4
      <4>2. TailLen(b, t.sz) = IF t.sz = 1 THEN b[3] ELSE b[3] + Base * b[4]
        BY <1>1, <4>1, TailFacts
      <4>3. (IF t.sz = 1 THEN m[3] ELSE m[3] + Base * m[4]) = TailLen(b, t.sz)
        <5>1. CASE t.sz = 1
          BY <3>1, <3>4, <4>2, <5>1
        <5>2. CASE t.sz = 2
          <6>1. m[3] = b[3] /\ m[4] = b[4] /\ t.sz # 1
            BY <3>1, <3>4, <5>2
          <6> QED BY <4>2, <6>1, Zenon
        <5> QED BY <4>1, <5>1, <5>2
      <4>4. IsMessage(m) <=> n >= 2 + t.sz /\ n - 2 - t.sz = TailLen(b, t.sz)
        BY <3>1, <3>2, <3>4, <4>3, Zenon
      <4> QED BY <3>4, <4>4, Zenon DEF m
    <3>5. CASE ~t.fixedsz /\ ~(n >= 2 + t.sz)
      BY <3>1, <3>2, <3>5 DEF m
    <3> QED BY <3>3, <3>4, <3>5 DEF m
  <2>5. ~t.fixedsz /\ Len(b) >= 2 + t.sz =>
          /\ TailLen(b, t.sz) \in Nat
          /\ TailLen(b, t.sz) < IF t.sz = 1 THEN Base ELSE Base * Base
    <3> HIDE DEF t
    <3> QED BY <1>1, <2>1, TailFacts
  <2>6. \A n \in 0 .. 1 : n <= Len(b) => ~IsMessage(SubSeq(b, 1, n))
    BY <1>1, <1>2 DEF IsMessage
  <2> HIDE DEF t, size
  <2>7. size \in Nat /\ size >= 2
    <3>1. CASE t.fixedsz
      BY <2>1, <2>3, <3>1
    <3>2. CASE ~t.fixedsz /\ Len(b) >= 2 + t.sz
      <4>1. size = 2 + t.sz + TailLen(b, t.sz)
        BY <1>1, <2>1, <2>3, <3>2
      <4> QED BY <2>1, <2>5, <3>2, <4>1
    <3>3. CASE ~t.fixedsz /\ ~(Len(b) >= 2 + t.sz)
      <4>1. size = UINT_MAX
        BY <1>1, <2>1, <2>3, <3>3
      <4> QED BY <1>1, <1>5, <4>1
    <3> QED BY <3>1, <3>2, <3>3
  <2>8. ASSUME NEW n \in 0 .. Len(b)
        PROVE  IsMessage(SubSeq(b, 1, n)) <=> n = size /\ size # 0
    <3>1. CASE n < 2
      BY <1>1, <2>6, <2>7, <3>1
    <3>2. CASE n >= 2 /\ t.fixedsz
      BY <1>1, <2>3, <2>4, <2>7, <3>2
    <3>3. CASE n >= 2 /\ ~t.fixedsz /\ Len(b) >= 2 + t.sz
      <4>1. size = 2 + t.sz + TailLen(b, t.sz)
        BY <1>1, <2>1, <2>3, <3>3
      <4>2. n \in 2 .. Len(b)
        BY <1>1, <3>3
      <4> QED BY <2>1, <2>4, <2>5, <2>7, <3>3, <4>1, <4>2
    <3>4. CASE n >= 2 /\ ~t.fixedsz /\ ~(Len(b) >= 2 + t.sz)
      <4>1. n \in 2 .. Len(b) /\ ~(n >= 2 + t.sz)
        BY <1>1, <2>1, <3>4
      <4>2. n # size
        BY <1>1, <2>1, <2>3, <3>4
      <4> QED BY <2>4, <3>4, <4>1, <4>2
    <3> QED BY <1>1, <3>1, <3>2, <3>3, <3>4
  <2>9. size > Len(b) => Len(b) < LargestSize(t)
    BY <1>1, <2>1, <2>3, <2>5 DEF LargestSize
  <2>10. SizeOK(b, size)
    BY <1>1, <1>5, <2>2, <2>7, <2>8, <2>9 DEF SizeOK, t
  <2> QED BY <2>10 DEF size
<1> QED BY <1>1, <1>3, <1>4, <1>5

-----------------------------------------------------------------------------
(* The loop of PICA_processdatastream.                                     *)

\* The states of the loop after each pass, from x on.
Runs(f, x, n) == f = [k \in 0 .. n |-> IF k = 0 THEN x ELSE Pass(f[k - 1])]

LEMMA RunsExist ==
    ASSUME NEW x, NEW n \in Nat
    PROVE  \E f : Runs(f, x, n)
<1> DEFINE Bad == {k \in Nat : ~\E f : Runs(f, x, k)}
<1> SUFFICES ASSUME Bad # {}
             PROVE  FALSE
  OBVIOUS
<1>1. PICK k \in Bad : \A j \in Bad : k <= j
  BY LeastOf
<1>2. k \in Nat /\ ~\E f : Runs(f, x, k)
  OBVIOUS
<1>3. CASE k = 0
  <2> DEFINE f == [i \in 0 .. 0 |-> x]
  <2>1. f = [i \in 0 .. 0 |-> IF i = 0 THEN x ELSE Pass(f[i - 1])]
    OBVIOUS
  <2> QED BY <1>2, <1>3, <2>1, Zenon DEF Runs
<1>4. CASE k > 0
  <2>1. k - 1 \in Nat /\ ~(k <= k - 1)
    BY <1>2, <1>4
  <2>2. k - 1 \notin Bad
    <3> HIDE DEF Bad
    <3> QED BY <1>1, <2>1
  <2>3. PICK f : Runs(f, x, k - 1)
    BY <2>1, <2>2
  <2>4. \A i \in 0 .. k - 1 : f[i] = IF i = 0 THEN x ELSE Pass(f[i - 1])
    BY <2>3, Zenon DEF Runs
  <2> DEFINE g == [i \in 0 .. k |-> IF i < k THEN f[i] ELSE Pass(f[k - 1])]
             G == [i \in 0 .. k |-> IF i = 0 THEN x ELSE Pass(g[i - 1])]
  <2>5. ASSUME NEW i \in 0 .. k
        PROVE  g[i] = G[i]
    <3>1. CASE i = k
      <4>1. k \in 0 .. k /\ k - 1 \in 0 .. k /\ k - 1 < k /\ ~(k < k) /\ k # 0
        BY <1>2, <1>4
      <4>2. g[k] = Pass(f[k - 1]) /\ g[k - 1] = f[k - 1]
        BY <4>1
      <4>3. G[k] = Pass(g[k - 1])
        BY <4>1
      <4> HIDE DEF g, G
      <4> QED BY <3>1, <4>2, <4>3
    <3>2. CASE i < k
      <4>1. i \in 0 .. k - 1
        BY <1>2, <3>2
      <4>2. g[i] = f[i]
        BY <3>2
      <4>3. i # 0 => g[i - 1] = f[i - 1]
        BY <1>2, <3>2
      <4>4. G[i] = IF i = 0 THEN x ELSE Pass(g[i - 1])
        OBVIOUS
      <4> HIDE DEF g, G
      <4> QED BY <2>4, <4>1, <4>2, <4>3, <4>4
    <3> QED BY <1>2, <3>1, <3>2
  <2>6. g = G
    <3>1. DOMAIN g = 0 .. k /\ DOMAIN G = 0 .. k
      OBVIOUS
    <3>2. g = [i \in DOMAIN g |-> g[i]] /\ G = [i \in DOMAIN G |-> G[i]]
      OBVIOUS
    <3> HIDE DEF g, G
    <3> QED BY <2>5, <3>1, <3>2
  <2>7. Runs(g, x, k)
    BY <2>6, Zenon DEF Runs
  <2> QED BY <1>2, <2>7
<1> QED BY <1>2, <1>3, <1>4

Loop == [ret : BOOLEAN, buf : Seq(Byte), handled : Seq(Seq(Byte))]

Start(b) == [ret |-> TRUE, buf |-> b, handled |-> <<>>]

\* The handler of the next message refuses it.
Refused(b) == PICA_msggetsize(b) # 0 /\ PICA_msggetsize(b) <= Len(b) /\ b[1] \in reader.refused

\* What one pass does to a state of the loop.
Advance(s, t) ==
    \/ /\ s.buf = <<>> \/ (PICA_msggetsize(s.buf) # 0 /\ PICA_msggetsize(s.buf) > Len(s.buf))
       /\ t = s
    \/ /\ s.buf # <<>>
       /\ PICA_msggetsize(s.buf) = 0 \/ Refused(s.buf)
       /\ t = [s EXCEPT !.ret = FALSE]
    \/ \E m \in Seq(Byte) :
          /\ IsMessage(m) /\ Len(t.buf) < Len(s.buf)
          /\ t \in Loop /\ s.buf = m \o t.buf
          /\ t.ret = s.ret /\ t.handled = Append(s.handled, m)
          /\ ~Refused(s.buf) /\ PICA_msggetsize(s.buf) # 0 /\ s.buf # <<>>
          /\ ~(PICA_msggetsize(s.buf) > Len(s.buf))

\* A buffer is its first z bytes and the rest.
LEMMA CutAt ==
    ASSUME NEW u \in Seq(Byte), NEW z \in Nat, z >= 2, z <= Len(u)
    PROVE  /\ SubSeq(u, 1, z) \in Seq(Byte) /\ SubSeq(u, z + 1, Len(u)) \in Seq(Byte)
           /\ u = SubSeq(u, 1, z) \o SubSeq(u, z + 1, Len(u))
           /\ Len(SubSeq(u, z + 1, Len(u))) < Len(u)
           /\ SubSeq(u, 1, z)[1] = u[1] /\ u # <<>>
<1> DEFINE a == SubSeq(u, 1, z)
           c == SubSeq(u, z + 1, Len(u))
<1>1. Len(u) \in Nat /\ \A i \in 1 .. Len(u) : u[i] \in Byte
  BY ElementOfSeq
<1>2. a \in Seq(Byte) /\ Len(a) = z /\ \A i \in 1 .. z : a[i] = u[i]
  BY <1>1
<1>3. c \in Seq(Byte) /\ Len(c) = Len(u) - z /\ \A i \in 1 .. Len(u) - z : c[i] = u[z + i]
  <2>1. \A i \in z + 1 .. Len(u) : u[i] \in Byte
    BY <1>1
  <2>2. c \in Seq(Byte) /\ Len(c) = (IF z + 1 <= Len(u) THEN Len(u) - (z + 1) + 1 ELSE 0)
    BY <1>1, <2>1, SubSeqProperties
  <2>3. \A i \in 1 .. Len(u) - z : c[i] = u[z + i]
    BY <1>1
  <2> QED BY <1>1, <2>2, <2>3
<1> HIDE DEF a, c
<1>4. a \o c \in Seq(Byte) /\ Len(a \o c) = Len(u)
  <2>1. a \o c \in Seq(Byte) /\ Len(a \o c) = Len(a) + Len(c)
    BY <1>2, <1>3, ConcatProperties
  <2>2. z + (Len(u) - z) = Len(u)
    BY <1>1
  <2> QED BY <1>2, <1>3, <2>1, <2>2
<1>5. \A i \in 1 .. Len(u) : (a \o c)[i] = u[i]
  <2> TAKE i \in 1 .. Len(u)
  <2>1. (a \o c)[i] = IF i <= z THEN a[i] ELSE c[i - z]
    BY <1>1, <1>2, <1>3
  <2>2. CASE i <= z
    BY <1>1, <1>2, <2>1, <2>2
  <2>3. CASE ~(i <= z)
    <3>1. i - z \in 1 .. Len(u) - z /\ z + (i - z) = i
      BY <1>1, <2>3
    <3> QED BY <1>3, <2>1, <2>3, <3>1
  <2> QED BY <2>2, <2>3
<1>6. a \o c = u
  BY <1>4, <1>5, SeqEqual
<1>7. Len(c) < Len(u) /\ a[1] = u[1] /\ u # <<>>
  BY <1>1, <1>2, <1>3
<1> QED BY <1>2, <1>3, <1>6, <1>7 DEF a, c

LEMMA PassFacts ==
    ASSUME reader \in Readers, NEW s \in Loop, Len(s.buf) < UINT_MAX
    PROVE  Advance(s, Pass(s))
<1> DEFINE size == PICA_msggetsize(s.buf)
           m == SubSeq(s.buf, 1, size)
           rest == SubSeq(s.buf, size + 1, Len(s.buf))
<1>1. s.buf \in Seq(Byte) /\ s.handled \in Seq(Seq(Byte)) /\ s.ret \in BOOLEAN /\ Len(s.buf) \in Nat
  BY LenProperties DEF Loop
<1>2. SizeOK(s.buf, size)
  BY <1>1, SizeFacts
<1>3. Pass(s) = IF s.buf = <<>> \/ (size # 0 /\ ~(size <= Len(s.buf))) THEN s
                ELSE IF size = 0 \/ m[1] \in reader.refused THEN [s EXCEPT !.ret = FALSE]
                ELSE [s EXCEPT !.buf = rest, !.handled = Append(s.handled, m)]
  BY DEF Pass, Complete, PICA_processmsg
<1>4. Refused(s.buf) <=> size # 0 /\ size <= Len(s.buf) /\ s.buf[1] \in reader.refused
  BY DEF Refused
<1>5. size # 0 /\ size <= Len(s.buf) =>
        /\ m \in Seq(Byte) /\ rest \in Seq(Byte) /\ s.buf = m \o rest /\ Len(rest) < Len(s.buf)
        /\ m[1] = s.buf[1] /\ IsMessage(m) /\ s.buf # <<>>
  <2> SUFFICES ASSUME size # 0, size <= Len(s.buf)
               PROVE  /\ m \in Seq(Byte) /\ rest \in Seq(Byte) /\ s.buf = m \o rest
                      /\ Len(rest) < Len(s.buf)
                      /\ m[1] = s.buf[1] /\ IsMessage(m) /\ s.buf # <<>>
    OBVIOUS
  <2>1. size \in Nat /\ size >= 2 /\ size \in 0 .. Len(s.buf)
    BY <1>1, <1>2 DEF SizeOK
  <2>2. IsMessage(m)
    BY <1>2, <2>1 DEF SizeOK
  <2> HIDE DEF size
  <2> QED BY <1>1, <2>1, <2>2, CutAt, Zenon
<1>6. size \in Nat
  BY <1>2 DEF SizeOK
<1> HIDE DEF m, rest
<1>7. CASE s.buf = <<>> \/ (size # 0 /\ ~(size <= Len(s.buf)))
  <2>1. Pass(s) = s /\ (s.buf = <<>> \/ (size # 0 /\ size > Len(s.buf)))
    BY <1>1, <1>3, <1>6, <1>7
  <2> QED BY <2>1 DEF Advance
<1>8. CASE s.buf # <<>> /\ (size = 0 \/ (size <= Len(s.buf) /\ m[1] \in reader.refused))
  <2>1. Pass(s) = [s EXCEPT !.ret = FALSE]
    BY <1>3, <1>8
  <2>2. size = 0 \/ Refused(s.buf)
    BY <1>4, <1>5, <1>8
  <2> QED BY <1>8, <2>1, <2>2 DEF Advance
<1>9. CASE s.buf # <<>> /\ size # 0 /\ size <= Len(s.buf) /\ m[1] \notin reader.refused
  <2> DEFINE t == [s EXCEPT !.buf = rest, !.handled = Append(s.handled, m)]
  <2>1. Pass(s) = t
    BY <1>3, <1>9
  <2>2. t \in Loop /\ t.buf = rest /\ t.ret = s.ret /\ t.handled = Append(s.handled, m)
    <3>1. Append(s.handled, m) \in Seq(Seq(Byte)) /\ rest \in Seq(Byte)
      BY <1>1, <1>5, <1>9, AppendProperties
    <3> DEFINE x == Append(s.handled, m)
    <3> HIDE DEF x
    <3>2. x \in Seq(Seq(Byte)) /\ rest \in Seq(Byte)
      BY <3>1 DEF x
    <3>3. LET y == [s EXCEPT !.buf = rest, !.handled = x]
          IN  y \in Loop /\ y.buf = rest /\ y.ret = s.ret /\ y.handled = x
      BY <3>2 DEF Loop
    <3> QED BY <3>3 DEF x
  <2> HIDE DEF t
  <2>3. ~Refused(s.buf) /\ ~(size > Len(s.buf))
    BY <1>1, <1>4, <1>5, <1>6, <1>9
  <2>4. IsMessage(m) /\ m \in Seq(Byte) /\ Len(t.buf) < Len(s.buf) /\ s.buf = m \o t.buf
    BY <1>5, <1>9, <2>2
  <2> HIDE DEF size
  <2>5. Advance(s, t)
    BY <1>9, <2>2, <2>3, <2>4, Zenon DEF Advance, size
  <2> QED BY <2>1, <2>5
<1> QED BY <1>6, <1>7, <1>8, <1>9

\* After k passes: what is left and what has been handed over are the stream, and the
\* loop is over or has taken something from the buffer each time.
Fits(b, h, s, k) ==
    /\ s \in Loop /\ Len(s.buf) <= Len(b)
    /\ \A i \in DOMAIN s.handled : IsMessage(s.handled[i])
    /\ FlattenSeq(h \o s.handled) \o s.buf = FlattenSeq(h) \o b
    /\ ~s.ret => PICA_msggetsize(s.buf) = 0 \/ Refused(s.buf)
    /\ Pass(s) = s \/ Len(s.buf) + k <= Len(b)

LEMMA FitsStart ==
    ASSUME NEW b \in Seq(Byte), NEW h \in Seq(Seq(Byte))
    PROVE  Fits(b, h, Start(b), 0)
<1> DEFINE s == Start(b)
<1>1. s.ret = TRUE /\ s.buf = b /\ s.handled = <<>> /\ s \in Loop
  BY DEF Start, Loop
<1> HIDE DEF s
<1>2. h \o s.handled = h /\ DOMAIN s.handled = {} /\ Len(b) \in Nat
  BY <1>1
<1>3. Fits(b, h, s, 0)
  BY <1>1, <1>2 DEF Fits
<1> QED BY <1>3 DEF s

LEMMA FitsNext ==
    ASSUME reader \in Readers, NEW b \in Seq(Byte), Len(b) < UINT_MAX, NEW h \in Seq(Seq(Byte)),
           NEW s, NEW k \in Nat, Fits(b, h, s, k)
    PROVE  Fits(b, h, Pass(s), k + 1)
<1>1. s \in Loop /\ Len(s.buf) <= Len(b)
  BY DEF Fits
<1>2. /\ s.buf \in Seq(Byte) /\ s.handled \in Seq(Seq(Byte)) /\ s.ret \in BOOLEAN
      /\ Len(s.buf) \in Nat /\ Len(b) \in Nat /\ UINT_MAX \in Nat
  BY <1>1, LenProperties, ReaderFacts DEF Loop
<1>3. Len(s.buf) < UINT_MAX
  BY <1>1, <1>2
<1>4. Advance(s, Pass(s))
  BY <1>1, <1>3, PassFacts
<1>5. CASE Pass(s) = s
  BY <1>5 DEF Fits
<1>6. ASSUME Pass(s) # s, s.buf # <<>>, PICA_msggetsize(s.buf) = 0 \/ Refused(s.buf),
             Pass(s) = [s EXCEPT !.ret = FALSE]
      PROVE  Fits(b, h, Pass(s), k + 1)
  <2> DEFINE t == [s EXCEPT !.ret = FALSE]
  <2>1. t \in Loop /\ t.buf = s.buf /\ t.handled = s.handled /\ t.ret = FALSE
    BY <1>1 DEF Loop
  <2>2. Pass(t) = t
    <3>1. [t EXCEPT !.ret = FALSE] = t
      BY <1>1 DEF Loop
    <3>2. Advance(t, Pass(t))
      BY <1>3, <2>1, PassFacts
    <3> HIDE DEF t
    <3>3. PICA_msggetsize(t.buf) = 0 \/ Refused(t.buf)
      BY <1>6, <2>1
    <3> QED BY <3>1, <3>2, <3>3 DEF Advance, Refused
  <2> HIDE DEF t
  <2>3. Fits(b, h, t, k + 1)
    BY <1>6, <2>1, <2>2 DEF Fits
  <2> QED BY <1>6, <2>3 DEF t
<1>7. ASSUME Pass(s) # s, NEW m \in Seq(Byte), IsMessage(m), Len(Pass(s).buf) < Len(s.buf),
             Pass(s) \in Loop, s.buf = m \o Pass(s).buf,
             Pass(s).ret = s.ret, Pass(s).handled = Append(s.handled, m),
             ~Refused(s.buf), PICA_msggetsize(s.buf) # 0
      PROVE  Fits(b, h, Pass(s), k + 1)
  <2> DEFINE t == Pass(s)
  <2>1. t \in Loop /\ Len(t.buf) < Len(s.buf) /\ s.buf = m \o t.buf /\ t.ret = s.ret
        /\ t.handled = Append(s.handled, m)
    BY <1>7
  <2>2. s.ret
    BY <1>2, <1>7 DEF Fits
  <2>3. Len(s.buf) + k <= Len(b)
    BY <1>7 DEF Fits
  <2> HIDE DEF t
  <2>4. t.buf \in Seq(Byte) /\ Len(t.buf) \in Nat
    BY <2>1, LenProperties DEF Loop
  <2>5. Len(t.buf) <= Len(b) /\ Len(t.buf) + (k + 1) <= Len(b)
    <3>1. \A i, j, n, l \in Nat : i < j /\ j + l <= n => i <= n /\ i + (l + 1) <= n
      OBVIOUS
    <3> QED BY <1>2, <2>1, <2>3, <2>4, <3>1
  <2>6. \A i \in DOMAIN t.handled : IsMessage(t.handled[i])
    <3> TAKE i \in DOMAIN t.handled
    <3>1. i \in 1 .. Len(s.handled) + 1 /\ Len(s.handled) \in Nat
          /\ DOMAIN s.handled = 1 .. Len(s.handled)
      BY <1>2, <2>1
    <3>2. CASE i = Len(s.handled) + 1
      <4>1. t.handled[i] = m
        BY <1>2, <2>1, <3>2
      <4> QED BY <1>7, <4>1
    <3>3. CASE i # Len(s.handled) + 1
      <4>1. i \in DOMAIN s.handled /\ t.handled[i] = s.handled[i]
        BY <1>2, <2>1, <3>1, <3>3
      <4> QED BY <4>1 DEF Fits
    <3> QED BY <3>2, <3>3
  <2>7. FlattenSeq(h \o t.handled) \o t.buf = FlattenSeq(h) \o b
    <3> DEFINE d == h \o s.handled
    <3>1. d \in Seq(Seq(Byte))
      BY <1>2, ConcatProperties
    <3>2. h \o t.handled = Append(d, m)
      <4>1. \A u, v \in Seq(Seq(Byte)), x \in Seq(Byte) : u \o Append(v, x) = Append(u \o v, x)
        OBVIOUS
      <4> QED BY <1>2, <2>1, <4>1
    <3>3. FlattenSeq(d) \o s.buf = FlattenSeq(h) \o b
      BY DEF Fits
    <3> HIDE DEF d
    <3>4. FlattenSeq(d) \in Seq(Byte) /\ FlattenSeq(Append(d, m)) = FlattenSeq(d) \o m
      BY <3>1, FlattenAppend
    <3>5. (FlattenSeq(d) \o m) \o t.buf = FlattenSeq(d) \o (m \o t.buf)
      <4> DEFINE a == FlattenSeq(d)
                 c == t.buf
      <4>1. a \in Seq(Byte) /\ m \in Seq(Byte) /\ c \in Seq(Byte)
        BY <2>4, <3>4
      <4> HIDE DEF a, c
      <4>2. /\ (a \o m) \o c \in Seq(Byte) /\ a \o (m \o c) \in Seq(Byte)
            /\ Len((a \o m) \o c) = Len(a \o (m \o c))
        BY <4>1
      <4>3. \A i \in 1 .. Len((a \o m) \o c) : ((a \o m) \o c)[i] = (a \o (m \o c))[i]
        BY <4>1
      <4>4. (a \o m) \o c = a \o (m \o c)
        BY <4>2, <4>3, SeqEqual
      <4> QED BY <4>4 DEF a, c
    <3> QED BY <2>1, <3>2, <3>3, <3>4, <3>5
  <2>8. Fits(b, h, t, k + 1)
    BY <2>1, <2>2, <2>5, <2>6, <2>7 DEF Fits
  <2> QED BY <2>8 DEF t
<1> QED BY <1>4, <1>5, <1>6, <1>7 DEF Advance


\* What a call of PICA_processdatastream leaves.
Processed(b, h, r) ==
    /\ r \in Loop /\ Len(r.buf) <= Len(b)
    /\ \A i \in DOMAIN r.handled : IsMessage(r.handled[i])
    /\ FlattenSeq(h \o r.handled) \o r.buf = FlattenSeq(h) \o b
    /\ r.ret => r.buf = <<>> \/ (PICA_msggetsize(r.buf) # 0 /\ PICA_msggetsize(r.buf) > Len(r.buf))
    /\ ~r.ret => PICA_msggetsize(r.buf) = 0 \/ Refused(r.buf)

LEMMA StreamProcessed ==
    ASSUME reader \in Readers, NEW b \in Seq(Byte), Len(b) < UINT_MAX, NEW h \in Seq(Seq(Byte))
    PROVE  Processed(b, h, PICA_processdatastream(b))
<1> DEFINE n == Len(b)
           f == CHOOSE after : after = [k \in 0 .. Len(b) |->
                    IF k = 0 THEN [ret |-> TRUE, buf |-> b, handled |-> <<>>]
                    ELSE Pass(after[k - 1])]
           r == PICA_processdatastream(b)
<1>1. n \in Nat
  OBVIOUS
<1>2. Runs(f, Start(b), Len(b))
  <2>1. \E g : Runs(g, Start(b), Len(b))
    BY <1>1, RunsExist
  <2> QED BY <2>1, Zenon DEF Runs, Start
<1>3. r = f[Len(b)]
  BY DEF PICA_processdatastream
<1> HIDE DEF f, r
<1>4. \A k \in 0 .. n : f[k] = IF k = 0 THEN Start(b) ELSE Pass(f[k - 1])
  BY <1>2, Zenon DEF Runs
<1>5. \A k \in 0 .. n : Fits(b, h, f[k], k)
  <2> DEFINE Bad == {k \in 0 .. n : ~Fits(b, h, f[k], k)}
  <2> SUFFICES ASSUME Bad # {}
               PROVE  FALSE
    OBVIOUS
  <2>1. Bad \subseteq Nat
    OBVIOUS
  <2>2. PICK k \in Bad : \A j \in Bad : k <= j
    <3> HIDE DEF Bad
    <3> QED BY <2>1, LeastOf
  <2>3. k \in 0 .. n /\ ~Fits(b, h, f[k], k)
    OBVIOUS
  <2>4. k # 0
    <3>1. 0 \in 0 .. n
      BY <1>1
    <3>2. f[0] = Start(b)
      BY <1>4, <3>1
    <3> QED BY <2>3, <3>2, FitsStart
  <2>5. k - 1 \in 0 .. n /\ k - 1 \in Nat /\ ~(k <= k - 1) /\ (k - 1) + 1 = k
    BY <1>1, <2>3, <2>4
  <2>6. Fits(b, h, f[k - 1], k - 1)
    <3>1. k - 1 \notin Bad
      <4> HIDE DEF Bad
      <4> QED BY <2>2, <2>5
    <3> QED BY <2>5, <3>1
  <2> HIDE DEF Bad
  <2>7. Fits(b, h, Pass(f[k - 1]), (k - 1) + 1)
    BY <2>5, <2>6, FitsNext
  <2>8. f[k] = Pass(f[k - 1])
    BY <1>4, <2>3, <2>4
  <2> QED BY <2>3, <2>5, <2>7, <2>8
<1>6. Fits(b, h, r, n)
  <2>1. n \in 0 .. n
    BY <1>1
  <2> QED BY <1>3, <1>5, <2>1
<1>7. r \in Loop /\ r.buf \in Seq(Byte) /\ Len(r.buf) \in Nat /\ Len(r.buf) <= n
      /\ r.ret \in BOOLEAN /\ UINT_MAX \in Nat
  BY <1>6, LenProperties, ReaderFacts DEF Fits, Loop
<1>8. Advance(r, Pass(r))
  <2>1. Len(r.buf) < UINT_MAX
    BY <1>1, <1>7
  <2> QED BY <1>7, <2>1, PassFacts
<1>9. r.ret => r.buf = <<>> \/ (PICA_msggetsize(r.buf) # 0 /\ PICA_msggetsize(r.buf) > Len(r.buf))
  <2> SUFFICES ASSUME r.ret, r.buf # <<>>
               PROVE  PICA_msggetsize(r.buf) # 0 /\ PICA_msggetsize(r.buf) > Len(r.buf)
    OBVIOUS
  <2>1. Len(r.buf) # 0
    BY <1>7
  <2>2. Pass(r) = r
    BY <1>1, <1>6, <1>7, <2>1 DEF Fits
  <2>3. Pass(r) # [r EXCEPT !.ret = FALSE]
    BY <1>7, <2>2 DEF Loop
  <2>4. ~(Len(r.buf) < Len(r.buf))
    BY <1>7
  <2> QED BY <1>8, <2>2, <2>3, <2>4 DEF Advance
<1>10. Processed(b, h, r)
  BY <1>6, <1>7, <1>9 DEF Fits, Processed
<1> QED BY <1>10 DEF r

-----------------------------------------------------------------------------
(* The connection.                                                         *)

Types ==
    /\ reader \in Readers
    /\ received \in Seq(Byte)
    /\ buf \in Seq(Byte)
    /\ buflen \in Nat
    /\ handled \in Seq(Seq(Byte))
    /\ status \in {"open", "closed", "error"}

\* The buffer never grows to the number that stands for "not known yet", and one that
\* cannot grow keeps its size.
Bounded ==
    status = "open" =>
        /\ buflen < UINT_MAX /\ buflen >= reader.bufsize
        /\ ~reader.grows => buflen = reader.bufsize

StreamInv == Types /\ Bounded /\ Framed /\ NothingWaits /\ RoomToRead

LEMMA StreamInit == Init => StreamInv
<1> SUFFICES ASSUME Init
             PROVE  StreamInv
  OBVIOUS
<1>1. reader \in Readers /\ received = <<>> /\ buf = <<>> /\ handled = <<>> /\ status = "open"
      /\ buflen = reader.bufsize
  BY DEF Init
<1>2. reader.bufsize \in Nat /\ reader.bufsize > 1 /\ 1 + reader.bufsize < UINT_MAX
      /\ UINT_MAX \in Nat
  BY <1>1, ReaderFacts
<1>3. Types
  BY <1>1, <1>2 DEF Types
<1>4. Bounded /\ RoomToRead
  BY <1>1, <1>2 DEF Bounded, RoomToRead
<1>5. Framed
  BY <1>1, FlattenEmpty DEF Framed
<1>6. NothingWaits
  <2>1. \A m \in Prefixes(buf) : Len(m) = 0
    BY <1>1 DEF Prefixes
  <2> QED BY <1>1, <2>1 DEF NothingWaits, CannotBegin, IsMessage
<1> QED BY <1>3, <1>4, <1>5, <1>6 DEF StreamInv

LEMMA StreamRead ==
    ASSUME StreamInv, NEW chunk \in Chunks, Read(chunk)
    PROVE  StreamInv'
<1> DEFINE b == buf \o chunk
           r == PICA_processdatastream(b)
<1>1. Types /\ Bounded /\ Framed /\ RoomToRead /\ status = "open"
  BY DEF StreamInv, Read
<1>2. /\ buf \in Seq(Byte) /\ Len(buf) \in Nat /\ received \in Seq(Byte) /\ buflen \in Nat
      /\ handled \in Seq(Seq(Byte)) /\ reader \in Readers
  BY <1>1, LenProperties DEF Types
<1>3. /\ UINT_MAX \in Nat /\ reader.bufsize \in Nat /\ reader.bufsize > 1
      /\ 1 + reader.bufsize < UINT_MAX /\ reader.grows \in BOOLEAN
  BY <1>2, ReaderFacts
<1>4. chunk \in Seq(Byte) /\ Len(chunk) \in Nat /\ Len(chunk) <= buflen - Len(buf)
  <2>1. MaxBytes - Len(received) \in Int /\ buflen - Len(buf) \in Int
    BY <1>2, LenProperties, StreamAssumption
  <2>2. PICK k \in 1 .. (IF buflen - Len(buf) < MaxBytes - Len(received)
                         THEN buflen - Len(buf) ELSE MaxBytes - Len(received)) :
          chunk \in [1 .. k -> Byte]
    BY DEF Chunks
  <2>3. k \in Nat /\ k <= buflen - Len(buf)
    BY <2>1
  <2>4. chunk \in Seq(Byte) /\ Len(chunk) = k
    BY <2>2, <2>3
  <2> QED BY <2>3, <2>4
<1>5. b \in Seq(Byte) /\ Len(b) \in Nat /\ Len(b) <= buflen
  <2>1. b \in Seq(Byte) /\ Len(b) = Len(buf) + Len(chunk)
    BY <1>2, <1>4, ConcatProperties
  <2> QED BY <1>2, <1>4, <2>1
<1>6. Len(b) < UINT_MAX
  BY <1>1, <1>2, <1>3, <1>5 DEF Bounded
<1> HIDE DEF b
<1>7. Processed(b, handled, r)
  BY <1>2, <1>5, <1>6, StreamProcessed
<1>8. /\ buf' = r.buf /\ buflen' = rbuf_grow(r.buf) /\ handled' = handled \o r.handled
      /\ status' = IF r.ret THEN "open" ELSE "error"
      /\ received' = received \o chunk /\ reader' = reader
  BY DEF Read, b
<1> HIDE DEF r
<1>9. /\ r.buf \in Seq(Byte) /\ r.handled \in Seq(Seq(Byte)) /\ r.ret \in BOOLEAN
      /\ Len(r.buf) \in Nat /\ Len(r.buf) <= buflen
  BY <1>2, <1>5, <1>7, LenProperties DEF Processed, Loop
<1>10. SizeOK(r.buf, PICA_msggetsize(r.buf))
  <2>1. Len(r.buf) < UINT_MAX
    BY <1>1, <1>2, <1>3, <1>9 DEF Bounded
  <2> QED BY <1>2, <1>9, <2>1, SizeFacts
<1>11. Types'
  <2>1. handled \o r.handled \in Seq(Seq(Byte)) /\ received \o chunk \in Seq(Byte)
    BY <1>2, <1>4, <1>9, ConcatProperties
  <2>2. rbuf_grow(r.buf) \in Nat
    BY <1>2, <1>3 DEF rbuf_grow
  <2> QED BY <1>2, <1>8, <1>9, <2>1, <2>2 DEF Types
<1>12. Framed'
  <2>1. \A i \in DOMAIN handled' : IsMessage(handled'[i])
    <3> TAKE i \in DOMAIN handled'
    <3>1. /\ Len(handled) \in Nat /\ Len(r.handled) \in Nat
          /\ DOMAIN handled = 1 .. Len(handled) /\ DOMAIN r.handled = 1 .. Len(r.handled)
          /\ i \in 1 .. Len(handled) + Len(r.handled)
      BY <1>2, <1>8, <1>9
    <3>2. handled'[i] = IF i <= Len(handled) THEN handled[i] ELSE r.handled[i - Len(handled)]
      BY <1>2, <1>8, <1>9, <3>1, ConcatProperties
    <3>3. IsMessage(handled'[i])
      <4>1. CASE i <= Len(handled)
        BY <1>1, <3>1, <3>2, <4>1 DEF Framed
      <4>2. CASE ~(i <= Len(handled))
        <5>1. i - Len(handled) \in DOMAIN r.handled
          BY <3>1, <4>2
        <5> QED BY <1>7, <3>2, <4>2, <5>1 DEF Processed
      <4> QED BY <4>1, <4>2
    <3> QED BY <3>3
  <2>2. FlattenSeq(handled') \o buf' = received'
    <3> DEFINE a == FlattenSeq(handled)
    <3>1. a \in Seq(Byte)
      <4>1. <<>> \in Seq(Byte)
        OBVIOUS
      <4> QED BY <1>2, <4>1, FlattenAppend
    <3>2. a \o buf = received
      BY <1>1 DEF Framed
    <3>3. FlattenSeq(handled') \o buf' = a \o (buf \o chunk)
      BY <1>7, <1>8 DEF Processed, b
    <3> HIDE DEF a
    <3>4. /\ (a \o buf) \o chunk \in Seq(Byte) /\ a \o (buf \o chunk) \in Seq(Byte)
          /\ Len((a \o buf) \o chunk) = Len(a \o (buf \o chunk))
      BY <1>2, <1>4, <3>1
    <3>5. \A i \in 1 .. Len((a \o buf) \o chunk) :
            ((a \o buf) \o chunk)[i] = (a \o (buf \o chunk))[i]
      BY <1>2, <1>4, <3>1
    <3>6. (a \o buf) \o chunk = a \o (buf \o chunk)
      BY <3>4, <3>5, SeqEqual
    <3> QED BY <1>8, <3>2, <3>3, <3>6
  <2> QED BY <1>8, <2>1, <2>2 DEF Framed, IsMessage, msgs
<1>13. \A m \in Prefixes(r.buf) : \E n \in 0 .. Len(r.buf) : m = SubSeq(r.buf, 1, n)
  BY DEF Prefixes
<1>14. NothingWaits'
  <2>1. CASE r.ret
    <3>1. r.buf = <<>> \/ (PICA_msggetsize(r.buf) # 0 /\ PICA_msggetsize(r.buf) > Len(r.buf))
      BY <1>7, <2>1 DEF Processed
    <3>2. ~CannotBegin(r.buf)
      <4>1. r.buf = <<>> => Len(r.buf) = 0
        OBVIOUS
      <4> QED BY <1>10, <3>1, <4>1 DEF SizeOK, CannotBegin
    <3>3. \A m \in Prefixes(r.buf) : ~IsMessage(m)
      <4> TAKE m \in Prefixes(r.buf)
      <4>1. PICK n \in 0 .. Len(r.buf) : m = SubSeq(r.buf, 1, n)
        BY <1>13
      <4>2. CASE r.buf = <<>>
        <5>1. Len(m) = 0
          BY <4>1, <4>2
        <5> QED BY <5>1 DEF IsMessage
      <4>3. CASE PICA_msggetsize(r.buf) > Len(r.buf)
        <5>1. n # PICA_msggetsize(r.buf)
          BY <1>9, <1>10, <4>3 DEF SizeOK
        <5> QED BY <1>10, <4>1, <5>1 DEF SizeOK
      <4> QED BY <3>1, <4>2, <4>3
    <3>4. status' = "open"
      BY <1>8, <2>1
    <3> QED BY <1>8, <3>2, <3>3, <3>4 DEF NothingWaits, CannotBegin, IsMessage, msgs
  <2>2. CASE ~r.ret
    <3>1. PICA_msggetsize(r.buf) = 0 \/ Refused(r.buf)
      BY <1>7, <2>2 DEF Processed
    <3>2. CannotBegin(r.buf) \/ \E m \in Prefixes(r.buf) : IsMessage(m) /\ m[1] \in reader.refused
      <4>1. CASE PICA_msggetsize(r.buf) = 0
        BY <1>10, <4>1 DEF SizeOK
      <4>2. CASE Refused(r.buf)
        <5> DEFINE n == PICA_msggetsize(r.buf)
                   m == SubSeq(r.buf, 1, n)
        <5>1. n # 0 /\ n <= Len(r.buf) /\ r.buf[1] \in reader.refused
          BY <4>2 DEF Refused
        <5>2. n \in Nat /\ n >= 2 /\ n \in 0 .. Len(r.buf)
          BY <1>9, <1>10, <5>1 DEF SizeOK
        <5>3. IsMessage(m)
          BY <1>10, <5>1, <5>2 DEF SizeOK
        <5> HIDE DEF n
        <5>4. m[1] = r.buf[1] /\ m \in Prefixes(r.buf)
          <6>1. m \in Prefixes(r.buf)
            BY <5>2 DEF Prefixes
          <6>2. m[1] = r.buf[1]
            BY <1>9, <5>1, <5>2, CutAt
          <6> QED BY <6>1, <6>2
        <5> QED BY <5>1, <5>3, <5>4
      <4> QED BY <3>1, <4>1, <4>2
    <3>3. status' = "error"
      BY <1>8, <2>2
    <3> QED BY <1>8, <3>2, <3>3 DEF NothingWaits, CannotBegin, IsMessage, msgs
  <2> QED BY <1>9, <2>1, <2>2
<1>15. r.ret /\ Len(r.buf) = buflen => reader.grows /\ buflen + reader.bufsize < UINT_MAX
  <2> SUFFICES ASSUME r.ret, Len(r.buf) = buflen
               PROVE  reader.grows /\ buflen + reader.bufsize < UINT_MAX
    OBVIOUS
  <2>1. buflen >= reader.bufsize
    BY <1>1 DEF Bounded
  <2>2. Len(r.buf) # 0 /\ r.buf # <<>>
    BY <1>2, <1>3, <1>9, <2>1
  <2>3. PICA_msggetsize(r.buf) > Len(r.buf)
    BY <1>7, <2>2 DEF Processed
  <2>4. CASE r.buf[1] \in DOMAIN msgs /\ Len(r.buf) < LargestSize(msgs[r.buf[1]])
    <3> DEFINE l == LargestSize(msgs[r.buf[1]])
    <3>1. l + reader.bufsize <= UINT_MAX /\ (reader.grows \/ l <= reader.bufsize)
      BY <1>2, <2>4, ReaderFacts
    <3>2. l \in Nat
      <4> DEFINE t == msgs[r.buf[1]]
      <4>1. Base \in Nat /\ t.fixedsz \in BOOLEAN /\ (t.fixedsz => t.sz \in Nat)
            /\ (~t.fixedsz => t.sz \in {1, 2})
        BY <1>2, <2>4, ReaderFacts
      <4> HIDE DEF t
      <4> QED BY <4>1 DEF LargestSize, t
    <3>3. Len(r.buf) < l
      BY <2>4
    <3> HIDE DEF l
    <3> QED BY <1>2, <1>3, <1>9, <2>1, <3>1, <3>2, <3>3
  <2>5. ~(Len(r.buf) < 2)
    BY <1>2, <1>3, <2>1
  <2> QED BY <1>10, <2>3, <2>4, <2>5 DEF SizeOK
<1>16. r.ret => /\ Len(r.buf) < buflen' /\ buflen' < UINT_MAX /\ buflen' >= reader.bufsize
                /\ ~reader.grows => buflen' = reader.bufsize
  <2> SUFFICES ASSUME r.ret
               PROVE  /\ Len(r.buf) < buflen' /\ buflen' < UINT_MAX /\ buflen' >= reader.bufsize
                      /\ ~reader.grows => buflen' = reader.bufsize
    OBVIOUS
  <2>1. /\ buflen < UINT_MAX /\ buflen >= reader.bufsize
        /\ ~reader.grows => buflen = reader.bufsize
    BY <1>1 DEF Bounded
  <2>2. CASE Len(r.buf) = buflen
    <3>1. buflen' = buflen + reader.bufsize /\ reader.grows
      BY <1>8, <1>15, <2>2 DEF rbuf_grow
    <3> QED BY <1>2, <1>3, <1>15, <2>1, <2>2, <3>1
  <2>3. CASE Len(r.buf) # buflen
    <3>1. buflen' = buflen
      BY <1>8, <2>3 DEF rbuf_grow
    <3> QED BY <1>2, <1>9, <2>1, <2>3, <3>1
  <2> QED BY <2>2, <2>3
<1>17. Bounded' /\ RoomToRead'
  <2>1. status' = "open" => r.ret
    BY <1>8
  <2> QED BY <1>8, <1>16, <2>1 DEF Bounded, RoomToRead
<1> QED BY <1>11, <1>12, <1>14, <1>17 DEF StreamInv

LEMMA StreamEnds ==
    ASSUME StreamInv, ReadEnds \/ UNCHANGED svars
    PROVE  StreamInv'
<1>1. /\ UNCHANGED <<reader, received, buf, buflen, handled>>
      /\ status' = status \/ (status = "open" /\ status' = "closed")
  BY DEF ReadEnds, svars
<1>2. Types' /\ Bounded' /\ RoomToRead'
  BY <1>1 DEF StreamInv, Types, Bounded, RoomToRead
<1>3. Framed'
  BY <1>1 DEF StreamInv, Framed, IsMessage, msgs
<1>4. NothingWaits'
  BY <1>1 DEF StreamInv, NothingWaits, CannotBegin, IsMessage, msgs
<1> QED BY <1>2, <1>3, <1>4 DEF StreamInv

LEMMA StreamAlways == Spec => []StreamInv
<1>1. StreamInv /\ [Next]_svars => StreamInv'
  BY StreamRead, StreamEnds DEF Next, Gone
<1> QED BY <1>1, StreamInit, PTL DEF Spec

\* PICA_processdatastream hands over every message of the stream exactly once, whole and
\* in order, whatever SSL_read returns at a time, and keeps the bytes of the message that
\* is not complete yet.
THEOREM StreamIsFramed == Spec => []Framed
<1> QED BY StreamAlways, PTL DEF StreamInv

\* No complete message is left in the read buffer, where it would wait for bytes that
\* may never come, and PICA_processdatastream fails only on what cannot be a message or
\* on one its handler refuses.
THEOREM StreamNeverWaits == Spec => []NothingWaits
<1> QED BY StreamAlways, PTL DEF StreamInv

\* client_rbuf_grow and nodelink_rbuf_grow, or a buffer as large as the largest message,
\* always leave room for the next SSL_read.
THEOREM StreamHasRoom == Spec => []RoomToRead
<1> QED BY StreamAlways, PTL DEF StreamInv
=============================================================================
