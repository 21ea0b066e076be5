------------------------- MODULE DirectSwitch_proofs -------------------------
(***************************************************************************)
(* A c2c channel that moves to a direct connection, for every number of    *)
(* texts, faults and blocked writes: it is a FIFO channel, both ends move  *)
(* to the same connection, and while nothing breaks no end uses a direct   *)
(* connection it does not have.                                            *)
(***************************************************************************)
EXTENDS DirectSwitch, SequenceTheorems, WellFoundedInduction, TLAPS

-----------------------------------------------------------------------------
(* Sequences.                                                              *)

\* A set of naturals that is not empty has a least element.
LEMMA LeastOf ==
    ASSUME NEW S, S \subseteq Nat, S # {}
    PROVE  \E x \in S : \A y \in S : x <= y
<1>1. PICK x \in S : \A y \in S : ~(<<y, x>> \in OpToRel(<, Nat))
  BY NatLessThanWellFounded, WFMin, Zenon
<1>2. \A y \in S : ~(y < x)
  BY <1>1 DEF OpToRel
<1> QED BY <1>2

\* What FlattenSeq chooses: the concatenations of the first elements.
Flats(s, f) ==
    f = [i \in 1 .. Len(s) |-> IF i = 1 THEN s[i] ELSE f[i - 1] \o s[i]]

LEMMA FlatsGrow ==
    ASSUME NEW S, NEW s \in Seq(Seq(S)), NEW x \in Seq(S), Len(s) > 0,
           NEW f \in [1 .. Len(s) -> Seq(S)], Flats(s, f), NEW e,
           e = [i \in 1 .. Len(s) + 1 |-> IF i <= Len(s) THEN f[i] ELSE f[Len(s)] \o x]
    PROVE  e \in [1 .. Len(Append(s, x)) -> Seq(S)] /\ Flats(Append(s, x), e)
<1> DEFINE n == Len(s)
           t == Append(s, x)
           g == [i \in 1 .. n + 1 |-> IF i <= n THEN f[i] ELSE f[n] \o x]
<1>1. n \in Nat /\ n >= 1 /\ Len(t) = n + 1 /\ t \in Seq(Seq(S)) /\ t[n + 1] = x
      /\ \A i \in 1 .. n : t[i] = s[i]
  OBVIOUS
<1>2. f[n] \o x \in Seq(S)
  <2>1. n \in 1 .. Len(s)
    BY <1>1
  <2> HIDE DEF n
  <2>2. f[n] \in Seq(S)
    BY <2>1
  <2> QED BY <2>2, ConcatProperties
<1>3. \A i \in 1 .. n : f[i] = IF i = 1 THEN s[i] ELSE f[i - 1] \o s[i]
  BY Zenon DEF Flats
<1> HIDE DEF n, t
<1>4. g \in [1 .. n + 1 -> Seq(S)]
  BY <1>1, <1>2 DEF n
<1>5. ASSUME NEW i \in 1 .. n + 1
      PROVE  g[i] = IF i = 1 THEN t[i] ELSE g[i - 1] \o t[i]
  <2>1. CASE i = n + 1
    <3>1. n \in 1 .. n + 1 /\ n + 1 \in 1 .. n + 1 /\ ~(n + 1 <= n) /\ n <= n
          /\ i # 1 /\ i - 1 = n
      BY <1>1, <2>1
    <3>2. g[n + 1] = f[n] \o x /\ g[n] = f[n]
      BY <3>1
    <3> HIDE DEF g
    <3> QED BY <1>1, <2>1, <3>1, <3>2
  <2>2. CASE i <= n
    <3>1. i \in 1 .. n
      BY <1>1, <2>2
    <3>2. g[i] = f[i] /\ t[i] = s[i] /\ f[i] = IF i = 1 THEN s[i] ELSE f[i - 1] \o s[i]
      BY <1>1, <1>3, <3>1
    <3>3. i # 1 => g[i - 1] = f[i - 1]
      BY <1>1, <3>1
    <3> QED BY <3>2, <3>3
  <2> QED BY <1>1, <2>1, <2>2
<1> DEFINE G == [i \in 1 .. Len(t) |-> IF i = 1 THEN t[i] ELSE g[i - 1] \o t[i]]
<1>6. g = G
  <2>1. DOMAIN g = 1 .. n + 1 /\ DOMAIN G = 1 .. n + 1
    BY <1>1
  <2>2. \A i \in 1 .. n + 1 : g[i] = G[i]
    BY <1>1, <1>5
  <2>3. g = [i \in DOMAIN g |-> g[i]] /\ G = [i \in DOMAIN G |-> G[i]]
    OBVIOUS
  <2> HIDE DEF g, G
  <2> QED BY <2>1, <2>2, <2>3
<1>7. Flats(t, g)
  BY <1>6, Zenon DEF Flats
<1>8. e = g
  BY DEF n
<1> HIDE DEF g
<1> QED BY <1>1, <1>4, <1>7, <1>8 DEF t

\* It exists for every sequence of sequences.
LEMMA FlatsExist ==
    ASSUME NEW S, NEW s \in Seq(Seq(S)), Len(s) > 0
    PROVE  \E f \in [1 .. Len(s) -> Seq(S)] : Flats(s, f)
<1> DEFINE Bad == {k \in Nat : k > 0 /\ \E t \in Seq(Seq(S)) :
                     Len(t) = k /\ ~\E f \in [1 .. Len(t) -> Seq(S)] : Flats(t, f)}
<1> SUFFICES ASSUME Bad # {}
             PROVE  FALSE
  <2>1. Len(s) \in Nat
    OBVIOUS
  <2> QED BY <2>1
<1>1. PICK k \in Bad : \A j \in Bad : k <= j
  BY LeastOf
<1>2. PICK t \in Seq(Seq(S)) :
        Len(t) = k /\ ~\E f \in [1 .. Len(t) -> Seq(S)] : Flats(t, f)
  OBVIOUS
<1>3. k \in Nat /\ k > 0
  OBVIOUS
<1>4. CASE k = 1
  <2> DEFINE f == [i \in 1 .. 1 |-> t[i]]
  <2>1. t[1] \in Seq(S)
    BY <1>2, <1>3, ElementOfSeq
  <2>2. f \in [1 .. Len(t) -> Seq(S)] /\ DOMAIN f = 1 .. 1
    BY <1>2, <1>4, <2>1
  <2>3. f = [i \in 1 .. Len(t) |-> IF i = 1 THEN t[i] ELSE f[i - 1] \o t[i]]
    BY <1>2, <1>4
  <2> QED BY <1>2, <2>2, <2>3, Zenon DEF Flats
<1>5. CASE k > 1
  <2> DEFINE r == SubSeq(t, 1, k - 1)
             x == t[k]
  <2>1. r \in Seq(Seq(S)) /\ Len(r) = k - 1 /\ x \in Seq(S) /\ t = Append(r, x)
    BY <1>2, <1>3, <1>5
  <2>2. k - 1 \notin Bad /\ k - 1 \in Nat /\ k - 1 > 0
    <3>1. k - 1 \in Nat /\ k - 1 > 0 /\ ~(k <= k - 1)
      BY <1>3, <1>5
    <3> HIDE DEF Bad
    <3> QED BY <1>1, <3>1
  <2> HIDE DEF r, x
  <2>3. PICK f \in [1 .. Len(r) -> Seq(S)] : Flats(r, f)
    BY <2>1, <2>2
  <2> DEFINE e == [i \in 1 .. Len(r) + 1 |-> IF i <= Len(r) THEN f[i] ELSE f[Len(r)] \o x]
  <2>4. \E g \in [1 .. Len(Append(r, x)) -> Seq(S)] : Flats(Append(r, x), g)
    <3>1. e = [i \in 1 .. Len(r) + 1 |-> IF i <= Len(r) THEN f[i] ELSE f[Len(r)] \o x]
      OBVIOUS
    <3>3. r \in Seq(Seq(S)) /\ x \in Seq(S) /\ Len(r) > 0
      BY <2>1, <2>2
    <3> HIDE DEF e
    <3>2. e \in [1 .. Len(Append(r, x)) -> Seq(S)] /\ Flats(Append(r, x), e)
      BY <2>3, <3>1, <3>3, FlatsGrow
    <3> QED BY <3>2, Zenon
  <2> QED BY <1>2, <2>1, <2>4
<1> QED BY <1>3, <1>4, <1>5

\* There is only one.
LEMMA FlatsUnique ==
    ASSUME NEW s, Len(s) \in Nat, Len(s) > 0, NEW f, NEW g, Flats(s, f), Flats(s, g)
    PROVE  f[Len(s)] = g[Len(s)]
<1> DEFINE n == Len(s)
           Bad == {i \in 1 .. n : f[i] # g[i]}
<1> SUFFICES ASSUME Bad # {}
             PROVE  FALSE
  <2>1. n \in 1 .. n
    OBVIOUS
  <2> HIDE DEF n
  <2> QED BY <2>1 DEF n
<1>0. \A i \in 1 .. n : /\ f[i] = IF i = 1 THEN s[i] ELSE f[i - 1] \o s[i]
                        /\ g[i] = IF i = 1 THEN s[i] ELSE g[i - 1] \o s[i]
  BY Zenon DEF Flats
<1>1. PICK i \in Bad : \A j \in Bad : i <= j
  <2>1. Bad \subseteq Nat
    OBVIOUS
  <2> HIDE DEF Bad
  <2> QED BY <2>1, LeastOf
<1>2. i \in 1 .. n /\ f[i] # g[i]
  OBVIOUS
<1>3. i # 1
  BY <1>0, <1>2
<1>4. i - 1 \in 1 .. n /\ ~(i <= i - 1)
  BY <1>2, <1>3
<1>5. f[i - 1] = g[i - 1]
  <2>1. i - 1 \notin Bad
    <3> HIDE DEF Bad
    <3> QED BY <1>1, <1>4
  <2> QED BY <1>4, <2>1
<1> HIDE DEF n, Bad
<1> QED BY <1>0, <1>2, <1>3, <1>5

\* FlattenSeq of a sequence of sequences, one more at the end.
LEMMA FlattenIs ==
    ASSUME NEW S, NEW s \in Seq(Seq(S)), Len(s) > 0,
           NEW f, Flats(s, f)
    PROVE  FlattenSeq(s) = f[Len(s)]
<1> DEFINE h == CHOOSE flatten : flatten = [i \in 1 .. Len(s) |->
                    IF i = 1 THEN s[i] ELSE flatten[i - 1] \o s[i]]
<1>1. Flats(s, h)
  BY Zenon DEF Flats
<1>2. FlattenSeq(s) = h[Len(s)]
  BY DEF FlattenSeq
<1> HIDE DEF h
<1>3. Len(s) \in Nat
  OBVIOUS
<1> QED BY <1>1, <1>2, <1>3, FlatsUnique

LEMMA FlattenEmpty == FlattenSeq(<<>>) = <<>>
BY DEF FlattenSeq

LEMMA FlattenAppend ==
    ASSUME NEW S, NEW s \in Seq(Seq(S)), NEW x \in Seq(S)
    PROVE  /\ FlattenSeq(s) \in Seq(S)
           /\ FlattenSeq(Append(s, x)) = FlattenSeq(s) \o x
<1>1. Append(s, x) \in Seq(Seq(S)) /\ Len(Append(s, x)) = Len(s) + 1 /\ Len(s) \in Nat
  OBVIOUS
<1>2. CASE Len(s) = 0
  <2> DEFINE f == [i \in 1 .. 1 |-> x]
  <2>1. s = <<>>
    BY <1>2
  <2>2. Append(s, x)[1] = x /\ Len(Append(s, x)) = 1
    BY <2>1
  <2>3. f = [i \in 1 .. Len(Append(s, x)) |->
               IF i = 1 THEN Append(s, x)[i] ELSE f[i - 1] \o Append(s, x)[i]]
    BY <2>2
  <2>4. Flats(Append(s, x), f)
    BY <2>3, Zenon DEF Flats
  <2>5. f[1] = x
    OBVIOUS
  <2>8. FlattenSeq(Append(s, x)) = x
    <3> DEFINE t == Append(s, x)
    <3>1. t \in Seq(Seq(S)) /\ Len(t) > 0 /\ Flats(t, f) /\ Len(t) = 1
      BY <1>1, <2>2, <2>4
    <3> HIDE DEF f, t
    <3>2. FlattenSeq(t) = f[Len(t)]
      BY <3>1, FlattenIs
    <3> QED BY <2>5, <3>1, <3>2 DEF t
  <2>6. FlattenSeq(s) = <<>>
    BY <2>1, FlattenEmpty
  <2>7. <<>> \in Seq(S) /\ <<>> \o x = x
    OBVIOUS
  <2> QED BY <2>6, <2>7, <2>8
<1>3. CASE Len(s) > 0
  <2>1. PICK f \in [1 .. Len(s) -> Seq(S)] : Flats(s, f)
    BY <1>3, FlatsExist
  <2> DEFINE g == [i \in 1 .. Len(s) + 1 |-> IF i <= Len(s) THEN f[i] ELSE f[Len(s)] \o x]
  <2>2. g \in [1 .. Len(Append(s, x)) -> Seq(S)] /\ Flats(Append(s, x), g)
    <3>1. g = [i \in 1 .. Len(s) + 1 |-> IF i <= Len(s) THEN f[i] ELSE f[Len(s)] \o x]
      OBVIOUS
    <3> HIDE DEF g
    <3> QED BY <1>3, <2>1, <3>1, FlatsGrow
  <2>3. g[Len(s) + 1] = f[Len(s)] \o x
    BY <1>1, <1>3
  <2> HIDE DEF g
  <2>4. FlattenSeq(Append(s, x)) = g[Len(s) + 1]
    <3> DEFINE t == Append(s, x)
    <3>1. t \in Seq(Seq(S)) /\ Len(t) > 0 /\ Flats(t, g) /\ Len(t) = Len(s) + 1
      BY <1>1, <2>2
    <3> HIDE DEF t
    <3>2. FlattenSeq(t) = g[Len(t)]
      BY <3>1, FlattenIs
    <3> QED BY <3>1, <3>2 DEF t
  <2>5. FlattenSeq(s) = f[Len(s)]
    BY <1>3, <2>1, FlattenIs
  <2>6. f[Len(s)] \in Seq(S)
    <3>1. Len(s) \in 1 .. Len(s)
      BY <1>1, <1>3
    <3> QED BY <2>1, <3>1
  <2> QED BY <2>3, <2>4, <2>5, <2>6
<1> QED BY <1>1, <1>2, <1>3

-----------------------------------------------------------------------------
(* The texts among some messages.                                          *)

PartOf(m) == IF m.type = "MSGUTF8" THEN <<m>> ELSE <<>>

LEMMA PartTyped ==
    ASSUME NEW M, NEW m \in M
    PROVE  PartOf(m) \in Seq(M)
<1>1. <<>> \in Seq(M) /\ <<m>> \in Seq(M)
  OBVIOUS
<1> QED BY <1>1, Zenon DEF PartOf

LEMMA PickedTyped ==
    ASSUME NEW M, NEW ms \in Seq(M)
    PROVE  /\ [i \in DOMAIN ms |-> PartOf(ms[i])] \in Seq(Seq(M))
           /\ Len([i \in DOMAIN ms |-> PartOf(ms[i])]) = Len(ms)
           /\ OnlyTexts(ms) = FlattenSeq([i \in DOMAIN ms |-> PartOf(ms[i])])
<1>1. Len(ms) \in Nat /\ DOMAIN ms = 1 .. Len(ms) /\ \A i \in 1 .. Len(ms) : ms[i] \in M
  BY LenProperties, ElementOfSeq
<1>2. \A i \in 1 .. Len(ms) : PartOf(ms[i]) \in Seq(M)
  BY <1>1, PartTyped
<1>3. OnlyTexts(ms) = FlattenSeq([i \in DOMAIN ms |-> PartOf(ms[i])])
  BY Zenon DEF OnlyTexts, PartOf
<1> DEFINE f == [i \in 1 .. Len(ms) |-> PartOf(ms[i])]
<1>4. f \in [1 .. Len(ms) -> Seq(M)]
  BY <1>2, Zenon
<1>5. f = [i \in DOMAIN ms |-> PartOf(ms[i])]
  BY <1>1
<1> HIDE DEF f
<1>6. f \in Seq(Seq(M)) /\ Len(f) = Len(ms)
  BY <1>1, <1>4
<1> QED BY <1>3, <1>5, <1>6

LEMMA TextsEmpty == OnlyTexts(<<>>) = <<>>
<1>1. DOMAIN <<>> = {}
  OBVIOUS
<1>2. [i \in {} |-> IF <<>>[i].type = "MSGUTF8" THEN << <<>>[i] >> ELSE <<>>] = <<>>
  OBVIOUS
<1> QED BY <1>1, <1>2, FlattenEmpty DEF OnlyTexts

LEMMA TextsAppend ==
    ASSUME NEW M, NEW ms \in Seq(M), NEW m \in M
    PROVE  /\ OnlyTexts(ms) \in Seq(M)
           /\ OnlyTexts(Append(ms, m)) = OnlyTexts(ms) \o PartOf(m)
<1> DEFINE f == [i \in DOMAIN ms |-> PartOf(ms[i])]
           as == Append(ms, m)
           g == [i \in DOMAIN as |-> PartOf(as[i])]
<1>1. as \in Seq(M) /\ Len(as) = Len(ms) + 1 /\ as[Len(ms) + 1] = m
      /\ (\A i \in 1 .. Len(ms) : as[i] = ms[i]) /\ Len(ms) \in Nat
      /\ DOMAIN as = 1 .. Len(ms) + 1 /\ DOMAIN ms = 1 .. Len(ms)
  OBVIOUS
<1> HIDE DEF as
<1>2. f \in Seq(Seq(M)) /\ Len(f) = Len(ms) /\ OnlyTexts(ms) = FlattenSeq(f)
  BY PickedTyped, Zenon
<1>3. g \in Seq(Seq(M)) /\ Len(g) = Len(as) /\ OnlyTexts(as) = FlattenSeq(g)
  BY <1>1, PickedTyped, Zenon
<1>4. PartOf(m) \in Seq(M)
  BY PartTyped
<1>5. \A i \in 1 .. Len(ms) : f[i] = PartOf(ms[i]) /\ g[i] = PartOf(ms[i])
  <2> TAKE i \in 1 .. Len(ms)
  <2>2. i \in 1 .. Len(ms) + 1
    BY <1>1
  <2>1. i \in DOMAIN ms /\ i \in DOMAIN as /\ as[i] = ms[i]
    BY <1>1, <2>2, Zenon
  <2> QED BY <2>1, Zenon
<1>6. g[Len(ms) + 1] = PartOf(m)
  <2>1. Len(ms) + 1 \in DOMAIN as /\ as[Len(ms) + 1] = m
    BY <1>1
  <2> QED BY <2>1, Zenon
<1> HIDE DEF f, g
<1>7. g = Append(f, PartOf(m))
  <2> DEFINE h == Append(f, PartOf(m))
  <2>1. h \in Seq(Seq(M)) /\ Len(h) = Len(ms) + 1 /\ h[Len(ms) + 1] = PartOf(m)
        /\ \A i \in 1 .. Len(ms) : h[i] = f[i]
    BY <1>2, <1>4
  <2> HIDE DEF h
  <2>2. ASSUME NEW i \in 1 .. Len(g)
        PROVE  g[i] = h[i]
    <3>1. i \in 1 .. Len(ms) \/ i = Len(ms) + 1
      BY <1>1, <1>3
    <3> QED BY <1>5, <1>6, <2>1, <3>1
  <2>3. g = h
    BY <1>1, <1>3, <2>1, <2>2, SeqEqual
  <2> QED BY <2>3 DEF h
<1>8. FlattenSeq(f) \in Seq(M) /\ FlattenSeq(Append(f, PartOf(m))) = FlattenSeq(f) \o PartOf(m)
  BY <1>2, <1>4, FlattenAppend
<1> QED BY <1>2, <1>3, <1>7, <1>8 DEF as

LEMMA TextsTyped ==
    ASSUME NEW M, NEW ms \in Seq(M)
    PROVE  OnlyTexts(ms) \in Seq(M)
<1>1. CASE ms = <<>>
  BY <1>1, TextsEmpty
<1>2. CASE ms # <<>>
  <2>1. ms[1] \in M
    BY <1>2
  <2> QED BY <2>1, TextsAppend
<1> QED BY <1>1, <1>2

LEMMA TextsOne ==
    ASSUME NEW M, NEW m \in M
    PROVE  OnlyTexts(<<m>>) = PartOf(m)
<1>1. <<>> \in Seq(M) /\ Append(<<>>, m) = <<m>>
  OBVIOUS
<1>2. OnlyTexts(Append(<<>>, m)) = OnlyTexts(<<>>) \o PartOf(m)
  BY <1>1, TextsAppend
<1>3. <<>> \o PartOf(m) = PartOf(m)
  BY PartTyped, ConcatEmptySeq
<1> QED BY <1>1, <1>2, <1>3, TextsEmpty

LEMMA TextsConcat ==
    ASSUME NEW M, NEW ms \in Seq(M), NEW ns \in Seq(M)
    PROVE  OnlyTexts(ms \o ns) = OnlyTexts(ms) \o OnlyTexts(ns)
<1> DEFINE Bad == {k \in Nat : \E t \in Seq(M) :
                     Len(t) = k /\ OnlyTexts(ms \o t) # OnlyTexts(ms) \o OnlyTexts(t)}
<1> SUFFICES ASSUME Bad # {}
             PROVE  FALSE
  <2>1. Len(ns) \in Nat
    OBVIOUS
  <2> QED BY <2>1
<1>1. PICK k \in Bad : \A j \in Bad : k <= j
  BY LeastOf
<1>2. PICK t \in Seq(M) :
        Len(t) = k /\ OnlyTexts(ms \o t) # OnlyTexts(ms) \o OnlyTexts(t)
  OBVIOUS
<1>3. k \in Nat
  OBVIOUS
<1>0. OnlyTexts(ms) \in Seq(M)
  BY TextsTyped
<1>4. CASE k = 0
  <2>1. t = <<>>
    BY <1>2, <1>4
  <2>2. ms \o t = ms
    BY <2>1
  <2>3. OnlyTexts(ms) \o OnlyTexts(t) = OnlyTexts(ms)
    BY <1>0, <2>1, TextsEmpty
  <2> QED BY <1>2, <2>2, <2>3
<1>5. CASE k > 0
  <2> DEFINE r == SubSeq(t, 1, k - 1)
             x == t[k]
  <2>1. r \in Seq(M) /\ Len(r) = k - 1 /\ x \in M /\ t = Append(r, x)
    BY <1>2, <1>3, <1>5
  <2>2. k - 1 \notin Bad /\ k - 1 \in Nat
    <3>1. k - 1 \in Nat /\ ~(k <= k - 1)
      BY <1>3, <1>5
    <3> HIDE DEF Bad
    <3> QED BY <1>1, <3>1
  <2> HIDE DEF r, x
  <2>3. OnlyTexts(ms \o r) = OnlyTexts(ms) \o OnlyTexts(r)
    BY <2>1, <2>2
  <2>4. OnlyTexts(t) = OnlyTexts(r) \o PartOf(x) /\ OnlyTexts(r) \in Seq(M)
    BY <2>1, TextsAppend
  <2>5. ms \o r \in Seq(M) /\ ms \o t = Append(ms \o r, x)
    BY <2>1
  <2>6. OnlyTexts(ms \o t) = OnlyTexts(ms \o r) \o PartOf(x)
    BY <2>1, <2>5, TextsAppend
  <2>7. PartOf(x) \in Seq(M)
    BY <2>1, PartTyped
  <2>8. (OnlyTexts(ms) \o OnlyTexts(r)) \o PartOf(x) = OnlyTexts(ms) \o (OnlyTexts(r) \o PartOf(x))
    <3> DEFINE a == OnlyTexts(ms)
               b == OnlyTexts(r)
               c == PartOf(x)
    <3>1. a \in Seq(M) /\ b \in Seq(M) /\ c \in Seq(M)
      BY <1>0, <2>4, <2>7
    <3> HIDE DEF a, b, c, Bad
    <3>2. /\ (a \o b) \o c \in Seq(M) /\ a \o (b \o c) \in Seq(M)
          /\ Len((a \o b) \o c) = Len(a \o (b \o c))
      BY <3>1
    <3>3. \A i \in 1 .. Len((a \o b) \o c) : ((a \o b) \o c)[i] = (a \o (b \o c))[i]
      BY <3>1
    <3>4. (a \o b) \o c = a \o (b \o c)
      BY <3>2, <3>3, SeqEqual
    <3> QED BY <3>4 DEF a, b, c
  <2> QED BY <1>2, <2>3, <2>4, <2>6, <2>8
<1> QED BY <1>3, <1>4, <1>5

\* What reading the first message takes away, and what a prefix keeps.
LEMMA TextsHead ==
    ASSUME NEW M, NEW ms \in Seq(M), ms # <<>>
    PROVE  OnlyTexts(ms) = PartOf(Head(ms)) \o OnlyTexts(Tail(ms))
<1>1. Head(ms) \in M /\ Tail(ms) \in Seq(M) /\ <<Head(ms)>> \in Seq(M)
      /\ ms = <<Head(ms)>> \o Tail(ms)
  OBVIOUS
<1>2. OnlyTexts(<<Head(ms)>> \o Tail(ms)) = OnlyTexts(<<Head(ms)>>) \o OnlyTexts(Tail(ms))
  BY <1>1, TextsConcat
<1>3. OnlyTexts(<<Head(ms)>>) = PartOf(Head(ms))
  BY <1>1, TextsOne
<1> QED BY <1>1, <1>2, <1>3

LEMMA TextsPrefix ==
    ASSUME NEW M, NEW ms \in Seq(M), NEW ns \in Seq(M)
    PROVE  OnlyTexts(ms) \in Prefixes(OnlyTexts(ms \o ns))
<1> DEFINE a == OnlyTexts(ms)
           b == OnlyTexts(ns)
<1>1. a \in Seq(M) /\ b \in Seq(M) /\ OnlyTexts(ms \o ns) = a \o b
  BY TextsTyped, TextsConcat
<1> HIDE DEF a, b
<1>2. Len(a) \in 0 .. Len(a \o b) /\ a = SubSeq(a \o b, 1, Len(a))
  BY <1>1
<1>3. a \in {SubSeq(a \o b, 1, l) : l \in 0 .. Len(a \o b)}
  BY <1>2
<1> QED BY <1>1, <1>3 DEF Prefixes, a

-----------------------------------------------------------------------------
(* Types.                                                                  *)

MsgTypes == {"C2CCONNREQ", "C2CCONNREQ-other", "INITRESPOK", "VERDIFFER", "MSGUTF8", "MSGOK",
             "ADDRLIST", "FAILED", "SWITCH"}
Msg == [type : MsgTypes, n : Nat]
Pipe == Seq(Msg)

States == {"WAITINGREP", "WAITINGC2CPROTOVER", "ACTIVE", "CLOSED", "EXITED", "CRASHED"}
DirectStates == {"INACTIVE", "WAITINGINCOMING", "CONNECTING", "FAILEDTOCONNECT", "ACTIVE"}
Direct == [is : {"none", "list", "out", "in"},
           state : {"NEW", "CONNECTING", "WAITINGTLS", "FAILED", "ACTIVE"}]

Chan == [state : States, directc2c_state : DirectStates, direct : Direct, write_buf : Pipe,
         write_sslbytestowrite : Nat, barrier_pos : Nat, before_barrier_pos : Nat,
         switched_write : BOOLEAN, switched_read : BOOLEAN]

Types ==
    /\ config \in [Ends -> Configs]
    /\ c2c \in [Ends -> Chan]
    /\ accepted \in [Ends -> {"none", "WAITINGTLS", "ACTIVE", "failed", "served"}]
    /\ net \in [Ends -> {"none", "syn", "up", "refused", "closed", "broken"}]
    /\ relay \in [Ends -> Pipe]
    /\ link \in [Ends -> [Ends -> Pipe]]
    /\ got \in [Ends -> Pipe]
    /\ texts \in [Ends -> Nat]
    /\ faults \in Nat
    /\ blocked \in Nat

LEMMA TwoEnds ==
    /\ Ends = {"out", "in"}
    /\ Other("out") = "in"
    /\ Other("in") = "out"
    /\ \A p \in Ends : /\ Other(p) \in Ends /\ Other(p) # p /\ Other(Other(p)) = p
                       /\ \A q \in Ends : q = p \/ q = Other(p)
<1>1. Other("out") = "in" /\ Other("in") = "out"
  BY DEF Other, Ends
<1> QED BY <1>1 DEF Ends

LEMMA PlainTyped == \A t \in MsgTypes : Plain(t) \in Msg /\ Plain(t).type = t
BY DEF Plain, Msg

LEMMA TextTyped == \A n \in Nat : Text(n) \in Msg /\ Text(n).type = "MSGUTF8"
BY DEF Text, Msg, MsgTypes

-----------------------------------------------------------------------------
(* The write buffer.                                                       *)

\* The positions of the write buffer are inside it.
BufOK(c) ==
    /\ c.barrier_pos \in 0 .. Len(c.write_buf)
    /\ c.before_barrier_pos \in 0 .. c.barrier_pos
    /\ c.write_sslbytestowrite \in 0 .. WriteEnd(c)

\* SWITCH is written once, as the last message before the barrier.
MarkOK(c) ==
    /\ c.switched_write => c.barrier_pos = 0
    /\ \A i \in DOMAIN c.write_buf :
         c.write_buf[i].type = "SWITCH" /\ ~c.switched_write
             => c.barrier_pos # 0 /\ i >= WriteEnd(c)

\* Buffered, of any channel.
BufferedIn(c) ==
    IF c.barrier_pos = 0 THEN c.write_buf
    ELSE SubSeq(c.write_buf, 1, WriteEnd(c))
           \o SubSeq(c.write_buf, c.barrier_pos + 1, Len(c.write_buf))

LEMMA BufferedIs == \A p : Buffered(p) = BufferedIn(c2c[p])
BY DEF Buffered, BufferedIn

LEMMA BufTyped ==
    ASSUME NEW c \in Chan, BufOK(c)
    PROVE  /\ c.write_buf \in Pipe /\ Len(c.write_buf) \in Nat
           /\ DOMAIN c.write_buf = 1 .. Len(c.write_buf)
           /\ WriteEnd(c) \in 0 .. Len(c.write_buf)
           /\ c.barrier_pos # 0 => WriteEnd(c) \in 1 .. c.barrier_pos
           /\ c.barrier_pos = 0 => WriteEnd(c) = Len(c.write_buf)
           /\ BufferedIn(c) \in Pipe
<1>1. c.write_buf \in Seq(Msg) /\ Len(c.write_buf) \in Nat /\ c.barrier_pos \in Nat
      /\ DOMAIN c.write_buf = 1 .. Len(c.write_buf) /\ c.before_barrier_pos \in Nat
  BY LenProperties DEF Chan, Pipe
<1>2. WriteEnd(c) \in 0 .. Len(c.write_buf)
  BY <1>1 DEF BufOK, WriteEnd
<1>3. c.barrier_pos # 0 => WriteEnd(c) \in 1 .. c.barrier_pos
  BY <1>1 DEF BufOK, WriteEnd
<1>4. SubSeq(c.write_buf, 1, WriteEnd(c)) \in Seq(Msg)
  <2>1. \A i \in 1 .. WriteEnd(c) : i \in 1 .. Len(c.write_buf)
    BY <1>1, <1>2
  <2> QED BY <1>1, <1>2, <2>1, SubSeqProperties
<1>5. SubSeq(c.write_buf, c.barrier_pos + 1, Len(c.write_buf)) \in Seq(Msg)
  <2>1. \A i \in c.barrier_pos + 1 .. Len(c.write_buf) : i \in 1 .. Len(c.write_buf)
    BY <1>1
  <2> QED BY <1>1, <2>1, SubSeqProperties
<1>6. BufferedIn(c) \in Seq(Msg)
  BY <1>1, <1>4, <1>5, ConcatProperties DEF BufferedIn
<1>7. c.barrier_pos = 0 => WriteEnd(c) = Len(c.write_buf)
  BY DEF WriteEnd
<1> QED BY <1>1, <1>2, <1>3, <1>6, <1>7 DEF Pipe

LEMMA PushKeeps ==
    ASSUME NEW c \in Chan, BufOK(c), NEW m \in Msg
    PROVE  /\ Push(c, m) \in Chan
           /\ BufOK(Push(c, m))
           /\ BufferedIn(Push(c, m)) = Append(BufferedIn(c), m)
           /\ MarkOK(c) /\ m.type # "SWITCH" => MarkOK(Push(c, m))
           /\ \A f \in {"state", "directc2c_state", "direct", "switched_write", "switched_read",
                        "barrier_pos", "before_barrier_pos", "write_sslbytestowrite"} :
                Push(c, m)[f] = c[f]
<1> DEFINE d == Push(c, m)
           b == c.write_buf
           L == Len(b)
<1>1. b \in Seq(Msg) /\ L \in Nat /\ c.barrier_pos \in Nat /\ c.before_barrier_pos \in Nat
      /\ DOMAIN b = 1 .. L
  BY LenProperties DEF Chan, Pipe
<1>2. /\ d.write_buf = Append(b, m)
      /\ \A f \in {"state", "directc2c_state", "direct", "switched_write", "switched_read",
                   "barrier_pos", "before_barrier_pos", "write_sslbytestowrite"} : d[f] = c[f]
  BY DEF Push, Chan
<1>3. Append(b, m) \in Seq(Msg) /\ Len(Append(b, m)) = L + 1
      /\ (\A i \in 1 .. L : Append(b, m)[i] = b[i]) /\ Append(b, m)[L + 1] = m
      /\ DOMAIN Append(b, m) = 1 .. L + 1
  BY <1>1
<1>4. d \in Chan
  BY <1>3 DEF Push, Chan, Pipe
<1> HIDE DEF d
<1>5. /\ d.barrier_pos = c.barrier_pos /\ d.before_barrier_pos = c.before_barrier_pos
      /\ d.write_sslbytestowrite = c.write_sslbytestowrite
      /\ d.switched_write = c.switched_write
  BY <1>2
<1>6. WriteEnd(d) = IF c.barrier_pos = 0 THEN L + 1 ELSE WriteEnd(c)
  BY <1>2, <1>3, <1>5 DEF WriteEnd
<1>7. BufOK(d)
  BY <1>1, <1>2, <1>3, <1>5, <1>6 DEF BufOK, WriteEnd
<1>8. BufferedIn(d) = Append(BufferedIn(c), m)
  <2>1. CASE c.barrier_pos = 0
    BY <1>2, <1>5, <2>1 DEF BufferedIn
  <2>2. CASE c.barrier_pos # 0
    <3> DEFINE E == WriteEnd(c)
               B == c.barrier_pos
    <3>1. E \in 1 .. B /\ B \in 1 .. L
      BY <1>1, <2>2, BufTyped DEF BufOK
    <3>2. BufferedIn(d) = SubSeq(Append(b, m), 1, E) \o SubSeq(Append(b, m), B + 1, L + 1)
      BY <1>2, <1>3, <1>5, <1>6, <2>2 DEF BufferedIn
    <3>3. BufferedIn(c) = SubSeq(b, 1, E) \o SubSeq(b, B + 1, L)
      BY <2>2 DEF BufferedIn
    <3> HIDE DEF E, B, L
    <3>4. SubSeq(Append(b, m), 1, E) = SubSeq(b, 1, E)
      BY <1>1, <1>3, <3>1 DEF L
    <3>5. SubSeq(Append(b, m), B + 1, L + 1) = Append(SubSeq(b, B + 1, L), m)
      <4> DEFINE x == SubSeq(Append(b, m), B + 1, L + 1)
                 y == SubSeq(b, B + 1, L)
      <4>1. y \in Seq(Msg) /\ Len(y) = L - B /\ \A i \in 1 .. L - B : y[i] = b[B + i]
        BY <1>1, <3>1 DEF L
      <4>2. /\ x \in Seq(Msg) /\ Len(x) = L + 1 - B
            /\ \A i \in 1 .. L + 1 - B : x[i] = Append(b, m)[B + i]
        BY <1>1, <1>3, <3>1 DEF L
      <4> HIDE DEF x, y
      <4>0. L \in Nat /\ B \in Nat /\ Len(y) + 1 = L + 1 - B /\ L + 1 - B \in Nat
        BY <1>1, <3>1, <4>1
      <4>3. /\ Append(y, m) \in Seq(Msg) /\ Len(Append(y, m)) = L + 1 - B
            /\ Append(y, m)[L + 1 - B] = m
            /\ \A i \in 1 .. L - B : Append(y, m)[i] = y[i]
        <5>1. /\ Append(y, m) \in Seq(Msg) /\ Len(Append(y, m)) = Len(y) + 1
              /\ Append(y, m)[Len(y) + 1] = m
              /\ \A i \in 1 .. Len(y) : Append(y, m)[i] = y[i]
          BY <4>1, AppendProperties
        <5> QED BY <4>0, <4>1, <5>1
      <4>4. ASSUME NEW i \in 1 .. Len(x)
            PROVE  x[i] = Append(y, m)[i]
        <5>1. CASE i = L + 1 - B
          <6>1. B + i = L + 1 /\ i \in 1 .. L + 1 - B
            BY <3>1, <4>0, <4>2, <5>1
          <6>2. x[i] = Append(b, m)[L + 1]
            BY <4>2, <6>1
          <6>3. Append(b, m)[L + 1] = m
            BY <1>3
          <6> QED BY <4>3, <5>1, <6>2, <6>3
        <5>2. CASE i \in 1 .. L - B
          <6>1. B + i \in 1 .. L /\ i \in 1 .. L + 1 - B
            BY <3>1, <4>0, <5>2
          <6>2. Append(b, m)[B + i] = b[B + i]
            BY <1>3, <6>1
          <6> QED BY <4>1, <4>2, <4>3, <5>2, <6>1, <6>2
        <5>3. i = L + 1 - B \/ i \in 1 .. L - B
          BY <4>0, <4>2
        <5> QED BY <5>1, <5>2, <5>3
      <4>5. x = Append(y, m)
        BY <4>2, <4>3, <4>4, SeqEqual
      <4> QED BY <4>5 DEF x, y
    <3>6. SubSeq(b, 1, E) \in Seq(Msg) /\ SubSeq(b, B + 1, L) \in Seq(Msg)
      BY <1>1, <3>1 DEF L
    <3>7. \A s, t \in Seq(Msg) : s \o Append(t, m) = Append(s \o t, m)
      OBVIOUS
    <3> QED BY <3>2, <3>3, <3>4, <3>5, <3>6, <3>7
  <2> QED BY <2>1, <2>2
<1>9. MarkOK(c) /\ m.type # "SWITCH" => MarkOK(d)
  <2> SUFFICES ASSUME MarkOK(c), m.type # "SWITCH"
               PROVE  MarkOK(d)
    OBVIOUS
  <2>1. d.switched_write => d.barrier_pos = 0
    BY <1>5 DEF MarkOK
  <2>2. ASSUME NEW i \in DOMAIN d.write_buf, d.write_buf[i].type = "SWITCH", ~d.switched_write
        PROVE  d.barrier_pos # 0 /\ i >= WriteEnd(d)
    <3>1. i \in DOMAIN b /\ b[i].type = "SWITCH"
      BY <1>1, <1>2, <1>3, <2>2
    <3> QED BY <1>5, <1>6, <2>2, <3>1 DEF MarkOK
  <2> QED BY <2>1, <2>2 DEF MarkOK
<1> QED BY <1>2, <1>4, <1>7, <1>8, <1>9 DEF d


LEMMA SwitchKeeps ==
    ASSUME NEW c \in Chan, BufOK(c), MarkOK(c), c.barrier_pos = 0, ~c.switched_write
    PROVE  /\ PICA_send_directc2c_switch(c) \in Chan
           /\ BufOK(PICA_send_directc2c_switch(c))
           /\ MarkOK(PICA_send_directc2c_switch(c))
           /\ BufferedIn(PICA_send_directc2c_switch(c)) = Append(BufferedIn(c), Plain("SWITCH"))
           /\ \A f \in {"state", "directc2c_state", "direct", "switched_write", "switched_read",
                        "before_barrier_pos", "write_sslbytestowrite"} :
                PICA_send_directc2c_switch(c)[f] = c[f]
<1> DEFINE m == Plain("SWITCH")
           d == PICA_send_directc2c_switch(c)
           b == c.write_buf
           L == Len(b)
<1>0. m \in Msg
  BY PlainTyped DEF MsgTypes
<1> HIDE DEF m
<1>1. b \in Seq(Msg) /\ L \in Nat /\ DOMAIN b = 1 .. L /\ c.before_barrier_pos = 0
      /\ c.write_sslbytestowrite \in 0 .. L
  BY LenProperties DEF Chan, Pipe, BufOK, WriteEnd
<1>2. /\ d.write_buf = Append(b, m) /\ d.barrier_pos = L + 1
      /\ \A f \in {"state", "directc2c_state", "direct", "switched_write", "switched_read",
                   "before_barrier_pos", "write_sslbytestowrite"} : d[f] = c[f]
  BY DEF Push, Chan, PICA_send_directc2c_switch, m
<1>3. Append(b, m) \in Seq(Msg) /\ Len(Append(b, m)) = L + 1
      /\ (\A i \in 1 .. L : Append(b, m)[i] = b[i]) /\ Append(b, m)[L + 1] = m
      /\ DOMAIN Append(b, m) = 1 .. L + 1
  BY <1>0, <1>1
<1>4. d \in Chan
  <2>1. Push(c, m) \in Chan
    BY <1>0, PushKeeps
  <2>2. \A k \in Nat : \A e \in Chan : [e EXCEPT !.barrier_pos = k] \in Chan
    BY DEF Chan
  <2>3. L + 1 \in Nat /\ d = [Push(c, m) EXCEPT !.barrier_pos = L + 1]
    BY <1>1 DEF PICA_send_directc2c_switch, m
  <2> HIDE DEF d, L
  <2> QED BY <2>1, <2>2, <2>3
<1> HIDE DEF d
<1>5. /\ d.before_barrier_pos = 0 /\ d.write_sslbytestowrite = c.write_sslbytestowrite
      /\ d.switched_write = c.switched_write
  BY <1>1, <1>2
<1>6. WriteEnd(d) = L + 1 /\ d.barrier_pos # 0
  BY <1>1, <1>2, <1>5 DEF WriteEnd
<1>7. BufOK(d)
  BY <1>1, <1>2, <1>3, <1>5, <1>6 DEF BufOK
<1>8. MarkOK(d)
  <2>1. ASSUME NEW i \in DOMAIN d.write_buf, d.write_buf[i].type = "SWITCH"
        PROVE  i >= WriteEnd(d)
    <3>1. i \in 1 .. L => b[i].type = "SWITCH"
      BY <1>2, <1>3, <2>1
    <3>2. i \notin 1 .. L
      BY <1>1, <3>1 DEF MarkOK
    <3> QED BY <1>1, <1>2, <1>3, <1>6, <3>2
  <2> QED BY <1>5, <1>6, <2>1 DEF MarkOK
<1>9. BufferedIn(d) = Append(BufferedIn(c), m)
  <2>1. BufferedIn(d) = SubSeq(Append(b, m), 1, L + 1) \o SubSeq(Append(b, m), L + 2, L + 1)
    <3>1. d.barrier_pos + 1 = L + 2
      BY <1>1, <1>2
    <3> QED BY <1>2, <1>3, <1>6, <3>1 DEF BufferedIn
  <2>2. SubSeq(Append(b, m), 1, L + 1) = Append(b, m)
    BY <1>3, SubSeqFull
  <2>3. SubSeq(Append(b, m), L + 2, L + 1) = <<>>
    BY <1>1, SubSeqEmpty
  <2>4. Append(b, m) \o <<>> = Append(b, m)
    BY <1>3, ConcatEmptySeq
  <2>5. BufferedIn(c) = b
    BY DEF BufferedIn
  <2> QED BY <2>1, <2>2, <2>3, <2>4, <2>5
<1> QED BY <1>2, <1>4, <1>7, <1>8, <1>9 DEF d, m

LEMMA MovedFacts ==
    ASSUME NEW b \in Seq(Msg), NEW e \in 0 .. Len(b), NEW n \in 0 .. e
    PROVE  /\ Moved(b, n, e) \in Seq(Msg)
           /\ Len(Moved(b, n, e)) = Len(b)
           /\ DOMAIN Moved(b, n, e) = 1 .. Len(b)
           /\ \A i \in 1 .. e - n : Moved(b, n, e)[i] = b[i + n]
           /\ \A i \in e - n + 1 .. Len(b) : Moved(b, n, e)[i] = b[i]
<1> DEFINE L == Len(b)
           f == [i \in 1 .. L |-> IF i <= e - n THEN b[i + n] ELSE b[i]]
<1>1. L \in Nat /\ DOMAIN b = 1 .. L /\ \A i \in 1 .. L : b[i] \in Msg
  BY LenProperties, ElementOfSeq
<1>2. Moved(b, n, e) = f
  BY <1>1 DEF Moved
<1>3. \A i \in 1 .. L : f[i] \in Msg
  <2> TAKE i \in 1 .. L
  <2>1. i <= e - n => i + n \in 1 .. L
    BY <1>1
  <2>2. f[i] = IF i <= e - n THEN b[i + n] ELSE b[i]
    OBVIOUS
  <2> HIDE DEF f, L
  <2> QED BY <1>1, <2>1, <2>2
<1>4. \A i \in 1 .. e - n : i \in 1 .. L /\ f[i] = b[i + n]
  <2> TAKE i \in 1 .. e - n
  <2>1. i \in 1 .. L /\ i <= e - n
    BY <1>1
  <2> QED BY <2>1
<1>5. \A i \in e - n + 1 .. L : i \in 1 .. L /\ f[i] = b[i]
  <2> TAKE i \in e - n + 1 .. L
  <2>1. i \in 1 .. L /\ ~(i <= e - n)
    BY <1>1
  <2> QED BY <2>1
<1>6. f \in [1 .. L -> Msg]
  <2>1. DOMAIN f = 1 .. L /\ f = [i \in DOMAIN f |-> f[i]]
    OBVIOUS
  <2> HIDE DEF f, L
  <2> QED BY <1>3, <2>1
<1> HIDE DEF f
<1>7. f \in Seq(Msg) /\ Len(f) = L /\ DOMAIN f = 1 .. L
  BY <1>1, <1>6
<1> QED BY <1>2, <1>4, <1>5, <1>7


\* What a write leaves: the data written and what is still buffered are what was.
WriteFacts(c, d, data) ==
    /\ d \in Chan /\ BufOK(d) /\ MarkOK(d)
    /\ data \in Pipe
    /\ BufferedIn(c) = data \o BufferedIn(d)
    /\ \A f \in {"state", "directc2c_state", "direct", "switched_read"} : d[f] = c[f]
    /\ d.barrier_pos # 0 \/ d.switched_write => c.barrier_pos # 0 \/ c.switched_write
    /\ c.switched_write => d.switched_write
    /\ ToDirect(c) \/ d.switched_write
         \/ \A i \in DOMAIN data : data[i].type # "SWITCH"
    /\ ~c.switched_write => \A i \in DOMAIN data : data[i].type = "SWITCH" => i = Len(data)
    /\ d.switched_write /\ ~c.switched_write => c.barrier_pos # 0

LEMMA AttemptRange ==
    ASSUME NEW c \in Chan, BufOK(c), c.write_buf # <<>>
    PROVE  /\ Attempt(c) \in 1 .. WriteEnd(c)
           /\ WriteEnd(c) \in 1 .. Len(c.write_buf)
           /\ Len(c.write_buf) \in Nat \ {0}
<1>1. Len(c.write_buf) \in Nat \ {0} /\ WriteEnd(c) \in 0 .. Len(c.write_buf)
      /\ (c.barrier_pos # 0 => WriteEnd(c) \in 1 .. c.barrier_pos) /\ c.barrier_pos \in Nat
      /\ (c.barrier_pos = 0 => WriteEnd(c) = Len(c.write_buf))
      /\ c.write_sslbytestowrite \in 0 .. WriteEnd(c)
  <2>1. c.write_buf \in Seq(Msg) /\ c.barrier_pos \in Nat
    BY DEF Chan, Pipe
  <2>2. Len(c.write_buf) \in Nat \ {0}
    BY <2>1, EmptySeq
  <2> QED BY <2>1, <2>2, BufTyped DEF BufOK
<1>2. WriteEnd(c) \in 1 .. Len(c.write_buf)
  BY <1>1
<1> QED BY <1>1, <1>2 DEF Attempt

LEMMA WrittenKeeps ==
    ASSUME NEW c \in Chan, BufOK(c), MarkOK(c), c.write_buf # <<>>
    PROVE  WriteFacts(c, Written(c), SubSeq(c.write_buf, 1, Attempt(c)))
<1> DEFINE b == c.write_buf
           L == Len(b)
           n == Attempt(c)
           E == WriteEnd(c)
           B == c.barrier_pos
           mv == Moved(b, n, E)
           data == SubSeq(b, 1, n)
           d == Written(c)
<1> SUFFICES WriteFacts(c, d, data)
  OBVIOUS
<1>1. n \in 1 .. E /\ E \in 1 .. L /\ L \in Nat \ {0} /\ b \in Seq(Msg) /\ B \in 0 .. L
      /\ (B # 0 => E \in 1 .. B) /\ (B = 0 => E = L) /\ DOMAIN b = 1 .. L
  BY AttemptRange, BufTyped DEF Pipe, BufOK
<1>2. /\ mv \in Seq(Msg) /\ Len(mv) = L /\ DOMAIN mv = 1 .. L
      /\ \A i \in 1 .. E - n : mv[i] = b[i + n]
      /\ \A i \in E - n + 1 .. L : mv[i] = b[i]
  BY <1>1, MovedFacts
<1>3. data \in Seq(Msg) /\ Len(data) = n /\ DOMAIN data = 1 .. n
      /\ \A i \in 1 .. n : data[i] = b[i]
  BY <1>1
<1>4. ~c.switched_write => \A i \in DOMAIN data :
        data[i].type = "SWITCH" => B # 0 /\ i = n /\ n = E
  <2> SUFFICES ASSUME ~c.switched_write, NEW i \in DOMAIN data, data[i].type = "SWITCH"
               PROVE  B # 0 /\ i = n /\ n = E
    OBVIOUS
  <2>1. i \in 1 .. n /\ i \in DOMAIN b /\ b[i].type = "SWITCH"
    BY <1>1, <1>3
  <2>2. B # 0 /\ i >= E
    BY <2>1 DEF MarkOK
  <2> HIDE DEF B, E, n
  <2> QED BY <1>1, <2>1, <2>2
<1>5. SubSeq(mv, 1, E - n) = SubSeq(b, n + 1, E)
  <2> DEFINE x == SubSeq(mv, 1, E - n)
             y == SubSeq(b, n + 1, E)
  <2> HIDE DEF n, E, L, mv, B, data, d
  <2>1. x \in Seq(Msg) /\ Len(x) = E - n /\ \A i \in 1 .. E - n : x[i] = mv[i]
    BY <1>1, <1>2
  <2>2. y \in Seq(Msg) /\ Len(y) = E - n /\ \A i \in 1 .. E - n : y[i] = b[n + i]
    BY <1>1 DEF L
  <2> HIDE DEF x, y
  <2>3. \A i \in 1 .. Len(x) : x[i] = y[i]
    <3> TAKE i \in 1 .. Len(x)
    <3>1. i \in 1 .. E - n /\ i + n = n + i
      BY <1>1, <2>1
    <3> QED BY <1>2, <2>1, <2>2, <3>1
  <2>4. x = y
    BY <2>1, <2>2, <2>3, SeqEqual
  <2> QED BY <2>4 DEF x, y
<1>6. B # 0 => SubSeq(mv, B + 1, L) = SubSeq(b, B + 1, L)
  <2> SUFFICES ASSUME B # 0
               PROVE  SubSeq(mv, B + 1, L) = SubSeq(b, B + 1, L)
    OBVIOUS
  <2> DEFINE x == SubSeq(mv, B + 1, L)
             y == SubSeq(b, B + 1, L)
  <2> HIDE DEF n, E, L, mv, B, data, d
  <2>1. x \in Seq(Msg) /\ Len(x) = L - B /\ \A i \in 1 .. L - B : x[i] = mv[B + i]
    BY <1>1, <1>2
  <2>2. y \in Seq(Msg) /\ Len(y) = L - B /\ \A i \in 1 .. L - B : y[i] = b[B + i]
    BY <1>1 DEF L
  <2> HIDE DEF x, y
  <2>3. \A i \in 1 .. Len(x) : x[i] = y[i]
    <3> TAKE i \in 1 .. Len(x)
    <3>1. i \in 1 .. L - B /\ B + i \in E - n + 1 .. L
      BY <1>1, <2>1
    <3> QED BY <1>2, <2>1, <2>2, <3>1
  <2>4. x = y
    BY <2>1, <2>2, <2>3, SeqEqual
  <2> QED BY <2>4 DEF x, y
<1>7. data \o SubSeq(b, n + 1, E) = SubSeq(b, 1, E) /\ SubSeq(b, n + 1, E) \in Seq(Msg)
      /\ SubSeq(b, 1, E) \in Seq(Msg) /\ SubSeq(b, B + 1, L) \in Seq(Msg)
  <2>1. data \o SubSeq(b, n + 1, E) = SubSeq(b, 1, E)
    <3>1. 1 \in 1 .. Len(b) + 1 /\ n \in 1 - 1 .. Len(b) /\ E \in n .. Len(b)
      BY <1>1
    <3> HIDE DEF n, E
    <3> QED BY <1>1, <3>1, ConcatAdjacentSubSeq
  <2> HIDE DEF n, E, mv, B, data, d
  <2> QED BY <1>1, <2>1
<1>8. CASE B = 0
  <2>1. d = [c EXCEPT !.write_buf = SubSeq(mv, 1, E - n), !.write_sslbytestowrite = 0]
    BY <1>8 DEF Written
  <2>2. d.write_buf = SubSeq(b, n + 1, L) /\ d.write_sslbytestowrite = 0 /\ d.barrier_pos = 0
        /\ d.before_barrier_pos = c.before_barrier_pos /\ d.switched_write = c.switched_write
        /\ (\A f \in {"state", "directc2c_state", "direct", "switched_read"} : d[f] = c[f])
    <3>1. SubSeq(mv, 1, E - n) = SubSeq(b, n + 1, L)
      BY <1>1, <1>5, <1>8
    <3> HIDE DEF n, E, mv, data
    <3> QED BY <1>8, <2>1, <3>1 DEF Chan
  <2>3. SubSeq(b, n + 1, L) \in Seq(Msg) /\ Len(SubSeq(b, n + 1, L)) = L - n
        /\ \A i \in 1 .. L - n : SubSeq(b, n + 1, L)[i] = b[n + i]
    <3> HIDE DEF n, E, mv, B, data, d
    <3> QED BY <1>1, <1>8
  <2>4. d \in Chan
    <3>1. SubSeq(mv, 1, E - n) \in Pipe
      BY <1>5, <1>7 DEF Pipe
    <3> HIDE DEF n, E, mv, data, d
    <3> QED BY <2>1, <3>1 DEF Chan
  <2> HIDE DEF n, E, mv, data, d
  <2>5. WriteEnd(d) = L - n
    BY <2>2, <2>3 DEF WriteEnd
  <2>6. BufOK(d)
    BY <1>1, <1>8, <2>2, <2>3, <2>5 DEF BufOK, B
  <2>7. MarkOK(d)
    <3>1. ASSUME NEW i \in DOMAIN d.write_buf, d.write_buf[i].type = "SWITCH", ~d.switched_write
          PROVE  FALSE
      <4>1. i \in 1 .. L - n
        BY <2>2, <2>3, <3>1, LenProperties
      <4>3. n + i \in 1 .. L
        BY <1>1, <4>1
      <4>2. n + i \in DOMAIN b /\ b[n + i].type = "SWITCH"
        BY <1>1, <2>2, <2>3, <3>1, <4>1, <4>3
      <4> QED BY <1>8, <2>2, <3>1, <4>2 DEF MarkOK
    <3> QED BY <2>2, <3>1 DEF MarkOK
  <2>8. BufferedIn(c) = data \o BufferedIn(d)
    <3>1. BufferedIn(d) = SubSeq(b, n + 1, L) /\ BufferedIn(c) = b
      BY <1>8, <2>2 DEF BufferedIn
    <3>2. SubSeq(b, 1, L) = b
      BY <1>1, SubSeqFull
    <3>3. L = E
      BY <1>1, <1>8
    <3> QED BY <1>7, <3>1, <3>2, <3>3
  <2>9. \A i \in DOMAIN data : data[i].type = "SWITCH" => c.switched_write
    BY <1>4, <1>8
  <2> QED BY <1>3, <1>4, <1>8, <2>2, <2>4, <2>6, <2>7, <2>8, <2>9 DEF WriteFacts, Pipe, ToDirect
<1>9. CASE B # 0 /\ E - n > 0
  <2>1. d = [c EXCEPT !.write_buf = mv, !.write_sslbytestowrite = 0, !.before_barrier_pos = E - n]
    BY <1>9 DEF Written
  <2>0. E - n \in Nat
    BY <1>1, <1>9
  <2>2. d.write_buf = mv /\ d.write_sslbytestowrite = 0 /\ d.barrier_pos = B
        /\ d.before_barrier_pos = E - n /\ d.switched_write = c.switched_write
        /\ (\A f \in {"state", "directc2c_state", "direct", "switched_read"} : d[f] = c[f])
    <3> HIDE DEF n, E, mv, data
    <3> QED BY <2>1 DEF Chan
  <2>4. d \in Chan
    <3>1. mv \in Pipe
      BY <1>2 DEF Pipe
    <3> HIDE DEF n, E, mv, data, d
    <3> QED BY <2>0, <2>1, <3>1 DEF Chan
  <2> HIDE DEF n, E, mv, data, d, B
  <2>5. WriteEnd(d) = E - n
    BY <1>1, <1>9, <2>2 DEF WriteEnd
  <2>6. BufOK(d)
    BY <1>1, <1>2, <1>9, <2>2, <2>5 DEF BufOK
  <2>3. ~c.switched_write
    BY <1>9 DEF MarkOK, B
  <2>7. MarkOK(d)
    <3>1. ASSUME NEW i \in DOMAIN d.write_buf, d.write_buf[i].type = "SWITCH"
          PROVE  i >= WriteEnd(d)
      <4>1. i \in 1 .. L
        BY <1>2, <2>2, <3>1
      <4>2. CASE i < E - n
        <5>1. i \in 1 .. E - n /\ i + n \in DOMAIN b /\ i + n < E
          BY <1>1, <4>1, <4>2
        <5>2. b[i + n].type = "SWITCH"
          BY <1>2, <2>2, <3>1, <5>1
        <5>3. i + n >= E
          BY <2>3, <5>1, <5>2 DEF MarkOK, E
        <5> QED BY <1>1, <4>1, <5>1, <5>3
      <4> QED BY <1>1, <2>5, <4>1, <4>2
    <3> QED BY <1>9, <2>2, <2>3, <3>1 DEF MarkOK
  <2>8. BufferedIn(c) = data \o BufferedIn(d)
    <3>1. BufferedIn(d) = SubSeq(b, n + 1, E) \o SubSeq(b, B + 1, L)
      BY <1>2, <1>5, <1>6, <1>9, <2>2, <2>5 DEF BufferedIn
    <3>2. BufferedIn(c) = SubSeq(b, 1, E) \o SubSeq(b, B + 1, L)
      BY <1>9 DEF BufferedIn, B, E
    <3> DEFINE x == SubSeq(b, n + 1, E)
               y == SubSeq(b, B + 1, L)
    <3>3. x \in Seq(Msg) /\ y \in Seq(Msg) /\ data \in Seq(Msg)
      BY <1>3, <1>7
    <3> HIDE DEF x, y
    <3>4. (data \o x) \o y = data \o (x \o y)
      BY <3>3, ConcatAssociative
    <3> QED BY <1>7, <3>1, <3>2, <3>4 DEF x, y
  <2>9. \A i \in DOMAIN data : data[i].type # "SWITCH"
    <3>1. n # E
      BY <1>1, <1>9
    <3> QED BY <1>4, <2>3, <3>1
  <2> QED BY <1>3, <1>9, <2>2, <2>3, <2>4, <2>6, <2>7, <2>8, <2>9
          DEF WriteFacts, Pipe, ToDirect, B
<1>10. CASE B # 0 /\ E - n = 0
  <2>1. d = [c EXCEPT !.write_buf = SubSeq(mv, B + 1, Len(mv)), !.write_sslbytestowrite = 0,
                      !.before_barrier_pos = 0, !.barrier_pos = 0, !.switched_write = TRUE]
    BY <1>10 DEF Written
  <2>0. n = E /\ SubSeq(mv, B + 1, Len(mv)) = SubSeq(b, B + 1, L)
    BY <1>1, <1>2, <1>6, <1>10
  <2>2. d.write_buf = SubSeq(b, B + 1, L) /\ d.write_sslbytestowrite = 0 /\ d.barrier_pos = 0
        /\ d.before_barrier_pos = 0 /\ d.switched_write = TRUE
        /\ (\A f \in {"state", "directc2c_state", "direct", "switched_read"} : d[f] = c[f])
    <3> HIDE DEF n, E, mv, data
    <3> QED BY <2>0, <2>1 DEF Chan
  <2>4. d \in Chan
    <3>1. SubSeq(mv, B + 1, Len(mv)) \in Pipe
      BY <1>7, <2>0 DEF Pipe
    <3> HIDE DEF n, E, mv, data, d
    <3> QED BY <2>1, <3>1 DEF Chan
  <2>3. ~c.switched_write
    BY <1>10 DEF MarkOK
  <2> HIDE DEF n, E, mv, data, d
  <2>5. d.write_buf \in Seq(Msg) /\ WriteEnd(d) = Len(d.write_buf) /\ Len(d.write_buf) \in Nat
    BY <1>7, <2>2, LenProperties DEF WriteEnd
  <2>6. BufOK(d) /\ MarkOK(d)
    BY <2>2, <2>5 DEF BufOK, MarkOK
  <2>8. BufferedIn(c) = data \o BufferedIn(d)
    <3>1. BufferedIn(d) = SubSeq(b, B + 1, L)
      BY <2>2 DEF BufferedIn
    <3>2. BufferedIn(c) = SubSeq(b, 1, E) \o SubSeq(b, B + 1, L)
      BY <1>10 DEF BufferedIn, E
    <3> QED BY <2>0, <3>1, <3>2 DEF data
  <2>9. \A i \in DOMAIN data : data[i].type = "SWITCH" => i = Len(data)
    BY <1>3, <1>4, <2>3
  <2> QED BY <1>3, <1>10, <2>2, <2>3, <2>4, <2>6, <2>8, <2>9 DEF WriteFacts, Pipe
<1>11. B = 0 \/ E - n > 0 \/ E - n = 0
  BY <1>1
<1> HIDE DEF n, E, mv, data, d, B
<1> QED BY <1>8, <1>9, <1>10, <1>11


LEMMA GoneKeeps ==
    ASSUME NEW c \in Chan, NEW st \in {"CLOSED", "EXITED", "CRASHED"}
    PROVE  /\ Gone(c, st) \in Chan /\ BufOK(Gone(c, st)) /\ MarkOK(Gone(c, st))
           /\ BufferedIn(Gone(c, st)) = <<>>
           /\ Gone(c, st).state = st /\ Gone(c, st).barrier_pos = 0
           /\ \A f \in {"directc2c_state", "direct", "switched_write", "switched_read"} :
                Gone(c, st)[f] = c[f]
<1> DEFINE d == Gone(c, st)
<1>1. <<>> \in Seq(Msg) /\ Len(<<>>) = 0 /\ DOMAIN <<>> = {}
  OBVIOUS
<1>2. d \in Chan
  BY <1>1 DEF Gone, Chan, Pipe, States
<1>3. /\ d.write_buf = <<>> /\ d.barrier_pos = 0 /\ d.before_barrier_pos = 0
      /\ d.write_sslbytestowrite = 0 /\ d.state = st
      /\ \A f \in {"directc2c_state", "direct", "switched_write", "switched_read"} : d[f] = c[f]
  BY DEF Gone, Chan
<1> HIDE DEF d
<1>4. BufOK(d) /\ MarkOK(d) /\ BufferedIn(d) = <<>>
  BY <1>1, <1>3 DEF BufOK, MarkOK, BufferedIn, WriteEnd
<1> QED BY <1>2, <1>3, <1>4 DEF d

LEMMA BufferedSame ==
    ASSUME NEW c, NEW d, d.write_buf = c.write_buf, d.barrier_pos = c.barrier_pos,
           WriteEnd(d) = WriteEnd(c)
    PROVE  BufferedIn(d) = BufferedIn(c)
BY Zenon DEF BufferedIn

\* The channel after a write that has to be repeated.
ToRepeat(c) ==
    [c EXCEPT !.write_sslbytestowrite = Attempt(c),
              !.before_barrier_pos = IF c.barrier_pos = 0 THEN 0 ELSE WriteEnd(c)]

LEMMA BlockKeeps ==
    ASSUME NEW c \in Chan, BufOK(c), MarkOK(c), c.write_buf # <<>>, NEW d, d = ToRepeat(c)
    PROVE  /\ d \in Chan /\ BufOK(d) /\ MarkOK(d)
           /\ BufferedIn(d) = BufferedIn(c)
           /\ \A f \in {"state", "directc2c_state", "direct", "switched_write", "switched_read",
                        "barrier_pos"} : d[f] = c[f]
<1> DEFINE n == Attempt(c)
           E == IF c.barrier_pos = 0 THEN 0 ELSE WriteEnd(c)
<1>1. n \in 1 .. WriteEnd(c) /\ WriteEnd(c) \in 1 .. Len(c.write_buf)
      /\ Len(c.write_buf) \in Nat /\ (c.barrier_pos # 0 => WriteEnd(c) \in 1 .. c.barrier_pos)
      /\ c.barrier_pos \in Nat
  BY AttemptRange, BufTyped DEF Chan
<1>2. n \in Nat /\ E \in Nat
  BY <1>1
<1> HIDE DEF n, E
<1>3. d \in Chan
  BY <1>2 DEF Chan, n, E, ToRepeat
<1>4. /\ d.write_sslbytestowrite = n /\ d.before_barrier_pos = E
      /\ d.write_buf = c.write_buf
      /\ \A f \in {"state", "directc2c_state", "direct", "switched_write", "switched_read",
                   "barrier_pos"} : d[f] = c[f]
  BY DEF Chan, n, E, ToRepeat
<1>5. d.barrier_pos = c.barrier_pos /\ d.switched_write = c.switched_write
  BY <1>4
<1>6. WriteEnd(d) = WriteEnd(c)
  BY <1>1, <1>4, <1>5 DEF E, WriteEnd
<1>7. BufOK(d)
  BY <1>1, <1>4, <1>5, <1>6 DEF BufOK, E
<1>8. d.write_buf = c.write_buf
  BY <1>4
<1>9. MarkOK(d)
  BY <1>5, <1>6, <1>8 DEF MarkOK
<1>10. BufferedIn(d) = BufferedIn(c)
  BY <1>5, <1>6, <1>8, BufferedSame
<1> QED BY <1>3, <1>4, <1>7, <1>9, <1>10

-----------------------------------------------------------------------------
(* What messages are under way.                                            *)

TypesOf(u) == {u[i].type : i \in DOMAIN u}

\* The address list is sent at most once.
OnceIn(u) ==
    \A i, j \in DOMAIN u : u[i].type = "ADDRLIST" /\ u[j].type = "ADDRLIST" => i = j

\* The request to use an address is behind the address.
AnnouncedIn(u) ==
    \A i \in DOMAIN u : u[i].type = "FAILED" => \E j \in 1 .. i - 1 : u[j].type = "ADDRLIST"

LEMMA TypesConcat ==
    ASSUME NEW u \in Pipe, NEW w \in Pipe
    PROVE  /\ u \o w \in Pipe
           /\ TypesOf(u \o w) = TypesOf(u) \cup TypesOf(w)
<1>1. /\ u \in Seq(Msg) /\ w \in Seq(Msg) /\ u \o w \in Seq(Msg)
      /\ Len(u) \in Nat /\ Len(w) \in Nat
      /\ DOMAIN u = 1 .. Len(u) /\ DOMAIN w = 1 .. Len(w)
      /\ DOMAIN (u \o w) = 1 .. Len(u) + Len(w)
      /\ \A i \in 1 .. Len(u) : (u \o w)[i] = u[i]
      /\ \A i \in Len(u) + 1 .. Len(u) + Len(w) : (u \o w)[i] = w[i - Len(u)]
  BY DEF Pipe
<1> DEFINE v == u \o w
<1> HIDE DEF v
<1>2. ASSUME NEW i \in DOMAIN v
      PROVE  v[i].type \in TypesOf(u) \cup TypesOf(w)
  <2>1. CASE i <= Len(u)
    <3>1. i \in DOMAIN u /\ v[i] = u[i]
      BY <1>1, <2>1 DEF v
    <3> QED BY <3>1 DEF TypesOf
  <2>2. CASE ~(i <= Len(u))
    <3>1. i - Len(u) \in DOMAIN w /\ v[i] = w[i - Len(u)]
      BY <1>1, <2>2 DEF v
    <3> QED BY <3>1 DEF TypesOf
  <2> QED BY <2>1, <2>2
<1>3. ASSUME NEW i \in DOMAIN u
      PROVE  u[i].type \in TypesOf(v)
  <2>1. i \in DOMAIN v /\ v[i] = u[i]
    BY <1>1 DEF v
  <2> QED BY <2>1 DEF TypesOf
<1>4. ASSUME NEW i \in DOMAIN w
      PROVE  w[i].type \in TypesOf(v)
  <2>1. i + Len(u) \in DOMAIN v /\ i + Len(u) \in Len(u) + 1 .. Len(u) + Len(w)
        /\ (i + Len(u)) - Len(u) = i
    BY <1>1 DEF v
  <2>2. v[i + Len(u)] = w[i]
    BY <1>1, <2>1 DEF v
  <2> QED BY <2>1, <2>2 DEF TypesOf
<1>5. TypesOf(v) = TypesOf(u) \cup TypesOf(w)
  BY <1>2, <1>3, <1>4 DEF TypesOf
<1> QED BY <1>1, <1>5 DEF v, Pipe

LEMMA TypesFew ==
    ASSUME NEW m \in Msg, NEW k \in Msg
    PROVE  /\ <<>> \in Pipe /\ TypesOf(<<>>) = {}
           /\ <<m>> \in Pipe /\ TypesOf(<<m>>) = {m.type}
           /\ <<m, k>> \in Pipe /\ TypesOf(<<m, k>>) = {m.type, k.type}
<1>1. <<>> \in Pipe /\ <<m>> \in Pipe /\ <<m, k>> \in Pipe
  BY DEF Pipe
<1>2. DOMAIN <<>> = {} /\ DOMAIN <<m>> = {1} /\ DOMAIN <<m, k>> = {1, 2}
  OBVIOUS
<1>3. <<m>>[1] = m /\ <<m, k>>[1] = m /\ <<m, k>>[2] = k
  OBVIOUS
<1> QED BY <1>1, <1>2, <1>3 DEF TypesOf

LEMMA TypesTail ==
    ASSUME NEW u \in Pipe, u # <<>>
    PROVE  /\ Head(u) \in Msg /\ Tail(u) \in Pipe
           /\ TypesOf(Tail(u)) \subseteq TypesOf(u)
           /\ Head(u).type \in TypesOf(u)
           /\ TypesOf(u) = {Head(u).type} \cup TypesOf(Tail(u))
<1>1. Head(u) \in Msg /\ Tail(u) \in Pipe /\ u = <<Head(u)>> \o Tail(u)
  BY DEF Pipe
<1>2. <<Head(u)>> \in Pipe /\ TypesOf(<<Head(u)>>) = {Head(u).type}
  BY <1>1, TypesFew
<1>3. TypesOf(<<Head(u)>> \o Tail(u)) = TypesOf(<<Head(u)>>) \cup TypesOf(Tail(u))
  BY <1>1, <1>2, TypesConcat
<1> QED BY <1>1, <1>2, <1>3, Zenon

LEMMA TypesSome ==
    ASSUME NEW u \in Pipe
    PROVE  /\ \A t : t \notin TypesOf(u) => \A i \in DOMAIN u : u[i].type # t
           /\ u # <<>> <=> TypesOf(u) # {}
<1>1. \A t : t \notin TypesOf(u) => \A i \in DOMAIN u : u[i].type # t
  BY DEF TypesOf
<1>2. u # <<>> => TypesOf(u) # {}
  BY TypesTail
<1>3. u = <<>> => TypesOf(u) = {}
  <2>1. DOMAIN <<>> = {}
    OBVIOUS
  <2> QED BY <2>1 DEF TypesOf
<1> QED BY <1>1, <1>2, <1>3

LEMMA TailContent ==
    ASSUME NEW u \in Pipe, u # <<>>
    PROVE  /\ OnceIn(u) => OnceIn(Tail(u))
           /\ OnceIn(u) /\ Head(u).type = "ADDRLIST" => "ADDRLIST" \notin TypesOf(Tail(u))
           /\ AnnouncedIn(u) => Head(u).type # "FAILED"
           /\ AnnouncedIn(u) /\ Head(u).type # "ADDRLIST" => AnnouncedIn(Tail(u))
<1> DEFINE t == Tail(u)
<1>1. /\ u \in Seq(Msg) /\ t \in Seq(Msg) /\ Len(u) \in Nat /\ Len(u) >= 1
      /\ DOMAIN u = 1 .. Len(u) /\ DOMAIN t = 1 .. Len(u) - 1 /\ Head(u) = u[1]
      /\ \A i \in 1 .. Len(u) - 1 : t[i] = u[i + 1]
  BY DEF Pipe
<1>2. \A i \in DOMAIN t : i \in Nat /\ i >= 1 /\ i + 1 \in DOMAIN u /\ t[i] = u[i + 1] /\ i + 1 # 1
  BY <1>1
<1>3. 1 \in DOMAIN u
  BY <1>1
<1> HIDE DEF t
<1>4. OnceIn(u) => OnceIn(t)
  <2> SUFFICES ASSUME OnceIn(u), NEW i \in DOMAIN t, NEW j \in DOMAIN t,
                      t[i].type = "ADDRLIST", t[j].type = "ADDRLIST"
               PROVE  i = j
    BY DEF OnceIn
  <2>1. i + 1 = j + 1
    BY <1>2 DEF OnceIn
  <2> QED BY <1>2, <2>1
<1>5. OnceIn(u) /\ Head(u).type = "ADDRLIST" => "ADDRLIST" \notin TypesOf(t)
  BY <1>1, <1>2, <1>3 DEF OnceIn, TypesOf
<1>6. AnnouncedIn(u) => Head(u).type # "FAILED"
  <2>1. 1 .. 1 - 1 = {}
    OBVIOUS
  <2> QED BY <1>1, <1>3, <2>1 DEF AnnouncedIn
<1>7. AnnouncedIn(u) /\ Head(u).type # "ADDRLIST" => AnnouncedIn(t)
  <2> SUFFICES ASSUME AnnouncedIn(u), Head(u).type # "ADDRLIST", NEW i \in DOMAIN t,
                      t[i].type = "FAILED"
               PROVE  \E j \in 1 .. i - 1 : t[j].type = "ADDRLIST"
    BY DEF AnnouncedIn
  <2>1. PICK j \in 1 .. (i + 1) - 1 : u[j].type = "ADDRLIST"
    BY <1>2 DEF AnnouncedIn
  <2>2. j # 1
    BY <1>1, <2>1
  <2>3. j - 1 \in 1 .. i - 1 /\ j - 1 \in DOMAIN t /\ (j - 1) + 1 = j
    BY <1>1, <1>2, <2>2
  <2>4. t[j - 1] = u[j]
    BY <1>2, <2>3
  <2> QED BY <2>1, <2>3, <2>4
<1> QED BY <1>4, <1>5, <1>6, <1>7 DEF t

LEMMA ConcatContent ==
    ASSUME NEW u \in Pipe, NEW w \in Pipe
    PROVE  /\ OnceIn(u \o w) => OnceIn(u)
           /\ AnnouncedIn(u \o w) => AnnouncedIn(u)
           /\ OnceIn(u) /\ "ADDRLIST" \notin TypesOf(w) => OnceIn(u \o w)
           /\ OnceIn(w) /\ "ADDRLIST" \notin TypesOf(u) => OnceIn(u \o w)
           /\ AnnouncedIn(u) /\ "FAILED" \notin TypesOf(w) => AnnouncedIn(u \o w)
           /\ AnnouncedIn(u) /\ "ADDRLIST" \in TypesOf(u) => AnnouncedIn(u \o w)
           /\ u # <<>> => u \o w # <<>> /\ Head(u \o w) = Head(u)
           /\ u = <<>> => u \o w = w
<1> DEFINE v == u \o w
<1>1. /\ Len(u) \in Nat /\ Len(w) \in Nat
      /\ DOMAIN u = 1 .. Len(u) /\ DOMAIN w = 1 .. Len(w)
      /\ DOMAIN v = 1 .. Len(u) + Len(w)
      /\ \A i \in 1 .. Len(u) : v[i] = u[i]
      /\ \A i \in Len(u) + 1 .. Len(u) + Len(w) : v[i] = w[i - Len(u)]
  BY DEF Pipe
<1>2. u # <<>> => v # <<>> /\ Head(v) = Head(u)
  BY DEF Pipe
<1>3. u = <<>> => v = w
  BY DEF Pipe
<1> HIDE DEF v
<1>4. \A i \in DOMAIN u : i \in DOMAIN v /\ v[i] = u[i]
  BY <1>1
<1>5. \A i \in DOMAIN v : i \in DOMAIN u \/ (i - Len(u) \in DOMAIN w /\ v[i] = w[i - Len(u)]
                                             /\ i > Len(u))
  BY <1>1
<1>6. OnceIn(v) => OnceIn(u)
  BY <1>4 DEF OnceIn
<1>7. AnnouncedIn(v) => AnnouncedIn(u)
  <2> SUFFICES ASSUME AnnouncedIn(v), NEW i \in DOMAIN u, u[i].type = "FAILED"
               PROVE  \E j \in 1 .. i - 1 : u[j].type = "ADDRLIST"
    BY DEF AnnouncedIn
  <2>1. PICK j \in 1 .. i - 1 : v[j].type = "ADDRLIST"
    BY <1>4 DEF AnnouncedIn
  <2>2. j \in DOMAIN u
    BY <1>1
  <2> QED BY <1>4, <2>1, <2>2
<1>8. OnceIn(u) /\ "ADDRLIST" \notin TypesOf(w) => OnceIn(v)
  <2> SUFFICES ASSUME OnceIn(u), "ADDRLIST" \notin TypesOf(w), NEW i \in DOMAIN v,
                      NEW j \in DOMAIN v, v[i].type = "ADDRLIST", v[j].type = "ADDRLIST"
               PROVE  i = j
    BY DEF OnceIn
  <2>1. i \in DOMAIN u /\ j \in DOMAIN u
    BY <1>5, TypesSome
  <2> QED BY <1>4, <2>1 DEF OnceIn
<1>9. OnceIn(w) /\ "ADDRLIST" \notin TypesOf(u) => OnceIn(v)
  <2> SUFFICES ASSUME OnceIn(w), "ADDRLIST" \notin TypesOf(u), NEW i \in DOMAIN v,
                      NEW j \in DOMAIN v, v[i].type = "ADDRLIST", v[j].type = "ADDRLIST"
               PROVE  i = j
    BY DEF OnceIn
  <2>1. i \notin DOMAIN u /\ j \notin DOMAIN u
    BY <1>4, TypesSome
  <2>2. i - Len(u) = j - Len(u)
    BY <1>5, <2>1 DEF OnceIn
  <2> QED BY <1>1, <2>2
<1>10. AnnouncedIn(u) /\ "FAILED" \notin TypesOf(w) => AnnouncedIn(v)
  <2> SUFFICES ASSUME AnnouncedIn(u), "FAILED" \notin TypesOf(w), NEW i \in DOMAIN v,
                      v[i].type = "FAILED"
               PROVE  \E j \in 1 .. i - 1 : v[j].type = "ADDRLIST"
    BY DEF AnnouncedIn
  <2>1. i \in DOMAIN u
    BY <1>5, TypesSome
  <2>2. PICK j \in 1 .. i - 1 : u[j].type = "ADDRLIST"
    BY <1>4, <2>1 DEF AnnouncedIn
  <2>3. j \in DOMAIN u
    BY <1>1, <2>1
  <2> QED BY <1>4, <2>2, <2>3
<1>11. AnnouncedIn(u) /\ "ADDRLIST" \in TypesOf(u) => AnnouncedIn(v)
  <2> SUFFICES ASSUME AnnouncedIn(u), "ADDRLIST" \in TypesOf(u), NEW i \in DOMAIN v,
                      v[i].type = "FAILED"
               PROVE  \E j \in 1 .. i - 1 : v[j].type = "ADDRLIST"
    BY DEF AnnouncedIn
  <2>1. CASE i \in DOMAIN u
    <3>2. PICK j \in 1 .. i - 1 : u[j].type = "ADDRLIST"
      BY <1>4, <2>1 DEF AnnouncedIn
    <3>3. j \in DOMAIN u
      BY <1>1, <2>1
    <3> QED BY <1>4, <3>2, <3>3
  <2>2. CASE i \notin DOMAIN u
    <3>1. PICK j \in DOMAIN u : u[j].type = "ADDRLIST"
      BY DEF TypesOf
    <3>2. i > Len(u) /\ i \in Nat
      BY <1>1, <1>5, <2>2
    <3>3. j \in 1 .. i - 1
      BY <1>1, <3>2
    <3> QED BY <1>4, <3>1, <3>3
  <2> QED BY <2>1, <2>2
<1> QED BY <1>2, <1>3, <1>6, <1>7, <1>8, <1>9, <1>10, <1>11 DEF v


-----------------------------------------------------------------------------
(* One end at a time: what the states of an end say of its connections and *)
(* where its messages are.                                                 *)

\* The end has a direct connection that it keeps.
Committed(c) ==
    \/ c.directc2c_state = "ACTIVE"
    \/ c.directc2c_state = "CONNECTING" /\ c.direct.state = "ACTIVE"

\* What the states of one end say of its pointer to a direct connection.
ChanOK(p, c) ==
    /\ c.direct.is \in {"out", "in"} <=> c.directc2c_state \in {"CONNECTING", "ACTIVE"}
    /\ c.directc2c_state = "CONNECTING" => c.direct.is = "out"
    /\ c.barrier_pos # 0 \/ c.switched_write => Committed(c)
    /\ c.directc2c_state = "WAITINGINCOMING" => config[p] = "ALLOWINCOMING"
    /\ c.state = "WAITINGREP" => p = "out"
    /\ c.state = "WAITINGC2CPROTOVER" => p = "in"
    /\ c.state \in {"WAITINGREP", "WAITINGC2CPROTOVER"} => c.directc2c_state = "INACTIVE"

\* The connections behind the pointers.
NetOK(p) ==
    /\ c2c[p].direct.is = "out" => net[p] # "none"
    /\ c2c[p].direct.is = "in" => accepted[p] = "served"
    /\ accepted[p] # "none" => net[Other(p)] # "none"

\* Where the messages of p are: the relayed connection is written to the end before
\* the direct one is begun, and read to the end before the direct one is.
PathOK(p) ==
    /\ \A c \in Ends : ~c2c[p].switched_write \/ c # Connection(p) => link[c][p] = <<>>
    /\ \A i \in DOMAIN relay[p] : relay[p][i].type = "SWITCH" =>
                                    c2c[p].switched_write /\ i = Len(relay[p])
    /\ c2c[Other(p)].switched_read => c2c[p].switched_write /\ relay[p] = <<>>

EndOK(p) ==
    /\ BufOK(c2c[p])
    /\ MarkOK(c2c[p])
    /\ ChanOK(p, c2c[p])
    /\ NetOK(p)
    /\ PathOK(p)

Basic == Types /\ \A p \in Ends : EndOK(p)

SentBy(p) == relay[p] \o link["out"][p] \o link["in"][p]

LEMMA SentTyped ==
    ASSUME Types, NEW p \in Ends
    PROVE  SentBy(p) \in Pipe
<1>1. relay[p] \in Seq(Msg) /\ link["out"][p] \in Seq(Msg) /\ link["in"][p] \in Seq(Msg)
  BY TwoEnds DEF Types, Pipe
<1> QED BY <1>1 DEF SentBy, Pipe

LEMMA UnreadTyped ==
    ASSUME Basic, NEW p \in Ends
    PROVE  /\ Unread(p) \in Pipe
           /\ Unread(p) = SentBy(p) \o BufferedIn(c2c[p])
           /\ BufferedIn(c2c[p]) \in Pipe /\ SentBy(p) \in Pipe
<1>1. Unread(p) = SentBy(p) \o BufferedIn(c2c[p])
  BY BufferedIs DEF Unread, SentBy
<1>2. SentBy(p) \in Pipe /\ BufferedIn(c2c[p]) \in Pipe
  BY SentTyped, BufTyped DEF Basic, EndOK, Types
<1> QED BY <1>1, <1>2, TypesConcat

\* What a step at p may do with its channel without touching the connections.
Refitted(p, d) ==
    /\ c2c' = [c2c EXCEPT ![p] = d]
    /\ d \in Chan /\ BufOK(d) /\ MarkOK(d) /\ ChanOK(p, d)
    /\ d.switched_write = c2c[p].switched_write
    /\ d.switched_read = c2c[p].switched_read
    /\ c2c[p].switched_write => d.direct.is = c2c[p].direct.is
    /\ UNCHANGED <<config, relay, link>>

\* What a step may do with the direct connections.
Rewired(p, d) ==
    /\ accepted' \in [Ends -> {"none", "WAITINGTLS", "ACTIVE", "failed", "served"}]
    /\ net' \in [Ends -> {"none", "syn", "up", "refused", "closed", "broken"}]
    /\ \A c \in Ends : /\ net[c] # "none" => net'[c] # "none"
                       /\ accepted[c] = "served" => accepted'[c] = "served"
                       /\ accepted'[c] # "none" => accepted[c] # "none" \/ net[Other(c)] # "none"
    /\ d.direct.is = "out" => net'[p] # "none"
    /\ d.direct.is = "in" => accepted'[p] = "served"

LEMMA RefitKeeps ==
    ASSUME Basic, NEW p \in Ends, NEW d, Refitted(p, d)
    PROVE  /\ c2c' \in [Ends -> Chan]
           /\ c2c'[p] = d /\ c2c'[Other(p)] = c2c[Other(p)]
           /\ \A q \in Ends : /\ BufOK(c2c[q])' /\ MarkOK(c2c[q])' /\ ChanOK(q, c2c[q])'
                              /\ PathOK(q)'
<1>1. c2c \in [Ends -> Chan]
  BY DEF Basic, Types
<1>2. /\ c2c' \in [Ends -> Chan] /\ c2c'[p] = d
      /\ \A q \in Ends : q # p => c2c'[q] = c2c[q]
  BY <1>1 DEF Refitted
<1>3. \A q \in Ends : /\ c2c'[q].switched_write = c2c[q].switched_write
                      /\ c2c'[q].switched_read = c2c[q].switched_read
                      /\ c2c[q].switched_write => c2c'[q].direct.is = c2c[q].direct.is
  BY <1>2 DEF Refitted
<1>4. ASSUME NEW q \in Ends
      PROVE  BufOK(c2c[q])' /\ MarkOK(c2c[q])' /\ ChanOK(q, c2c[q])'
  <2>1. CASE q = p
    <3>1. BufOK(c2c'[q]) /\ MarkOK(c2c'[q]) /\ ChanOK(q, c2c'[q])
      BY <1>2, <2>1 DEF Refitted
    <3> QED BY <3>1 DEF ChanOK, BufOK, MarkOK, WriteEnd, Committed, Refitted
  <2>2. CASE q # p
    <3>1. BufOK(c2c'[q]) /\ MarkOK(c2c'[q]) /\ ChanOK(q, c2c'[q])
      BY <1>2, <2>2 DEF Basic, EndOK
    <3> QED BY <3>1 DEF ChanOK, BufOK, MarkOK, WriteEnd, Committed, Refitted
  <2> QED BY <2>1, <2>2
<1>5. ASSUME NEW q \in Ends
      PROVE  PathOK(q)'
  <2>1. PathOK(q) /\ Other(q) \in Ends
    BY TwoEnds DEF Basic, EndOK
  <2>2. relay' = relay /\ link' = link
    BY DEF Refitted
  <2>3. c2c[q].switched_write => Connection(q)' = Connection(q)
    BY <1>3 DEF Connection
  <2> QED BY <1>3, <2>1, <2>2, <2>3 DEF PathOK
<1> QED BY <1>2, <1>4, <1>5, TwoEnds

LEMMA RewireKeeps ==
    ASSUME Basic, NEW p \in Ends, NEW d, c2c' = [c2c EXCEPT ![p] = d], Rewired(p, d)
    PROVE  \A q \in Ends : NetOK(q)'
<1>1. c2c \in [Ends -> Chan]
  BY DEF Basic, Types
<1>2. c2c'[p] = d /\ \A q \in Ends : q # p => c2c'[q] = c2c[q]
  BY <1>1
<1> TAKE q \in Ends
<1>3. NetOK(q) /\ Other(q) \in Ends
  BY TwoEnds DEF Basic, EndOK
<1>4. accepted'[q] # "none" => net'[Other(q)] # "none"
  BY <1>3 DEF Rewired, NetOK
<1>5. CASE q = p
  BY <1>2, <1>4, <1>5 DEF Rewired, NetOK
<1>6. CASE q # p
  BY <1>2, <1>3, <1>4, <1>6 DEF Rewired, NetOK
<1> QED BY <1>5, <1>6

\* A step of p on its own channel and on the direct connections.
LEMMA OwnStep ==
    ASSUME Basic, NEW p \in Ends, NEW d, Refitted(p, d), Rewired(p, d),
           UNCHANGED got, texts' \in [Ends -> Nat], faults' \in Nat, blocked' \in Nat
    PROVE  /\ Basic'
           /\ c2c'[p] = d /\ c2c'[Other(p)] = c2c[Other(p)]
           /\ Unread(Other(p))' = Unread(Other(p))
           /\ \A w \in Pipe : BufferedIn(d) = BufferedIn(c2c[p]) \o w
                                => Unread(p)' = Unread(p) \o w
           /\ BufferedIn(d) = <<>> => Unread(p) = Unread(p)' \o BufferedIn(c2c[p])
<1> USE TwoEnds
<1>1. Types'
  BY RefitKeeps DEF Basic, Types, Refitted, Rewired
<1>2. Basic'
  BY <1>1, RefitKeeps, RewireKeeps DEF Basic, EndOK, Refitted
<1>3. \A q \in Ends : SentBy(q)' = SentBy(q)
  BY DEF SentBy, Refitted
<1>4. c2c'[p] = d /\ c2c'[Other(p)] = c2c[Other(p)]
  BY RefitKeeps
<1>5. \A q \in Ends : Unread(q)' = SentBy(q) \o BufferedIn(c2c'[q])
  BY <1>3, BufferedIs DEF Unread, SentBy, Buffered, BufferedIn, WriteEnd
<1>6. Unread(Other(p))' = Unread(Other(p))
  BY <1>4, <1>5, UnreadTyped
<1>7. Unread(p)' = SentBy(p) \o BufferedIn(d) /\ Unread(p) = SentBy(p) \o BufferedIn(c2c[p])
      /\ SentBy(p) \in Seq(Msg) /\ BufferedIn(c2c[p]) \in Seq(Msg)
  BY <1>4, <1>5, UnreadTyped DEF Pipe
<1>8. ASSUME NEW w \in Pipe, BufferedIn(d) = BufferedIn(c2c[p]) \o w
      PROVE  Unread(p)' = Unread(p) \o w
  <2> DEFINE a == SentBy(p)
             b == BufferedIn(c2c[p])
  <2>1. a \in Seq(Msg) /\ b \in Seq(Msg) /\ w \in Seq(Msg)
    BY <1>7 DEF Pipe
  <2>2. Unread(p)' = a \o (b \o w) /\ Unread(p) = a \o b
    BY <1>7, <1>8
  <2> HIDE DEF a, b
  <2>3. a \o (b \o w) = (a \o b) \o w
    BY <2>1, ConcatAssociative
  <2> QED BY <2>2, <2>3
<1>9. BufferedIn(d) = <<>> => Unread(p) = Unread(p)' \o BufferedIn(c2c[p])
  BY <1>7, ConcatEmptySeq
<1> QED BY <1>2, <1>4, <1>6, <1>8, <1>9


-----------------------------------------------------------------------------
(* Writing moves messages from the buffer to a connection.                 *)

LEMMA WriteKeepsPath ==
    ASSUME Basic, NEW p \in Ends, NEW d, NEW data, WriteFacts(c2c[p], d, data),
           c2c' = [c2c EXCEPT ![p] = d],
           IF ToDirect(c2c[p])
           THEN /\ link' = [link EXCEPT ![Connection(p)] =
                              [link[Connection(p)] EXCEPT ![p] = @ \o data]]
                /\ UNCHANGED relay
           ELSE relay' = [relay EXCEPT ![p] = @ \o data] /\ UNCHANGED link
    PROVE  /\ relay' \in [Ends -> Pipe] /\ link' \in [Ends -> [Ends -> Pipe]]
           /\ c2c' \in [Ends -> Chan]
           /\ SentBy(p)' = SentBy(p) \o data
           /\ SentBy(Other(p))' = SentBy(Other(p))
           /\ \A q \in Ends : PathOK(q)'
<1> USE TwoEnds
<1> DEFINE c == c2c[p]
           q == Other(p)
           k == Connection(p)
<1>1. /\ c2c \in [Ends -> Chan] /\ relay \in [Ends -> Pipe] /\ link \in [Ends -> [Ends -> Pipe]]
      /\ PathOK(p) /\ PathOK(q) /\ MarkOK(c) /\ ChanOK(p, c) /\ q \in Ends /\ q # p
  BY DEF Basic, EndOK, Types
<1>2. /\ d \in Chan /\ data \in Seq(Msg)
      /\ d.direct = c.direct /\ d.switched_read = c.switched_read
      /\ (c.switched_write => d.switched_write)
      /\ (ToDirect(c) \/ d.switched_write \/ \A i \in DOMAIN data : data[i].type # "SWITCH")
      /\ (~c.switched_write => \A i \in DOMAIN data : data[i].type = "SWITCH" => i = Len(data))
  BY DEF WriteFacts, Pipe
<1>3. c2c' \in [Ends -> Chan] /\ c2c'[p] = d /\ c2c'[q] = c2c[q]
  BY <1>1, <1>2
<1>4. ToDirect(c) <=> c.switched_write
  BY <1>1 DEF MarkOK, ToDirect
<1>5. k \in Ends /\ Connection(p)' = k /\ Connection(q)' = Connection(q)
  BY <1>1, <1>2, <1>3 DEF Connection
<1> HIDE DEF q
<1>6. CASE ~c.switched_write
  <2>1. link' = link /\ relay' = [relay EXCEPT ![p] = @ \o data]
    BY <1>4, <1>6
  <2> DEFINE r == relay[p]
  <2>2. r \in Seq(Msg) /\ r \o data \in Pipe
    BY <1>1, <1>2 DEF Pipe
  <2>3. relay' \in [Ends -> Pipe] /\ relay'[p] = r \o data /\ relay'[q] = relay[q]
    BY <1>1, <2>1, <2>2
  <2>4. link["out"][p] = <<>> /\ link["in"][p] = <<>>
    BY <1>1, <1>6 DEF PathOK
  <2>5. SentBy(p)' = SentBy(p) \o data
    <3>1. SentBy(p) = r
      BY <2>2, <2>4, ConcatEmptySeq DEF SentBy
    <3>2. SentBy(p)' = (r \o data) \o <<>> \o <<>>
      BY <2>1, <2>3, <2>4 DEF SentBy
    <3> QED BY <2>2, <3>1, <3>2, ConcatEmptySeq DEF Pipe
  <2>6. SentBy(q)' = SentBy(q)
    BY <2>1, <2>3 DEF SentBy
  <2>7. PathOK(q)'
    <3>1. Other(q) = p
      BY DEF q
    <3> QED BY <1>1, <1>2, <1>3, <1>5, <2>1, <2>3, <3>1 DEF PathOK
  <2>8. PathOK(p)'
    <3>1. \A e \in Ends : link'[e][p] = <<>>
      BY <2>1, <2>4
    <3>2. c2c'[q].switched_read = FALSE
      BY <1>1, <1>3, <1>6 DEF PathOK, q, Chan
    <3>3. ASSUME NEW i \in DOMAIN relay'[p], relay'[p][i].type = "SWITCH"
          PROVE  d.switched_write /\ i = Len(relay'[p])
      <4>1. /\ Len(r) \in Nat /\ Len(data) \in Nat /\ i \in 1 .. Len(r) + Len(data)
            /\ DOMAIN r = 1 .. Len(r) /\ DOMAIN data = 1 .. Len(data)
            /\ Len(relay'[p]) = Len(r) + Len(data)
            /\ (i \in 1 .. Len(r) => relay'[p][i] = r[i])
            /\ (i > Len(r) => relay'[p][i] = data[i - Len(r)] /\ i - Len(r) \in DOMAIN data)
        BY <1>2, <2>2, <2>3
      <4>2. i \notin 1 .. Len(r)
        BY <1>1, <1>6, <3>3, <4>1 DEF PathOK
      <4>3. i - Len(r) \in DOMAIN data /\ data[i - Len(r)].type = "SWITCH"
        BY <3>3, <4>1, <4>2
      <4>4. i - Len(r) = Len(data)
        BY <1>2, <1>6, <4>3
      <4> QED BY <1>2, <1>4, <1>6, <4>1, <4>3, <4>4
    <3> QED BY <1>3, <3>1, <3>2, <3>3 DEF PathOK, q
  <2> QED BY <1>1, <1>3, <2>1, <2>3, <2>5, <2>6, <2>7, <2>8 DEF q
<1>7. CASE c.switched_write
  <2>1. relay' = relay /\ link' = [link EXCEPT ![k] = [link[k] EXCEPT ![p] = @ \o data]]
    BY <1>4, <1>7
  <2>2. link[k][p] \in Seq(Msg) /\ link[k][p] \o data \in Pipe
    BY <1>1, <1>2, <1>5 DEF Pipe
  <2>3. /\ link' \in [Ends -> [Ends -> Pipe]] /\ link'[k][p] = link[k][p] \o data
        /\ \A e \in Ends : link'[e][q] = link[e][q] /\ (e # k => link'[e][p] = link[e][p])
    BY <1>1, <1>5, <2>1, <2>2
  <2>4. \A e \in Ends : e # k => link[e][p] = <<>>
    BY <1>1 DEF PathOK
  <2>5. SentBy(p)' = SentBy(p) \o data
    <3> DEFINE r == relay[p]
               l == link[k][p]
    <3>0. r \in Seq(Msg) /\ l \in Seq(Msg) /\ r \o l \in Seq(Msg) /\ l \o data \in Seq(Msg)
      BY <1>1, <1>2, <2>2 DEF Pipe
    <3>1. SentBy(p) = r \o l /\ SentBy(p)' = r \o (l \o data)
      <4>1. CASE k = "out"
        <5>1. link["in"][p] = <<>> /\ link'["in"][p] = <<>>
          BY <2>3, <2>4, <4>1
        <5>2. r \o (l \o data) \in Seq(Msg)
          BY <3>0, ConcatProperties
        <5>3. SentBy(p) = (r \o l) \o <<>> /\ SentBy(p)' = (r \o (l \o data)) \o <<>>
          BY <2>1, <2>3, <4>1, <5>1 DEF SentBy
        <5> HIDE DEF r, l
        <5> QED BY <3>0, <5>2, <5>3, ConcatEmptySeq
      <4>2. CASE k = "in"
        <5>1. link["out"][p] = <<>> /\ link'["out"][p] = <<>>
          BY <2>3, <2>4, <4>2
        <5>2. r \o <<>> = r
          BY <3>0, ConcatEmptySeq
        <5>3. SentBy(p) = (r \o <<>>) \o l /\ SentBy(p)' = (r \o <<>>) \o (l \o data)
          BY <2>1, <2>3, <4>2, <5>1 DEF SentBy
        <5> QED BY <5>2, <5>3
      <4> QED BY <1>5, <4>1, <4>2
    <3> HIDE DEF r, l
    <3>2. r \o (l \o data) = (r \o l) \o data
      BY <1>2, <3>0, ConcatAssociative
    <3> QED BY <3>1, <3>2
  <2>6. SentBy(q)' = SentBy(q)
    BY <2>1, <2>3 DEF SentBy
  <2>7. PathOK(q)'
    <3>1. Other(q) = p
      BY DEF q
    <3> QED BY <1>1, <1>2, <1>3, <1>5, <2>1, <2>3, <3>1 DEF PathOK
  <2>8. PathOK(p)'
    <3>1. d.switched_write
      BY <1>2, <1>7
    <3> QED BY <1>1, <1>3, <1>5, <2>1, <2>3, <2>4, <3>1 DEF PathOK, q
  <2> QED BY <1>1, <1>3, <2>1, <2>3, <2>5, <2>6, <2>7, <2>8 DEF q
<1> QED BY <1>6, <1>7

LEMMA WriteStep ==
    ASSUME Basic, NEW p \in Ends, c2c[p].write_buf # <<>>,
           LET c == c2c[p]
               data == SubSeq(c.write_buf, 1, Attempt(c))
           IN  /\ c2c' = [c2c EXCEPT ![p] = Written(c)]
               /\ IF ToDirect(c)
                  THEN link' = [link EXCEPT ![Connection(p)][p] = @ \o data] /\ UNCHANGED relay
                  ELSE relay' = [relay EXCEPT ![p] = @ \o data] /\ UNCHANGED link
               /\ UNCHANGED <<config, accepted, net, got, texts, faults, blocked>>
    PROVE  /\ Basic'
           /\ \A q \in Ends :
                /\ Unread(q)' = Unread(q)
                /\ \A f \in {"state", "directc2c_state", "direct", "switched_read"} :
                     c2c'[q][f] = c2c[q][f]
<1> USE TwoEnds
<1> DEFINE c == c2c[p]
           d == Written(c)
           data == SubSeq(c.write_buf, 1, Attempt(c))
<1>1. c2c \in [Ends -> Chan] /\ BufOK(c) /\ MarkOK(c) /\ ChanOK(p, c) /\ c \in Chan
  BY DEF Basic, EndOK, Types
<1>2. WriteFacts(c, d, data)
  BY <1>1, WrittenKeeps
<1>3. c2c' = [c2c EXCEPT ![p] = d]
  OBVIOUS
<1>4. IF ToDirect(c)
      THEN /\ link' = [link EXCEPT ![Connection(p)] =
                         [link[Connection(p)] EXCEPT ![p] = @ \o data]]
           /\ UNCHANGED relay
      ELSE relay' = [relay EXCEPT ![p] = @ \o data] /\ UNCHANGED link
  OBVIOUS
<1> HIDE DEF d, data
<1>5. /\ relay' \in [Ends -> Pipe] /\ link' \in [Ends -> [Ends -> Pipe]]
      /\ c2c' \in [Ends -> Chan]
      /\ SentBy(p)' = SentBy(p) \o data
      /\ SentBy(Other(p))' = SentBy(Other(p))
      /\ \A q \in Ends : PathOK(q)'
  BY <1>2, <1>3, <1>4, WriteKeepsPath
<1>6. c2c'[p] = d /\ c2c'[Other(p)] = c2c[Other(p)]
  BY <1>1, <1>3
<1>7. /\ d \in Chan /\ BufOK(d) /\ MarkOK(d) /\ data \in Pipe
      /\ BufferedIn(c) = data \o BufferedIn(d)
      /\ \A f \in {"state", "directc2c_state", "direct", "switched_read"} : d[f] = c[f]
      /\ (d.barrier_pos # 0 \/ d.switched_write => c.barrier_pos # 0 \/ c.switched_write)
  BY <1>2 DEF WriteFacts
<1>8. /\ d.state = c.state /\ d.directc2c_state = c.directc2c_state
      /\ d.direct = c.direct /\ d.switched_read = c.switched_read
  BY <1>7
<1>9. ChanOK(p, d)
  BY <1>1, <1>7, <1>8 DEF ChanOK, Committed
<1>10. \A q \in Ends : BufOK(c2c[q])' /\ MarkOK(c2c[q])' /\ ChanOK(q, c2c[q])'
  <2> TAKE q \in Ends
  <2>1. BufOK(c2c'[q]) /\ MarkOK(c2c'[q]) /\ ChanOK(q, c2c'[q])
    BY <1>6, <1>7, <1>9 DEF Basic, EndOK
  <2>2. config' = config
    OBVIOUS
  <2> QED BY <2>1, <2>2 DEF ChanOK, BufOK, MarkOK, WriteEnd, Committed
<1>11. \A q \in Ends : NetOK(q)'
  <2> TAKE q \in Ends
  <2>1. net' = net /\ accepted' = accepted /\ c2c'[q].direct = c2c[q].direct
    BY <1>6, <1>8
  <2> QED BY <2>1 DEF Basic, EndOK, NetOK
<1>12. Types'
  BY <1>5 DEF Basic, Types
<1>13. Basic'
  BY <1>5, <1>10, <1>11, <1>12 DEF Basic, EndOK
<1>14. \A q \in Ends : Unread(q)' = SentBy(q)' \o BufferedIn(c2c'[q])
  BY BufferedIs DEF Unread, SentBy, Buffered, BufferedIn, WriteEnd
<1>15. Unread(Other(p))' = Unread(Other(p))
  <2> DEFINE q == Other(p)
  <2>1. q \in Ends /\ SentBy(q)' = SentBy(q) /\ c2c'[q] = c2c[q]
    BY <1>5, <1>6
  <2> HIDE DEF q
  <2>2. Unread(q) = SentBy(q) \o BufferedIn(c2c[q])
    BY <2>1, UnreadTyped
  <2>3. Unread(q)' = Unread(q)
    BY <1>14, <2>1, <2>2
  <2> QED BY <2>3 DEF q
<1>16. Unread(p)' = Unread(p)
  <2> DEFINE a == SentBy(p)
             b == BufferedIn(d)
  <2>1. Unread(p)' = (a \o data) \o b /\ Unread(p) = a \o (data \o b)
    BY <1>5, <1>6, <1>7, <1>14, UnreadTyped
  <2>2. a \in Seq(Msg) /\ b \in Seq(Msg) /\ data \in Seq(Msg)
    BY <1>7, UnreadTyped, BufTyped DEF Pipe
  <2> HIDE DEF a, b
  <2>3. (a \o data) \o b = a \o (data \o b)
    BY <2>2, ConcatAssociative
  <2> QED BY <2>1, <2>3
<1> QED BY <1>6, <1>8, <1>13, <1>15, <1>16


-----------------------------------------------------------------------------
(* Reading takes the first of the messages under way.                      *)

Source(p) == IF c2c[p].switched_read THEN link[Connection(p)][Other(p)] ELSE relay[Other(p)]

Taken(p) ==
    IF c2c[p].switched_read
    THEN /\ link' = [link EXCEPT ![Connection(p)] =
                       [link[Connection(p)] EXCEPT ![Other(p)] = Tail(@)]]
         /\ UNCHANGED relay
    ELSE relay' = [relay EXCEPT ![Other(p)] = Tail(@)] /\ UNCHANGED link

LEMMA TailOfConcat ==
    ASSUME NEW a \in Seq(Msg), NEW b \in Seq(Msg), a # <<>>
    PROVE  a \o b # <<>> /\ Head(a \o b) = Head(a) /\ Tail(a \o b) = Tail(a) \o b
           /\ Tail(a) \in Seq(Msg)
<1>1. a \o b \in Seq(Msg) /\ Len(a \o b) = Len(a) + Len(b) /\ Len(a) \in Nat /\ Len(b) \in Nat
      /\ Len(a) > 0 /\ Tail(a) \in Seq(Msg) /\ Len(Tail(a)) = Len(a) - 1
      /\ Tail(a) \o b \in Seq(Msg) /\ a \o b # <<>> /\ Head(a \o b) = Head(a)
  OBVIOUS
<1>2. Tail(a \o b) \in Seq(Msg) /\ Len(Tail(a \o b)) = Len(a) + Len(b) - 1
      /\ Len(Tail(a) \o b) = Len(a) + Len(b) - 1
  BY <1>1
<1>3. ASSUME NEW i \in 1 .. Len(Tail(a \o b))
      PROVE  Tail(a \o b)[i] = (Tail(a) \o b)[i]
  <2>1. i \in 1 .. Len(a) + Len(b) - 1 /\ i + 1 \in 1 .. Len(a) + Len(b)
    BY <1>1, <1>2
  <2>2. Tail(a \o b)[i] = (a \o b)[i + 1]
    BY <1>1, <1>2, HeadTailProperties
  <2>3. CASE i <= Len(a) - 1
    <3>1. (a \o b)[i + 1] = a[i + 1] /\ (Tail(a) \o b)[i] = Tail(a)[i] /\ Tail(a)[i] = a[i + 1]
      BY <1>1, <2>1, <2>3
    <3> QED BY <2>2, <3>1
  <2>4. CASE ~(i <= Len(a) - 1)
    <3>1. (a \o b)[i + 1] = b[(i + 1) - Len(a)]
      BY <1>1, <2>1, <2>4
    <3>2. (Tail(a) \o b)[i] = b[i - (Len(a) - 1)]
      BY <1>1, <1>2, <2>1, <2>4
    <3>3. (i + 1) - Len(a) = i - (Len(a) - 1)
      BY <1>1, <2>1
    <3> QED BY <2>2, <3>1, <3>2, <3>3
  <2> QED BY <2>3, <2>4
<1>4. Tail(a \o b) = Tail(a) \o b
  <2> DEFINE x == Tail(a \o b)
             y == Tail(a) \o b
  <2>1. x \in Seq(Msg) /\ y \in Seq(Msg) /\ Len(x) = Len(y) /\ \A i \in 1 .. Len(x) : x[i] = y[i]
    BY <1>1, <1>2, <1>3
  <2> HIDE DEF x, y
  <2>2. x = y
    BY <2>1, SeqEqual
  <2> QED BY <2>2 DEF x, y
<1> QED BY <1>1, <1>4

LEMMA TakenFacts ==
    ASSUME Basic, NEW p \in Ends, Source(p) # <<>>, Taken(p)
    PROVE  /\ relay' \in [Ends -> Pipe] /\ link' \in [Ends -> [Ends -> Pipe]]
           /\ SentBy(Other(p)) # <<>> /\ Head(SentBy(Other(p))) = Head(Source(p))
           /\ SentBy(Other(p))' = Tail(SentBy(Other(p))) /\ SentBy(p)' = SentBy(p)
           /\ \A e \in Ends : ~c2c[Other(p)].switched_write \/ e # Connection(Other(p))
                                => link'[e][Other(p)] = <<>>
           /\ \A e \in Ends : link'[e][p] = link[e][p]
           /\ relay'[p] = relay[p]
           /\ \A i \in DOMAIN relay'[Other(p)] : relay'[Other(p)][i].type = "SWITCH" =>
                 c2c[Other(p)].switched_write /\ i = Len(relay'[Other(p)])
           /\ c2c[p].switched_read \/ Head(Source(p)).type = "SWITCH" =>
                 c2c[Other(p)].switched_write /\ relay'[Other(p)] = <<>>
<1> USE TwoEnds
<1> DEFINE q == Other(p)
<1>1. /\ relay \in [Ends -> Pipe] /\ link \in [Ends -> [Ends -> Pipe]]
      /\ PathOK(q) /\ q \in Ends /\ q # p /\ Other(q) = p /\ Connection(p) \in Ends
      /\ Connection(q) \in Ends
  BY DEF Basic, EndOK, Types, Connection
<1> HIDE DEF q
<1>2. relay[q] \in Seq(Msg) /\ \A e \in Ends : link[e][q] \in Seq(Msg)
  BY <1>1 DEF Pipe
<1>3. CASE ~c2c[p].switched_read
  <2> DEFINE r == relay[q]
  <2>1. r # <<>> /\ Source(p) = r /\ link' = link /\ relay' = [relay EXCEPT ![q] = Tail(r)]
    BY <1>1, <1>3 DEF Source, Taken, q
  <2>2. Tail(r) \in Seq(Msg) /\ Head(r) \in Msg /\ Head(r) = r[1] /\ Len(r) \in Nat /\ Len(r) >= 1
        /\ DOMAIN r = 1 .. Len(r) /\ Len(Tail(r)) = Len(r) - 1 /\ DOMAIN Tail(r) = 1 .. Len(r) - 1
        /\ \A i \in 1 .. Len(r) - 1 : Tail(r)[i] = r[i + 1]
    BY <1>2, <2>1
  <2>3. relay' \in [Ends -> Pipe] /\ relay'[q] = Tail(r) /\ relay'[p] = relay[p]
    BY <1>1, <2>1, <2>2 DEF Pipe
  <2>4. SentBy(q) # <<>> /\ Head(SentBy(q)) = Head(r) /\ SentBy(q)' = Tail(SentBy(q))
    <3> DEFINE a == link["out"][q]
               b == link["in"][q]
    <3>1. a \in Seq(Msg) /\ b \in Seq(Msg) /\ r \in Seq(Msg)
      BY <1>2
    <3>2. SentBy(q) = (r \o a) \o b /\ SentBy(q)' = (Tail(r) \o a) \o b
      BY <2>1, <2>3 DEF SentBy
    <3>5. r # <<>>
      BY <2>1
    <3> HIDE DEF a, b, r
    <3>3. r \o a # <<>> /\ Head(r \o a) = Head(r) /\ Tail(r \o a) = Tail(r) \o a
          /\ r \o a \in Seq(Msg)
      BY <3>1, <3>5, TailOfConcat, ConcatProperties
    <3>4. /\ (r \o a) \o b # <<>> /\ Head((r \o a) \o b) = Head(r \o a)
          /\ Tail((r \o a) \o b) = Tail(r \o a) \o b
      BY <3>1, <3>3, TailOfConcat
    <3> QED BY <3>2, <3>3, <3>4
  <2>5. SentBy(p)' = SentBy(p)
    BY <2>1, <2>3 DEF SentBy
  <2>6. ASSUME NEW i \in DOMAIN relay'[q], relay'[q][i].type = "SWITCH"
        PROVE  c2c[q].switched_write /\ i = Len(relay'[q])
    <3>1. i \in 1 .. Len(r) - 1 /\ relay'[q][i] = r[i + 1]
      BY <2>2, <2>3, <2>6
    <3>2. i + 1 \in DOMAIN r
      BY <2>2, <3>1
    <3>3. c2c[q].switched_write /\ i + 1 = Len(r)
      BY <1>1, <2>6, <3>1, <3>2 DEF PathOK
    <3> QED BY <2>2, <2>3, <3>1, <3>3
  <2>7. Head(r).type = "SWITCH" => c2c[q].switched_write /\ relay'[q] = <<>>
    <3> SUFFICES ASSUME Head(r).type = "SWITCH"
                 PROVE  c2c[q].switched_write /\ relay'[q] = <<>>
      OBVIOUS
    <3>1. 1 \in DOMAIN r /\ r[1].type = "SWITCH"
      BY <2>2
    <3>2. c2c[q].switched_write /\ 1 = Len(r)
      BY <1>1, <3>1 DEF PathOK
    <3>3. Len(Tail(r)) = 0
      BY <2>2, <3>2
    <3> QED BY <2>2, <2>3, <3>2, <3>3, EmptySeq
  <2> QED BY <1>1, <1>3, <2>1, <2>3, <2>4, <2>5, <2>6, <2>7 DEF PathOK, q
<1>4. CASE c2c[p].switched_read
  <2> DEFINE k == Connection(p)
             l == link[k][q]
  <2>1. l # <<>> /\ Source(p) = l /\ relay' = relay
        /\ link' = [link EXCEPT ![k] = [link[k] EXCEPT ![q] = Tail(l)]]
    BY <1>1, <1>4 DEF Source, Taken, q
  <2>2. l \in Seq(Msg) /\ Tail(l) \in Pipe
    BY <1>1, <1>2, <2>1 DEF Pipe
  <2>3. c2c[q].switched_write /\ k = Connection(q) /\ relay[q] = <<>>
    BY <1>1, <1>4, <2>1 DEF PathOK
  <2>4. /\ link' \in [Ends -> [Ends -> Pipe]] /\ link'[k][q] = Tail(l)
        /\ \A e \in Ends : link'[e][p] = link[e][p] /\ (e # k => link'[e][q] = link[e][q])
    BY <1>1, <2>1, <2>2
  <2>5. \A e \in Ends : e # k => link[e][q] = <<>> /\ link'[e][q] = <<>>
    BY <1>1, <2>3, <2>4 DEF PathOK
  <2>6. SentBy(q) = l /\ SentBy(q)' = Tail(l)
    <3>1. Tail(l) \in Seq(Msg)
      BY <2>2 DEF Pipe
    <3>2. CASE k = "out"
      <4>1. SentBy(q) = (<<>> \o l) \o <<>> /\ SentBy(q)' = (<<>> \o Tail(l)) \o <<>>
        BY <2>1, <2>3, <2>4, <2>5, <3>2 DEF SentBy
      <4> HIDE DEF l
      <4> QED BY <2>2, <3>1, <4>1, ConcatEmptySeq
    <3>3. CASE k = "in"
      <4>1. SentBy(q) = (<<>> \o <<>>) \o l /\ SentBy(q)' = (<<>> \o <<>>) \o Tail(l)
        BY <2>1, <2>3, <2>4, <2>5, <3>3 DEF SentBy
      <4>2. <<>> \o <<>> = <<>>
        OBVIOUS
      <4> HIDE DEF l
      <4> QED BY <2>2, <3>1, <4>1, <4>2, ConcatEmptySeq
    <3> QED BY <1>1, <3>2, <3>3
  <2>7. SentBy(p)' = SentBy(p)
    BY <2>1, <2>4 DEF SentBy
  <2>8. DOMAIN relay'[q] = {}
    BY <2>1, <2>3
  <2> QED BY <1>1, <2>1, <2>3, <2>4, <2>5, <2>6, <2>7, <2>8 DEF q
<1> QED BY <1>3, <1>4

\* A read by p, whatever the handler makes of its channel.
LEMMA ReadStep ==
    ASSUME Basic, NEW p \in Ends, Source(p) # <<>>, Taken(p), NEW d,
           c2c' = [c2c EXCEPT ![p] = d],
           d \in Chan, BufOK(d), MarkOK(d), ChanOK(p, d),
           d.switched_write = c2c[p].switched_write,
           c2c[p].switched_write => d.direct.is = c2c[p].direct.is,
           d.switched_read => c2c[p].switched_read \/ Head(Source(p)).type = "SWITCH",
           Rewired(p, d), got' \in [Ends -> Pipe],
           UNCHANGED <<config, texts, faults, blocked>>
    PROVE  /\ Basic'
           /\ c2c'[p] = d /\ c2c'[Other(p)] = c2c[Other(p)]
           /\ Unread(Other(p)) # <<>> /\ Head(Unread(Other(p))) = Head(Source(p))
           /\ Unread(Other(p))' = Tail(Unread(Other(p)))
           /\ \A w \in Pipe : BufferedIn(d) = BufferedIn(c2c[p]) \o w
                                => Unread(p)' = Unread(p) \o w
           /\ BufferedIn(d) = <<>> => Unread(p) = Unread(p)' \o BufferedIn(c2c[p])
<1> USE TwoEnds
<1> DEFINE q == Other(p)
           c == c2c[p]
<1>1. c2c \in [Ends -> Chan] /\ q \in Ends /\ Other(q) = p /\ q # p
      /\ PathOK(p) /\ PathOK(q) /\ c \in Chan
  BY DEF Basic, EndOK, Types
<1>2. c2c'[p] = d /\ c2c'[q] = c2c[q] /\ c2c' \in [Ends -> Chan]
  BY <1>1
<1> HIDE DEF q
<1>3. /\ relay' \in [Ends -> Pipe] /\ link' \in [Ends -> [Ends -> Pipe]]
      /\ SentBy(q) # <<>> /\ Head(SentBy(q)) = Head(Source(p))
      /\ SentBy(q)' = Tail(SentBy(q)) /\ SentBy(p)' = SentBy(p)
      /\ \A e \in Ends : ~c2c[q].switched_write \/ e # Connection(q) => link'[e][q] = <<>>
      /\ \A e \in Ends : link'[e][p] = link[e][p]
      /\ relay'[p] = relay[p]
      /\ \A i \in DOMAIN relay'[q] : relay'[q][i].type = "SWITCH" =>
            c2c[q].switched_write /\ i = Len(relay'[q])
      /\ c2c[p].switched_read \/ Head(Source(p)).type = "SWITCH" =>
            c2c[q].switched_write /\ relay'[q] = <<>>
  BY TakenFacts DEF q
<1>4. Connection(q)' = Connection(q) /\ (c.switched_write => Connection(p)' = Connection(p))
  BY <1>1, <1>2 DEF Connection
<1>5. PathOK(q)'
  BY <1>1, <1>2, <1>3, <1>4 DEF PathOK
<1>6. PathOK(p)'
  <2>1. Other(p) = q
    BY DEF q
  <2> QED BY <1>1, <1>2, <1>3, <1>4, <2>1 DEF PathOK
<1>7. \A e \in Ends : BufOK(c2c[e])' /\ MarkOK(c2c[e])' /\ ChanOK(e, c2c[e])'
  <2> TAKE e \in Ends
  <2>1. BufOK(c2c'[e]) /\ MarkOK(c2c'[e]) /\ ChanOK(e, c2c'[e])
    BY <1>2 DEF Basic, EndOK, q
  <2>2. config' = config
    OBVIOUS
  <2> QED BY <2>1, <2>2 DEF ChanOK, BufOK, MarkOK, WriteEnd, Committed
<1>8. \A e \in Ends : NetOK(e)'
  BY RewireKeeps
<1>9. Types'
  BY <1>2, <1>3 DEF Basic, Types, Rewired
<1>10. Basic'
  BY <1>1, <1>5, <1>6, <1>7, <1>8, <1>9 DEF Basic, EndOK, q
<1>11. \A e \in Ends : Unread(e)' = SentBy(e)' \o BufferedIn(c2c'[e])
  BY BufferedIs DEF Unread, SentBy, Buffered, BufferedIn, WriteEnd
<1>12. Unread(q) # <<>> /\ Head(Unread(q)) = Head(Source(p)) /\ Unread(q)' = Tail(Unread(q))
  <2>1. /\ Unread(q) = SentBy(q) \o BufferedIn(c2c[q]) /\ SentBy(q) \in Seq(Msg)
        /\ BufferedIn(c2c[q]) \in Seq(Msg)
    BY <1>1, UnreadTyped DEF Pipe
  <2>2. Unread(q)' = Tail(SentBy(q)) \o BufferedIn(c2c[q])
    BY <1>1, <1>2, <1>3, <1>11
  <2> QED BY <1>3, <2>1, <2>2, TailOfConcat
<1>13. Unread(p)' = SentBy(p) \o BufferedIn(d) /\ Unread(p) = SentBy(p) \o BufferedIn(c)
       /\ SentBy(p) \in Seq(Msg) /\ BufferedIn(c) \in Seq(Msg)
  BY <1>2, <1>3, <1>11, UnreadTyped DEF Pipe
<1>14. ASSUME NEW w \in Pipe, BufferedIn(d) = BufferedIn(c) \o w
       PROVE  Unread(p)' = Unread(p) \o w
  <2> DEFINE a == SentBy(p)
             b == BufferedIn(c)
  <2>1. a \in Seq(Msg) /\ b \in Seq(Msg) /\ w \in Seq(Msg)
    BY <1>13 DEF Pipe
  <2>2. Unread(p)' = a \o (b \o w) /\ Unread(p) = a \o b
    BY <1>13, <1>14
  <2> HIDE DEF a, b
  <2>3. a \o (b \o w) = (a \o b) \o w
    BY <2>1, ConcatAssociative
  <2> QED BY <2>2, <2>3
<1>15. BufferedIn(d) = <<>> => Unread(p) = Unread(p)' \o BufferedIn(c)
  BY <1>13, ConcatEmptySeq
<1> QED BY <1>2, <1>10, <1>12, <1>14, <1>15 DEF q


-----------------------------------------------------------------------------
(* Both ends: the opening of the channel and who connects to whom.         *)

\* Until the called end has agreed on the version nothing else happens.
OpeningIn ==
    c2c["in"].state = "WAITINGC2CPROTOVER" =>
        /\ c2c["out"].state # "ACTIVE"
        /\ c2c["out"].directc2c_state = "INACTIVE"
        /\ TypesOf(Unread("out")) \subseteq {"C2CCONNREQ", "C2CCONNREQ-other"}
        /\ TypesOf(Unread("in")) \subseteq {"VERDIFFER"}

\* Its answer is the first thing the caller reads.
OpeningOut ==
    c2c["out"].state = "WAITINGREP" =>
        /\ Unread("in") # <<>> => Head(Unread("in")).type \in {"INITRESPOK", "VERDIFFER"}
        /\ c2c["in"].state = "ACTIVE" => Unread("in") # <<>>

\* The caller connects or may still be told where to.
MayDial == "ADDRLIST" \in TypesOf(Unread("in")) \/ c2c["out"].direct.is = "out"

\* The called end connects only when the caller does not and never will.
DialingOK ==
    /\ net["in"] # "none" => /\ ~MayDial
                             /\ c2c["in"].direct.is # "in"
                             /\ c2c["in"].directc2c_state # "WAITINGINCOMING"
                             /\ c2c["in"].state # "WAITINGC2CPROTOVER"
    /\ config["in"] # "ALLOWINCOMING" => ~MayDial
    /\ "FAILED" \in TypesOf(Unread("out")) => ~MayDial
    /\ c2c["out"].direct.is = "out" \/ c2c["out"].directc2c_state = "FAILEDTOCONNECT"
         => "ADDRLIST" \notin TypesOf(Unread("in"))
    /\ OnceIn(Unread("in"))

\* The address of the caller reaches the called end before the request to use it.
Informed ==
    /\ c2c["in"].state # "WAITINGC2CPROTOVER"
    /\ c2c["in"].directc2c_state = "WAITINGINCOMING" => c2c["in"].direct.is # "none"

AnnouncedOK ==
    ~Informed =>
        /\ c2c["out"].state = "ACTIVE" /\ config["out"] = "ALLOWINCOMING"
             => "ADDRLIST" \in TypesOf(Unread("out"))
        /\ AnnouncedIn(Unread("out"))

Story == OpeningIn /\ OpeningOut /\ DialingOK /\ AnnouncedOK

Dead == {"CLOSED", "EXITED", "CRASHED"}

\* The end goes on as it was, except for steps of its direct connection that take
\* nothing back; it goes, or it sends what it may send when the channel is set up.
CalmStates(e) ==
    LET c == c2c[e]
        d == c2c'[e]
    IN  /\ d.state = c.state \/ d.state \in Dead
        /\ \/ d.directc2c_state = c.directc2c_state /\ d.direct.is \in {c.direct.is, "list"}
           \/ /\ c.directc2c_state = "CONNECTING" /\ d.directc2c_state = "ACTIVE"
              /\ d.direct.is = c.direct.is
           \/ /\ c.directc2c_state = "WAITINGINCOMING" /\ d.directc2c_state = "ACTIVE"
              /\ d.direct.is = "in"
           \/ /\ c.directc2c_state = "CONNECTING" /\ d.directc2c_state = "FAILEDTOCONNECT"
              /\ d.direct.is = "none"
           \/ /\ c.directc2c_state = "FAILEDTOCONNECT" /\ d.direct.is = c.direct.is
              /\ d.directc2c_state = "INACTIVE" \/ e = "out"
              /\ d.directc2c_state # "FAILEDTOCONNECT"

CalmQueue(e) ==
    \/ Unread(e)' = Unread(e)
    \/ c2c'[e].state \in Dead /\ \E s \in Pipe : Unread(e) = Unread(e)' \o s
    \/ /\ c2c[e].state = "ACTIVE"
       /\ \E w \in Pipe :
            /\ Unread(e)' = Unread(e) \o w
            /\ \/ TypesOf(w) \subseteq {"MSGUTF8", "MSGOK", "SWITCH"}
               \/ /\ e = "out" /\ config[e] = "ALLOWINCOMING"
                  /\ c2c[e].directc2c_state = "FAILEDTOCONNECT"
                  /\ TypesOf(w) \subseteq {"FAILED"}

CalmNet == config' = config /\ (net'["in"] # "none" => net["in"] # "none")

\* What a calm queue keeps.
LEMMA CalmQueueFacts ==
    ASSUME Basic, NEW e \in Ends, CalmQueue(e), Unread(e)' \in Pipe
    PROVE  /\ "ADDRLIST" \in TypesOf(Unread(e)') => "ADDRLIST" \in TypesOf(Unread(e))
           /\ OnceIn(Unread(e)) => OnceIn(Unread(e)')
           /\ c2c[e].state # "ACTIVE" => TypesOf(Unread(e)') \subseteq TypesOf(Unread(e))
           /\ c2c'[e].state \notin Dead => TypesOf(Unread(e)) \subseteq TypesOf(Unread(e)')
           /\ "FAILED" \in TypesOf(Unread(e)') =>
                \/ "FAILED" \in TypesOf(Unread(e))
                \/ /\ e = "out" /\ c2c[e].directc2c_state = "FAILEDTOCONNECT"
                   /\ config[e] = "ALLOWINCOMING" /\ c2c[e].state = "ACTIVE"
           /\ AnnouncedIn(Unread(e)) =>
                \/ AnnouncedIn(Unread(e)')
                \/ /\ "ADDRLIST" \notin TypesOf(Unread(e))
                   /\ config[e] = "ALLOWINCOMING" /\ c2c[e].state = "ACTIVE"
           /\ Unread(e) # <<>> /\ Unread(e)' # <<>> => Head(Unread(e)') = Head(Unread(e))
           /\ c2c[e].state # "ACTIVE" /\ Unread(e) = <<>> => Unread(e)' = <<>>
           /\ c2c'[e].state \notin Dead /\ Unread(e) # <<>> => Unread(e)' # <<>>
<1> DEFINE u == Unread(e)
           v == Unread(e)'
<1>1. u \in Pipe /\ v \in Pipe
  BY UnreadTyped
<1>2. CASE v = u
  BY <1>2
<1>3. CASE c2c'[e].state \in Dead /\ \E s \in Pipe : u = v \o s
  <2>1. PICK s \in Pipe : u = v \o s
    BY <1>3
  <2> HIDE DEF u, v
  <2>2. TypesOf(u) = TypesOf(v) \cup TypesOf(s)
    BY <1>1, <2>1, TypesConcat
  <2>3. (OnceIn(u) => OnceIn(v)) /\ (AnnouncedIn(u) => AnnouncedIn(v))
        /\ (v # <<>> => Head(u) = Head(v)) /\ (v # <<>> => u # <<>>)
    BY <1>1, <2>1, ConcatContent
  <2> QED BY <1>3, <2>2, <2>3 DEF u, v
<1>4. ASSUME c2c[e].state = "ACTIVE", NEW w \in Pipe, v = u \o w,
             \/ TypesOf(w) \subseteq {"MSGUTF8", "MSGOK", "SWITCH"}
             \/ /\ e = "out" /\ config[e] = "ALLOWINCOMING"
                /\ c2c[e].directc2c_state = "FAILEDTOCONNECT"
                /\ TypesOf(w) \subseteq {"FAILED"}
      PROVE  /\ "ADDRLIST" \in TypesOf(v) => "ADDRLIST" \in TypesOf(u)
             /\ OnceIn(u) => OnceIn(v)
             /\ TypesOf(u) \subseteq TypesOf(v)
             /\ "FAILED" \in TypesOf(v) =>
                  \/ "FAILED" \in TypesOf(u)
                  \/ /\ e = "out" /\ c2c[e].directc2c_state = "FAILEDTOCONNECT"
                     /\ config[e] = "ALLOWINCOMING" /\ c2c[e].state = "ACTIVE"
             /\ AnnouncedIn(u) => \/ AnnouncedIn(v)
                                  \/ /\ "ADDRLIST" \notin TypesOf(u)
                                     /\ config[e] = "ALLOWINCOMING" /\ c2c[e].state = "ACTIVE"
             /\ u # <<>> => v # <<>> /\ Head(v) = Head(u)
  <2> HIDE DEF u, v
  <2>1. TypesOf(v) = TypesOf(u) \cup TypesOf(w) /\ "ADDRLIST" \notin TypesOf(w)
    BY <1>1, <1>4, TypesConcat
  <2>2. OnceIn(u) => OnceIn(v)
    BY <1>1, <1>4, <2>1, ConcatContent
  <2>3. u # <<>> => v # <<>> /\ Head(v) = Head(u)
    BY <1>1, <1>4, ConcatContent
  <2>4. AnnouncedIn(u) /\ "FAILED" \notin TypesOf(w) => AnnouncedIn(v)
    BY <1>1, <1>4, ConcatContent
  <2>5. AnnouncedIn(u) /\ "ADDRLIST" \in TypesOf(u) => AnnouncedIn(v)
    BY <1>1, <1>4, ConcatContent
  <2> QED BY <1>4, <2>1, <2>2, <2>3, <2>4, <2>5
<1>5. CASE /\ c2c[e].state = "ACTIVE"
           /\ \E w \in Pipe :
                /\ v = u \o w
                /\ \/ TypesOf(w) \subseteq {"MSGUTF8", "MSGOK", "SWITCH"}
                   \/ /\ e = "out" /\ config[e] = "ALLOWINCOMING"
                      /\ c2c[e].directc2c_state = "FAILEDTOCONNECT"
                      /\ TypesOf(w) \subseteq {"FAILED"}
  <2> HIDE DEF u, v
  <2> QED BY <1>4, <1>5 DEF u, v
<1> QED BY <1>2, <1>3, <1>5 DEF CalmQueue

LEMMA UnreadTypedAll == Basic => \A e \in Ends : Unread(e) \in Pipe
  BY UnreadTyped

LEMMA UnreadTypedNext == Basic' => (\A e \in Ends : Unread(e) \in Pipe)'
  BY UnreadTypedAll, PTL

LEMMA CalmKeeps ==
    ASSUME Basic, Basic', Story, \A e \in Ends : CalmStates(e) /\ CalmQueue(e), CalmNet
    PROVE  Story'
<1> DEFINE ui == Unread("in")
           uo == Unread("out")
           vi == Unread("in")'
           vo == Unread("out")'
<1>0. "in" \in Ends /\ "out" \in Ends
  BY DEF Ends
<1>1. ui \in Pipe /\ uo \in Pipe /\ vi \in Pipe /\ vo \in Pipe
  BY <1>0, UnreadTyped, UnreadTypedNext
<1>2. CalmStates("in") /\ CalmStates("out") /\ CalmQueue("in") /\ CalmQueue("out")
  BY <1>0
<1>3. /\ "ADDRLIST" \in TypesOf(vi) => "ADDRLIST" \in TypesOf(ui)
      /\ OnceIn(ui) => OnceIn(vi)
      /\ c2c["in"].state # "ACTIVE" => TypesOf(vi) \subseteq TypesOf(ui)
      /\ ui # <<>> /\ vi # <<>> => Head(vi) = Head(ui)
      /\ c2c["in"].state # "ACTIVE" /\ ui = <<>> => vi = <<>>
      /\ c2c'["in"].state \notin Dead /\ ui # <<>> => vi # <<>>
  BY <1>0, <1>1, <1>2, CalmQueueFacts
<1>4. /\ c2c["out"].state # "ACTIVE" => TypesOf(vo) \subseteq TypesOf(uo)
      /\ c2c'["out"].state \notin Dead => TypesOf(uo) \subseteq TypesOf(vo)
      /\ "FAILED" \in TypesOf(vo) => \/ "FAILED" \in TypesOf(uo)
                                      \/ c2c["out"].directc2c_state = "FAILEDTOCONNECT"
      /\ AnnouncedIn(uo) => \/ AnnouncedIn(vo)
                            \/ /\ "ADDRLIST" \notin TypesOf(uo)
                               /\ config["out"] = "ALLOWINCOMING" /\ c2c["out"].state = "ACTIVE"
  BY <1>0, <1>1, <1>2, CalmQueueFacts
<1>5. /\ ChanOK("in", c2c["in"]) /\ ChanOK("out", c2c["out"])
      /\ ChanOK("in", c2c["in"])' /\ ChanOK("out", c2c["out"])'
  BY <1>0 DEF Basic, EndOK
<1> HIDE DEF ui, uo, vi, vo
<1>6. OpeningIn'
  BY <1>2, <1>3, <1>4 DEF Story, OpeningIn, CalmStates, Dead, ui, uo, vi, vo
<1>7. OpeningOut'
  BY <1>2, <1>3 DEF Story, OpeningOut, CalmStates, Dead, ui, vi
<1>8. AnnouncedOK'
  BY <1>2, <1>4, <1>5 DEF Story, AnnouncedOK, Informed, CalmStates, CalmNet, Dead, ChanOK, uo, vo
<1>9. MayDial' => MayDial
  BY <1>2, <1>3, <1>5 DEF MayDial, CalmStates, ChanOK, ui, vi
<1>10. c2c["out"].directc2c_state = "FAILEDTOCONNECT" => c2c["out"].direct.is # "out"
  BY <1>5 DEF ChanOK
<1>11. DialingOK'
  <2>1. config'["in"] # "ALLOWINCOMING" => ~MayDial'
    BY <1>9 DEF Story, DialingOK, CalmNet
  <2>2. "FAILED" \in TypesOf(vo) => ~MayDial'
    BY <1>4, <1>9, <1>10 DEF Story, DialingOK, MayDial, uo
  <2>3. c2c'["out"].direct.is = "out" \/ c2c'["out"].directc2c_state = "FAILEDTOCONNECT"
          => "ADDRLIST" \notin TypesOf(vi)
    BY <1>2, <1>3, <1>5 DEF Story, DialingOK, CalmStates, ChanOK, ui
  <2>4. OnceIn(vi)
    BY <1>3 DEF Story, DialingOK, ui
  <2>5. net'["in"] # "none" => /\ ~MayDial'
                               /\ c2c'["in"].direct.is # "in"
                               /\ c2c'["in"].directc2c_state # "WAITINGINCOMING"
                               /\ c2c'["in"].state # "WAITINGC2CPROTOVER"
    BY <1>2, <1>5, <1>9 DEF Story, DialingOK, CalmNet, CalmStates, ChanOK, Dead
  <2> QED BY <2>1, <2>2, <2>3, <2>4, <2>5 DEF DialingOK, vi, vo
<1> QED BY <1>6, <1>7, <1>8, <1>11 DEF Story


\* One end reads a message and its control state stays calm.
LEMMA TailKeeps ==
    ASSUME Basic, Basic', Story, NEW p \in Ends, CalmStates(p), CalmQueue(p), CalmNet,
           c2c'[Other(p)] = c2c[Other(p)], Unread(Other(p)) # <<>>,
           Unread(Other(p))' = Tail(Unread(Other(p))),
           p = "out" /\ c2c["out"].state = "WAITINGREP" => c2c'["out"].state \in Dead,
           p = "in" /\ Head(Unread("out")).type = "ADDRLIST" => Informed'
    PROVE  Story'
<1> DEFINE ui == Unread("in")
           uo == Unread("out")
           vi == Unread("in")'
           vo == Unread("out")'
<1>0. "in" \in Ends /\ "out" \in Ends /\ Other("in") = "out" /\ Other("out") = "in"
      /\ (p = "in" \/ p = "out")
  BY TwoEnds
<1>1. ui \in Pipe /\ uo \in Pipe /\ vi \in Pipe /\ vo \in Pipe
  BY <1>0, UnreadTyped, UnreadTypedNext
<1>2. CalmStates("in") /\ CalmStates("out")
  BY <1>0 DEF CalmStates
<1>3. /\ ChanOK("in", c2c["in"]) /\ ChanOK("out", c2c["out"])
      /\ ChanOK("in", c2c["in"])' /\ ChanOK("out", c2c["out"])'
  BY <1>0 DEF Basic, EndOK
<1>4. CASE p = "out"
  <2>0. ui # <<>> /\ vi = Tail(ui) /\ CalmQueue("out")
    BY <1>0, <1>4
  <2>1. /\ c2c["out"].state # "ACTIVE" => TypesOf(vo) \subseteq TypesOf(uo)
        /\ c2c'["out"].state \notin Dead => TypesOf(uo) \subseteq TypesOf(vo)
        /\ "FAILED" \in TypesOf(vo) => \/ "FAILED" \in TypesOf(uo)
                                        \/ c2c["out"].directc2c_state = "FAILEDTOCONNECT"
        /\ AnnouncedIn(uo) => \/ AnnouncedIn(vo)
                              \/ /\ "ADDRLIST" \notin TypesOf(uo)
                                 /\ config["out"] = "ALLOWINCOMING" /\ c2c["out"].state = "ACTIVE"
    BY <1>0, <1>1, <2>0, CalmQueueFacts
  <2> HIDE DEF ui, uo, vi, vo
  <2>2. TypesOf(vi) \subseteq TypesOf(ui) /\ (OnceIn(ui) => OnceIn(vi))
    BY <1>1, <2>0, TypesTail, TailContent
  <2>3. OpeningIn'
    BY <1>2, <2>1, <2>2 DEF Story, OpeningIn, CalmStates, Dead, ui, uo, vi, vo
  <2>4. OpeningOut'
    BY <1>2, <1>4 DEF OpeningOut, CalmStates, Dead
  <2>5. AnnouncedOK'
    BY <1>2, <2>1, <1>3 DEF Story, AnnouncedOK, Informed, CalmStates, CalmNet, Dead, ChanOK, uo, vo
  <2>6. MayDial' => MayDial
    BY <1>2, <2>2, <1>3 DEF MayDial, CalmStates, ChanOK, ui, vi
  <2>7. c2c["out"].directc2c_state = "FAILEDTOCONNECT" => c2c["out"].direct.is # "out"
    BY <1>3 DEF ChanOK
  <2>8. config'["in"] # "ALLOWINCOMING" => ~MayDial'
    BY <2>6 DEF Story, DialingOK, CalmNet
  <2>9. "FAILED" \in TypesOf(vo) => ~MayDial'
    BY <2>1, <2>6, <2>7 DEF Story, DialingOK, MayDial, uo
  <2>10. c2c'["out"].direct.is = "out" \/ c2c'["out"].directc2c_state = "FAILEDTOCONNECT"
           => "ADDRLIST" \notin TypesOf(vi)
    BY <1>2, <1>3, <2>2 DEF Story, DialingOK, CalmStates, ChanOK, ui
  <2>11. OnceIn(vi)
    BY <2>2 DEF Story, DialingOK, ui
  <2>12. net'["in"] # "none" => /\ ~MayDial'
                                /\ c2c'["in"].direct.is # "in"
                                /\ c2c'["in"].directc2c_state # "WAITINGINCOMING"
                                /\ c2c'["in"].state # "WAITINGC2CPROTOVER"
    BY <1>2, <1>3, <2>6 DEF Story, DialingOK, CalmNet, CalmStates, ChanOK, Dead
  <2>13. DialingOK'
    BY <2>8, <2>9, <2>10, <2>11, <2>12 DEF DialingOK, vi, vo
  <2> QED BY <2>3, <2>4, <2>5, <2>13 DEF Story
<1>5. CASE p = "in"
  <2>0. uo # <<>> /\ vo = Tail(uo) /\ CalmQueue("in")
        /\ (Head(uo).type = "ADDRLIST" => Informed')
    BY <1>0, <1>5
  <2>1. /\ "ADDRLIST" \in TypesOf(vi) => "ADDRLIST" \in TypesOf(ui)
        /\ OnceIn(ui) => OnceIn(vi)
        /\ c2c["in"].state # "ACTIVE" => TypesOf(vi) \subseteq TypesOf(ui)
        /\ ui # <<>> /\ vi # <<>> => Head(vi) = Head(ui)
        /\ c2c["in"].state # "ACTIVE" /\ ui = <<>> => vi = <<>>
        /\ c2c'["in"].state \notin Dead /\ ui # <<>> => vi # <<>>
    BY <1>0, <1>1, <2>0, CalmQueueFacts
  <2> HIDE DEF ui, uo, vi, vo
  <2>2. TypesOf(vo) \subseteq TypesOf(uo) /\ TypesOf(uo) = {Head(uo).type} \cup TypesOf(vo)
        /\ (AnnouncedIn(uo) /\ Head(uo).type # "ADDRLIST" => AnnouncedIn(vo))
    BY <1>1, <2>0, TypesTail, TailContent
  <2>3. OpeningIn'
    BY <1>2, <2>1, <2>2 DEF Story, OpeningIn, CalmStates, Dead, ui, uo, vi, vo
  <2>4. OpeningOut'
    BY <1>2, <2>1 DEF Story, OpeningOut, CalmStates, Dead, ui, vi
  <2>5. AnnouncedOK'
    <3>1. ~Informed' => ~Informed /\ Head(uo).type # "ADDRLIST"
      BY <1>2, <1>3, <2>0 DEF Informed, CalmStates, ChanOK, Dead
    <3>2. c2c'["out"] = c2c["out"] /\ config' = config
      BY <1>0, <1>5 DEF CalmNet
    <3> QED BY <2>2, <3>1, <3>2 DEF Story, AnnouncedOK, uo, vo
  <2>6. MayDial' => MayDial
    BY <1>2, <2>1, <1>3 DEF MayDial, CalmStates, ChanOK, ui, vi
  <2>8. config'["in"] # "ALLOWINCOMING" => ~MayDial'
    BY <2>6 DEF Story, DialingOK, CalmNet
  <2>9. "FAILED" \in TypesOf(vo) => ~MayDial'
    BY <2>2, <2>6 DEF Story, DialingOK, uo
  <2>10. c2c'["out"].direct.is = "out" \/ c2c'["out"].directc2c_state = "FAILEDTOCONNECT"
           => "ADDRLIST" \notin TypesOf(vi)
    BY <1>0, <1>5, <2>1 DEF Story, DialingOK, ui
  <2>11. OnceIn(vi)
    BY <2>1 DEF Story, DialingOK, ui
  <2>12. net'["in"] # "none" => /\ ~MayDial'
                                /\ c2c'["in"].direct.is # "in"
                                /\ c2c'["in"].directc2c_state # "WAITINGINCOMING"
                                /\ c2c'["in"].state # "WAITINGC2CPROTOVER"
    BY <1>2, <1>3, <2>6 DEF Story, DialingOK, CalmNet, CalmStates, ChanOK, Dead
  <2>13. DialingOK'
    BY <2>8, <2>9, <2>10, <2>11, <2>12 DEF DialingOK, vi, vo
  <2> QED BY <2>3, <2>4, <2>5, <2>13 DEF Story
<1> QED BY <1>0, <1>4, <1>5


\* The caller learns the address of the called end and connects.
LEMMA OutDials ==
    ASSUME Basic, Basic', Story, c2c'["in"] = c2c["in"], config' = config,
           net'["in"] = net["in"], Unread("in") # <<>>, Head(Unread("in")).type = "ADDRLIST",
           Unread("in")' = Tail(Unread("in")), Unread("out")' = Unread("out"),
           c2c'["out"].state = c2c["out"].state
    PROVE  Story'
<1> DEFINE ui == Unread("in")
           uo == Unread("out")
           vi == Unread("in")'
           vo == Unread("out")'
<1>1. ui \in Pipe /\ uo \in Pipe
  BY TwoEnds, UnreadTyped
<1>2. ui # <<>> /\ vi = Tail(ui) /\ vo = uo /\ Head(ui).type = "ADDRLIST"
  OBVIOUS
<1> HIDE DEF ui, uo, vi, vo
<1>3. TypesOf(vi) \subseteq TypesOf(ui) /\ (OnceIn(ui) => OnceIn(vi))
      /\ "ADDRLIST" \in TypesOf(ui) /\ (OnceIn(ui) => "ADDRLIST" \notin TypesOf(vi))
  BY <1>1, <1>2, TypesTail, TailContent
<1>4. MayDial /\ DialingOK
  BY <1>3 DEF MayDial, Story, ui
<1>5. OpeningIn'
  BY <1>3 DEF Story, OpeningIn, ui
<1>6. OpeningOut'
  BY <1>2 DEF Story, OpeningOut, ui
<1>7. AnnouncedOK'
  BY <1>2 DEF Story, AnnouncedOK, Informed, uo, vo
<1>8. DialingOK'
  BY <1>2, <1>3, <1>4 DEF DialingOK, uo, vo, ui, vi
<1> QED BY <1>5, <1>6, <1>7, <1>8 DEF Story

\* The called end connects: the caller will not.
LEMMA InDials ==
    ASSUME Basic, Basic', Story, c2c'["out"] = c2c["out"], config' = config,
           Unread("out") # <<>>, Head(Unread("out")).type \in {"ADDRLIST", "FAILED"},
           config["in"] # "ALLOWINCOMING" \/ Head(Unread("out")).type = "FAILED",
           Unread("out")' = Tail(Unread("out")), Unread("in")' = Unread("in"),
           c2c'["in"].state = c2c["in"].state, c2c'["in"].directc2c_state = "CONNECTING",
           c2c'["in"].direct.is = "out"
    PROVE  Story'
<1> DEFINE ui == Unread("in")
           uo == Unread("out")
           vi == Unread("in")'
           vo == Unread("out")'
<1>1. ui \in Pipe /\ uo \in Pipe
  BY TwoEnds, UnreadTyped
<1>2. uo # <<>> /\ vo = Tail(uo) /\ vi = ui /\ Head(uo).type \in {"ADDRLIST", "FAILED"}
      /\ (config["in"] # "ALLOWINCOMING" \/ Head(uo).type = "FAILED")
  OBVIOUS
<1> HIDE DEF ui, uo, vi, vo
<1>3. TypesOf(vo) \subseteq TypesOf(uo) /\ Head(uo).type \in TypesOf(uo)
  BY <1>1, <1>2, TypesTail
<1>4. ~MayDial /\ DialingOK /\ ~MayDial'
  BY <1>2, <1>3 DEF MayDial, Story, DialingOK, uo, ui, vi
<1>5. c2c["in"].state # "WAITINGC2CPROTOVER"
  BY <1>2, <1>3 DEF Story, OpeningIn, uo
<1>6. OpeningIn'
  BY <1>5 DEF OpeningIn
<1>7. OpeningOut'
  BY <1>2 DEF Story, OpeningOut, ui, vi
<1>8. AnnouncedOK'
  BY <1>5 DEF AnnouncedOK, Informed
<1>9. DialingOK'
  BY <1>2, <1>3, <1>4, <1>5 DEF DialingOK, uo, vo, ui, vi
<1> QED BY <1>6, <1>7, <1>8, <1>9 DEF Story

\* The caller is told that the called end agrees, and sends its address if it may.
LEMMA OutAgrees ==
    ASSUME Basic, Basic', Story, c2c'["in"] = c2c["in"], config' = config,
           net'["in"] = net["in"], Unread("in") # <<>>, Head(Unread("in")).type = "INITRESPOK",
           Unread("in")' = Tail(Unread("in")),
           NEW w \in Pipe, Unread("out")' = Unread("out") \o w,
           TypesOf(w) \subseteq {"ADDRLIST"},
           config["out"] = "ALLOWINCOMING" => "ADDRLIST" \in TypesOf(w),
           c2c["out"].state = "WAITINGREP", c2c'["out"].state = "ACTIVE",
           c2c'["out"].direct = c2c["out"].direct,
           c2c'["out"].directc2c_state \in {"INACTIVE", "WAITINGINCOMING"}
    PROVE  Story'
<1> DEFINE ui == Unread("in")
           uo == Unread("out")
           vi == Unread("in")'
           vo == Unread("out")'
<1>1. ui \in Pipe /\ uo \in Pipe
  BY TwoEnds, UnreadTyped
<1>2. ui # <<>> /\ vi = Tail(ui) /\ vo = uo \o w /\ Head(ui).type = "INITRESPOK"
  OBVIOUS
<1>3. ChanOK("out", c2c["out"]) /\ ChanOK("out", c2c["out"])'
  BY TwoEnds DEF Basic, EndOK
<1> HIDE DEF ui, uo, vi, vo
<1>4. TypesOf(vi) \subseteq TypesOf(ui) /\ (OnceIn(ui) => OnceIn(vi))
      /\ "INITRESPOK" \in TypesOf(ui)
  BY <1>1, <1>2, TypesTail, TailContent
<1>5. TypesOf(vo) = TypesOf(uo) \cup TypesOf(w) /\ (AnnouncedIn(uo) => AnnouncedIn(vo))
  BY <1>1, <1>2, TypesConcat, ConcatContent
<1>6. MayDial' => MayDial
  BY <1>4 DEF MayDial, ui, vi
<1>7. c2c'["out"].direct.is # "out"
  BY <1>3 DEF ChanOK
<1>8. OpeningIn'
  BY <1>4 DEF Story, OpeningIn, ui
<1>9. OpeningOut'
  BY DEF OpeningOut
<1>10. AnnouncedOK'
  BY <1>5 DEF Story, AnnouncedOK, Informed, uo, vo
<1>11. DialingOK'
  BY <1>4, <1>5, <1>6, <1>7 DEF Story, DialingOK, uo, vo, ui, vi
<1> QED BY <1>8, <1>9, <1>10, <1>11 DEF Story

\* The called end agrees on the version, or does not.
LEMMA InAnswers ==
    ASSUME Basic, Basic', Story, c2c'["out"] = c2c["out"], config' = config,
           net'["in"] = net["in"], Unread("out") # <<>>, Unread("out")' = Tail(Unread("out")),
           NEW w \in Pipe, Unread("in")' = Unread("in") \o w, w # <<>>, OnceIn(w),
           c2c["in"].state = "WAITINGC2CPROTOVER", c2c'["in"].direct = c2c["in"].direct,
           \/ /\ c2c'["in"].state = "ACTIVE"
              /\ TypesOf(w) \subseteq {"INITRESPOK", "ADDRLIST"} /\ Head(w).type = "INITRESPOK"
              /\ config["in"] # "ALLOWINCOMING" => "ADDRLIST" \notin TypesOf(w)
           \/ c2c'["in"].state = "WAITINGC2CPROTOVER" /\ TypesOf(w) \subseteq {"VERDIFFER"}
    PROVE  Story'
<1> DEFINE ui == Unread("in")
           uo == Unread("out")
           vi == Unread("in")'
           vo == Unread("out")'
<1>1. ui \in Pipe /\ uo \in Pipe
  BY TwoEnds, UnreadTyped
<1>2. uo # <<>> /\ vo = Tail(uo) /\ vi = ui \o w
  OBVIOUS
<1>3. ChanOK("out", c2c["out"])
  BY TwoEnds DEF Basic, EndOK
<1> HIDE DEF ui, uo, vi, vo
<1>4. /\ c2c["out"].state # "ACTIVE" /\ c2c["out"].directc2c_state = "INACTIVE"
      /\ TypesOf(uo) \subseteq {"C2CCONNREQ", "C2CCONNREQ-other"}
      /\ TypesOf(ui) \subseteq {"VERDIFFER"} /\ net["in"] = "none"
  BY DEF Story, OpeningIn, DialingOK, ui, uo
<1>5. c2c["out"].direct.is # "out"
  BY <1>3, <1>4 DEF ChanOK
<1>6. TypesOf(vo) \subseteq TypesOf(uo) /\ vo \in Pipe
  BY <1>1, <1>2, TypesTail
<1>7. TypesOf(vi) = TypesOf(ui) \cup TypesOf(w)
  BY <1>1, <1>2, TypesConcat
<1>8. (ui # <<>> => vi # <<>> /\ Head(vi) = Head(ui)) /\ (ui = <<>> => vi = w)
      /\ OnceIn(vi)
  BY <1>1, <1>2, <1>4, ConcatContent
<1>9. (ui # <<>> => Head(ui).type = "VERDIFFER") /\ Head(w).type \in TypesOf(w)
  BY <1>1, <1>4, TypesTail
<1>10. AnnouncedIn(vo) /\ "FAILED" \notin TypesOf(vo)
  BY <1>4, <1>6, TypesSome DEF AnnouncedIn
<1>11. OpeningIn'
  BY <1>4, <1>6, <1>7 DEF OpeningIn, vi, vo
<1>12. OpeningOut'
  BY <1>8, <1>9 DEF OpeningOut, vi
<1>13. AnnouncedOK'
  BY <1>4, <1>10 DEF AnnouncedOK, vo
<1>14. DialingOK'
  BY <1>4, <1>5, <1>7, <1>8, <1>10 DEF DialingOK, MayDial, vo, vi
<1> QED BY <1>11, <1>12, <1>13, <1>14 DEF Story


-----------------------------------------------------------------------------
(* While nothing breaks, an accepted connection is one its maker keeps.    *)

FaultlessOK(p) ==
    faults = 0 =>
        /\ net[p] # "broken"
        /\ c2c[p].state # "CRASHED"
        /\ net[p] = "closed" => \/ ~Alive(p)
                                \/ ~Running(Other(p))
                                \/ accepted[Other(p)] = "served"
        /\ accepted[p] = "ACTIVE" /\ Running(p) => Handshaking(Other(p))
        /\ c2c[p].direct.is = "in" => Handshaking(Other(p))
        /\ c2c[p].switched_read =>
             c2c[p].directc2c_state = "ACTIVE" \/ c2c[Other(p)].direct.is = "in"

Faultless == \A p \in Ends : FaultlessOK(p)

Inv == Basic /\ Story /\ Faultless

\* What a step of the connections may do to end e.
Sound(e) ==
    /\ net'[e] = "broken" => net[e] = "broken"
    /\ c2c'[e].state = "CRASHED" => c2c[e].state = "CRASHED"
    /\ net'[e] = "closed" => \/ net[e] = "closed"
                             \/ ~Alive(e)'
                             \/ ~Running(Other(e))'
                             \/ accepted'[Other(e)] = "served"
    /\ Alive(e)' => Alive(e)
    /\ Running(e)' => Running(e)
    /\ accepted[e] = "served" => accepted'[e] = "served"
    /\ accepted'[e] = "ACTIVE" => accepted[e] = "ACTIVE" \/ Handshaking(Other(e))
    /\ c2c'[e].direct.is = "in" => \/ c2c[e].direct.is = "in"
                                   \/ accepted[e] = "ACTIVE" /\ Running(e)
    /\ c2c'[e].switched_read => \/ c2c[e].switched_read
                                \/ c2c'[e].directc2c_state = "ACTIVE"
                                \/ c2c[Other(e)].direct.is = "in"
    /\ c2c[e].directc2c_state = "ACTIVE" => c2c'[e].directc2c_state = "ACTIVE"
    /\ c2c[e].direct.is = "in" => c2c'[e].direct.is = "in"
    /\ Handshaking(e) => \/ Handshaking(e)'
                         \/ accepted'[Other(e)] # "served" /\ ~Running(Other(e))'

LEMMA FaultlessKeeps ==
    ASSUME Basic, Basic', Faultless, faults' = 0 => faults = 0 /\ \A e \in Ends : Sound(e)
    PROVE  Faultless'
<1> SUFFICES ASSUME faults' = 0, NEW p \in Ends
             PROVE  FaultlessOK(p)'
  BY DEF Faultless, FaultlessOK
<1> DEFINE q == Other(p)
<1>1. q \in Ends /\ Other(q) = p
  BY TwoEnds
<1>2. Sound(p) /\ Sound(q) /\ faults = 0
  BY <1>1
<1>3. FaultlessOK(p) /\ FaultlessOK(q) /\ NetOK(p)'
  BY <1>1 DEF Faultless, Basic, EndOK
<1> HIDE DEF q
<1>4. /\ net'[p] # "broken" /\ c2c'[p].state # "CRASHED"
      /\ net'[p] = "closed" => \/ ~Alive(p)' \/ ~Running(q)' \/ accepted'[q] = "served"
  BY <1>2, <1>3 DEF Sound, FaultlessOK, q
<1>5. (accepted'[p] = "ACTIVE" /\ Running(p)') \/ c2c'[p].direct.is = "in" => Handshaking(q)
  BY <1>2, <1>3 DEF Sound, FaultlessOK, q
<1>6. c2c'[p].direct.is = "in" => accepted'[p] = "served"
  BY <1>3 DEF NetOK
<1>7. Handshaking(q) => Handshaking(q)' \/ (accepted'[p] # "served" /\ ~Running(p)')
  BY <1>1, <1>2 DEF Sound
<1>8. c2c'[p].switched_read => c2c'[p].directc2c_state = "ACTIVE" \/ c2c'[q].direct.is = "in"
  BY <1>2, <1>3 DEF Sound, FaultlessOK, q
<1> QED BY <1>4, <1>5, <1>6, <1>7, <1>8 DEF FaultlessOK, q

\* The two ends never both connect, and never both accept.
LEMMA OneMaker ==
    ASSUME Basic, Story
    PROVE  /\ c2c["in"].direct.is = "out" => c2c["out"].direct.is # "out"
           /\ c2c["in"].direct.is = "in" => c2c["out"].direct.is # "in"
<1>1. NetOK("in") /\ NetOK("out") /\ Other("in") = "out" /\ Other("out") = "in"
  BY TwoEnds DEF Basic, EndOK
<1> QED BY <1>1 DEF NetOK, Story, DialingOK, MayDial

-----------------------------------------------------------------------------
(* Steps of the FIFO channel.                                              *)

FifoStep == [Fifo!FifoNext]_(Fifo!fifoVars)

LEMMA FifoStutter ==
    ASSUME \A e \in Ends : (Alive(e)' <=> Alive(e)) /\ UnderWay(e)' = UnderWay(e), got' = got
    PROVE  FifoStep
<1>1. [e \in Ends |-> Alive(e)]' = [e \in Ends |-> Alive(e)]
  BY Zenon DEF Alive
<1>2. [e \in Ends |-> UnderWay(e)]' = [e \in Ends |-> UnderWay(e)]
  OBVIOUS
<1> QED BY <1>1, <1>2 DEF FifoStep, Fifo!fifoVars

LEMMA FifoClose ==
    ASSUME NEW p \in Ends, Alive(p), ~Alive(p)', Alive(Other(p))' <=> Alive(Other(p)),
           UnderWay(Other(p))' = UnderWay(Other(p)), UnderWay(p)' \in Prefixes(UnderWay(p)),
           got' = got
    PROVE  FifoStep
<1> DEFINE op == [e \in Ends |-> Alive(e)]
           qu == [e \in Ends |-> UnderWay(e)]
<1>1. op' = [op EXCEPT ![p] = FALSE]
  <2>1. \A e \in Ends : Alive(e)' = IF e = p THEN FALSE ELSE Alive(e)
    BY TwoEnds, Zenon DEF Alive
  <2> QED BY <2>1
<1>2. qu' = [qu EXCEPT ![p] = UnderWay(p)']
  BY TwoEnds
<1>3. op[p] /\ qu[p] = UnderWay(p)
  OBVIOUS
<1>4. UnderWay(p)' \in Fifo!Prefixes(UnderWay(p))
  BY DEF Prefixes, Fifo!Prefixes
<1>5. Fifo!Close(p)
  <2>1. UnderWay(p)' \in Fifo!Prefixes(qu[p]) /\ op[p] /\ got' = got
    BY <1>3, <1>4
  <2>2. \E kept \in Fifo!Prefixes(qu[p]) : qu' = [qu EXCEPT ![p] = kept]
    BY <1>2, <2>1
  <2> QED BY <1>1, <2>1, <2>2, Zenon DEF Fifo!Close
<1> QED BY <1>5 DEF FifoStep, Fifo!FifoNext

LEMMA FifoSend ==
    ASSUME NEW p \in Ends, NEW m \in Texts, Alive(p), \A e \in Ends : Alive(e)' <=> Alive(e),
           UnderWay(Other(p))' = UnderWay(Other(p)), UnderWay(p)' = Append(UnderWay(p), m),
           got' = got
    PROVE  FifoStep
<1> DEFINE op == [e \in Ends |-> Alive(e)]
           qu == [e \in Ends |-> UnderWay(e)]
<1>1. op' = op
  BY Zenon DEF Alive
<1>2. qu' = [qu EXCEPT ![p] = Append(UnderWay(p), m)]
  BY TwoEnds
<1>3. op[p] /\ qu[p] = UnderWay(p)
  OBVIOUS
<1>4. Fifo!Send(p, m)
  BY <1>1, <1>2, <1>3 DEF Fifo!Send
<1> QED BY <1>4 DEF FifoStep, Fifo!FifoNext

LEMMA FifoReceive ==
    ASSUME NEW p \in Ends, Alive(p), \A e \in Ends : Alive(e)' <=> Alive(e),
           UnderWay(Other(p)) # <<>>,
           UnderWay(Other(p))' = Tail(UnderWay(Other(p))), UnderWay(p)' = UnderWay(p),
           got' = [got EXCEPT ![p] = Append(@, Head(UnderWay(Other(p))))]
    PROVE  FifoStep
<1> DEFINE op == [e \in Ends |-> Alive(e)]
           qu == [e \in Ends |-> UnderWay(e)]
           q == Other(p)
<1>0. q \in Ends /\ q # p
  BY TwoEnds
<1>1. op' = op
  BY Zenon DEF Alive
<1>2. qu' = [qu EXCEPT ![q] = Tail(UnderWay(q))]
  <2>1. \A e \in Ends : e = p \/ e = q
    BY TwoEnds
  <2> QED BY <1>0, <2>1
<1>3. op[p] /\ qu[q] = UnderWay(q)
  BY <1>0
<1>4. Fifo!Receive(p, q)
  BY <1>0, <1>1, <1>2, <1>3 DEF Fifo!Receive
<1> QED BY <1>0, <1>4 DEF FifoStep, Fifo!FifoNext


-----------------------------------------------------------------------------
(* The steps of an end on its own channel.                                 *)

LEMMA OthersCalm ==
    ASSUME NEW e \in Ends, c2c'[e] = c2c[e], Unread(e)' = Unread(e)
    PROVE  CalmStates(e) /\ CalmQueue(e)
BY DEF CalmStates, CalmQueue

LEMMA SameTexts ==
    ASSUME NEW e \in Ends, Unread(e)' = Unread(e)
    PROVE  UnderWay(e)' = UnderWay(e)
BY DEF UnderWay

LEMMA NoTexts ==
    ASSUME NEW w \in Pipe, "MSGUTF8" \notin TypesOf(w), NEW u \in Pipe
    PROVE  OnlyTexts(w) = <<>> /\ OnlyTexts(u \o w) = OnlyTexts(u)
<1>1. \A i \in DOMAIN w : w[i].type # "MSGUTF8"
  BY DEF TypesOf
<1>2. OnlyTexts(w) = <<>>
  <2> DEFINE f == [i \in DOMAIN w |-> IF w[i].type = "MSGUTF8" THEN <<w[i]>> ELSE <<>>]
             g == [i \in 1 .. Len(w) |-> <<>>]
  <2>1. DOMAIN w = 1 .. Len(w) /\ Len(w) \in Nat /\ <<>> \in Seq(Msg) /\ <<>> \o <<>> = <<>>
    BY DEF Pipe
  <2>2. f = g
    BY <1>1, <2>1
  <2>3. g \in Seq(Seq(Msg)) /\ Len(g) = Len(w)
    BY <2>1
  <2>4. \A i \in 1 .. Len(w) : i # 1 => g[i - 1] = <<>>
    BY <2>1
  <2>5. Flats(g, g)
    BY <2>1, <2>3, <2>4 DEF Flats
  <2>6. CASE Len(w) > 0
    <3>1. OnlyTexts(w) = FlattenSeq(g)
      BY <2>2 DEF OnlyTexts
    <3>2. g[Len(w)] = <<>>
      BY <2>1, <2>6
    <3> HIDE DEF g
    <3>3. FlattenSeq(g) = g[Len(g)]
      BY <2>1, <2>3, <2>5, <2>6, FlattenIs
    <3> QED BY <2>3, <3>1, <3>2, <3>3
  <2>7. CASE Len(w) = 0
    BY <2>7, TextsEmpty DEF Pipe
  <2> QED BY <2>1, <2>6, <2>7
<1>3. OnlyTexts(u) \in Seq(Msg)
  BY TextsTyped DEF Pipe
<1>4. OnlyTexts(u \o w) = OnlyTexts(u) \o OnlyTexts(w)
  BY TextsConcat DEF Pipe
<1> QED BY <1>2, <1>3, <1>4

\* Nothing is sent.
LEMMA OwnSame ==
    ASSUME Basic, Story, NEW p \in Ends, NEW d, Refitted(p, d), Rewired(p, d),
           UNCHANGED got, texts' \in [Ends -> Nat], faults' \in Nat, blocked' \in Nat,
           BufferedIn(d) = BufferedIn(c2c[p]),
           c2c'[p] = d => CalmStates(p), net'["in"] # "none" => net["in"] # "none"
    PROVE  /\ Basic' /\ Story' /\ c2c'[p] = d /\ c2c'[Other(p)] = c2c[Other(p)]
           /\ \A e \in Ends : UnderWay(e)' = UnderWay(e)
<1> DEFINE q == Other(p)
<1>1. q \in Ends /\ \A e \in Ends : e = p \/ e = q
  BY TwoEnds
<1>2. /\ Basic' /\ c2c'[p] = d /\ c2c'[q] = c2c[q] /\ Unread(q)' = Unread(q)
      /\ \A w \in Pipe : BufferedIn(d) = BufferedIn(c2c[p]) \o w => Unread(p)' = Unread(p) \o w
  BY OwnStep
<1>3. <<>> \in Pipe /\ Unread(p) \in Seq(Msg) /\ BufferedIn(c2c[p]) \in Seq(Msg)
  BY UnreadTyped DEF Pipe
<1>4. BufferedIn(d) = BufferedIn(c2c[p]) \o <<>> /\ Unread(p) \o <<>> = Unread(p)
  BY <1>3
<1>5. Unread(p)' = Unread(p)
  BY <1>2, <1>3, <1>4
<1> HIDE DEF q
<1>6. \A e \in Ends : CalmStates(e) /\ CalmQueue(e)
  BY <1>1, <1>2, <1>5, OthersCalm DEF CalmQueue
<1>7. CalmNet
  BY DEF CalmNet, Refitted
<1>8. Story'
  BY <1>2, <1>6, <1>7, CalmKeeps
<1> QED BY <1>1, <1>2, <1>5, <1>8, SameTexts DEF q

\* A message is put in the write buffer.
LEMMA OwnSends ==
    ASSUME Basic, Story, NEW p \in Ends, NEW d, Refitted(p, d), Rewired(p, d),
           UNCHANGED got, texts' \in [Ends -> Nat], faults' \in Nat, blocked' \in Nat,
           NEW m \in Msg, BufferedIn(d) = Append(BufferedIn(c2c[p]), m),
           c2c[p].state = "ACTIVE",
           \/ m.type \in {"MSGUTF8", "SWITCH"}
           \/ /\ m.type = "FAILED" /\ p = "out" /\ config[p] = "ALLOWINCOMING"
              /\ c2c[p].directc2c_state = "FAILEDTOCONNECT",
           c2c'[p] = d => CalmStates(p), net'["in"] # "none" => net["in"] # "none"
    PROVE  /\ Basic' /\ Story' /\ c2c'[p] = d /\ c2c'[Other(p)] = c2c[Other(p)]
           /\ UnderWay(Other(p))' = UnderWay(Other(p))
           /\ UnderWay(p)' = UnderWay(p) \o PartOf(m)
<1> DEFINE q == Other(p)
<1>1. q \in Ends /\ \A e \in Ends : e = p \/ e = q
  BY TwoEnds
<1>2. /\ Basic' /\ c2c'[p] = d /\ c2c'[q] = c2c[q] /\ Unread(q)' = Unread(q)
      /\ \A w \in Pipe : BufferedIn(d) = BufferedIn(c2c[p]) \o w => Unread(p)' = Unread(p) \o w
  BY OwnStep
<1>3. <<m>> \in Pipe /\ TypesOf(<<m>>) = {m.type}
      /\ Unread(p) \in Seq(Msg) /\ BufferedIn(c2c[p]) \in Seq(Msg) /\ <<m>> \in Seq(Msg)
  BY UnreadTyped, TypesFew DEF Pipe
<1>4. BufferedIn(d) = BufferedIn(c2c[p]) \o <<m>>
  BY <1>3
<1>5. Unread(p)' = Unread(p) \o <<m>>
  BY <1>2, <1>3, <1>4
<1> HIDE DEF q
<1>6. CalmQueue(p)
  BY <1>3, <1>5 DEF CalmQueue
<1>7. \A e \in Ends : CalmStates(e) /\ CalmQueue(e)
  BY <1>1, <1>2, <1>6, OthersCalm
<1>8. CalmNet
  BY DEF CalmNet, Refitted
<1>9. Story'
  BY <1>2, <1>7, <1>8, CalmKeeps
<1>10. UnderWay(q)' = UnderWay(q)
  BY <1>1, <1>2, SameTexts
<1>11. UnderWay(p)' = UnderWay(p) \o PartOf(m)
  <2>1. OnlyTexts(Unread(p) \o <<m>>) = OnlyTexts(Unread(p)) \o OnlyTexts(<<m>>)
    BY <1>3, TextsConcat
  <2>2. OnlyTexts(<<m>>) = PartOf(m)
    BY TextsOne
  <2> QED BY <1>5, <2>1, <2>2 DEF UnderWay
<1> QED BY <1>2, <1>9, <1>10, <1>11 DEF q


\* An end goes: what it has not written is lost.
LEMMA OwnGone ==
    ASSUME Basic, Story, NEW p \in Ends, NEW st \in Dead,
           c2c' = [c2c EXCEPT ![p] = Gone(@, st)], net' = Sockets(p, st),
           UNCHANGED <<config, accepted, relay, link, got, texts, blocked>>, faults' \in Nat
    PROVE  /\ Basic' /\ Story' /\ c2c'[Other(p)] = c2c[Other(p)]
           /\ c2c'[p].state = st /\ c2c'[p].directc2c_state = c2c[p].directc2c_state
           /\ c2c'[p].direct = c2c[p].direct
           /\ c2c'[p].switched_read = c2c[p].switched_read
           /\ UnderWay(Other(p))' = UnderWay(Other(p))
           /\ UnderWay(p)' \in Prefixes(UnderWay(p))
<1> DEFINE q == Other(p)
           c == c2c[p]
           d == Gone(c, st)
<1>1. q \in Ends /\ \A e \in Ends : e = p \/ e = q
  BY TwoEnds
<1>2. c \in Chan /\ ChanOK(p, c) /\ Types /\ NetOK(p) /\ c2c' = [c2c EXCEPT ![p] = d]
  BY DEF Basic, EndOK, Types
<1>3. /\ d \in Chan /\ BufOK(d) /\ MarkOK(d) /\ BufferedIn(d) = <<>>
      /\ d.state = st /\ d.barrier_pos = 0
      /\ \A f \in {"directc2c_state", "direct", "switched_write", "switched_read"} : d[f] = c[f]
  BY <1>2, GoneKeeps DEF Dead
<1> HIDE DEF d, q
<1>4. /\ d.directc2c_state = c.directc2c_state /\ d.direct = c.direct
      /\ d.switched_write = c.switched_write /\ d.switched_read = c.switched_read
  BY <1>3
<1>5. ChanOK(p, d)
  BY <1>2, <1>3, <1>4 DEF ChanOK, Committed, Dead
<1>6. Refitted(p, d)
  BY <1>2, <1>3, <1>4, <1>5 DEF Refitted
<1>7. /\ net' \in [Ends -> {"none", "syn", "up", "refused", "closed", "broken"}]
      /\ \A e \in Ends : net'[e] = net[e] \/ (net[e] # "none" /\ net'[e] # "none")
  BY <1>2 DEF Types, Sockets
<1>8. Rewired(p, d)
  BY <1>2, <1>4, <1>7 DEF Rewired, Types, NetOK
<1>9. /\ Basic' /\ c2c'[p] = d /\ c2c'[q] = c2c[q] /\ Unread(q)' = Unread(q)
      /\ Unread(p) = Unread(p)' \o BufferedIn(c2c[p])
  BY <1>2, <1>3, <1>6, <1>8, OwnStep DEF q, Types
<1>10. CalmStates(p) /\ CalmQueue(p)
  <2>1. BufferedIn(c2c[p]) \in Pipe
    BY UnreadTyped
  <2> QED BY <1>3, <1>4, <1>9, <2>1 DEF CalmStates, CalmQueue
<1>11. \A e \in Ends : CalmStates(e) /\ CalmQueue(e)
  BY <1>1, <1>9, <1>10, OthersCalm
<1>12. CalmNet
  <2>1. "in" \in Ends
    BY TwoEnds
  <2> QED BY <1>7, <2>1 DEF CalmNet
<1>13. Story'
  BY <1>9, <1>11, <1>12, CalmKeeps
<1>14. UnderWay(q)' = UnderWay(q)
  BY <1>1, <1>9, SameTexts
<1>15. UnderWay(p)' \in Prefixes(UnderWay(p))
  <2> DEFINE v == Unread(p)'
             b == BufferedIn(c2c[p])
  <2>1. v \in Seq(Msg) /\ b \in Seq(Msg) /\ Unread(p) = v \o b
    BY <1>9, UnreadTyped, UnreadTypedNext DEF Pipe
  <2> HIDE DEF v, b
  <2>2. OnlyTexts(v) \in Prefixes(OnlyTexts(v \o b))
    BY <2>1, TextsPrefix
  <2> QED BY <2>1, <2>2 DEF UnderWay, v
<1> QED BY <1>3, <1>4, <1>9, <1>13, <1>14, <1>15 DEF q

\* The sockets of an end that goes are closed.
LEMMA GoneSound ==
    ASSUME Basic, NEW p \in Ends, NEW st \in {"CLOSED", "EXITED"}, Alive(p),
           net' = Sockets(p, st), accepted' = accepted, c2c'[Other(p)] = c2c[Other(p)],
           c2c'[p].state = st, c2c'[p].directc2c_state = c2c[p].directc2c_state,
           c2c'[p].direct = c2c[p].direct, c2c'[p].switched_read = c2c[p].switched_read
    PROVE  \A e \in Ends : Sound(e)
<1> DEFINE q == Other(p)
<1>1. q \in Ends /\ Other(q) = p /\ \A e \in Ends : e = p \/ e = q
  BY TwoEnds
<1> HIDE DEF q
<1>2. ~Alive(p)' /\ (Alive(q)' <=> Alive(q)) /\ (Running(p)' <=> st = "CLOSED")
      /\ (Running(q)' <=> Running(q))
  BY DEF Alive, Running, q
<1>3. NetOK(p) /\ Types
  BY DEF Basic, EndOK
<1>4. \A e \in Ends : net'[e] # net[e] =>
        net'[e] = "closed" /\ (st # "CLOSED" \/ (Connected(p) /\ Connection(p) = e))
  BY <1>3 DEF Sockets, Types
<1>5. Sound(p)
  <2>1. net'[p] = "broken" => net[p] = "broken"
    BY <1>4
  <2>2. Handshaking(p)' <=> Handshaking(p)
    BY DEF Handshaking
  <2>3. Running(p)' => Running(p)
    BY DEF Alive, Running
  <2> QED BY <1>2, <2>1, <2>2, <2>3 DEF Sound
<1>6. Sound(q)
  <2>1. net'[q] = "broken" => net[q] = "broken"
    BY <1>1, <1>4
  <2>2. Handshaking(q)' <=> Handshaking(q)
    BY DEF Handshaking, q
  <2>3. net'[q] = "closed" => net[q] = "closed" \/ ~Running(p)' \/ accepted'[p] = "served"
    <3>1. CASE st # "CLOSED"
      BY <1>2, <3>1
    <3>2. CASE st = "CLOSED" /\ net'[q] # net[q]
      <4>1. Connected(p) /\ Connection(p) = q
        BY <1>1, <1>4, <3>2
      <4>2. c2c[p].direct.is = "in"
        BY <4>1, TwoEnds DEF Connection, q
      <4> QED BY <1>3, <4>2 DEF NetOK
    <3> QED BY <3>1, <3>2
  <2>4. c2c'[q] = c2c[q]
    BY DEF q
  <2> QED BY <1>1, <1>2, <2>1, <2>2, <2>3, <2>4 DEF Sound
<1> QED BY <1>1, <1>5, <1>6

LEMMA CloseStep ==
    ASSUME Inv, NEW p \in Ends, NEW st \in Dead, Alive(p),
           c2c' = [c2c EXCEPT ![p] = Gone(@, st)], net' = Sockets(p, st),
           UNCHANGED <<config, accepted, relay, link, got, texts, blocked>>, faults' \in Nat,
           faults' = 0 => faults = 0 /\ st # "CRASHED"
    PROVE  Inv' /\ FifoStep
<1> DEFINE q == Other(p)
<1>1. /\ Basic' /\ Story' /\ c2c'[q] = c2c[q]
      /\ c2c'[p].state = st /\ c2c'[p].directc2c_state = c2c[p].directc2c_state
      /\ c2c'[p].direct = c2c[p].direct
      /\ c2c'[p].switched_read = c2c[p].switched_read
      /\ UnderWay(q)' = UnderWay(q)
      /\ UnderWay(p)' \in Prefixes(UnderWay(p))
  BY OwnGone DEF Inv
<1> HIDE DEF q
<1>2. ~Alive(p)' /\ (Alive(q)' <=> Alive(q))
  BY <1>1 DEF Alive, Dead
<1>3. FifoStep
  BY <1>1, <1>2, FifoClose DEF q
<1>4. st # "CRASHED" => \A e \in Ends : Sound(e)
  BY <1>1, GoneSound DEF Dead, Inv, q
<1>5. Faultless'
  BY <1>1, <1>4, FaultlessKeeps DEF Inv
<1> QED BY <1>1, <1>3, <1>5 DEF Inv

\* A step that sends nothing and closes nothing at its own end.
LEMMA ControlStep ==
    ASSUME Inv, NEW p \in Ends, NEW d, Refitted(p, d), Rewired(p, d),
           UNCHANGED <<got, texts>>, faults' \in Nat, blocked' \in Nat,
           BufferedIn(d) = BufferedIn(c2c[p]), d.state = c2c[p].state,
           c2c'[p] = d => CalmStates(p), net'["in"] # "none" => net["in"] # "none",
           c2c'[p] = d /\ c2c'[Other(p)] = c2c[Other(p)]
             => (faults' = 0 => faults = 0 /\ \A e \in Ends : Sound(e))
    PROVE  Inv' /\ FifoStep
<1> DEFINE q == Other(p)
<1>1. q \in Ends /\ Other(q) = p /\ \A e \in Ends : e = p \/ e = q
  BY TwoEnds
<1>2. texts' \in [Ends -> Nat]
  BY DEF Inv, Basic, Types
<1>3. /\ Basic' /\ Story' /\ c2c'[p] = d /\ c2c'[q] = c2c[q]
      /\ \A e \in Ends : UnderWay(e)' = UnderWay(e)
  BY <1>2, OwnSame DEF Inv
<1> HIDE DEF q
<1>4. \A e \in Ends : Alive(e)' <=> Alive(e)
  BY <1>1, <1>3 DEF Alive
<1>5. FifoStep
  BY <1>3, <1>4, FifoStutter
<1>6. Faultless'
  BY <1>3, FaultlessKeeps DEF Inv, q
<1> QED BY <1>3, <1>5, <1>6 DEF Inv

\* A step of the network or of a listener.
LEMMA NetStep ==
    ASSUME Inv, c2c' = c2c, UNCHANGED <<config, relay, link, got, texts, blocked>>,
           faults' \in Nat,
           accepted' \in [Ends -> {"none", "WAITINGTLS", "ACTIVE", "failed", "served"}],
           net' \in [Ends -> {"none", "syn", "up", "refused", "closed", "broken"}],
           \A e \in Ends :
             /\ net'[e] # "none" <=> net[e] # "none"
             /\ accepted[e] = "served" => accepted'[e] = "served"
             /\ accepted'[e] # "none" => accepted[e] # "none" \/ net[Other(e)] # "none",
           faults' = 0 => /\ faults = 0
                          /\ \A e \in Ends :
                               /\ net'[e] = "broken" => net[e] = "broken"
                               /\ net'[e] = "closed" => \/ net[e] = "closed"
                                                        \/ accepted'[Other(e)] = "served"
                               /\ accepted'[e] = "ACTIVE" => \/ accepted[e] = "ACTIVE"
                                                             \/ Handshaking(Other(e))
    PROVE  Inv' /\ FifoStep
<1> DEFINE p == "in"
           d == c2c["in"]
<1>1. p \in Ends /\ Types /\ EndOK(p) /\ d \in Chan
  BY TwoEnds DEF Inv, Basic, Types
<1>2. c2c' = [c2c EXCEPT ![p] = d]
  BY <1>1 DEF Types
<1>3. Refitted(p, d)
  BY <1>1, <1>2 DEF Refitted, EndOK
<1>4. Rewired(p, d)
  BY <1>1 DEF Rewired, EndOK, NetOK
<1>5. \A e \in Ends : CalmStates(e)
  BY DEF CalmStates
<1>6. faults' = 0 => faults = 0 /\ \A e \in Ends : Sound(e)
  BY DEF Sound, Handshaking, Running, Alive
<1>7. blocked' \in Nat
  BY <1>1 DEF Types
<1> QED BY <1>1, <1>3, <1>4, <1>5, <1>6, <1>7, ControlStep

LEMMA ListenerAdds ==
    ASSUME Inv, NEW p \in Ends, listener_add_connection(p)
    PROVE  Inv' /\ FifoStep
<1>1. Types /\ faults' \in Nat
  BY DEF Inv, Basic, Types, listener_add_connection
<1>2. /\ accepted' = [accepted EXCEPT ![p] = "WAITINGTLS"] /\ net' = net /\ accepted[p] = "none"
      /\ net[Other(p)] # "none" /\ faults' = faults
      /\ c2c' = c2c /\ UNCHANGED <<config, relay, link, got, texts, blocked>>
  BY DEF listener_add_connection
<1>3. \A e \in Ends : accepted'[e] = IF e = p THEN "WAITINGTLS" ELSE accepted[e]
  BY <1>1, <1>2 DEF Types
<1>4. accepted' \in [Ends -> {"none", "WAITINGTLS", "ACTIVE", "failed", "served"}]
      /\ net' \in [Ends -> {"none", "syn", "up", "refused", "closed", "broken"}]
  BY <1>1, <1>2 DEF Types
<1> QED BY <1>1, <1>2, <1>3, <1>4, NetStep

LEMMA ListenerConn ==
    ASSUME Inv, NEW p \in Ends, process_listener_conn(p)
    PROVE  Inv' /\ FifoStep
<1>1. Types /\ faults' \in Nat
  BY DEF Inv, Basic, Types, process_listener_conn
<1>2. /\ net' = net /\ accepted[p] = "WAITINGTLS" /\ faults' = faults
      /\ c2c' = c2c /\ UNCHANGED <<config, relay, link, got, texts, blocked>>
  BY DEF process_listener_conn
<1>3. PICK v \in {"ACTIVE", "failed"} : /\ accepted' = [accepted EXCEPT ![p] = v]
                                        /\ v = "ACTIVE" => Handshaking(Other(p))
  BY DEF process_listener_conn
<1>4. \A e \in Ends : accepted'[e] = IF e = p THEN v ELSE accepted[e]
  BY <1>1, <1>3 DEF Types
<1>5. accepted' \in [Ends -> {"none", "WAITINGTLS", "ACTIVE", "failed", "served"}]
      /\ net' \in [Ends -> {"none", "syn", "up", "refused", "closed", "broken"}]
  BY <1>1, <1>2, <1>3 DEF Types
<1> QED BY <1>1, <1>2, <1>3, <1>4, <1>5, NetStep

LEMMA Reaches ==
    ASSUME Inv, NEW p \in Ends, Reach(p)
    PROVE  Inv' /\ FifoStep
<1>1. Types /\ faults' \in Nat
  BY DEF Inv, Basic, Types, Reach
<1>2. /\ accepted' = accepted /\ net[p] = "syn" /\ faults' = faults
      /\ c2c' = c2c /\ UNCHANGED <<config, relay, link, got, texts, blocked>>
  BY DEF Reach
<1>3. PICK v \in {"up", "refused"} : net' = [net EXCEPT ![p] = v]
  BY DEF Reach
<1>4. \A e \in Ends : net'[e] = IF e = p THEN v ELSE net[e]
  BY <1>1, <1>3 DEF Types
<1>5. accepted' \in [Ends -> {"none", "WAITINGTLS", "ACTIVE", "failed", "served"}]
      /\ net' \in [Ends -> {"none", "syn", "up", "refused", "closed", "broken"}]
  BY <1>1, <1>2, <1>3 DEF Types
<1> QED BY <1>1, <1>2, <1>3, <1>4, <1>5, NetStep

LEMMA Breaks ==
    ASSUME Inv, NEW p \in Ends, Break(p)
    PROVE  Inv' /\ FifoStep
<1>1. Types
  BY DEF Inv, Basic
<1>2. /\ accepted' = accepted /\ net[p] \in {"syn", "up"} /\ faults' = faults + 1
      /\ net' = [net EXCEPT ![p] = "broken"]
      /\ c2c' = c2c /\ UNCHANGED <<config, relay, link, got, texts, blocked>>
  BY DEF Break
<1>3. faults' \in Nat /\ faults' # 0
  BY <1>1, <1>2 DEF Types
<1>4. \A e \in Ends : net'[e] = IF e = p THEN "broken" ELSE net[e]
  BY <1>1, <1>2 DEF Types
<1>5. accepted' \in [Ends -> {"none", "WAITINGTLS", "ACTIVE", "failed", "served"}]
      /\ net' \in [Ends -> {"none", "syn", "up", "refused", "closed", "broken"}]
  BY <1>1, <1>2 DEF Types
<1> QED BY <1>2, <1>3, <1>4, <1>5, NetStep

LEMMA Leaves ==
    ASSUME Inv, NEW p \in Ends, Leave(p)
    PROVE  Inv' /\ FifoStep
<1>1. faults \in Nat
  BY DEF Inv, Basic, Types
<1>2. faults' \in Nat /\ faults' # 0
  BY <1>1 DEF Leave
<1>3. /\ Alive(p) /\ c2c' = [c2c EXCEPT ![p] = Gone(@, "CLOSED")] /\ net' = Sockets(p, "CLOSED")
      /\ UNCHANGED <<config, accepted, relay, link, got, texts, blocked>> /\ "CLOSED" \in Dead
  BY DEF Leave, Dead
<1> QED BY <1>2, <1>3, CloseStep


-----------------------------------------------------------------------------
(* The steps of direct connections.                                        *)

Redirect(c, x, y) == [c EXCEPT !.direct = x, !.directc2c_state = y]

LEMMA SameBuffer ==
    ASSUME NEW c, NEW d, BufOK(c), MarkOK(c), d.write_buf = c.write_buf,
           d.barrier_pos = c.barrier_pos, d.before_barrier_pos = c.before_barrier_pos,
           d.write_sslbytestowrite = c.write_sslbytestowrite,
           d.switched_write = c.switched_write
    PROVE  BufOK(d) /\ MarkOK(d) /\ BufferedIn(d) = BufferedIn(c)
<1>1. WriteEnd(d) = WriteEnd(c)
  BY DEF WriteEnd
<1> QED BY <1>1, BufferedSame DEF BufOK, MarkOK

LEMMA RedirectKeeps ==
    ASSUME NEW c \in Chan, BufOK(c), MarkOK(c), NEW x \in Direct, NEW y \in DirectStates
    PROVE  /\ Redirect(c, x, y) \in Chan
           /\ BufOK(Redirect(c, x, y)) /\ MarkOK(Redirect(c, x, y))
           /\ BufferedIn(Redirect(c, x, y)) = BufferedIn(c)
           /\ Redirect(c, x, y).direct = x /\ Redirect(c, x, y).directc2c_state = y
           /\ Redirect(c, x, y).state = c.state
           /\ Redirect(c, x, y).barrier_pos = c.barrier_pos
           /\ Redirect(c, x, y).switched_write = c.switched_write
           /\ Redirect(c, x, y).switched_read = c.switched_read
<1> DEFINE d == Redirect(c, x, y)
<1>1. d \in Chan
  BY DEF Redirect, Chan
<1>2. /\ d.direct = x /\ d.directc2c_state = y /\ d.state = c.state
      /\ d.barrier_pos = c.barrier_pos /\ d.switched_write = c.switched_write
      /\ d.switched_read = c.switched_read /\ d.write_buf = c.write_buf
      /\ d.before_barrier_pos = c.before_barrier_pos
      /\ d.write_sslbytestowrite = c.write_sslbytestowrite
  BY DEF Redirect, Chan
<1> HIDE DEF d
<1>3. BufOK(d) /\ MarkOK(d) /\ BufferedIn(d) = BufferedIn(c)
  BY <1>2, SameBuffer
<1> QED BY <1>1, <1>2, <1>3 DEF d

\* Steps of an end that connects, other than the last.
LEMMA RedirectStep ==
    ASSUME Inv, NEW p \in Ends, NEW x \in Direct, NEW y \in DirectStates,
           c2c' = [c2c EXCEPT ![p] = Redirect(c2c[p], x, y)],
           UNCHANGED <<config, accepted, net, relay, link, got, texts, faults, blocked>>,
           ~Committed(c2c[p]) \/ x = c2c[p].direct,
           c2c[p].state = "ACTIVE",
           \/ /\ c2c[p].directc2c_state = "CONNECTING" /\ y = "CONNECTING"
              /\ c2c[p].direct.is = "out" /\ x.is = "out" /\ x.state # "ACTIVE"
              /\ c2c[p].direct.state = "WAITINGTLS" /\ faults = 0
                   => accepted[Other(p)] # "served" /\ ~Running(Other(p))
           \/ /\ c2c[p].directc2c_state = "CONNECTING" /\ y = "ACTIVE"
              /\ c2c[p].direct.state = "ACTIVE" /\ x = c2c[p].direct
           \/ /\ c2c[p].directc2c_state = "CONNECTING" /\ y = "FAILEDTOCONNECT"
              /\ c2c[p].direct.state = "FAILED" /\ x = NoDirect
    PROVE  Inv' /\ FifoStep
<1> DEFINE c == c2c[p]
           d == Redirect(c, x, y)
           q == Other(p)
<1>1. q \in Ends /\ Other(q) = p /\ q # p /\ \A e \in Ends : e = p \/ e = q
  BY TwoEnds
<1>2. c \in Chan /\ EndOK(p) /\ Types
  BY DEF Inv, Basic, Types
<1>3. /\ d \in Chan /\ BufOK(d) /\ MarkOK(d) /\ BufferedIn(d) = BufferedIn(c)
      /\ d.direct = x /\ d.directc2c_state = y /\ d.state = c.state
      /\ d.barrier_pos = c.barrier_pos /\ d.switched_write = c.switched_write
      /\ d.switched_read = c.switched_read
  BY <1>2, RedirectKeeps DEF EndOK
<1> HIDE DEF d, q
<1>4. c.directc2c_state = "CONNECTING" /\ c.direct.is = "out"
  BY <1>2 DEF EndOK, ChanOK
<1>5. NoDirect.is = "none"
  BY DEF NoDirect
<1>6. ChanOK(p, d)
  BY <1>2, <1>3, <1>4, <1>5 DEF EndOK, ChanOK, Committed
<1>7. c.switched_write => d.direct.is = c.direct.is
  BY <1>2, <1>3 DEF EndOK, ChanOK, Committed
<1>8. Refitted(p, d)
  BY <1>3, <1>6, <1>7 DEF Refitted, d
<1>9. Rewired(p, d)
  BY <1>2, <1>3, <1>4, <1>5 DEF Rewired, EndOK, NetOK, Types
<1>10. c2c'[p] = d => CalmStates(p)
  BY <1>3, <1>4, <1>5 DEF CalmStates
<1>11. ASSUME c2c'[p] = d, c2c'[q] = c2c[q], faults' = 0
       PROVE  faults = 0 /\ \A e \in Ends : Sound(e)
  <2>1. (Alive(p)' <=> Alive(p)) /\ (Alive(q)' <=> Alive(q))
        /\ (Running(p)' <=> Running(p)) /\ (Running(q)' <=> Running(q))
    BY <1>3, <1>11 DEF Alive, Running
  <2>2. Handshaking(q)' <=> Handshaking(q)
    BY <1>11 DEF Handshaking
  <2>3. Handshaking(p) => Handshaking(p)' \/ (accepted'[q] # "served" /\ ~Running(q)')
    BY <1>3, <1>4, <1>11, <2>1 DEF Handshaking, q, Committed
  <2>4. Sound(q)
    BY <1>1, <1>11, <2>1, <2>2 DEF Sound
  <2>5. Sound(p)
    BY <1>3, <1>4, <1>5, <1>11, <2>1, <2>3 DEF Sound, q
  <2> QED BY <1>1, <1>11, <2>4, <2>5
<1>12. faults' \in Nat /\ blocked' \in Nat
  BY <1>2 DEF Types
<1> QED BY <1>3, <1>8, <1>9, <1>10, <1>11, <1>12, ControlStep DEF q

LEMMA StartsTls ==
    ASSUME Inv, NEW p \in Ends, directc2c_stage2_starttls(p)
    PROVE  Inv' /\ FifoStep
<1> DEFINE v == IF net[p] = "up" THEN "WAITINGTLS" ELSE "FAILED"
           x == [c2c[p].direct EXCEPT !.state = v]
<1>1. c2c[p] \in Chan /\ c2c[p].direct \in Direct
  BY DEF Inv, Basic, Types, Chan
<1>2. x \in Direct /\ x.is = c2c[p].direct.is /\ x.state # "ACTIVE"
  BY <1>1 DEF Direct
<1>3. c2c[p].state = "ACTIVE" /\ c2c[p].directc2c_state = "CONNECTING"
      /\ c2c[p].direct.is = "out" /\ c2c[p].direct.state = "CONNECTING"
  BY DEF directc2c_stage2_starttls, Outgoing
<1>4. c2c' = [c2c EXCEPT ![p] = Redirect(c2c[p], x, "CONNECTING")]
  <2>1. Redirect(c2c[p], x, "CONNECTING") = [c2c[p] EXCEPT !.direct = x]
    BY <1>1, <1>3 DEF Redirect, Chan
  <2> QED BY <2>1 DEF directc2c_stage2_starttls
<1>5. UNCHANGED <<config, accepted, net, relay, link, got, texts, faults, blocked>>
  BY DEF directc2c_stage2_starttls
<1> HIDE DEF x
<1>6. ~Committed(c2c[p]) /\ "CONNECTING" \in DirectStates
  BY <1>3 DEF Committed, DirectStates
<1> QED BY <1>2, <1>3, <1>4, <1>5, <1>6, RedirectStep

LEMMA GivesUp ==
    ASSUME Inv, NEW p \in Ends, process_directc2c_failed(p)
    PROVE  Inv' /\ FifoStep
<1>1. c2c[p] \in Chan
  BY DEF Inv, Basic, Types
<1>2. c2c[p].state = "ACTIVE" /\ c2c[p].directc2c_state = "CONNECTING"
      /\ c2c[p].direct.is = "out" /\ c2c[p].direct.state = "FAILED"
  BY DEF process_directc2c_failed, Outgoing
<1>3. directc2c_connect_next(c2c[p].direct) = NoDirect
  BY <1>2 DEF directc2c_connect_next
<1>4. c2c' = [c2c EXCEPT ![p] = Redirect(c2c[p], NoDirect, "FAILEDTOCONNECT")]
  BY <1>3 DEF process_directc2c_failed, Redirect
<1>5. UNCHANGED <<config, accepted, net, relay, link, got, texts, faults, blocked>>
  BY DEF process_directc2c_failed
<1>6. ~Committed(c2c[p]) /\ NoDirect \in Direct /\ "FAILEDTOCONNECT" \in DirectStates
  BY <1>2 DEF Committed, NoDirect, Direct, DirectStates
<1> QED BY <1>2, <1>4, <1>5, <1>6, RedirectStep

LEMMA Activates ==
    ASSUME Inv, NEW p \in Ends, process_directc2c_active(p)
    PROVE  Inv' /\ FifoStep
<1>1. c2c[p] \in Chan /\ c2c[p].direct \in Direct
  BY DEF Inv, Basic, Types, Chan
<1>2. c2c[p].state = "ACTIVE" /\ c2c[p].directc2c_state = "CONNECTING"
      /\ c2c[p].direct.is = "out" /\ c2c[p].direct.state = "ACTIVE"
  BY DEF process_directc2c_active, Outgoing
<1>3. c2c' = [c2c EXCEPT ![p] = Redirect(c2c[p], c2c[p].direct, "ACTIVE")]
  <2>1. Redirect(c2c[p], c2c[p].direct, "ACTIVE") = [c2c[p] EXCEPT !.directc2c_state = "ACTIVE"]
    BY <1>1 DEF Redirect, Chan
  <2> QED BY <2>1 DEF process_directc2c_active
<1>4. UNCHANGED <<config, accepted, net, relay, link, got, texts, faults, blocked>>
  BY DEF process_directc2c_active
<1>5. "ACTIVE" \in DirectStates
  BY DEF DirectStates
<1> QED BY <1>1, <1>2, <1>3, <1>4, <1>5, RedirectStep


\* A step that sends a message.
LEMMA SendStep ==
    ASSUME Inv, NEW p \in Ends, NEW d, Refitted(p, d), Rewired(p, d),
           UNCHANGED got, texts' \in [Ends -> Nat], faults' \in Nat, blocked' \in Nat,
           NEW m \in Msg, BufferedIn(d) = Append(BufferedIn(c2c[p]), m),
           c2c[p].state = "ACTIVE", d.state = "ACTIVE",
           \/ m \in Texts
           \/ m.type = "SWITCH"
           \/ /\ m.type = "FAILED" /\ p = "out" /\ config[p] = "ALLOWINCOMING"
              /\ c2c[p].directc2c_state = "FAILEDTOCONNECT",
           c2c'[p] = d => CalmStates(p), net'["in"] # "none" => net["in"] # "none",
           c2c'[p] = d /\ c2c'[Other(p)] = c2c[Other(p)]
             => (faults' = 0 => faults = 0 /\ \A e \in Ends : Sound(e))
    PROVE  Inv' /\ FifoStep
<1> DEFINE q == Other(p)
<1>1. q \in Ends /\ Other(q) = p /\ \A e \in Ends : e = p \/ e = q
  BY TwoEnds
<1>2. m \in Texts => m.type = "MSGUTF8"
  BY DEF Texts, Text
<1>3. /\ Basic' /\ Story' /\ c2c'[p] = d /\ c2c'[q] = c2c[q]
      /\ UnderWay(q)' = UnderWay(q) /\ UnderWay(p)' = UnderWay(p) \o PartOf(m)
  BY <1>2, OwnSends DEF Inv
<1> HIDE DEF q
<1>4. \A e \in Ends : Alive(e)' <=> Alive(e)
  BY <1>1, <1>3 DEF Alive
<1>5. Unread(p) \in Seq(Msg) /\ UnderWay(p) \in Seq(Msg)
  BY UnreadTyped, TextsTyped DEF Inv, Pipe, UnderWay
<1>6. CASE m.type # "MSGUTF8"
  <2>1. UnderWay(p)' = UnderWay(p)
    BY <1>3, <1>5, <1>6 DEF PartOf
  <2> QED BY <1>1, <1>3, <1>4, <2>1, FaultlessKeeps, FifoStutter DEF Inv, q
<1>7. CASE m.type = "MSGUTF8"
  <2>1. UnderWay(p)' = Append(UnderWay(p), m)
    BY <1>3, <1>5, <1>7 DEF PartOf
  <2>2. m \in Texts /\ Alive(p)
    BY <1>7 DEF Alive
  <2>3. FifoStep
    BY <1>3, <1>4, <2>1, <2>2, FifoSend DEF q
  <2> QED BY <1>3, <2>3, FaultlessKeeps DEF Inv, q
<1> QED BY <1>6, <1>7

\* SWITCH is put in the buffer and the direct connection is to be used.
LEMMA CommitStep ==
    ASSUME Inv, NEW p \in Ends, NEW x \in Direct, NEW y \in DirectStates,
           c2c' = [c2c EXCEPT ![p] = Redirect(PICA_send_directc2c_switch(c2c[p]), x, y)],
           UNCHANGED <<config, net, relay, link, got, texts, faults, blocked>>,
           ~Committed(c2c[p]), x.state = "ACTIVE", c2c[p].state = "ACTIVE",
           \/ /\ c2c[p].directc2c_state = "CONNECTING" /\ y = "CONNECTING" /\ x.is = "out"
              /\ accepted' = accepted
           \/ /\ c2c[p].directc2c_state = "WAITINGINCOMING" /\ y = "ACTIVE" /\ x.is = "in"
              /\ accepted[p] = "ACTIVE" /\ accepted' = [accepted EXCEPT ![p] = "served"]
    PROVE  Inv' /\ FifoStep
<1> DEFINE c == c2c[p]
           s == PICA_send_directc2c_switch(c)
           d == Redirect(s, x, y)
           q == Other(p)
           m == Plain("SWITCH")
<1>1. q \in Ends /\ Other(q) = p /\ q # p /\ \A e \in Ends : e = p \/ e = q
  BY TwoEnds
<1>2. c \in Chan /\ EndOK(p) /\ Types
  BY DEF Inv, Basic, Types
<1>3. c.barrier_pos = 0 /\ ~c.switched_write
  BY <1>2 DEF EndOK, ChanOK
<1>4. /\ s \in Chan /\ BufOK(s) /\ MarkOK(s) /\ BufferedIn(s) = Append(BufferedIn(c), m)
      /\ \A f \in {"state", "directc2c_state", "direct", "switched_write", "switched_read",
                   "before_barrier_pos", "write_sslbytestowrite"} : s[f] = c[f]
  BY <1>2, <1>3, SwitchKeeps DEF EndOK
<1> HIDE DEF s, m
<1>5. s.state = c.state /\ s.switched_write = c.switched_write
      /\ s.switched_read = c.switched_read
  BY <1>4
<1>6. /\ d \in Chan /\ BufOK(d) /\ MarkOK(d) /\ BufferedIn(d) = BufferedIn(s)
      /\ d.direct = x /\ d.directc2c_state = y /\ d.state = s.state
      /\ d.switched_write = s.switched_write /\ d.switched_read = s.switched_read
  BY <1>4, RedirectKeeps
<1> HIDE DEF d, q
<1>7. c.directc2c_state = "CONNECTING" => c.direct.is = "out"
  BY <1>2 DEF EndOK, ChanOK
<1>8. ChanOK(p, d)
  BY <1>2, <1>5, <1>6 DEF EndOK, ChanOK, Committed
<1>9. Refitted(p, d)
  BY <1>3, <1>5, <1>6, <1>8 DEF Refitted, d, s
<1>10. \A e \in Ends : accepted'[e] = IF e = p /\ y = "ACTIVE" THEN "served" ELSE accepted[e]
  BY <1>2 DEF Types
<1>11. Rewired(p, d)
  <2>1. accepted' \in [Ends -> {"none", "WAITINGTLS", "ACTIVE", "failed", "served"}]
    BY <1>2 DEF Types
  <2>2. net' \in [Ends -> {"none", "syn", "up", "refused", "closed", "broken"}]
    BY <1>2 DEF Types
  <2> QED BY <1>2, <1>6, <1>7, <1>10, <2>1, <2>2 DEF Rewired, EndOK, NetOK
<1>12. c2c'[p] = d => CalmStates(p)
  BY <1>5, <1>6, <1>7 DEF CalmStates
<1>13. ASSUME c2c'[p] = d, c2c'[q] = c2c[q], faults' = 0
       PROVE  faults = 0 /\ \A e \in Ends : Sound(e)
  <2>1. (Alive(p)' <=> Alive(p)) /\ (Alive(q)' <=> Alive(q))
        /\ (Running(p)' <=> Running(p)) /\ (Running(q)' <=> Running(q)) /\ Running(p)
    BY <1>5, <1>6, <1>13 DEF Alive, Running
  <2>2. Handshaking(q)' <=> Handshaking(q)
    BY <1>13 DEF Handshaking
  <2>3. c.directc2c_state = "WAITINGINCOMING" => c.direct.is \notin {"out", "in"}
    BY <1>2 DEF EndOK, ChanOK
  <2>4. Handshaking(p) => Handshaking(p)'
    BY <1>6, <1>7, <1>13, <2>3 DEF Handshaking
  <2>5. Sound(q)
    BY <1>1, <1>10, <1>13, <2>1, <2>2 DEF Sound
  <2>6. Sound(p)
    BY <1>5, <1>6, <1>7, <1>10, <1>13, <2>1, <2>3, <2>4 DEF Sound
  <2> QED BY <1>1, <1>13, <2>5, <2>6
<1>14. faults' \in Nat /\ blocked' \in Nat /\ texts' \in [Ends -> Nat]
  BY <1>2 DEF Types
<1>15. m \in Msg /\ m.type = "SWITCH"
  BY PlainTyped DEF m, MsgTypes
<1> QED BY <1>4, <1>5, <1>6, <1>9, <1>11, <1>12, <1>13, <1>14, <1>15, SendStep DEF q

LEMMA TlsStep ==
    ASSUME Inv, NEW p \in Ends, process_directc2c_tls(p)
    PROVE  Inv' /\ FifoStep
<1> DEFINE c == c2c[p]
           q == Other(p)
<1>1. c \in Chan /\ c.direct \in Direct /\ q \in Ends /\ Other(q) = p
      /\ BufOK(c) /\ MarkOK(c) /\ ChanOK(p, c)
  BY TwoEnds DEF Inv, Basic, Types, Chan, EndOK
<1>2. c.state = "ACTIVE" /\ c.directc2c_state = "CONNECTING"
      /\ c.direct.is = "out" /\ c.direct.state = "WAITINGTLS"
  BY DEF process_directc2c_tls, Outgoing
<1>3. UNCHANGED <<config, accepted, net, relay, link, got, texts, faults, blocked>>
  BY DEF process_directc2c_tls
<1>4. ~Committed(c) /\ "CONNECTING" \in DirectStates
  BY <1>2 DEF Committed, DirectStates
<1>5. CASE c2c' = [c2c EXCEPT ![p] = [PICA_send_directc2c_switch(@)
                                          EXCEPT !.direct.state = "ACTIVE"]]
  <2> DEFINE x == [c.direct EXCEPT !.state = "ACTIVE"]
             s == PICA_send_directc2c_switch(c)
  <2>1. x \in Direct /\ x.is = "out" /\ x.state = "ACTIVE"
    BY <1>1, <1>2 DEF Direct
  <2>2. s \in Chan
    BY <1>1, <1>4, SwitchKeeps DEF ChanOK
  <2>3. s.direct = c.direct /\ s.directc2c_state = "CONNECTING"
    BY <1>1, <1>2 DEF PICA_send_directc2c_switch, Push, Chan
  <2> HIDE DEF s
  <2>4. Redirect(s, x, "CONNECTING") = [s EXCEPT !.direct.state = "ACTIVE"]
    BY <2>2, <2>3 DEF Redirect, Chan
  <2>5. c2c' = [c2c EXCEPT ![p] = Redirect(s, x, "CONNECTING")]
    BY <1>5, <2>4 DEF s
  <2> HIDE DEF x
  <2> QED BY <1>2, <1>3, <1>4, <2>1, <2>5, CommitStep DEF s
<1>6. CASE /\ net[p] = "broken" \/ (net[p] = "closed" /\ accepted[Other(p)] # "served")
           /\ c2c' = [c2c EXCEPT ![p].direct.state = "FAILED"]
  <2> DEFINE x == [c.direct EXCEPT !.state = "FAILED"]
  <2>1. x \in Direct /\ x.is = "out" /\ x.state # "ACTIVE"
    BY <1>1, <1>2 DEF Direct
  <2>2. Redirect(c, x, "CONNECTING") = [c EXCEPT !.direct.state = "FAILED"]
    BY <1>1, <1>2 DEF Redirect, Chan
  <2>3. c2c' = [c2c EXCEPT ![p] = Redirect(c, x, "CONNECTING")]
    BY <1>6, <2>2
  <2> HIDE DEF x
  <2>4. faults = 0 => accepted[q] # "served" /\ ~Running(q)
    BY <1>2, <1>6 DEF Inv, Faultless, FaultlessOK, Alive
  <2> QED BY <1>2, <1>3, <1>4, <2>1, <2>3, <2>4, RedirectStep
<1> QED BY <1>5, <1>6 DEF process_directc2c_tls

LEMMA AcceptedStep ==
    ASSUME Inv, NEW p \in Ends, process_accepted(p)
    PROVE  Inv' /\ FifoStep
<1> DEFINE c == c2c[p]
           q == Other(p)
<1>1. c \in Chan /\ q \in Ends /\ Other(q) = p /\ ChanOK(p, c) /\ NetOK(p) /\ Types
  BY TwoEnds DEF Inv, Basic, Types, EndOK
<1>2. /\ accepted[p] = "ACTIVE" /\ accepted' = [accepted EXCEPT ![p] = "served"]
      /\ UNCHANGED <<config, relay, link, got, texts, faults, blocked>>
  BY DEF process_accepted
<1>3. CASE find_matching_c2c(p)
  <2> DEFINE x == [is |-> "in", state |-> "ACTIVE"]
  <2>1. x \in Direct /\ x.is = "in" /\ x.state = "ACTIVE" /\ "ACTIVE" \in DirectStates
    BY DEF Direct, DirectStates
  <2>2. c2c' = [c2c EXCEPT ![p] = Redirect(PICA_send_directc2c_switch(c2c[p]), x, "ACTIVE")]
        /\ net' = net
    BY <1>3 DEF process_accepted, Redirect
  <2> HIDE DEF x
  <2>3. c.directc2c_state = "WAITINGINCOMING" /\ c.state = "ACTIVE"
    BY <1>1, <1>3 DEF find_matching_c2c, Alive, ChanOK, Chan, States
  <2>4. ~Committed(c)
    BY <2>3 DEF Committed
  <2> QED BY <1>2, <2>1, <2>2, <2>3, <2>4, CommitStep
<1>4. CASE ~find_matching_c2c(p)
  <2>1. c2c' = c2c /\ net' = [net EXCEPT ![q] = "closed"]
    BY <1>4 DEF process_accepted
  <2>2. \A e \in Ends : /\ accepted'[e] = IF e = p THEN "served" ELSE accepted[e]
                        /\ net'[e] = IF e = q THEN "closed" ELSE net[e]
    BY <1>1, <1>2, <2>1 DEF Types
  <2>3. accepted' \in [Ends -> {"none", "WAITINGTLS", "ACTIVE", "failed", "served"}]
        /\ net' \in [Ends -> {"none", "syn", "up", "refused", "closed", "broken"}]
        /\ faults' \in Nat
    BY <1>1, <1>2, <2>1 DEF Types
  <2>4. net[q] # "none"
    BY <1>1, <1>2 DEF NetOK
  <2> HIDE DEF q
  <2> QED BY <1>1, <1>2, <2>1, <2>2, <2>3, <2>4, NetStep
<1> QED BY <1>3, <1>4


LEMMA AsksStep ==
    ASSUME Inv, NEW p \in Ends, PICA_send_directc2cfailed(p)
    PROVE  Inv' /\ FifoStep
<1> DEFINE c == c2c[p]
           q == Other(p)
           m == Plain("FAILED")
           ask == p = "out" /\ config[p] = "ALLOWINCOMING"
           s == IF ask THEN Push(c, m) ELSE c
           y == IF ask THEN "WAITINGINCOMING" ELSE "INACTIVE"
           d == Redirect(s, c.direct, y)
<1>1. q \in Ends /\ Other(q) = p /\ q # p /\ \A e \in Ends : e = p \/ e = q
  BY TwoEnds
<1>2. c \in Chan /\ EndOK(p) /\ Types /\ c.direct \in Direct /\ y \in DirectStates
  BY DEF Inv, Basic, Types, Chan, DirectStates
<1>3. c.directc2c_state = "FAILEDTOCONNECT" /\ c.state = "ACTIVE"
  BY <1>2 DEF PICA_send_directc2cfailed, Alive, EndOK, ChanOK, Chan, States
<1>4. m \in Msg /\ m.type = "FAILED"
  BY PlainTyped DEF MsgTypes
<1> HIDE DEF m
<1>5. /\ s \in Chan /\ BufOK(s) /\ MarkOK(s) /\ s.state = c.state /\ s.direct = c.direct
      /\ s.barrier_pos = c.barrier_pos
      /\ s.switched_write = c.switched_write /\ s.switched_read = c.switched_read
      /\ BufferedIn(s) = IF ask THEN Append(BufferedIn(c), m) ELSE BufferedIn(c)
  <2>1. CASE ask
    <3>1. /\ Push(c, m) \in Chan /\ BufOK(Push(c, m)) /\ MarkOK(Push(c, m))
          /\ BufferedIn(Push(c, m)) = Append(BufferedIn(c), m)
          /\ \A f \in {"state", "directc2c_state", "direct", "switched_write", "switched_read",
                       "barrier_pos", "before_barrier_pos", "write_sslbytestowrite"} :
               Push(c, m)[f] = c[f]
      BY <1>2, <1>4, PushKeeps DEF EndOK
    <3> QED BY <2>1, <3>1
  <2>2. CASE ~ask
    BY <1>2, <2>2 DEF EndOK
  <2> QED BY <2>1, <2>2
<1>6. c2c' = [c2c EXCEPT ![p] = d]
  <2>1. CASE ask
    <3>1. Redirect(Push(c, m), c.direct, y) = [Push(c, m) EXCEPT !.directc2c_state = y]
      BY <1>5, <2>1 DEF Redirect, Chan
    <3> QED BY <2>1, <3>1 DEF PICA_send_directc2cfailed, m
  <2>2. CASE ~ask
    <3>1. Redirect(c, c.direct, y) = [c EXCEPT !.directc2c_state = y]
      BY <1>2, <2>2 DEF Redirect, Chan
    <3> QED BY <2>2, <3>1 DEF PICA_send_directc2cfailed
  <2> QED BY <2>1, <2>2
<1>7. UNCHANGED <<config, accepted, net, relay, link, got, texts, faults, blocked>>
  BY DEF PICA_send_directc2cfailed
<1> HIDE DEF s
<1>8. /\ d \in Chan /\ BufOK(d) /\ MarkOK(d) /\ BufferedIn(d) = BufferedIn(s)
      /\ d.direct = c.direct /\ d.directc2c_state = y /\ d.state = c.state
      /\ d.barrier_pos = c.barrier_pos
      /\ d.switched_write = c.switched_write /\ d.switched_read = c.switched_read
  <2>1. s \in Chan /\ BufOK(s) /\ MarkOK(s) /\ s.state = c.state
        /\ s.barrier_pos = c.barrier_pos
        /\ s.switched_write = c.switched_write /\ s.switched_read = c.switched_read
    BY <1>5
  <2>2. c.direct \in Direct /\ y \in DirectStates
    BY <1>2
  <2> HIDE DEF y, ask, c
  <2> QED BY <2>1, <2>2, RedirectKeeps
<1> HIDE DEF d, q
<1>9. c.direct.is \notin {"out", "in"} /\ c.barrier_pos = 0 /\ ~c.switched_write
  BY <1>2, <1>3 DEF EndOK, ChanOK, Committed
<1>10. ChanOK(p, d)
  BY <1>3, <1>8, <1>9 DEF ChanOK
<1>11. Refitted(p, d)
  BY <1>6, <1>7, <1>8, <1>9, <1>10 DEF Refitted
<1>12. Rewired(p, d)
  BY <1>2, <1>7, <1>8, <1>9 DEF Rewired, Types
<1>13. c2c'[p] = d => CalmStates(p)
  BY <1>3, <1>8 DEF CalmStates
<1>14. ASSUME c2c'[p] = d, c2c'[q] = c2c[q], faults' = 0
       PROVE  faults = 0 /\ \A e \in Ends : Sound(e)
  <2>1. (Alive(p)' <=> Alive(p)) /\ (Alive(q)' <=> Alive(q))
        /\ (Running(p)' <=> Running(p)) /\ (Running(q)' <=> Running(q))
    BY <1>8, <1>14 DEF Alive, Running
  <2>2. (Handshaking(q)' <=> Handshaking(q)) /\ (Handshaking(p)' <=> Handshaking(p))
    BY <1>8, <1>14 DEF Handshaking
  <2>3. Sound(q)
    BY <1>1, <1>7, <1>14, <2>1, <2>2 DEF Sound
  <2>4. Sound(p)
    BY <1>3, <1>7, <1>8, <1>14, <2>1, <2>2 DEF Sound
  <2> QED BY <1>1, <1>7, <1>14, <2>3, <2>4
<1>15. faults' \in Nat /\ blocked' \in Nat /\ texts' \in [Ends -> Nat]
  BY <1>2, <1>7 DEF Types
<1>16. CASE ask
  <2>1. BufferedIn(d) = Append(BufferedIn(c2c[p]), m)
    BY <1>5, <1>8, <1>16
  <2> QED BY <1>3, <1>4, <1>7, <1>8, <1>11, <1>12, <1>13, <1>14, <1>15, <1>16, <2>1, SendStep DEF q
<1>17. CASE ~ask
  <2>1. BufferedIn(d) = BufferedIn(c2c[p])
    BY <1>5, <1>8, <1>17
  <2> QED BY <1>7, <1>8, <1>11, <1>12, <1>13, <1>14, <1>15, <2>1, ControlStep DEF q
<1> QED BY <1>16, <1>17

-----------------------------------------------------------------------------
(* Sending and writing.                                                    *)

\* Nothing but the buffer is touched.
LEMMA OwnSound ==
    ASSUME Inv, NEW p \in Ends, NEW d, c2c'[p] = d, c2c'[Other(p)] = c2c[Other(p)],
           UNCHANGED <<accepted, net, faults>>,
           d.state = c2c[p].state, d.directc2c_state = c2c[p].directc2c_state,
           d.direct = c2c[p].direct, d.switched_read = c2c[p].switched_read
    PROVE  faults' = 0 => faults = 0 /\ \A e \in Ends : Sound(e)
<1> DEFINE q == Other(p)
<1>1. q \in Ends /\ Other(q) = p /\ \A e \in Ends : e = p \/ e = q
  BY TwoEnds
<1> HIDE DEF q
<1>2. \A e \in Ends : /\ c2c'[e].state = c2c[e].state /\ c2c'[e].direct = c2c[e].direct
                      /\ c2c'[e].directc2c_state = c2c[e].directc2c_state
                      /\ c2c'[e].switched_read = c2c[e].switched_read
  BY <1>1 DEF q
<1>3. \A e \in Ends : /\ (Alive(e)' <=> Alive(e)) /\ (Running(e)' <=> Running(e))
                      /\ Handshaking(e)' <=> Handshaking(e)
  BY <1>2 DEF Alive, Running, Handshaking
<1>4. ASSUME NEW e \in Ends PROVE Sound(e)
  BY <1>2, <1>3 DEF Sound
<1> QED BY <1>4

LEMMA BlockStep ==
    ASSUME Inv, NEW p \in Ends, WriteBlocks(p)
    PROVE  Inv' /\ FifoStep
<1> DEFINE c == c2c[p]
           d == ToRepeat(c)
<1>1. c \in Chan /\ EndOK(p) /\ Types /\ c.write_buf # <<>>
  BY DEF Inv, Basic, Types, WriteBlocks, Writable
<1>2. /\ d \in Chan /\ BufOK(d) /\ MarkOK(d) /\ BufferedIn(d) = BufferedIn(c)
      /\ \A f \in {"state", "directc2c_state", "direct", "switched_write", "switched_read",
                   "barrier_pos"} : d[f] = c[f]
  BY <1>1, BlockKeeps DEF EndOK
<1>3. c2c' = [c2c EXCEPT ![p] = d]
  BY DEF WriteBlocks, ToRepeat
<1>4. UNCHANGED <<config, accepted, net, relay, link, got, texts, faults>> /\ blocked' = blocked + 1
  BY DEF WriteBlocks
<1> HIDE DEF d
<1>5. /\ d.state = c.state /\ d.directc2c_state = c.directc2c_state /\ d.direct = c.direct
      /\ d.switched_write = c.switched_write /\ d.switched_read = c.switched_read
      /\ d.barrier_pos = c.barrier_pos
  BY <1>2
<1>6. ChanOK(p, d)
  BY <1>1, <1>5 DEF EndOK, ChanOK, Committed
<1>7. Refitted(p, d)
  BY <1>2, <1>3, <1>4, <1>5, <1>6 DEF Refitted
<1>8. Rewired(p, d)
  BY <1>1, <1>4, <1>5 DEF Rewired, Types, EndOK, NetOK
<1>9. c2c'[p] = d => CalmStates(p)
  BY <1>5 DEF CalmStates
<1>10. c2c'[p] = d /\ c2c'[Other(p)] = c2c[Other(p)]
         => (faults' = 0 => faults = 0 /\ \A e \in Ends : Sound(e))
  BY <1>4, <1>5, OwnSound
<1>11. faults' \in Nat /\ blocked' \in Nat
  BY <1>1, <1>4 DEF Types
<1> QED BY <1>2, <1>4, <1>5, <1>7, <1>8, <1>9, <1>10, <1>11, ControlStep

LEMMA TextStep ==
    ASSUME Inv, NEW p \in Ends, PICA_send_msg(p)
    PROVE  Inv' /\ FifoStep
<1> DEFINE c == c2c[p]
           m == Text(texts[p] + 1)
           d == Push(c, m)
<1>1. c \in Chan /\ EndOK(p) /\ Types /\ c.state = "ACTIVE"
  BY DEF Inv, Basic, Types, PICA_send_msg
<1>2. texts[p] \in Nat /\ texts["out"] \in Nat /\ texts["in"] \in Nat /\ MaxTexts \in Nat
      /\ (p = "out" \/ p = "in")
  BY <1>1, TwoEnds, DirectSwitchAssumption DEF Types
<1>3. texts[p] + 1 \in 1 .. MaxTexts
  BY <1>2 DEF PICA_send_msg
<1>4. m \in Msg /\ m.type = "MSGUTF8" /\ m \in Texts
  BY <1>3, TextTyped DEF Texts
<1>5. c2c' = [c2c EXCEPT ![p] = d] /\ texts' \in [Ends -> Nat]
  BY <1>1, <1>2 DEF PICA_send_msg, Types
<1> HIDE DEF m
<1>6. /\ d \in Chan /\ BufOK(d) /\ MarkOK(d) /\ BufferedIn(d) = Append(BufferedIn(c), m)
      /\ \A f \in {"state", "directc2c_state", "direct", "switched_write", "switched_read",
                   "barrier_pos", "before_barrier_pos", "write_sslbytestowrite"} : d[f] = c[f]
  BY <1>1, <1>4, PushKeeps DEF EndOK
<1>7. UNCHANGED <<config, accepted, net, relay, link, got, faults, blocked>>
  BY DEF PICA_send_msg
<1> HIDE DEF d
<1>8. /\ d.state = c.state /\ d.directc2c_state = c.directc2c_state /\ d.direct = c.direct
      /\ d.switched_write = c.switched_write /\ d.switched_read = c.switched_read
      /\ d.barrier_pos = c.barrier_pos
  BY <1>6
<1>9. ChanOK(p, d)
  BY <1>1, <1>8 DEF EndOK, ChanOK, Committed
<1>10. Refitted(p, d)
  BY <1>5, <1>6, <1>7, <1>8, <1>9 DEF Refitted
<1>11. Rewired(p, d)
  BY <1>1, <1>7, <1>8 DEF Rewired, Types, EndOK, NetOK
<1>12. c2c'[p] = d => CalmStates(p)
  BY <1>8 DEF CalmStates
<1>13. c2c'[p] = d /\ c2c'[Other(p)] = c2c[Other(p)]
         => (faults' = 0 => faults = 0 /\ \A e \in Ends : Sound(e))
  BY <1>7, <1>8, OwnSound
<1>14. faults' \in Nat /\ blocked' \in Nat
  BY <1>1, <1>7 DEF Types
<1> QED BY <1>1, <1>4, <1>5, <1>6, <1>7, <1>8, <1>10, <1>11, <1>12, <1>13, <1>14, SendStep

LEMMA WritesStep ==
    ASSUME Inv, NEW p \in Ends, PICA_write_c2c(p)
    PROVE  Inv' /\ FifoStep
<1> DEFINE c == c2c[p]
           data == SubSeq(c.write_buf, 1, Attempt(c))
<1>1. c \in Chan /\ EndOK(p) /\ Types /\ Alive(p) /\ c.write_buf # <<>>
  BY DEF Inv, Basic, Types, PICA_write_c2c, Writable
<1>2. "CLOSED" \in Dead /\ "EXITED" \in Dead /\ faults \in Nat
  BY <1>1 DEF Dead, Types
<1>3. ToDirect(c) => Connected(p)
  BY <1>1 DEF ToDirect, EndOK, ChanOK, Committed, Connected
<1>4. ASSUME NEW st \in {"CLOSED", "EXITED"}, PICA_close_c2c(p, st)
      PROVE  Inv' /\ FifoStep
  <2>1. /\ c2c' = [c2c EXCEPT ![p] = Gone(@, st)] /\ net' = Sockets(p, st)
        /\ UNCHANGED <<config, accepted, relay, link, got, texts, blocked>> /\ faults' = faults
    BY <1>4 DEF PICA_close_c2c
  <2> QED BY <1>1, <1>2, <2>1, CloseStep
<1>5. CASE /\ c2c' = [c2c EXCEPT ![p] = Written(c)]
           /\ IF ToDirect(c)
              THEN link' = [link EXCEPT ![Connection(p)][p] = @ \o data] /\ UNCHANGED relay
              ELSE relay' = [relay EXCEPT ![p] = @ \o data] /\ UNCHANGED link
           /\ UNCHANGED <<config, accepted, net, got, texts, faults, blocked>>
  <2>1. /\ Basic'
        /\ \A q \in Ends :
             /\ Unread(q)' = Unread(q)
             /\ \A f \in {"state", "directc2c_state", "direct", "switched_read"} :
                  c2c'[q][f] = c2c[q][f]
    BY <1>1, <1>5, WriteStep DEF Inv
  <2>2. \A e \in Ends : /\ c2c'[e].state = c2c[e].state /\ c2c'[e].direct = c2c[e].direct
                        /\ c2c'[e].directc2c_state = c2c[e].directc2c_state
                        /\ c2c'[e].switched_read = c2c[e].switched_read
    BY <2>1
  <2>3. \A e \in Ends : CalmStates(e) /\ CalmQueue(e)
    BY <2>1, <2>2 DEF CalmStates, CalmQueue
  <2>4. CalmNet
    BY <1>5 DEF CalmNet
  <2>5. Story'
    BY <2>1, <2>3, <2>4, CalmKeeps DEF Inv
  <2>6. \A e \in Ends : /\ (Alive(e)' <=> Alive(e)) /\ (Running(e)' <=> Running(e))
                        /\ Handshaking(e)' <=> Handshaking(e)
    BY <2>2 DEF Alive, Running, Handshaking
  <2>7. ASSUME NEW e \in Ends PROVE Sound(e)
    BY <1>5, <2>2, <2>6 DEF Sound
  <2>8. Faultless'
    BY <1>5, <2>1, <2>7, FaultlessKeeps DEF Inv
  <2>9. FifoStep
    BY <1>5, <2>1, <2>6, SameTexts, FifoStutter
  <2> QED BY <2>1, <2>5, <2>8, <2>9 DEF Inv
<1> QED BY <1>3, <1>4, <1>5 DEF PICA_write_c2c


-----------------------------------------------------------------------------
(* Reading a message.                                                      *)

\* What a handler makes of the buffer: w is sent.
Revises(c, d, w) ==
    /\ d \in Chan /\ BufOK(d) /\ MarkOK(d) /\ BufferedIn(d) = BufferedIn(c) \o w
    /\ d.barrier_pos = c.barrier_pos /\ d.switched_write = c.switched_write

\* What a handler may make of the rest.
Handles(p, c, d, m) ==
    /\ ChanOK(p, d)
    /\ d.state \notin Dead
    /\ d.switched_read => \/ c.switched_read
                          \/ /\ m.type = "SWITCH"
                             /\ c.directc2c_state = "ACTIVE" \/ c2c[Other(p)].direct.is = "in"
    /\ d.direct.is # "in" \/ c.direct.is = "in"
    /\ \/ d.direct = c.direct /\ d.directc2c_state = c.directc2c_state
       \/ c.directc2c_state \in {"INACTIVE", "WAITINGINCOMING"}

\* The message m, the first of those under way, is handled.
Delivered(p, d, m) ==
    /\ Alive(p) /\ Source(p) # <<>> /\ m = Head(Source(p)) /\ Taken(p)
    /\ c2c' = [c2c EXCEPT ![p] = d]
    /\ net' = IF Dials(c2c[p].direct, d.direct) THEN [net EXCEPT ![p] = "syn"] ELSE net
    /\ got' = IF m.type = "MSGUTF8" THEN [got EXCEPT ![p] = Append(@, m)] ELSE got
    /\ UNCHANGED <<config, accepted, texts, faults, blocked>>

LEMMA SourceTyped ==
    ASSUME Types, NEW p \in Ends
    PROVE  Source(p) \in Pipe /\ (Source(p) # <<>> => Head(Source(p)) \in Msg)
<1>1. Source(p) \in Seq(Msg)
  BY TwoEnds DEF Types, Source, Pipe, Connection
<1> QED BY <1>1 DEF Pipe

LEMMA ReadOk ==
    ASSUME Inv, NEW p \in Ends, NEW m, NEW d, NEW w \in Pipe, "MSGUTF8" \notin TypesOf(w),
           Delivered(p, d, m), Revises(c2c[p], d, w), Handles(p, c2c[p], d, m)
    PROVE  /\ Basic' /\ c2c'[p] = d /\ c2c'[Other(p)] = c2c[Other(p)] /\ config' = config
           /\ Unread(Other(p)) # <<>> /\ Head(Unread(Other(p))) = m
           /\ Unread(Other(p))' = Tail(Unread(Other(p))) /\ Unread(p)' = Unread(p) \o w
           /\ net'[Other(p)] = net[Other(p)]
           /\ d.direct.is # "out" \/ c2c[p].direct.is = "out" => net' = net
           /\ Story' => Inv' /\ FifoStep
<1> DEFINE c == c2c[p]
           q == Other(p)
<1>1. q \in Ends /\ Other(q) = p /\ q # p /\ \A e \in Ends : e = p \/ e = q
  BY TwoEnds
<1>2. c \in Chan /\ EndOK(p) /\ Types /\ Basic /\ Source(p) # <<>> /\ m \in Msg /\ Taken(p)
      /\ m = Head(Source(p))
  BY SourceTyped DEF Inv, Basic, Types, Delivered
<1>3. /\ c2c' = [c2c EXCEPT ![p] = d] /\ d \in Chan /\ BufOK(d) /\ MarkOK(d) /\ ChanOK(p, d)
      /\ d.switched_write = c.switched_write
      /\ (d.switched_read => c.switched_read \/ m.type = "SWITCH")
      /\ UNCHANGED <<config, accepted, texts, faults, blocked>>
  BY DEF Delivered, Revises, Handles
<1>4. c.directc2c_state \in {"INACTIVE", "WAITINGINCOMING"} =>
        c.direct.is \notin {"out", "in"} /\ ~c.switched_write
  BY <1>2 DEF EndOK, ChanOK, Committed
<1>5. c.switched_write => d.direct.is = c.direct.is
  BY <1>4 DEF Handles
<1>6. /\ net' \in [Ends -> {"none", "syn", "up", "refused", "closed", "broken"}]
      /\ net'[q] = net[q] /\ (net'[p] = net[p] \/ net'[p] = "syn")
      /\ (d.direct.is = "out" /\ c.direct.is # "out" => net'[p] = "syn")
      /\ (d.direct.is # "out" \/ c.direct.is = "out" => net' = net)
  BY <1>1, <1>2 DEF Types, Delivered, Dials
<1>7. Rewired(p, d)
  <2>1. accepted' \in [Ends -> {"none", "WAITINGTLS", "ACTIVE", "failed", "served"}]
    BY <1>2, <1>3 DEF Types
  <2>2. d.direct.is = "in" => accepted'[p] = "served"
    BY <1>2, <1>3 DEF Handles, EndOK, NetOK
  <2>3. d.direct.is = "out" => net'[p] # "none"
    BY <1>2, <1>6 DEF EndOK, NetOK
  <2> QED BY <1>1, <1>3, <1>6, <2>1, <2>2, <2>3 DEF Rewired
<1>8. got' \in [Ends -> Pipe]
  <2>1. got[p] \in Seq(Msg) /\ Append(got[p], m) \in Seq(Msg)
    BY <1>2 DEF Types, Pipe
  <2> QED BY <1>2, <2>1 DEF Types, Pipe, Delivered
<1>9. /\ Basic' /\ c2c'[p] = d /\ c2c'[q] = c2c[q]
      /\ Unread(q) # <<>> /\ Head(Unread(q)) = m /\ Unread(q)' = Tail(Unread(q))
      /\ \A v \in Pipe : BufferedIn(d) = BufferedIn(c2c[p]) \o v => Unread(p)' = Unread(p) \o v
  BY <1>2, <1>3, <1>5, <1>7, <1>8, ReadStep
<1>10. Unread(p)' = Unread(p) \o w
  BY <1>9 DEF Revises
<1> HIDE DEF q
<1>11. ASSUME faults' = 0 PROVE faults = 0 /\ \A e \in Ends : Sound(e)
  <2>1. c.state \notin Dead /\ d.state \notin Dead
    BY DEF Delivered, Alive, Dead, Handles
  <2>2. Alive(p) /\ Alive(p)' /\ Running(p) /\ Running(p)' /\ (Alive(q)' <=> Alive(q))
        /\ (Running(q)' <=> Running(q)) /\ (Handshaking(q)' <=> Handshaking(q))
    BY <1>9, <2>1 DEF Dead, Alive, Running, Handshaking
  <2>3. Handshaking(p) => Handshaking(p)'
    BY <1>4, <1>9 DEF Handshaking, Handles
  <2>4. Sound(q)
    BY <1>1, <1>3, <1>6, <1>9, <2>2 DEF Sound
  <2>5. Sound(p)
    BY <1>3, <1>4, <1>6, <1>9, <2>1, <2>2, <2>3 DEF Sound, Handles, Dead, q
  <2> QED BY <1>1, <1>3, <1>11, <2>4, <2>5
<1>12. Faultless'
  BY <1>9, <1>11, FaultlessKeeps DEF Inv
<1>13. \A e \in Ends : Alive(e)' <=> Alive(e)
  BY <1>1, <1>9 DEF Delivered, Handles, Alive, Dead
<1>14. UnderWay(p)' = UnderWay(p)
  <2>1. Unread(p) \in Pipe
    BY <1>2, UnreadTyped
  <2> QED BY <1>10, <2>1, NoTexts DEF UnderWay
<1>15. FifoStep
  <2>1. Unread(q) \in Seq(Msg) /\ Tail(Unread(q)) \in Seq(Msg)
    BY <1>1, <1>2, <1>9, UnreadTyped DEF Pipe
  <2>2. UnderWay(q) = PartOf(m) \o UnderWay(q)'
    BY <1>9, <2>1, TextsHead DEF UnderWay
  <2>3. UnderWay(q)' \in Seq(Msg)
    BY <1>9, <2>1, TextsTyped DEF UnderWay
  <2>4. CASE m.type # "MSGUTF8"
    <3>1. UnderWay(q)' = UnderWay(q) /\ got' = got
      BY <2>2, <2>3, <2>4 DEF PartOf, Delivered
    <3> QED BY <1>1, <1>13, <1>14, <3>1, FifoStutter
  <2>5. CASE m.type = "MSGUTF8"
    <3>1. UnderWay(q) = <<m>> \o UnderWay(q)'
      BY <2>2, <2>5 DEF PartOf
    <3>2. UnderWay(q) # <<>> /\ Head(UnderWay(q)) = m /\ UnderWay(q)' = Tail(UnderWay(q))
      BY <1>2, <2>3, <3>1
    <3>3. got' = [got EXCEPT ![p] = Append(@, Head(UnderWay(q)))] /\ Alive(p)
      BY <2>5, <3>2 DEF Delivered
    <3> QED BY <1>13, <1>14, <3>2, <3>3, FifoReceive DEF q
  <2> QED BY <2>4, <2>5
<1> QED BY <1>3, <1>6, <1>9, <1>10, <1>12, <1>15 DEF q, Inv


\* The message makes the handler fail: the channel is closed.
LEMMA ReadGone ==
    ASSUME Inv, NEW p \in Ends, NEW m, Alive(p), Source(p) # <<>>, m = Head(Source(p)), Taken(p),
           c2c' = [c2c EXCEPT ![p] = Gone(@, "CLOSED")], net' = Sockets(p, "CLOSED"),
           UNCHANGED <<config, accepted, got, texts, faults, blocked>>,
           m.type # "MSGUTF8",
           p = "in" /\ m.type = "ADDRLIST" => c2c["in"].directc2c_state # "WAITINGINCOMING"
    PROVE  Inv' /\ FifoStep
<1> DEFINE c == c2c[p]
           q == Other(p)
           d == Gone(c, "CLOSED")
<1>1. q \in Ends /\ Other(q) = p /\ \A e \in Ends : e = p \/ e = q
  BY TwoEnds
<1>2. c \in Chan /\ EndOK(p) /\ Types /\ Basic /\ c2c' = [c2c EXCEPT ![p] = d]
  BY DEF Inv, Basic, Types
<1>3. /\ d \in Chan /\ BufOK(d) /\ MarkOK(d) /\ BufferedIn(d) = <<>>
      /\ d.state = "CLOSED" /\ d.barrier_pos = 0
      /\ \A f \in {"directc2c_state", "direct", "switched_write", "switched_read"} : d[f] = c[f]
  BY <1>2, GoneKeeps
<1> HIDE DEF d
<1>4. /\ d.directc2c_state = c.directc2c_state /\ d.direct = c.direct
      /\ d.switched_write = c.switched_write /\ d.switched_read = c.switched_read
  BY <1>3
<1>5. ChanOK(p, d)
  BY <1>2, <1>3, <1>4 DEF EndOK, ChanOK, Committed
<1>6. /\ net' \in [Ends -> {"none", "syn", "up", "refused", "closed", "broken"}]
      /\ \A e \in Ends : net'[e] = net[e] \/ (net[e] # "none" /\ net'[e] # "none")
  BY <1>2 DEF Types, Sockets
<1>7. Rewired(p, d)
  BY <1>2, <1>4, <1>6 DEF Rewired, Types, EndOK, NetOK
<1>8. got' \in [Ends -> Pipe]
  BY <1>2 DEF Types
<1>9. /\ Basic' /\ c2c'[p] = d /\ c2c'[q] = c2c[q]
      /\ Unread(q) # <<>> /\ Head(Unread(q)) = m /\ Unread(q)' = Tail(Unread(q))
      /\ Unread(p) = Unread(p)' \o BufferedIn(c2c[p])
  <2>1. /\ d.switched_write = c2c[p].switched_write
        /\ c2c[p].switched_write => d.direct.is = c2c[p].direct.is
        /\ d.switched_read => c2c[p].switched_read \/ Head(Source(p)).type = "SWITCH"
    BY <1>4
  <2>2. d \in Chan /\ BufOK(d) /\ MarkOK(d) /\ BufferedIn(d) = <<>>
    BY <1>3
  <2>3. /\ Basic' /\ c2c'[p] = d /\ c2c'[Other(p)] = c2c[Other(p)]
        /\ Unread(Other(p)) # <<>> /\ Head(Unread(Other(p))) = Head(Source(p))
        /\ Unread(Other(p))' = Tail(Unread(Other(p)))
        /\ Unread(p) = Unread(p)' \o BufferedIn(c2c[p])
    BY <1>2, <1>5, <1>7, <1>8, <2>1, <2>2, ReadStep
  <2> QED BY <2>3
<1> HIDE DEF q
<1>10. BufferedIn(c2c[p]) \in Pipe
  BY <1>2, UnreadTyped
<1>11. CalmStates(p) /\ CalmQueue(p)
  BY <1>3, <1>4, <1>9, <1>10 DEF CalmStates, CalmQueue, Dead
<1>12. CalmNet
  <2>1. "in" \in Ends
    BY TwoEnds
  <2> QED BY <1>6, <2>1 DEF CalmNet
<1>13. Story'
  <2>1. p = "in" /\ Head(Unread("out")).type = "ADDRLIST" => Informed'
    BY <1>3, <1>4, <1>9, TwoEnds DEF Informed, q
  <2>2. p = "out" /\ c2c["out"].state = "WAITINGREP" => c2c'["out"].state \in Dead
    BY <1>3, <1>9 DEF Dead
  <2> QED BY <1>2, <1>9, <1>11, <1>12, <2>1, <2>2, TailKeeps DEF Inv, q
<1>14. \A e \in Ends : Sound(e)
  BY <1>2, <1>3, <1>4, <1>9, GoneSound DEF q
<1>15. Faultless'
  BY <1>9, <1>14, FaultlessKeeps DEF Inv
<1>16. UnderWay(p)' \in Prefixes(UnderWay(p))
  <2> DEFINE v == Unread(p)'
             b == BufferedIn(c2c[p])
  <2>1. v \in Seq(Msg) /\ b \in Seq(Msg) /\ Unread(p) = v \o b
    BY <1>9, <1>10, UnreadTypedNext DEF Pipe
  <2> HIDE DEF v, b
  <2>2. OnlyTexts(v) \in Prefixes(OnlyTexts(v \o b))
    BY <2>1, TextsPrefix
  <2> QED BY <2>1, <2>2 DEF UnderWay, v
<1>17. UnderWay(q)' = UnderWay(q)
  <2>1. Unread(q) \in Seq(Msg) /\ Tail(Unread(q)) \in Seq(Msg)
    BY <1>1, <1>2, <1>9, UnreadTyped DEF Pipe
  <2>2. UnderWay(q) = PartOf(m) \o UnderWay(q)'
    BY <1>9, <2>1, TextsHead DEF UnderWay
  <2>3. UnderWay(q)' \in Seq(Msg)
    BY <1>9, <2>1, TextsTyped DEF UnderWay
  <2> QED BY <2>2, <2>3 DEF PartOf
<1>18. ~Alive(p)' /\ (Alive(q)' <=> Alive(q))
  BY <1>3, <1>9 DEF Alive
<1>19. FifoStep
  BY <1>16, <1>17, <1>18, FifoClose DEF q
<1> QED BY <1>9, <1>13, <1>15, <1>19 DEF Inv


\* The first message is only one the end expects in its state.
LEMMA ReadState ==
    ASSUME Inv, NEW p \in Ends, NEW m, Alive(p), Source(p) # <<>>, m = Head(Source(p)), Taken(p)
    PROVE  /\ m \in Msg
           /\ Unread(Other(p)) # <<>> /\ Head(Unread(Other(p))) = m
           /\ c2c[p].state \in {"WAITINGREP", "WAITINGC2CPROTOVER", "ACTIVE"}
           /\ c2c[p].state = "WAITINGREP" =>
                p = "out" /\ m.type \in {"INITRESPOK", "VERDIFFER"}
           /\ c2c[p].state = "WAITINGC2CPROTOVER" =>
                p = "in" /\ m.type \in {"C2CCONNREQ", "C2CCONNREQ-other"}
<1> DEFINE q == Other(p)
           s == SentBy(q)
           b == BufferedIn(c2c[q])
<1>1. q \in Ends /\ (p = "out" => q = "in") /\ (p = "in" => q = "out")
  BY TwoEnds
<1>2. c2c[p] \in Chan /\ ChanOK(p, c2c[p]) /\ Types /\ Basic /\ Story
  BY DEF Inv, Basic, Types, EndOK
<1>3. s # <<>> /\ Head(s) = m
  BY <1>2, TakenFacts
<1>4. s \in Seq(Msg) /\ b \in Seq(Msg) /\ Unread(q) = s \o b /\ Unread(q) \in Pipe
  BY <1>1, <1>2, UnreadTyped DEF Pipe
<1> HIDE DEF s, b, q
<1>5. Unread(q) # <<>> /\ Head(Unread(q)) = m
  BY <1>3, <1>4, TailOfConcat
<1>6. m \in Msg /\ m.type \in TypesOf(Unread(q))
  BY <1>4, <1>5, TypesTail
<1>7. c2c[p].state \in {"WAITINGREP", "WAITINGC2CPROTOVER", "ACTIVE"}
  BY <1>2 DEF Chan, States, Alive
<1>8. ASSUME c2c[p].state = "WAITINGREP"
      PROVE  p = "out" /\ m.type \in {"INITRESPOK", "VERDIFFER"}
  BY <1>1, <1>2, <1>5, <1>8 DEF ChanOK, Story, OpeningOut
<1>9. ASSUME c2c[p].state = "WAITINGC2CPROTOVER"
      PROVE  p = "in" /\ m.type \in {"C2CCONNREQ", "C2CCONNREQ-other"}
  BY <1>1, <1>2, <1>6, <1>9 DEF ChanOK, Story, OpeningIn
<1> QED BY <1>5, <1>6, <1>7, <1>8, <1>9 DEF q

\* A message on an established channel that does not make the end connect.
LEMMA ReadCalm ==
    ASSUME Inv, NEW p \in Ends, NEW m, NEW d, NEW w \in Pipe, TypesOf(w) \subseteq {"MSGOK"},
           Delivered(p, d, m), Revises(c2c[p], d, w), Handles(p, c2c[p], d, m),
           c2c[p].state = "ACTIVE", d.state = "ACTIVE",
           d.directc2c_state = c2c[p].directc2c_state, d.direct.is \in {c2c[p].direct.is, "list"},
           p = "in" /\ m.type = "ADDRLIST" /\ d.directc2c_state = "WAITINGINCOMING"
             => d.direct.is # "none"
    PROVE  Inv' /\ FifoStep
<1> DEFINE q == Other(p)
<1>1. /\ Basic' /\ c2c'[p] = d /\ c2c'[q] = c2c[q] /\ config' = config
      /\ Unread(q) # <<>> /\ Head(Unread(q)) = m
      /\ Unread(q)' = Tail(Unread(q)) /\ Unread(p)' = Unread(p) \o w
      /\ (d.direct.is # "out" \/ c2c[p].direct.is = "out" => net' = net)
      /\ (Story' => Inv' /\ FifoStep)
  BY ReadOk
<1>2. CalmStates(p) /\ CalmQueue(p)
  BY <1>1 DEF CalmStates, CalmQueue
<1>3. CalmNet
  BY <1>1 DEF CalmNet
<1>4. p = "in" /\ Head(Unread("out")).type = "ADDRLIST" => Informed'
  BY <1>1, TwoEnds DEF Informed
<1>5. Story'
  BY <1>1, <1>2, <1>3, <1>4, TailKeeps DEF Inv
<1> QED BY <1>1, <1>5

LEMMA SendsNothing ==
    ASSUME NEW c \in Chan, NEW d, d \in Chan, BufOK(d), MarkOK(d), BufferedIn(d) = BufferedIn(c),
           BufOK(c), d.barrier_pos = c.barrier_pos, d.switched_write = c.switched_write
    PROVE  Revises(c, d, <<>>) /\ <<>> \in Pipe /\ TypesOf(<<>>) = {}
<1>1. BufferedIn(c) \in Seq(Msg)
  BY BufTyped DEF Pipe
<1>2. <<>> \in Pipe /\ TypesOf(<<>>) = {}
  <2>1. Plain("MSGOK") \in Msg
    BY PlainTyped DEF MsgTypes
  <2> QED BY <2>1, TypesFew
<1> QED BY <1>1, <1>2 DEF Revises

LEMMA SendsOne ==
    ASSUME NEW c \in Chan, BufOK(c), MarkOK(c), NEW t \in MsgTypes \ {"SWITCH"}
    PROVE  /\ Revises(c, Push(c, Plain(t)), <<Plain(t)>>)
           /\ <<Plain(t)>> \in Pipe /\ TypesOf(<<Plain(t)>>) = {t}
           /\ Push(c, Plain(t)).state = c.state
           /\ Push(c, Plain(t)).directc2c_state = c.directc2c_state
           /\ Push(c, Plain(t)).direct = c.direct
           /\ Push(c, Plain(t)).switched_read = c.switched_read
<1> DEFINE m == Plain(t)
<1>1. m \in Msg /\ m.type = t
  BY PlainTyped
<1> HIDE DEF m
<1>2. /\ Push(c, m) \in Chan /\ BufOK(Push(c, m))
      /\ BufferedIn(Push(c, m)) = Append(BufferedIn(c), m) /\ MarkOK(Push(c, m))
      /\ \A f \in {"state", "directc2c_state", "direct", "switched_write", "switched_read",
                   "barrier_pos", "before_barrier_pos", "write_sslbytestowrite"} :
           Push(c, m)[f] = c[f]
  BY <1>1, PushKeeps
<1>3. BufferedIn(c) \in Seq(Msg) /\ <<m>> \in Pipe /\ TypesOf(<<m>>) = {t}
  BY <1>1, BufTyped, TypesFew DEF Pipe
<1>4. Append(BufferedIn(c), m) = BufferedIn(c) \o <<m>>
  BY <1>1, <1>3
<1> QED BY <1>2, <1>3, <1>4 DEF Revises, m

LEMMA ReadsText ==
    ASSUME Inv, NEW p \in Ends, NEW m, m.type = "MSGUTF8", c2c[p].state = "ACTIVE",
           Delivered(p, Push(c2c[p], Plain("MSGOK")), m)
    PROVE  Inv' /\ FifoStep
<1> DEFINE c == c2c[p]
           d == Push(c, Plain("MSGOK"))
           w == <<Plain("MSGOK")>>
<1>1. c \in Chan /\ EndOK(p)
  BY DEF Inv, Basic, Types
<1>2. /\ Revises(c, d, w) /\ w \in Pipe /\ TypesOf(w) = {"MSGOK"}
      /\ d.state = c.state /\ d.directc2c_state = c.directc2c_state
      /\ d.direct = c.direct /\ d.switched_read = c.switched_read
  BY <1>1, SendsOne DEF EndOK, MsgTypes
<1> HIDE DEF d, w
<1>3. Handles(p, c, d, m)
  BY <1>1, <1>2 DEF Handles, EndOK, ChanOK, Committed, Revises, Dead
<1> QED BY <1>2, <1>3, ReadCalm DEF d

\* The handler does nothing.
LEMMA ReadsPlain ==
    ASSUME Inv, NEW p \in Ends, NEW m, c2c[p].state = "ACTIVE", Delivered(p, c2c[p], m),
           m.type = "MSGOK" \/ (m.type = "ADDRLIST" /\ config[p] = "DISABLED")
    PROVE  Inv' /\ FifoStep
<1> DEFINE c == c2c[p]
<1>1. c \in Chan /\ EndOK(p)
  BY DEF Inv, Basic, Types
<1>2. Revises(c, c, <<>>) /\ <<>> \in Pipe /\ TypesOf(<<>>) = {}
  BY <1>1, SendsNothing DEF EndOK
<1>3. Handles(p, c, c, m)
  BY <1>1 DEF Handles, EndOK, Dead
<1>4. config[p] = "DISABLED" => c.directc2c_state # "WAITINGINCOMING"
  BY <1>1 DEF EndOK, ChanOK
<1> QED BY <1>2, <1>3, <1>4, ReadCalm

\* The address is kept for later.
LEMMA ReadsAddress ==
    ASSUME Inv, NEW p \in Ends, NEW m, m.type = "ADDRLIST", c2c[p].state = "ACTIVE",
           c2c[p].directc2c_state \in {"INACTIVE", "WAITINGINCOMING"},
           Delivered(p, [c2c[p] EXCEPT !.direct = AddressOnly], m)
    PROVE  Inv' /\ FifoStep
<1> DEFINE c == c2c[p]
           y == c.directc2c_state
           d == Redirect(c, AddressOnly, y)
<1>1. c \in Chan /\ EndOK(p) /\ AddressOnly \in Direct /\ y \in DirectStates
      /\ AddressOnly.is = "list"
  BY DEF Inv, Basic, Types, AddressOnly, Direct, DirectStates
<1>2. d = [c EXCEPT !.direct = AddressOnly]
  BY <1>1 DEF Redirect, Chan
<1>3. Delivered(p, d, m)
  BY <1>2
<1>4. /\ d \in Chan /\ BufOK(d) /\ MarkOK(d) /\ BufferedIn(d) = BufferedIn(c)
      /\ d.direct = AddressOnly /\ d.directc2c_state = y /\ d.state = c.state
      /\ d.barrier_pos = c.barrier_pos
      /\ d.switched_write = c.switched_write /\ d.switched_read = c.switched_read
  BY <1>1, RedirectKeeps DEF EndOK
<1> HIDE DEF d
<1>5. Revises(c, d, <<>>) /\ <<>> \in Pipe /\ TypesOf(<<>>) = {}
  BY <1>1, <1>4, SendsNothing DEF EndOK
<1>6. Handles(p, c, d, m)
  BY <1>1, <1>4 DEF Handles, EndOK, ChanOK, Committed, Dead
<1> QED BY <1>1, <1>3, <1>4, <1>5, <1>6, ReadCalm

\* The rest of what the peer sends comes on the direct connection.
LEMMA ReadsSwitch ==
    ASSUME Inv, NEW p \in Ends, NEW m, m.type = "SWITCH", c2c[p].state = "ACTIVE",
           c2c[p].directc2c_state \in {"ACTIVE", "CONNECTING"},
           Delivered(p, [c2c[p] EXCEPT !.switched_read = TRUE], m)
    PROVE  Inv' /\ FifoStep
<1> DEFINE c == c2c[p]
           q == Other(p)
           d == [c EXCEPT !.switched_read = TRUE]
<1>0. q \in Ends /\ ((p = "out" /\ q = "in") \/ (p = "in" /\ q = "out"))
  BY TwoEnds
<1>1. c \in Chan /\ EndOK(p) /\ EndOK(q) /\ Basic /\ Story
  BY <1>0 DEF Inv, Basic, Types
<1>2. d \in Chan
  BY <1>1 DEF Chan
<1>3. /\ d.state = c.state /\ d.directc2c_state = c.directc2c_state /\ d.direct = c.direct
      /\ d.write_buf = c.write_buf /\ d.barrier_pos = c.barrier_pos
      /\ d.before_barrier_pos = c.before_barrier_pos
      /\ d.write_sslbytestowrite = c.write_sslbytestowrite
      /\ d.switched_write = c.switched_write
  BY <1>1 DEF Chan
<1> HIDE DEF d
<1>4. BufOK(d) /\ MarkOK(d) /\ BufferedIn(d) = BufferedIn(c)
  BY <1>1, <1>3, SameBuffer DEF EndOK
<1>5. Revises(c, d, <<>>) /\ <<>> \in Pipe /\ TypesOf(<<>>) = {}
  BY <1>1, <1>2, <1>3, <1>4, SendsNothing DEF EndOK
<1>6. ASSUME c.directc2c_state = "CONNECTING" PROVE c2c[q].direct.is = "in"
  <2>1. c2c[q].switched_write
    BY <1>1, TakenFacts DEF Delivered
  <2>2. c2c[q].direct.is \in {"out", "in"}
    BY <1>1, <2>1 DEF EndOK, ChanOK, Committed
  <2>3. c.direct.is = "out"
    BY <1>1, <1>6 DEF EndOK, ChanOK
  <2> QED BY <1>0, <1>1, <2>2, <2>3, OneMaker
<1>7. Handles(p, c, d, m)
  BY <1>1, <1>3, <1>6 DEF Handles, EndOK, ChanOK, Committed, Dead
<1> QED BY <1>3, <1>5, <1>7, ReadCalm DEF d


\* The only address is tried.
LEMMA ReadsDial ==
    ASSUME Inv, NEW p \in Ends, NEW m, c2c[p].state = "ACTIVE",
           c2c[p].directc2c_state \in {"INACTIVE", "WAITINGINCOMING"},
           NEW x, x = [is |-> "out", state |-> "CONNECTING"],
           Delivered(p, Redirect(c2c[p], x, "CONNECTING"), m),
           \/ m.type = "ADDRLIST" /\ (p = "out" \/ config[p] # "ALLOWINCOMING")
           \/ m.type = "FAILED" /\ p = "in"
    PROVE  Inv' /\ FifoStep
<1> DEFINE c == c2c[p]
           q == Other(p)
           d == Redirect(c, x, "CONNECTING")
<1>1. c \in Chan /\ EndOK(p) /\ Basic /\ Story /\ x \in Direct /\ x.is = "out"
      /\ x.state = "CONNECTING" /\ "CONNECTING" \in DirectStates
  BY DEF Inv, Basic, Types, Direct, DirectStates
<1>2. /\ d \in Chan /\ BufOK(d) /\ MarkOK(d) /\ BufferedIn(d) = BufferedIn(c)
      /\ d.direct = x /\ d.directc2c_state = "CONNECTING" /\ d.state = c.state
      /\ d.barrier_pos = c.barrier_pos
      /\ d.switched_write = c.switched_write /\ d.switched_read = c.switched_read
  BY <1>1, RedirectKeeps DEF EndOK
<1> HIDE DEF d
<1>3. Revises(c, d, <<>>) /\ <<>> \in Pipe /\ TypesOf(<<>>) = {}
  BY <1>1, <1>2, SendsNothing DEF EndOK
<1>4. Handles(p, c, d, m)
  BY <1>1, <1>2 DEF Handles, EndOK, ChanOK, Committed, Dead
<1>5. /\ Basic' /\ c2c'[p] = d /\ c2c'[q] = c2c[q] /\ config' = config
      /\ Unread(q) # <<>> /\ Head(Unread(q)) = m
      /\ Unread(q)' = Tail(Unread(q)) /\ Unread(p)' = Unread(p) \o <<>>
      /\ net'[q] = net[q]
      /\ (Story' => Inv' /\ FifoStep)
  BY <1>3, <1>4, ReadOk DEF d
<1>6. Unread(p)' = Unread(p)
  BY <1>1, <1>5, UnreadTyped DEF Pipe
<1>7. CASE p = "out"
  <2>1. q = "in" /\ m.type = "ADDRLIST"
    BY <1>7, TwoEnds
  <2> QED BY <1>1, <1>2, <1>5, <1>6, <1>7, <2>1, OutDials
<1>8. CASE p = "in"
  <2>1. q = "out"
    BY <1>8, TwoEnds
  <2> QED BY <1>1, <1>2, <1>5, <1>6, <1>8, <2>1, InDials
<1> QED BY <1>7, <1>8, TwoEnds

LEMMA RevisesTwice ==
    ASSUME NEW c \in Chan, BufOK(c), NEW d, NEW e, NEW v \in Pipe, NEW w \in Pipe,
           Revises(c, d, v), Revises(d, e, w)
    PROVE  Revises(c, e, v \o w) /\ v \o w \in Pipe
<1> DEFINE b == BufferedIn(c)
<1>1. b \in Seq(Msg) /\ v \in Seq(Msg) /\ w \in Seq(Msg)
  BY BufTyped DEF Pipe
<1>2. BufferedIn(e) = (b \o v) \o w
  BY DEF Revises
<1> HIDE DEF b
<1>3. (b \o v) \o w = b \o (v \o w) /\ v \o w \in Pipe
  BY <1>1, ConcatAssociative DEF Pipe
<1> QED BY <1>2, <1>3 DEF Revises, b

\* The channel is established.
Established(c) == [c EXCEPT !.state = "ACTIVE"]

LEMMA EstablishedKeeps ==
    ASSUME NEW c \in Chan, BufOK(c), MarkOK(c)
    PROVE  /\ Revises(c, Established(c), <<>>) /\ <<>> \in Pipe
           /\ Established(c).state = "ACTIVE" /\ Established(c).direct = c.direct
           /\ Established(c).directc2c_state = c.directc2c_state
           /\ Established(c).switched_read = c.switched_read
<1> DEFINE d == Established(c)
<1>1. d \in Chan
  BY DEF Established, Chan, States
<1>2. /\ d.state = "ACTIVE" /\ d.directc2c_state = c.directc2c_state /\ d.direct = c.direct
      /\ d.write_buf = c.write_buf /\ d.barrier_pos = c.barrier_pos
      /\ d.before_barrier_pos = c.before_barrier_pos
      /\ d.write_sslbytestowrite = c.write_sslbytestowrite
      /\ d.switched_write = c.switched_write /\ d.switched_read = c.switched_read
  BY DEF Established, Chan
<1> HIDE DEF d
<1>3. BufOK(d) /\ MarkOK(d) /\ BufferedIn(d) = BufferedIn(c)
  BY <1>2, SameBuffer
<1>4. Revises(c, d, <<>>) /\ <<>> \in Pipe
  BY <1>1, <1>2, <1>3, SendsNothing
<1> QED BY <1>2, <1>4 DEF d

\* The address list is sent by an end that accepts connections.
AddressSent(p) == IF config[p] = "ALLOWINCOMING" THEN <<Plain("ADDRLIST")>> ELSE <<>>

LEMMA AddrListKeeps ==
    ASSUME NEW c \in Chan, BufOK(c), MarkOK(c), NEW p, NEW d,
           d = PICA_send_directc2caddrlist(p, c), c.directc2c_state = "INACTIVE"
    PROVE  /\ Revises(c, d, AddressSent(p)) /\ AddressSent(p) \in Pipe
           /\ TypesOf(AddressSent(p)) =
                IF config[p] = "ALLOWINCOMING" THEN {"ADDRLIST"} ELSE {}
           /\ OnceIn(AddressSent(p))
           /\ d.state = c.state /\ d.direct = c.direct /\ d.switched_read = c.switched_read
           /\ d.directc2c_state =
                IF config[p] = "ALLOWINCOMING" THEN "WAITINGINCOMING" ELSE "INACTIVE"
<1> DEFINE s == Push(c, Plain("ADDRLIST"))
           y == "WAITINGINCOMING"
<1>1. CASE config[p] # "ALLOWINCOMING"
  <2>1. d = c /\ AddressSent(p) = <<>>
    BY <1>1 DEF PICA_send_directc2caddrlist, AddressSent
  <2>2. Revises(c, c, <<>>) /\ <<>> \in Pipe /\ TypesOf(<<>>) = {}
    BY SendsNothing
  <2>3. OnceIn(<<>>)
    BY DEF OnceIn
  <2> QED BY <1>1, <2>1, <2>2, <2>3
<1>2. CASE config[p] = "ALLOWINCOMING"
  <2> DEFINE w == <<Plain("ADDRLIST")>>
  <2>1. /\ Revises(c, s, w) /\ w \in Pipe /\ TypesOf(w) = {"ADDRLIST"}
        /\ s.state = c.state /\ s.direct = c.direct /\ s.switched_read = c.switched_read
    BY SendsOne DEF MsgTypes
  <2>2. s \in Chan /\ BufOK(s) /\ MarkOK(s) /\ s.direct \in Direct /\ y \in DirectStates
    BY <2>1 DEF Revises, Chan, DirectStates
  <2>3. d = [s EXCEPT !.directc2c_state = y]
    BY <1>2 DEF PICA_send_directc2caddrlist
  <2> HIDE DEF s
  <2>4. d = Redirect(s, s.direct, y)
    BY <2>2, <2>3 DEF Redirect, Chan
  <2>5. /\ d \in Chan /\ BufOK(d) /\ MarkOK(d) /\ BufferedIn(d) = BufferedIn(s)
        /\ d.direct = s.direct /\ d.directc2c_state = y /\ d.state = s.state
        /\ d.barrier_pos = s.barrier_pos
        /\ d.switched_write = s.switched_write /\ d.switched_read = s.switched_read
    BY <2>2, <2>4, RedirectKeeps
  <2>6. Revises(c, d, w)
    BY <2>1, <2>5 DEF Revises
  <2>7. OnceIn(w)
    <3>1. DOMAIN w = {1}
      OBVIOUS
    <3> QED BY <3>1 DEF OnceIn
  <2>8. AddressSent(p) = w
    BY <1>2 DEF AddressSent
  <2> QED BY <1>2, <2>1, <2>5, <2>6, <2>7, <2>8
<1> QED BY <1>1, <1>2


\* The caller is told that the version is right.
LEMMA ReadsAnswer ==
    ASSUME Inv, NEW m, m.type = "INITRESPOK", c2c["out"].state = "WAITINGREP", NEW d,
           d = PICA_send_directc2caddrlist("out", Established(c2c["out"])),
           Delivered("out", d, m)
    PROVE  Inv' /\ FifoStep
<1> DEFINE p == "out"
           c == c2c[p]
           a == Established(c)
           w == AddressSent(p)
<1>1. c \in Chan /\ EndOK(p) /\ Basic /\ Story /\ p \in Ends /\ Other(p) = "in"
  BY TwoEnds DEF Inv, Basic, Types
<1>2. c.directc2c_state = "INACTIVE" /\ c.direct.is \notin {"out", "in"}
      /\ c.barrier_pos = 0 /\ ~c.switched_write
  BY <1>1 DEF EndOK, ChanOK, Committed
<1>3. /\ Revises(c, a, <<>>) /\ <<>> \in Pipe /\ a.state = "ACTIVE" /\ a.direct = c.direct
      /\ a.directc2c_state = c.directc2c_state /\ a.switched_read = c.switched_read
  BY <1>1, EstablishedKeeps DEF EndOK
<1>4. a \in Chan /\ BufOK(a) /\ MarkOK(a) /\ a.barrier_pos = 0 /\ ~a.switched_write
  BY <1>2, <1>3 DEF Revises
<1> HIDE DEF a
<1>5. /\ Revises(a, d, w) /\ w \in Pipe
      /\ TypesOf(w) = IF config[p] = "ALLOWINCOMING" THEN {"ADDRLIST"} ELSE {}
      /\ d.state = a.state /\ d.direct = a.direct /\ d.switched_read = a.switched_read
      /\ d.directc2c_state = IF config[p] = "ALLOWINCOMING" THEN "WAITINGINCOMING" ELSE "INACTIVE"
  BY <1>2, <1>3, <1>4, AddrListKeeps DEF a
<1> HIDE DEF w
<1>6. Revises(c, d, w)
  <2>1. Revises(c, d, <<>> \o w)
    BY <1>1, <1>3, <1>5, RevisesTwice DEF EndOK
  <2>2. <<>> \o w = w
    BY <1>5 DEF Pipe
  <2> QED BY <2>1, <2>2
<1>7. Handles(p, c, d, m)
  BY <1>2, <1>3, <1>5, <1>6 DEF Handles, ChanOK, Revises, Dead
<1>8. "MSGUTF8" \notin TypesOf(w) /\ TypesOf(w) \subseteq {"ADDRLIST"}
      /\ (config["out"] = "ALLOWINCOMING" => "ADDRLIST" \in TypesOf(w))
  BY <1>5
<1>9. /\ Basic' /\ c2c'[p] = d /\ c2c'["in"] = c2c["in"] /\ config' = config
      /\ Unread("in") # <<>> /\ Head(Unread("in")) = m
      /\ Unread("in")' = Tail(Unread("in")) /\ Unread(p)' = Unread(p) \o w
      /\ net'["in"] = net["in"]
      /\ (Story' => Inv' /\ FifoStep)
  <2>1. w \in Pipe
    BY <1>5
  <2>2. Delivered(p, d, m)
    OBVIOUS
  <2>3. /\ Basic' /\ c2c'[p] = d /\ c2c'[Other(p)] = c2c[Other(p)] /\ config' = config
        /\ Unread(Other(p)) # <<>> /\ Head(Unread(Other(p))) = m
        /\ Unread(Other(p))' = Tail(Unread(Other(p))) /\ Unread(p)' = Unread(p) \o w
        /\ net'[Other(p)] = net[Other(p)]
        /\ (Story' => Inv' /\ FifoStep)
    BY <1>1, <1>6, <1>7, <1>8, <2>1, <2>2, ReadOk
  <2> QED BY <1>1, <2>3
<1>10. Story'
  BY <1>1, <1>3, <1>5, <1>8, <1>9, OutAgrees
<1> QED BY <1>9, <1>10

\* The called end answers.
LEMMA AnswerStep ==
    ASSUME Inv, NEW m, c2c["in"].state = "WAITINGC2CPROTOVER", NEW d, Delivered("in", d, m),
           NEW w \in Pipe, w # <<>>, OnceIn(w), Revises(c2c["in"], d, w),
           d.direct = c2c["in"].direct, d.switched_read = c2c["in"].switched_read,
           \/ /\ d.state = "ACTIVE"
              /\ TypesOf(w) \subseteq {"INITRESPOK", "ADDRLIST"} /\ Head(w).type = "INITRESPOK"
              /\ config["in"] # "ALLOWINCOMING" => "ADDRLIST" \notin TypesOf(w)
              /\ \/ d.directc2c_state = "INACTIVE"
                 \/ d.directc2c_state = "WAITINGINCOMING" /\ config["in"] = "ALLOWINCOMING"
           \/ /\ d.state = "WAITINGC2CPROTOVER" /\ TypesOf(w) \subseteq {"VERDIFFER"}
              /\ d.directc2c_state = "INACTIVE"
    PROVE  Inv' /\ FifoStep
<1> DEFINE p == "in"
           c == c2c[p]
<1>1. c \in Chan /\ EndOK(p) /\ Basic /\ Story /\ p \in Ends /\ Other(p) = "out"
  BY TwoEnds DEF Inv, Basic, Types
<1>2. c.directc2c_state = "INACTIVE" /\ c.direct.is \notin {"out", "in"}
      /\ c.barrier_pos = 0 /\ ~c.switched_write
  BY <1>1 DEF EndOK, ChanOK, Committed
<1>3. Handles(p, c, d, m)
  BY <1>2 DEF Handles, ChanOK, Revises, Dead
<1>4. "MSGUTF8" \notin TypesOf(w)
  OBVIOUS
<1>5. /\ Basic' /\ c2c'[p] = d /\ c2c'["out"] = c2c["out"] /\ config' = config
      /\ Unread("out") # <<>> /\ Head(Unread("out")) = m
      /\ Unread("out")' = Tail(Unread("out")) /\ Unread(p)' = Unread(p) \o w
      /\ (d.direct.is # "out" \/ c2c[p].direct.is = "out" => net' = net)
      /\ (Story' => Inv' /\ FifoStep)
  BY <1>1, <1>3, <1>4, ReadOk
<1>6. net' = net
  BY <1>2, <1>5
<1>7. Story'
  BY <1>1, <1>5, <1>6, InAnswers
<1> QED BY <1>5, <1>7

LEMMA ReadsRequest ==
    ASSUME Inv, NEW m, c2c["in"].state = "WAITINGC2CPROTOVER", NEW d, Delivered("in", d, m),
           d = PICA_send_directc2caddrlist("in",
                   Established(Push(c2c["in"], Plain("INITRESPOK"))))
    PROVE  Inv' /\ FifoStep
<1> DEFINE p == "in"
           c == c2c[p]
           k == Plain("INITRESPOK")
           s == Push(c, k)
           a == Established(s)
           v == AddressSent(p)
<1>1. c \in Chan /\ EndOK(p) /\ k \in Msg /\ k.type = "INITRESPOK" /\ p \in Ends
  BY TwoEnds, PlainTyped DEF Inv, Basic, Types, MsgTypes
<1>2. c.directc2c_state = "INACTIVE"
  BY <1>1 DEF EndOK, ChanOK
<1>3. /\ Revises(c, s, <<k>>) /\ <<k>> \in Pipe /\ TypesOf(<<k>>) = {"INITRESPOK"}
      /\ s.direct = c.direct /\ s.directc2c_state = "INACTIVE"
      /\ s.switched_read = c.switched_read
  BY <1>1, <1>2, SendsOne DEF EndOK, MsgTypes
<1>4. s \in Chan /\ BufOK(s) /\ MarkOK(s)
  BY <1>3 DEF Revises
<1> HIDE DEF s, k
<1>5. /\ Revises(s, a, <<>>) /\ <<>> \in Pipe /\ a.state = "ACTIVE" /\ a.direct = s.direct
      /\ a.directc2c_state = s.directc2c_state /\ a.switched_read = s.switched_read
  BY <1>4, EstablishedKeeps
<1>6. a \in Chan /\ BufOK(a) /\ MarkOK(a)
  BY <1>5 DEF Revises
<1> HIDE DEF a
<1>7. /\ Revises(a, d, v) /\ v \in Pipe
      /\ TypesOf(v) = (IF config[p] = "ALLOWINCOMING" THEN {"ADDRLIST"} ELSE {}) /\ OnceIn(v)
      /\ d.state = a.state /\ d.direct = a.direct /\ d.switched_read = a.switched_read
      /\ d.directc2c_state = IF config[p] = "ALLOWINCOMING" THEN "WAITINGINCOMING" ELSE "INACTIVE"
  BY <1>3, <1>5, <1>6, AddrListKeeps DEF a, s, k
<1> HIDE DEF v
<1> DEFINE w == <<k>> \o v
<1>8. Revises(c, d, w) /\ w \in Pipe
  <2>1. Revises(s, d, <<>> \o v)
    BY <1>4, <1>5, <1>7, RevisesTwice
  <2>2. <<>> \o v = v
    BY <1>7 DEF Pipe
  <2>3. Revises(s, d, v)
    BY <2>1, <2>2
  <2>4. BufOK(c) /\ v \in Pipe
    BY <1>1, <1>7 DEF EndOK
  <2> QED BY <1>1, <1>3, <2>3, <2>4, RevisesTwice
<1>9. w # <<>> /\ Head(w) = k
  BY <1>1, <1>7 DEF Pipe
<1>10. TypesOf(w) = {"INITRESPOK"} \cup TypesOf(v) /\ OnceIn(w)
  <2>1. TypesOf(<<k>> \o v) = TypesOf(<<k>>) \cup TypesOf(v)
    BY <1>3, <1>7, TypesConcat
  <2>2. OnceIn(<<k>> \o v)
    BY <1>3, <1>7, ConcatContent
  <2> QED BY <1>3, <2>1, <2>2
<1> HIDE DEF w
<1>11. d.direct = c.direct /\ d.switched_read = c.switched_read /\ d.state = "ACTIVE"
  BY <1>3, <1>5, <1>7
<1>12. TypesOf(w) \subseteq {"INITRESPOK", "ADDRLIST"} /\ Head(w).type = "INITRESPOK"
       /\ (config["in"] # "ALLOWINCOMING" => "ADDRLIST" \notin TypesOf(w))
  BY <1>1, <1>7, <1>9, <1>10
<1>13. \/ d.directc2c_state = "INACTIVE"
       \/ d.directc2c_state = "WAITINGINCOMING" /\ config["in"] = "ALLOWINCOMING"
  BY <1>7
<1> QED BY <1>8, <1>9, <1>10, <1>11, <1>12, <1>13, AnswerStep

LEMMA ReadsOther ==
    ASSUME Inv, NEW m, c2c["in"].state = "WAITINGC2CPROTOVER", NEW d, Delivered("in", d, m),
           d = Push(c2c["in"], Plain("VERDIFFER"))
    PROVE  Inv' /\ FifoStep
<1> DEFINE c == c2c["in"]
           k == Plain("VERDIFFER")
<1>1. c \in Chan /\ EndOK("in") /\ k \in Msg
  BY TwoEnds, PlainTyped DEF Inv, Basic, Types, MsgTypes
<1>2. c.directc2c_state = "INACTIVE"
  BY <1>1 DEF EndOK, ChanOK
<1>3. /\ Revises(c, d, <<k>>) /\ <<k>> \in Pipe /\ TypesOf(<<k>>) = {"VERDIFFER"}
      /\ d.direct = c.direct /\ d.directc2c_state = "INACTIVE" /\ d.state = c.state
      /\ d.switched_read = c.switched_read
  BY <1>1, <1>2, SendsOne DEF EndOK, MsgTypes
<1> HIDE DEF k
<1>4. <<k>> # <<>> /\ OnceIn(<<k>>)
  <2>1. DOMAIN <<k>> = {1} /\ <<k>> # <<>>
    OBVIOUS
  <2> QED BY <2>1 DEF OnceIn
<1> QED BY <1>3, <1>4, AnswerStep


LEMMA ReadsMessage ==
    ASSUME Inv, NEW p \in Ends, Alive(p), ReadMessage(p)
    PROVE  Inv' /\ FifoStep
<1> DEFINE c == c2c[p]
           q == Other(p)
           m == Head(Source(p))
           r == Handle(p, c, m)
<1>1. Source(p) # <<>> /\ Taken(p) /\ UNCHANGED <<config, accepted, texts, faults, blocked>>
  BY DEF ReadMessage, Source, Taken
<1>2. IF r.result = "ok"
      THEN /\ c2c' = [c2c EXCEPT ![p] = r.chan]
           /\ net' = IF Dials(c2c[p].direct, r.chan.direct) THEN [net EXCEPT ![p] = "syn"] ELSE net
           /\ got' = IF m.type = "MSGUTF8" THEN [got EXCEPT ![p] = Append(@, m)] ELSE got
      ELSE LET state == IF r.result = "fail" THEN "CLOSED" ELSE "CRASHED"
           IN  /\ c2c' = [c2c EXCEPT ![p] = Gone(@, state)]
               /\ net' = Sockets(p, state)
               /\ UNCHANGED got
  BY DEF ReadMessage, Source
<1> HIDE DEF m, r
<1>3. m = Head(Source(p)) /\ r = Handle(p, c, m)
  BY DEF m, r
<1>4. /\ m \in Msg /\ Unread(q) # <<>> /\ Head(Unread(q)) = m
      /\ c.state \in {"WAITINGREP", "WAITINGC2CPROTOVER", "ACTIVE"}
      /\ (c.state = "WAITINGREP" => p = "out" /\ m.type \in {"INITRESPOK", "VERDIFFER"})
      /\ (c.state = "WAITINGC2CPROTOVER" =>
            p = "in" /\ m.type \in {"C2CCONNREQ", "C2CCONNREQ-other"})
  BY <1>1, <1>3, ReadState
<1>5. ASSUME NEW d, r = Ok(d) PROVE Delivered(p, d, m)
  <2>1. r.result = "ok" /\ r.chan = d
    BY <1>5 DEF Ok
  <2> QED BY <1>1, <1>2, <1>3, <2>1 DEF Delivered
<1>6. ASSUME r = Fail(c), m.type # "MSGUTF8",
             p = "in" /\ m.type = "ADDRLIST" => c2c["in"].directc2c_state # "WAITINGINCOMING"
      PROVE  Inv' /\ FifoStep
  <2>1. r.result = "fail"
    BY <1>6 DEF Fail
  <2>2. c2c' = [c2c EXCEPT ![p] = Gone(@, "CLOSED")] /\ net' = Sockets(p, "CLOSED") /\ got' = got
    BY <1>2, <2>1
  <2> QED BY <1>1, <1>3, <1>6, <2>2, ReadGone
<1>7. c \in Chan /\ EndOK(p) /\ Story /\ Basic /\ m.type \in MsgTypes
  BY <1>4 DEF Inv, Basic, Types, Msg
<1>8. CASE m.type \in {"C2CCONNREQ", "C2CCONNREQ-other"}
  <2>1. r = procmsg_C2CCONNREQ(p, c, m)
    BY <1>3, <1>8 DEF Handle
  <2>2. CASE c.state # "WAITINGC2CPROTOVER"
    BY <1>6, <1>8, <2>1, <2>2 DEF procmsg_C2CCONNREQ
  <2>3. CASE c.state = "WAITINGC2CPROTOVER" /\ m.type = "C2CCONNREQ"
    <3> DEFINE d == PICA_send_directc2caddrlist(p, Established(Push(c, Plain("INITRESPOK"))))
    <3>1. r = Ok(d)
      BY <2>1, <2>3 DEF procmsg_C2CCONNREQ, Established
    <3>2. Delivered(p, d, m) /\ p = "in"
      BY <1>4, <1>5, <2>3, <3>1
    <3> QED BY <2>3, <3>2, ReadsRequest
  <2>4. CASE c.state = "WAITINGC2CPROTOVER" /\ m.type # "C2CCONNREQ"
    <3> DEFINE d == Push(c, Plain("VERDIFFER"))
    <3>1. r = Ok(d)
      BY <2>1, <2>4 DEF procmsg_C2CCONNREQ
    <3>2. Delivered(p, d, m) /\ p = "in"
      BY <1>4, <1>5, <2>4, <3>1
    <3> QED BY <2>4, <3>2, ReadsOther
  <2> QED BY <2>2, <2>3, <2>4
<1>9. CASE m.type \in {"INITRESPOK", "VERDIFFER"}
  <2>1. r = procmsg_INITRESP_c2c(p, c, m)
    BY <1>3, <1>9 DEF Handle
  <2>2. CASE c.state # "WAITINGREP" \/ p # "out" \/ m.type = "VERDIFFER"
    BY <1>6, <1>9, <2>1, <2>2 DEF procmsg_INITRESP_c2c
  <2>3. CASE c.state = "WAITINGREP" /\ p = "out" /\ m.type # "VERDIFFER"
    <3> DEFINE d == PICA_send_directc2caddrlist(p, Established(c))
    <3>1. r = Ok(d)
      BY <2>1, <2>3 DEF procmsg_INITRESP_c2c, Established
    <3>2. Delivered(p, d, m) /\ m.type = "INITRESPOK"
      BY <1>5, <1>9, <2>3, <3>1
    <3> QED BY <2>3, <3>2, ReadsAnswer
  <2> QED BY <2>2, <2>3
<1>10. m.type \notin {"C2CCONNREQ", "C2CCONNREQ-other", "INITRESPOK", "VERDIFFER"}
         => c.state = "ACTIVE"
  BY <1>4
<1>11. CASE m.type = "MSGUTF8"
  <2>1. r = Ok(Push(c, Plain("MSGOK"))) /\ c.state = "ACTIVE"
    BY <1>3, <1>10, <1>11 DEF Handle, procmsg_MSGUTF8
  <2> QED BY <1>5, <1>11, <2>1, ReadsText
<1>12. CASE m.type = "MSGOK"
  <2>1. r = Ok(c) /\ c.state = "ACTIVE"
    BY <1>3, <1>10, <1>12 DEF Handle
  <2> QED BY <1>5, <1>12, <2>1, ReadsPlain
<1>13. CASE m.type = "ADDRLIST"
  <2>1. r = procmsg_PICA_PROTO_DIRECTC2C_ADDRLIST(p, c, m) /\ c.state = "ACTIVE"
    BY <1>3, <1>10, <1>13 DEF Handle
  <2>2. CASE config[p] = "DISABLED"
    <3>1. r = Ok(c)
      BY <2>1, <2>2 DEF procmsg_PICA_PROTO_DIRECTC2C_ADDRLIST
    <3> QED BY <1>5, <1>13, <2>1, <2>2, <3>1, ReadsPlain
  <2>3. CASE config[p] # "DISABLED" /\ c.directc2c_state \notin {"INACTIVE", "WAITINGINCOMING"}
    <3>1. r = Fail(c)
      BY <2>1, <2>3 DEF procmsg_PICA_PROTO_DIRECTC2C_ADDRLIST
    <3> QED BY <1>6, <1>13, <2>3, <3>1
  <2>4. CASE /\ config[p] # "DISABLED" /\ c.directc2c_state \in {"INACTIVE", "WAITINGINCOMING"}
             /\ p = "in" /\ config[p] = "ALLOWINCOMING"
    <3>1. r = Ok([c EXCEPT !.direct = AddressOnly])
      BY <2>1, <2>4 DEF procmsg_PICA_PROTO_DIRECTC2C_ADDRLIST
    <3> QED BY <1>5, <1>13, <2>1, <2>4, <3>1, ReadsAddress
  <2>5. CASE /\ config[p] # "DISABLED" /\ c.directc2c_state \in {"INACTIVE", "WAITINGINCOMING"}
             /\ ~(p = "in" /\ config[p] = "ALLOWINCOMING")
    <3> DEFINE x == [is |-> "out", state |-> "CONNECTING"]
    <3>1. directc2c_connect_next(AddressOnly) = x
      BY DEF directc2c_connect_next, AddressOnly
    <3>2. r = Ok(Redirect(c, x, "CONNECTING"))
      BY <2>1, <2>5, <3>1 DEF procmsg_PICA_PROTO_DIRECTC2C_ADDRLIST, Redirect
    <3>3. p = "out" \/ config[p] # "ALLOWINCOMING"
      BY <2>5, TwoEnds
    <3>4. Delivered(p, Redirect(c, x, "CONNECTING"), m)
      BY <1>5, <3>2
    <3> QED BY <1>13, <2>1, <2>5, <3>3, <3>4, ReadsDial
  <2> QED BY <2>2, <2>3, <2>4, <2>5
<1>14. CASE m.type = "FAILED"
  <2>1. r = procmsg_PICA_PROTO_DIRECTC2C_FAILED(p, c, m) /\ c.state = "ACTIVE"
    BY <1>3, <1>10, <1>14 DEF Handle
  <2>2. CASE c.directc2c_state # "WAITINGINCOMING" \/ config[p] = "DISABLED" \/ p # "in"
    <3>1. r = Fail(c)
      BY <2>1, <2>2 DEF procmsg_PICA_PROTO_DIRECTC2C_FAILED
    <3> QED BY <1>6, <1>14, <3>1
  <2>3. CASE c.directc2c_state = "WAITINGINCOMING" /\ config[p] # "DISABLED" /\ p = "in"
    <3>1. q = "out" /\ "out" \in Ends
      BY <2>3, TwoEnds
    <3>2. Unread("out") \in Pipe /\ Unread("out") # <<>> /\ Head(Unread("out")) = m
      BY <1>4, <1>7, <3>1, UnreadTyped
    <3>3. ~AnnouncedIn(Unread("out"))
      BY <1>14, <3>2, TailContent
    <3>4. c.direct.is # "none" /\ c.direct.is \notin {"out", "in"}
      BY <1>7, <2>3, <3>3 DEF Story, AnnouncedOK, Informed, EndOK, ChanOK
    <3>5. c.direct.is = "list"
      BY <1>7, <3>4 DEF Chan, Direct
    <3> DEFINE x == [is |-> "out", state |-> "CONNECTING"]
    <3>6. directc2c_connect_next(c.direct) = x
      BY <3>5 DEF directc2c_connect_next
    <3>7. r = Ok(Redirect(c, x, "CONNECTING"))
      BY <2>1, <2>3, <3>4, <3>6 DEF procmsg_PICA_PROTO_DIRECTC2C_FAILED, Redirect
    <3>8. Delivered(p, Redirect(c, x, "CONNECTING"), m)
      BY <1>5, <3>7
    <3> QED BY <1>14, <2>1, <2>3, <3>8, ReadsDial
  <2> QED BY <2>2, <2>3
<1>15. CASE m.type = "SWITCH"
  <2>1. r = procmsg_PICA_PROTO_DIRECTC2C_SWITCH(p, c, m) /\ c.state = "ACTIVE"
    BY <1>3, <1>10, <1>15 DEF Handle
  <2>2. CASE config[p] = "DISABLED" \/ c.directc2c_state \notin {"ACTIVE", "CONNECTING"}
    <3>1. r = Fail(c)
      BY <2>1, <2>2 DEF procmsg_PICA_PROTO_DIRECTC2C_SWITCH
    <3> QED BY <1>6, <1>15, <3>1
  <2>3. CASE config[p] # "DISABLED" /\ c.directc2c_state \in {"ACTIVE", "CONNECTING"}
    <3>1. r = Ok([c EXCEPT !.switched_read = TRUE])
      BY <2>1, <2>3 DEF procmsg_PICA_PROTO_DIRECTC2C_SWITCH
    <3> QED BY <1>5, <1>15, <2>1, <2>3, <3>1, ReadsSwitch
  <2> QED BY <2>2, <2>3
<1> QED BY <1>7, <1>8, <1>9, <1>11, <1>12, <1>13, <1>14, <1>15 DEF MsgTypes

LEMMA ReadsStep ==
    ASSUME Inv, NEW p \in Ends, PICA_read_c2c(p)
    PROVE  Inv' /\ FifoStep
<1>1. Alive(p) /\ faults \in Nat /\ "CLOSED" \in Dead /\ "CRASHED" \in Dead
      /\ EndOK(p)
  BY DEF PICA_read_c2c, Inv, Basic, Types, Dead
<1>2. CASE c2c[p].switched_read /\ ~Connected(p)
  <2>1. /\ c2c' = [c2c EXCEPT ![p] = Gone(@, "CRASHED")] /\ net' = Sockets(p, "CRASHED")
        /\ UNCHANGED <<config, accepted, relay, link, got, texts, blocked>> /\ faults' = faults
    BY <1>2 DEF PICA_read_c2c, PICA_close_c2c
  <2>2. faults # 0
    <3> SUFFICES ASSUME faults = 0 PROVE FALSE
      OBVIOUS
    <3>1. FaultlessOK(p) /\ FaultlessOK(Other(p)) /\ Other(Other(p)) = p
      BY TwoEnds DEF Inv, Faultless
    <3>2. c2c[p].directc2c_state = "ACTIVE" \/ Handshaking(p)
      BY <1>2, <3>1 DEF FaultlessOK
    <3> QED BY <1>1, <1>2, <3>2 DEF Handshaking, Connected, EndOK, ChanOK
  <2> QED BY <1>1, <2>1, <2>2, CloseStep
<1>3. CASE ReadMessage(p)
  BY <1>1, <1>3, ReadsMessage
<1>4. CASE ReadFails(p)
  <2>1. /\ c2c' = [c2c EXCEPT ![p] = Gone(@, "CLOSED")] /\ net' = Sockets(p, "CLOSED")
        /\ UNCHANGED <<config, accepted, relay, link, got, texts, blocked>> /\ faults' = faults
    BY <1>4 DEF ReadFails, PICA_close_c2c
  <2> QED BY <1>1, <2>1, CloseStep
<1> QED BY <1>2, <1>3, <1>4 DEF PICA_read_c2c



-----------------------------------------------------------------------------
(* The whole system.                                                       *)

LEMMA InitQueues ==
    ASSUME Init, Types
    PROVE  /\ \A p \in Ends : BufOK(c2c[p]) /\ MarkOK(c2c[p])
           /\ Unread("in") = <<>>
           /\ \E version \in {"C2CCONNREQ", "C2CCONNREQ-other"} :
                Unread("out") = <<Plain(version)>>
<1>1. PICK version \in {"C2CCONNREQ", "C2CCONNREQ-other"} :
        c2c = [p \in Ends |-> IF p = "in" THEN InitC2C(p)
                              ELSE [InitC2C(p) EXCEPT !.write_buf = <<Plain(version)>>]]
  BY DEF Init
<1> DEFINE m == Plain(version)
<1>2. m \in Msg /\ m.type = version /\ version # "SWITCH"
  BY PlainTyped DEF MsgTypes
<1> HIDE DEF m
<1>3. /\ c2c["in"].write_buf = <<>> /\ c2c["out"].write_buf = <<m>>
      /\ \A p \in Ends : c2c[p].barrier_pos = 0 /\ c2c[p].before_barrier_pos = 0
                         /\ c2c[p].write_sslbytestowrite = 0 /\ ~c2c[p].switched_write
  BY <1>1 DEF InitC2C, Ends, m
<1>4. DOMAIN <<m>> = {1} /\ <<m>>[1] = m /\ DOMAIN <<>> = {} /\ Len(<<>>) = 0 /\ Len(<<m>>) = 1
  OBVIOUS
<1>5. \A p \in Ends : /\ Len(c2c[p].write_buf) \in Nat
                      /\ \A i \in DOMAIN c2c[p].write_buf : c2c[p].write_buf[i].type # "SWITCH"
  BY <1>2, <1>3, <1>4 DEF Ends
<1>6. \A p \in Ends : BufOK(c2c[p])
  BY <1>3, <1>5 DEF BufOK, WriteEnd
<1>7. \A p \in Ends : MarkOK(c2c[p])
  BY <1>3, <1>5 DEF MarkOK
<1>8. \A p \in Ends : Unread(p) = c2c[p].write_buf
  <2> TAKE p \in Ends
  <2>1. relay[p] = <<>> /\ link["out"][p] = <<>> /\ link["in"][p] = <<>>
    BY DEF Init, Ends
  <2>2. Buffered(p) = c2c[p].write_buf
    BY <1>3 DEF Buffered
  <2>3. c2c[p].write_buf \in Seq(Msg)
    BY DEF Types, Chan, Pipe
  <2> QED BY <2>1, <2>2, <2>3 DEF Unread
<1>9. Unread("in") = <<>> /\ Unread("out") = <<m>>
  BY <1>3, <1>8 DEF Ends
<1> QED BY <1>6, <1>7, <1>9 DEF m

LEMMA InitTypes == Init => Types
<1> SUFFICES ASSUME Init
             PROVE  Types
  OBVIOUS
<1>1. PICK version \in {"C2CCONNREQ", "C2CCONNREQ-other"} :
        c2c = [p \in Ends |-> IF p = "in" THEN InitC2C(p)
                              ELSE [InitC2C(p) EXCEPT !.write_buf = <<Plain(version)>>]]
  BY DEF Init
<1>2. Plain(version) \in Msg
  BY PlainTyped DEF MsgTypes
<1>3. <<>> \in Pipe /\ <<Plain(version)>> \in Pipe
  BY <1>2 DEF Pipe
<1>4. \A p \in Ends : InitC2C(p) \in Chan
  BY <1>3 DEF InitC2C, Chan, States, DirectStates, Direct, NoDirect
<1>5. \A p \in Ends : [InitC2C(p) EXCEPT !.write_buf = <<Plain(version)>>] \in Chan
  BY <1>3, <1>4 DEF Chan
<1>6. c2c \in [Ends -> Chan]
  BY <1>1, <1>4, <1>5
<1> QED BY <1>3, <1>6 DEF Init, Types

LEMMA InitInv == Init => Inv /\ Fifo!FifoInit
<1> SUFFICES ASSUME Init
             PROVE  Inv /\ Fifo!FifoInit
  OBVIOUS
<1>1. Types
  BY InitTypes
<1>2. (\A p \in Ends : BufOK(c2c[p]) /\ MarkOK(c2c[p])) /\ Unread("in") = <<>>
  BY <1>1, InitQueues
<1>3. PICK version \in {"C2CCONNREQ", "C2CCONNREQ-other"} : Unread("out") = <<Plain(version)>>
  BY <1>1, InitQueues
<1>4. Plain(version) \in Msg /\ Plain(version).type = version
  BY PlainTyped DEF MsgTypes
<1>5. TypesOf(Unread("in")) = {} /\ TypesOf(Unread("out")) = {version}
      /\ Unread("in") \in Pipe /\ Unread("out") \in Pipe
  BY <1>2, <1>3, <1>4, TypesFew
<1>6. /\ \A p \in Ends : /\ c2c[p].directc2c_state = "INACTIVE" /\ c2c[p].direct = NoDirect
                         /\ ~c2c[p].switched_write /\ ~c2c[p].switched_read
                         /\ c2c[p].barrier_pos = 0
      /\ c2c["out"].state = "WAITINGREP" /\ c2c["in"].state = "WAITINGC2CPROTOVER"
  BY DEF Init, InitC2C, Ends
<1>7. \A p \in Ends : /\ accepted[p] = "none" /\ net[p] = "none" /\ relay[p] = <<>> /\ got[p] = <<>>
                      /\ \A c \in Ends : link[c][p] = <<>>
  BY DEF Init
<1>8. ASSUME NEW p \in Ends
      PROVE  EndOK(p)
  <2>1. ChanOK(p, c2c[p])
    BY <1>6 DEF ChanOK, NoDirect, Ends
  <2>2. NetOK(p)
    BY <1>6, <1>7 DEF NetOK, NoDirect
  <2>3. PathOK(p)
    <3>1. Other(p) \in Ends /\ DOMAIN <<>> = {}
      BY TwoEnds
    <3> QED BY <1>6, <1>7, <3>1 DEF PathOK
  <2> QED BY <1>2, <2>1, <2>2, <2>3 DEF EndOK
<1>9. Basic
  BY <1>1, <1>8 DEF Basic
<1>10. Story
  <2>1. "in" \in Ends /\ "out" \in Ends
    BY DEF Ends
  <2>2. OpeningIn
    BY <1>5, <1>6, <2>1 DEF OpeningIn
  <2>3. OpeningOut
    BY <1>2, <1>6 DEF OpeningOut
  <2>4. ~MayDial
    BY <1>5, <1>6, <2>1 DEF MayDial, NoDirect
  <2>5. OnceIn(Unread("in"))
    <3>1. DOMAIN <<>> = {}
      OBVIOUS
    <3> QED BY <1>2, <3>1 DEF OnceIn
  <2>6. DialingOK
    BY <1>5, <1>6, <1>7, <2>1, <2>4, <2>5 DEF DialingOK
  <2>7. \A i \in DOMAIN Unread("out") : Unread("out")[i].type # "FAILED"
    BY <1>5, TypesSome
  <2>8. AnnouncedOK
    BY <1>6, <2>7 DEF AnnouncedOK, AnnouncedIn
  <2> QED BY <2>2, <2>3, <2>6, <2>8 DEF Story
<1>11. Faultless
  BY <1>6, <1>7 DEF Faultless, FaultlessOK, NoDirect, Ends
<1>12. \A p \in Ends : Alive(p) /\ UnderWay(p) = <<>>
  <2>1. OnlyTexts(Unread("in")) = <<>> /\ OnlyTexts(Unread("out")) = <<>>
    BY <1>5, NoTexts
  <2> QED BY <1>6, <2>1 DEF Alive, UnderWay, Ends
<1>13. Fifo!FifoInit
  <2>1. [p \in Ends |-> Alive(p)] = [p \in Ends |-> TRUE]
    <3>1. \A p \in Ends : Alive(p) = TRUE
      BY <1>12, Zenon DEF Alive
    <3> QED BY <3>1
  <2>2. [p \in Ends |-> UnderWay(p)] = [p \in Ends |-> <<>>]
    BY <1>12
  <2>3. got = [p \in Ends |-> <<>>]
    BY DEF Init
  <2> QED BY <2>1, <2>2, <2>3 DEF Fifo!FifoInit
<1> QED BY <1>9, <1>10, <1>11, <1>13 DEF Inv

LEMMA Stutters ==
    ASSUME Inv, UNCHANGED dvars
    PROVE  Inv' /\ FifoStep
<1>1. /\ c2c' = c2c /\ UNCHANGED <<config, relay, link, got, texts, blocked>>
      /\ accepted' = accepted /\ net' = net /\ faults' = faults
  BY DEF dvars
<1>2. Types
  BY DEF Inv, Basic
<1> QED BY <1>1, <1>2, NetStep DEF Types

LEMMA NextInv ==
    ASSUME Inv, [Next]_dvars
    PROVE  Inv' /\ FifoStep
<1>1. CASE UNCHANGED dvars
  BY <1>1, Stutters
<1>2. ASSUME NEW p \in Ends, process_listener(p)
      PROVE  Inv' /\ FifoStep
  BY <1>2, ListenerAdds, ListenerConn DEF process_listener
<1>3. ASSUME NEW p \in Ends, process_directc2c(p)
      PROVE  Inv' /\ FifoStep
  BY <1>3, AcceptedStep, StartsTls, TlsStep, GivesUp, Activates, AsksStep DEF process_directc2c
<1>4. ASSUME NEW p \in Ends, PICA_event_loop(p)
      PROVE  Inv' /\ FifoStep
  BY <1>2, <1>3, <1>4, WritesStep, ReadsStep DEF PICA_event_loop
<1> QED BY <1>1, <1>4, BlockStep, TextStep, Reaches, Breaks, Leaves DEF Next

\* An end that has gone over to its direct connection has one; if it was accepted
\* the other end made it.
LEMMA InvSame == Inv => SameConnection
<1> SUFFICES ASSUME Inv, \A p \in Ends : c2c[p].directc2c_state = "ACTIVE"
             PROVE  Connection("out") = Connection("in")
  BY DEF SameConnection
<1>1. ChanOK("out", c2c["out"]) /\ ChanOK("in", c2c["in"])
  BY TwoEnds DEF Inv, Basic, EndOK
<1>2. c2c["out"].direct.is \in {"out", "in"} /\ c2c["in"].direct.is \in {"out", "in"}
  BY <1>1 DEF ChanOK, Ends
<1>3. c2c["in"].direct.is # c2c["out"].direct.is
  BY <1>2, OneMaker DEF Inv
<1> QED BY <1>2, <1>3, TwoEnds DEF Connection

LEMMA InvThere == Inv => DirectIsThere
<1> SUFFICES ASSUME Inv, faults = 0, NEW p \in Ends
             PROVE  /\ c2c[p].state # "CRASHED"
                    /\ c2c[p].switched_read \/ c2c[p].switched_write => Connected(p)
  BY DEF DirectIsThere
<1>1. FaultlessOK(p) /\ FaultlessOK(Other(p)) /\ Other(Other(p)) = p /\ ChanOK(p, c2c[p])
  BY TwoEnds DEF Inv, Faultless, Basic, EndOK
<1>2. c2c[p].switched_write => Connected(p)
  BY <1>1 DEF ChanOK, Committed, Connected
<1>3. c2c[p].switched_read => Connected(p)
  BY <1>1 DEF FaultlessOK, ChanOK, Handshaking, Connected
<1>4. c2c[p].state # "CRASHED"
  BY <1>1 DEF FaultlessOK
<1> QED BY <1>2, <1>3, <1>4

\* The buffers, the positions of the write barrier and the states of both ends keep
\* their types and stay consistent with each other whatever PICA_event_loop,
\* PICA_send_msg and the network do.
THEOREM DirectInvariant == Spec => []Inv
<1>1. Init => Inv
  BY InitInv
<1>2. Inv /\ [Next]_dvars => Inv'
  BY NextInv
<1> QED BY <1>1, <1>2, PTL DEF Spec

\* PICA_write_c2c and PICA_read_c2c, with the write barrier of
\* PICA_send_directc2c_switch between the relayed and the direct connection, deliver
\* the texts of both ends like a FIFO channel: once each and in the order sent.
THEOREM DirectIsFifo == Spec => ImplementsFifo
<1>1. Init => Inv /\ Fifo!FifoInit
  BY InitInv
<1>2. Inv /\ [Next]_dvars => Inv' /\ [Fifo!FifoNext]_(Fifo!fifoVars)
  BY NextInv DEF FifoStep
<1> QED BY <1>1, <1>2, PTL DEF Spec, ImplementsFifo, Fifo!FifoSpec

\* Whatever the settings of the two ends and whoever connects first, process_directc2c
\* leaves both ends on one and the same direct connection.
THEOREM DirectSameConnection == Spec => []SameConnection
<1> QED BY DirectInvariant, InvSame, PTL

\* As long as no connection breaks and no end leaves, PICA_read_c2c and PICA_write_c2c
\* never use a direct connection that is not there, and the handler of
\* DIRECTC2C_FAILED always finds the address list it needs.
THEOREM DirectNeverMissing == Spec => []DirectIsThere
<1> QED BY DirectInvariant, InvThere, PTL
=============================================================================
