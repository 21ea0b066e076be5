-------------------------- MODULE C2CRelay_proofs --------------------------
(****************************************************************************)
(* recv is never called with no room, no direction is ever stuck, and until  *)
(* the two directions cross in process_c2c_write every byte of both is       *)
(* relayed as it came, for every buffer size, every amount of data and       *)
(* every value an uninitialized ret may hold.                                *)
(****************************************************************************)
EXTENDS C2CRelay, SequenceTheorems, TLAPS

\* The values of an int.
AnInt == -INT_MAX - 1 .. INT_MAX

\* What one direction of a running relay satisfies: its bytes fit, and bufpos counts them
\* unless it has wrapped.
LaneOK(l) ==
    /\ l \in Lane
    /\ Len(l.buf) <= DEFAULT_BUF_SIZE
    /\ Wrapped(l) \/ l.bufpos = Len(l.buf)
    /\ l.reading /\ ~l.jam => l.bufpos # DEFAULT_BUF_SIZE
    /\ l.bufpos # 0 => l.writing
    /\ l.reading \/ l.bufpos # 0
    /\ l.jam => l.bufpos # 0

\* The same before a block of process_c2c_write, when the write event may have fired.
BeforeBlock(l) ==
    /\ l \in Lane
    /\ Len(l.buf) <= DEFAULT_BUF_SIZE
    /\ Wrapped(l) \/ l.bufpos = Len(l.buf)
    /\ l.reading /\ ~l.jam => l.bufpos # DEFAULT_BUF_SIZE
    /\ l.reading \/ l.bufpos # 0
    /\ l.jam => l.bufpos # 0

\* The inductive invariant.
RelayInv == TypeOK /\ (Running => \A d \in Dirs : LaneOK(lane[d]))

\* The sizes are numbers.
LEMMA Sizes ==
    /\ INT_MAX \in Nat /\ UINT_MAX \in Nat /\ UINT_MAX = 2 * INT_MAX + 1
    /\ DEFAULT_BUF_SIZE \in Nat /\ 1 <= DEFAULT_BUF_SIZE /\ DEFAULT_BUF_SIZE <= INT_MAX
    /\ MaxBytes \in Nat
BY RelayAssumption DEF UINT_MAX

\* The bytes a recv adds: the buffer grows by exactly k.
LEMMA ReceivedBytes ==
    ASSUME NEW b \in Seq(Nat), NEW first \in Nat, NEW k \in Nat
    PROVE  /\ b \o [i \in 1 .. k |-> first + i] \in Seq(Nat)
           /\ Len(b \o [i \in 1 .. k |-> first + i]) = Len(b) + k
<1> DEFINE new == [i \in 1 .. k |-> first + i]
<1>1. new \in Seq(Nat) /\ Len(new) = k
  <2>1. new \in [1 .. k -> Nat]
    OBVIOUS
  <2> HIDE DEF new
  <2> QED BY <2>1
<1> HIDE DEF new
<1>2. b \o new \in Seq(Nat) /\ Len(b \o new) = Len(b) + k
  BY <1>1
<1> QED BY <1>2 DEF new

\* An empty sequence is one of length 0.
LEMMA EmptyBuffer ==
    ASSUME NEW b \in Seq(Nat)
    PROVE  b = <<>> <=> Len(b) = 0
OBVIOUS

\* The bytes a send leaves.
LEMMA RestBytes ==
    ASSUME NEW b \in Seq(Nat), NEW ret \in Int, ret > 0
    PROVE  /\ Rest(b, ret) \in Seq(Nat)
           /\ Len(Rest(b, ret)) = IF ret <= Len(b) THEN Len(b) - ret ELSE Len(b)
<1>1. Len(b) \in Nat
  OBVIOUS
<1>2. CASE ret <= Len(b)
  <2>1. SubSeq(b, ret + 1, Len(b)) \in Seq(Nat) /\ Len(SubSeq(b, ret + 1, Len(b))) = Len(b) - ret
    BY <1>1, <1>2
  <2> QED BY <1>2, <2>1 DEF Rest
<1>3. CASE ~(ret <= Len(b))
  BY <1>3 DEF Rest
<1> QED BY <1>2, <1>3

\* The unsigned subtraction gives an unsigned int, one outside the buffer if it wraps.
LEMMA MinusRange ==
    ASSUME NEW pos \in 0 .. UINT_MAX, NEW ret \in AnInt, ret > 0
    PROVE  /\ Minus(pos, ret) \in 0 .. UINT_MAX
           /\ ret <= pos => Minus(pos, ret) = pos - ret
           /\ ~(ret <= pos) => Minus(pos, ret) > DEFAULT_BUF_SIZE
           /\ ret \in Int
<1>1. ret \in Int /\ ret <= INT_MAX /\ pos \in Int /\ 0 <= pos /\ pos <= UINT_MAX
  BY Sizes DEF AnInt
<1>2. CASE ret <= pos
  BY <1>1, <1>2, Sizes DEF Minus
<1>3. CASE ~(ret <= pos)
  <2>1. Minus(pos, ret) = pos - ret + UINT_MAX + 1
    BY <1>3 DEF Minus
  <2> QED BY <1>1, <1>3, <2>1, Sizes
<1> QED BY <1>1, <1>2, <1>3

\* recv leaves a lane in order.
LEMMA ReceivedOK ==
    ASSUME NEW l, LaneOK(l), ~Wrapped(l), NEW first \in Nat, NEW k \in Nat \ {0}, k <= Room(l)
    PROVE  LaneOK(Received(l, first, k))
<1> DEFINE b == l.buf \o [i \in 1 .. k |-> first + i]
           m == Received(l, first, k)
<1>1. l.buf \in Seq(Nat) /\ l.bufpos \in 0 .. UINT_MAX /\ l.bufpos = Len(l.buf)
  BY DEF LaneOK, Lane
<1>2. b \in Seq(Nat) /\ Len(b) = Len(l.buf) + k
  BY <1>1, ReceivedBytes
<1>3. m = [buf |-> b, bufpos |-> l.bufpos + k, jam |-> Fills(l, k),
           reading |-> ~Fills(l, k), writing |-> TRUE]
  BY DEF Received
<1> HIDE DEF b, m
<1>4. Fills(l, k) \in BOOLEAN /\ (Fills(l, k) <=> l.bufpos + k = DEFAULT_BUF_SIZE)
  BY DEF Fills
<1>5. l.bufpos + k <= DEFAULT_BUF_SIZE /\ l.bufpos + k # 0 /\ l.bufpos + k \in 0 .. UINT_MAX
  BY <1>1, Sizes DEF Room
<1>6. m \in Lane
  BY <1>2, <1>3, <1>4, <1>5 DEF Lane
<1>7. /\ m.buf = b /\ m.bufpos = l.bufpos + k
      /\ m.jam = Fills(l, k) /\ m.reading = ~Fills(l, k) /\ m.writing
  BY <1>3
<1>8. Len(b) <= DEFAULT_BUF_SIZE /\ m.bufpos = Len(b)
  BY <1>1, <1>2, <1>5, <1>7
<1> QED BY <1>4, <1>5, <1>6, <1>7, <1>8 DEF LaneOK, m

\* A block of process_c2c_write keeps a lane's type whatever ret holds and whether its
\* write event is still added; the lane is in order unless the memmove of a bufpos that
\* had wrapped was outside the buffer.
LEMMA BlockOK ==
    ASSUME NEW l, BeforeBlock(l), NEW ret \in AnInt, NEW again \in BOOLEAN
    PROVE  /\ Block(l, ret, again) \in Lane
           /\ ~(Wrapped(l) /\ ret > 0) => LaneOK(Block(l, ret, again))
<1>1. /\ l.buf \in Seq(Nat) /\ l.bufpos \in 0 .. UINT_MAX
      /\ l.jam \in BOOLEAN /\ l.reading \in BOOLEAN /\ l.writing \in BOOLEAN
      /\ Len(l.buf) \in Nat /\ Len(l.buf) <= DEFAULT_BUF_SIZE
      /\ Wrapped(l) \/ l.bufpos = Len(l.buf)
      /\ l.reading /\ ~l.jam => l.bufpos # DEFAULT_BUF_SIZE
      /\ l.reading \/ l.bufpos # 0
      /\ l.jam => l.bufpos # 0
  BY DEF BeforeBlock, Lane
<1>2. CASE l.bufpos = 0
  BY <1>1, <1>2 DEF Block, LaneOK, BeforeBlock
<1>3. CASE l.bufpos # 0 /\ ret > 0
  <2> DEFINE m == [buf |-> Rest(l.buf, ret), bufpos |-> Minus(l.bufpos, ret), jam |-> FALSE,
                   reading |-> l.reading \/ Emptied(l.bufpos, ret),
                   writing |-> l.writing \/ Minus(l.bufpos, ret) # 0]
  <2>1. Block(l, ret, again) = m
    BY <1>3 DEF Block
  <2>2. /\ Minus(l.bufpos, ret) \in 0 .. UINT_MAX
        /\ ret <= l.bufpos => Minus(l.bufpos, ret) = l.bufpos - ret
        /\ ~(ret <= l.bufpos) => Minus(l.bufpos, ret) > DEFAULT_BUF_SIZE
        /\ ret \in Int
    BY <1>1, <1>3, MinusRange
  <2>3. /\ Rest(l.buf, ret) \in Seq(Nat)
        /\ Len(Rest(l.buf, ret)) = IF ret <= Len(l.buf) THEN Len(l.buf) - ret ELSE Len(l.buf)
    BY <1>1, <1>3, <2>2, RestBytes
  <2>4. Emptied(l.bufpos, ret) \in BOOLEAN /\ (Emptied(l.bufpos, ret) <=> Minus(l.bufpos, ret) = 0)
    BY DEF Emptied
  <2>5. m \in Lane
    BY <1>1, <2>2, <2>3, <2>4 DEF Lane
  <2>6. ASSUME ~Wrapped(l)
        PROVE  LaneOK(m)
    <3>1. /\ m.buf = Rest(l.buf, ret) /\ m.bufpos = Minus(l.bufpos, ret) /\ ~m.jam
          /\ m.reading <=> (l.reading \/ Minus(l.bufpos, ret) = 0)
          /\ m.writing <=> (l.writing \/ Minus(l.bufpos, ret) # 0)
      BY <2>4
    <3> HIDE DEF m
    <3>2. l.bufpos = Len(l.buf)
      BY <1>1, <2>6
    <3>3. Len(m.buf) <= DEFAULT_BUF_SIZE
      BY <1>1, <1>3, <2>2, <2>3, <3>1, Sizes
    <3>4. Wrapped(m) \/ m.bufpos = Len(m.buf)
      BY <1>1, <2>2, <2>3, <3>1, <3>2 DEF Wrapped
    <3>5. m.bufpos # DEFAULT_BUF_SIZE
      BY <1>1, <1>3, <2>2, <3>1, <3>2, Sizes
    <3> QED BY <2>5, <3>1, <3>3, <3>4, <3>5 DEF LaneOK
  <2> QED BY <1>3, <2>1, <2>5, <2>6
<1>4. CASE l.bufpos # 0 /\ ~(ret > 0)
  <2> DEFINE m == [l EXCEPT !.jam = @ \/ (ret = -1 /\ again), !.writing = TRUE]
  <2>1. Block(l, ret, again) = m
    BY <1>4 DEF Block
  <2>2. l \in Lane
    BY DEF BeforeBlock
  <2>3. /\ m \in Lane /\ m.buf = l.buf /\ m.bufpos = l.bufpos /\ m.reading = l.reading
        /\ m.writing /\ (l.jam => m.jam)
    BY <1>1, <2>2 DEF Lane
  <2> HIDE DEF m
  <2>4. Wrapped(m) <=> Wrapped(l)
    BY <2>3 DEF Wrapped
  <2>5. m.reading /\ ~m.jam => m.bufpos # DEFAULT_BUF_SIZE
    BY <1>1, <2>3
  <2>6. LaneOK(m)
    BY <1>1, <1>4, <2>3, <2>4, <2>5 DEF LaneOK
  <2> QED BY <2>1, <2>3, <2>6
<1> QED BY <1>2, <1>3, <1>4

\* The values ret may have in either block are ints.
LEMMA RetsAreInts ==
    ASSUME RelayInv, Running
    PROVE  /\ \A s \in {"p1", "p2"} : FirstRet(s) \subseteq AnInt
           /\ \A s \in {"p1", "p2"}, ret \in AnInt : SecondRet(s, ret) \subseteq AnInt
<1>1. \A d \in Dirs : /\ lane[d].buf \in Seq(Nat) /\ Len(lane[d].buf) \in Nat
                      /\ Len(lane[d].buf) <= DEFAULT_BUF_SIZE
  BY DEF RelayInv, LaneOK, Lane
<1>2. \A d \in Dirs : SendResults(lane[d].buf) \subseteq AnInt
  <2> SUFFICES ASSUME NEW d \in Dirs, NEW r \in SendResults(lane[d].buf)
               PROVE  r \in AnInt
    OBVIOUS
  <2>1. r \in Int /\ -1 <= r /\ r <= DEFAULT_BUF_SIZE
    BY <1>1, Sizes DEF SendResults
  <2> QED BY <2>1, Sizes DEF AnInt
<1>3. Garbage \subseteq AnInt /\ {EAGAIN} \subseteq AnInt
  BY RelayAssumption DEF AnInt
<1>4. \A s \in {"p1", "p2"} : FirstRet(s) \subseteq AnInt
  BY <1>2, <1>3 DEF FirstRet, Dirs
<1>5. ASSUME NEW s \in {"p1", "p2"}, NEW ret \in AnInt
      PROVE  SecondRet(s, ret) \subseteq AnInt
  <2>1. SendResults(lane["p2p1"].buf) \subseteq AnInt
    BY <1>2 DEF Dirs
  <2>2. {ret} \subseteq AnInt
    OBVIOUS
  <2> QED BY <1>3, <2>1, <2>2, Zenon DEF SecondRet
<1> QED BY <1>4, <1>5

\* process_c2c_write did this, with these values of ret and errno.
Wrote(s, again1, again2, ret1, ret2) ==
    /\ lane' = [d \in Dirs |-> IF d = "p1p2" THEN Block(Fired(s, d), ret1, again1)
                                             ELSE Block(Fired(s, d), ret2, again2)]
    /\ out' = IF s = "p2" THEN Sent("p1p2", ret1) ELSE Sent("p2p1", ret2)
    /\ overrun' = (Outside(s, "p1p2", ret1) \/ Outside(s, "p2p1", ret2))
    /\ active' = ~(\/ Kills(lane["p1p2"], ret1, again1)
                   \/ Kills(lane["p2p1"], ret2, again2))

LEMMA WriteValues ==
    ASSUME NEW s \in {"p1", "p2"}, process_c2c_write(s)
    PROVE  \E again1, again2 \in BOOLEAN, ret1 \in FirstRet(s) :
              \E ret2 \in SecondRet(s, ret1) : Wrote(s, again1, again2, ret1, ret2)
BY DEF process_c2c_write, Wrote

\* The lanes before the blocks run.
LEMMA FiredOK ==
    ASSUME NEW s \in {"p1", "p2"}, NEW d \in Dirs, LaneOK(lane[d])
    PROVE  /\ BeforeBlock(Fired(s, d)) /\ Fired(s, d).buf = lane[d].buf
           /\ Fired(s, d).bufpos = lane[d].bufpos
           /\ Wrapped(Fired(s, d)) <=> Wrapped(lane[d])
<1>1. lane[d] \in Lane
  BY DEF LaneOK
<1>2. Fired(s, d) = lane[d] \/ Fired(s, d) = [lane[d] EXCEPT !.writing = FALSE]
  BY DEF Fired
<1>3. /\ Fired(s, d) \in Lane /\ Fired(s, d).buf = lane[d].buf
      /\ Fired(s, d).bufpos = lane[d].bufpos
      /\ Fired(s, d).jam = lane[d].jam /\ Fired(s, d).reading = lane[d].reading
  BY <1>1, <1>2 DEF Lane
<1>4. Wrapped(Fired(s, d)) <=> Wrapped(lane[d])
  BY <1>3 DEF Wrapped
<1> QED BY <1>3, <1>4 DEF LaneOK, BeforeBlock

\* process_c2c_write keeps the invariant.
LEMMA WriteStep ==
    ASSUME RelayInv, NEW s \in {"p1", "p2"}, process_c2c_write(s)
    PROVE  RelayInv'
<1>1. PICK again1 \in BOOLEAN, again2 \in BOOLEAN, ret1 \in FirstRet(s) :
        \E ret2 \in SecondRet(s, ret1) : Wrote(s, again1, again2, ret1, ret2)
  BY WriteValues
<1>2. PICK ret2 \in SecondRet(s, ret1) : Wrote(s, again1, again2, ret1, ret2)
  BY <1>1
<1>3. TypeOK /\ Running /\ taken' = taken /\ crossed' \in BOOLEAN
  BY DEF RelayInv, process_c2c_write, TypeOK
<1>4. ret1 \in AnInt /\ ret2 \in AnInt
  BY <1>1, <1>2, <1>3, RetsAreInts
<1>5. \A d \in Dirs : /\ BeforeBlock(Fired(s, d)) /\ Fired(s, d).buf = lane[d].buf
                      /\ Wrapped(Fired(s, d)) <=> Wrapped(lane[d])
  BY <1>3, FiredOK DEF RelayInv
<1>6. /\ lane'["p1p2"] = Block(Fired(s, "p1p2"), ret1, again1)
      /\ lane'["p2p1"] = Block(Fired(s, "p2p1"), ret2, again2)
      /\ lane' = [d \in Dirs |-> lane'[d]]
  BY <1>2 DEF Dirs, Wrote
<1>7. /\ lane'["p1p2"] \in Lane
      /\ ~(Wrapped(lane["p1p2"]) /\ ret1 > 0) => LaneOK(lane'["p1p2"])
  <2>1. BeforeBlock(Fired(s, "p1p2")) /\ (Wrapped(Fired(s, "p1p2")) <=> Wrapped(lane["p1p2"]))
    <3>1. "p1p2" \in Dirs
      BY DEF Dirs
    <3> QED BY <1>5, <3>1
  <2>2. /\ Block(Fired(s, "p1p2"), ret1, again1) \in Lane
        /\ ~(Wrapped(Fired(s, "p1p2")) /\ ret1 > 0) => LaneOK(Block(Fired(s, "p1p2"), ret1, again1))
    BY <1>4, <2>1, BlockOK
  <2> QED BY <1>6, <2>1, <2>2
<1>8. /\ lane'["p2p1"] \in Lane
      /\ ~(Wrapped(lane["p2p1"]) /\ ret2 > 0) => LaneOK(lane'["p2p1"])
  <2>1. BeforeBlock(Fired(s, "p2p1")) /\ (Wrapped(Fired(s, "p2p1")) <=> Wrapped(lane["p2p1"]))
    <3>1. "p2p1" \in Dirs
      BY DEF Dirs
    <3> QED BY <1>5, <3>1
  <2>2. /\ Block(Fired(s, "p2p1"), ret2, again2) \in Lane
        /\ ~(Wrapped(Fired(s, "p2p1")) /\ ret2 > 0) => LaneOK(Block(Fired(s, "p2p1"), ret2, again2))
    BY <1>4, <2>1, BlockOK
  <2> QED BY <1>6, <2>1, <2>2
<1>9. overrun' \/ \A d \in Dirs : LaneOK(lane'[d])
  BY <1>2, <1>7, <1>8 DEF Dirs, Wrote, Outside
<1>10. out' \in [Dirs -> Seq(Nat)]
  <2>1. \A d \in Dirs : \A ret \in SendResults(lane[d].buf) : Sent(d, ret) \in [Dirs -> Seq(Nat)]
    <3> SUFFICES ASSUME NEW d \in Dirs, NEW ret \in 1 .. Len(lane[d].buf)
                 PROVE  out[d] \o SubSeq(lane[d].buf, 1, ret) \in Seq(Nat)
      BY <1>3 DEF Sent, TypeOK, SendResults
    <3>1. lane[d].buf \in Seq(Nat) /\ out[d] \in Seq(Nat)
      BY <1>3 DEF TypeOK, Lane
    <3>2. SubSeq(lane[d].buf, 1, ret) \in Seq(Nat)
      BY <3>1
    <3> QED BY <3>1, <3>2
  <2>2. s = "p2" => ret1 \in SendResults(lane["p1p2"].buf)
    BY <1>1 DEF FirstRet
  <2>3. s = "p1" => ret2 \in SendResults(lane["p2p1"].buf)
    BY <1>2 DEF SecondRet
  <2> QED BY <1>2, <2>1, <2>2, <2>3 DEF Dirs, Wrote
<1>11. overrun' \in BOOLEAN /\ active' \in BOOLEAN
  BY <1>2 DEF Wrote, Outside, Wrapped
<1>12. TypeOK'
  BY <1>3, <1>6, <1>7, <1>8, <1>10, <1>11 DEF TypeOK, Dirs
<1> QED BY <1>9, <1>12 DEF RelayInv, Running

\* process_c2c_read keeps the invariant.
LEMMA ReadStep ==
    ASSUME RelayInv, NEW d \in Dirs, NEW k \in 1 .. DEFAULT_BUF_SIZE,
           process_c2c_read(d, k)
    PROVE  RelayInv'
<1>1. k \in Nat \ {0}
  BY Sizes
<1>2. TypeOK /\ Running /\ \A e \in Dirs : LaneOK(lane[e])
  BY DEF RelayInv, process_c2c_read, Readable
<1>3. taken[d] \in Nat /\ taken[d] + k <= MaxBytes
  BY <1>1, <1>2, Sizes DEF TypeOK, process_c2c_read
<1>4. LaneOK(Received(lane[d], taken[d], k))
  BY <1>1, <1>2, <1>3, ReceivedOK DEF process_c2c_read
<1>5. \A e \in Dirs : LaneOK(lane'[e])
  BY <1>2, <1>4 DEF process_c2c_read, TypeOK
<1>6. lane' \in [Dirs -> Lane]
  BY <1>2, <1>4 DEF process_c2c_read, TypeOK, LaneOK
<1>7. taken' \in [Dirs -> 0 .. MaxBytes]
  BY <1>1, <1>2, <1>3, Sizes DEF process_c2c_read, TypeOK
<1>8. TypeOK'
  BY <1>2, <1>6, <1>7 DEF process_c2c_read, TypeOK
<1> QED BY <1>5, <1>8 DEF RelayInv

\* The state cclink_activate leaves satisfies the invariant.
LEMMA InitRelay == Init => RelayInv
<1> SUFFICES ASSUME Init
             PROVE  RelayInv
  OBVIOUS
<1> DEFINE new == [buf |-> <<>>, bufpos |-> 0, jam |-> FALSE, reading |-> TRUE, writing |-> FALSE]
<1>1. <<>> \in Seq(Nat) /\ Len(<<>>) = 0 /\ 0 \in 0 .. UINT_MAX
  BY Sizes
<1>2. new \in Lane
  BY <1>1 DEF Lane
<1>3. LaneOK(new)
  BY <1>1, <1>2, Sizes DEF LaneOK
<1>4. \A d \in Dirs : lane[d] = new
  BY DEF Init
<1> HIDE DEF new
<1>5. TypeOK
  <2>1. lane \in [Dirs -> Lane]
    BY <1>2 DEF Init, new
  <2>2. taken \in [Dirs -> 0 .. MaxBytes]
    BY Sizes DEF Init
  <2>3. out \in [Dirs -> Seq(Nat)]
    BY <1>1 DEF Init
  <2> QED BY <2>1, <2>2, <2>3 DEF TypeOK, Init
<1> QED BY <1>3, <1>4, <1>5 DEF RelayInv

\* A failed recv ends the call, one outside the buffer the program.
LEMMA FailStep ==
    ASSUME RelayInv, NEW d \in Dirs, c2c_read_fails(d) \/ c2c_read_outside(d)
    PROVE  RelayInv'
BY DEF c2c_read_fails, c2c_read_outside, RelayInv, TypeOK, Running

\* The invariant is one.
LEMMA RelayInvariant == Spec => []RelayInv
<1>1. RelayInv /\ [Next]_rvars => RelayInv'
  <2> SUFFICES ASSUME RelayInv, [Next]_rvars
               PROVE  RelayInv'
    OBVIOUS
  <2>1. CASE UNCHANGED rvars
    BY <2>1 DEF rvars, RelayInv, TypeOK, Running
  <2> QED BY <2>1, FailStep, ReadStep, WriteStep DEF Next, Stopped
<1> QED BY <1>1, InitRelay, PTL DEF Spec

\* bufpos is an unsigned int after every bufpos -= ret of process_c2c_write, recv of
\* process_c2c_read is never asked for 0 bytes, and neither direction can be left with
\* bytes and no event, whatever ret held.
THEOREM RelayCorrect == Spec => [](TypeOK /\ RoomToRead /\ NeverStalls)
<1>1. RelayInv => TypeOK /\ RoomToRead /\ NeverStalls
  BY DEF RelayInv, RoomToRead, NeverStalls, LaneOK
<1> QED BY <1>1, RelayInvariant, PTL

\* recv is never called with no room left, which would end the call.
THEOREM RelayRoom == Spec => []RoomToRead
BY RelayCorrect, PTL

-----------------------------------------------------------------------------
(* Until the directions cross, the block of the other direction never runs in *)
(* process_c2c_write, and ret is what send returned for the block that has    *)
(* bytes: bufpos stays their number.                                          *)

\* The inductive invariant of a call whose directions have not crossed.
CrossInv == RelayInv /\ IntactUntilCrossed

\* A count is a sequence.
LEMMA CountIsSeq ==
    ASSUME NEW n \in Nat, NEW k \in Nat
    PROVE  /\ [i \in 1 .. k |-> n + i] \in Seq(Nat)
           /\ Len([i \in 1 .. k |-> n + i]) = k
           /\ \A i \in 1 .. k : [j \in 1 .. k |-> n + j][i] = n + i
<1> DEFINE s == [i \in 1 .. k |-> n + i]
<1>1. s \in [1 .. k -> Nat] /\ \A i \in 1 .. k : s[i] = n + i
  OBVIOUS
<1> HIDE DEF s
<1>2. s \in Seq(Nat) /\ Len(s) = k
  BY <1>1
<1> QED BY <1>1, <1>2 DEF s

\* The first n numbers continued by k more.
LEMMA CountOn ==
    ASSUME NEW n \in Nat, NEW k \in Nat
    PROVE  [i \in 1 .. n |-> 0 + i] \o [i \in 1 .. k |-> n + i] = [i \in 1 .. n + k |-> 0 + i]
<1>1. PICK s \in Seq(Nat) : /\ s = [i \in 1 .. n |-> 0 + i]
                            /\ Len(s) = n /\ \A i \in 1 .. n : s[i] = 0 + i
  BY CountIsSeq
<1>2. PICK t \in Seq(Nat) : /\ t = [i \in 1 .. k |-> n + i]
                            /\ Len(t) = k /\ \A i \in 1 .. k : t[i] = n + i
  BY CountIsSeq
<1>3. PICK u \in Seq(Nat) : /\ u = [i \in 1 .. n + k |-> 0 + i]
                            /\ Len(u) = n + k /\ \A i \in 1 .. n + k : u[i] = 0 + i
  <2>1. n + k \in Nat
    OBVIOUS
  <2> QED BY <2>1, CountIsSeq
<1>4. Len(s \o t) = Len(u)
  BY <1>1, <1>2, <1>3
<1>5. \A i \in 1 .. Len(u) : (s \o t)[i] = u[i]
  BY <1>1, <1>2, <1>3
<1>6. s \o t \in Seq(Nat)
  OBVIOUS
<1>7. s \o t = u
  BY <1>4, <1>5, <1>6, SeqEqual, Zenon
<1> QED BY <1>1, <1>2, <1>3, <1>7

\* Concatenation is associative.
LEMMA Associative ==
    ASSUME NEW a \in Seq(Nat), NEW b \in Seq(Nat), NEW c \in Seq(Nat)
    PROVE  (a \o b) \o c = a \o (b \o c)
<1>1. PICK ab \in Seq(Nat) : ab = a \o b
  <2>1. a \o b \in Seq(Nat)
    OBVIOUS
  <2> QED BY <2>1
<1>2. PICK bc \in Seq(Nat) : bc = b \o c
  <2>1. b \o c \in Seq(Nat)
    OBVIOUS
  <2> QED BY <2>1
<1>3. PICK s \in Seq(Nat) : s = ab \o c
  <2>1. ab \o c \in Seq(Nat)
    OBVIOUS
  <2> QED BY <2>1
<1>4. PICK t \in Seq(Nat) : t = a \o bc
  <2>1. a \o bc \in Seq(Nat)
    OBVIOUS
  <2> QED BY <2>1
<1>5. Len(s) = Len(t) /\ \A i \in 1 .. Len(s) : s[i] = t[i]
  BY <1>1, <1>2, <1>3, <1>4
<1>6. s = t
  BY <1>5, SeqEqual
<1> QED BY <1>1, <1>2, <1>3, <1>4, <1>6

\* What send took followed by what memmove kept is what was there.
LEMMA CutAndKeep ==
    ASSUME NEW o \in Seq(Nat), NEW b \in Seq(Nat), NEW ret \in 1 .. Len(b)
    PROVE  (o \o SubSeq(b, 1, ret)) \o Rest(b, ret) = o \o b
<1>1. SubSeq(b, 1, ret) \in Seq(Nat) /\ SubSeq(b, ret + 1, Len(b)) \in Seq(Nat)
  OBVIOUS
<1>2. SubSeq(b, 1, ret) \o SubSeq(b, ret + 1, Len(b)) = SubSeq(b, 1, Len(b))
  BY ConcatAdjacentSubSeq
<1>3. SubSeq(b, 1, Len(b)) = b
  BY SubSeqFull
<1>4. (o \o SubSeq(b, 1, ret)) \o SubSeq(b, ret + 1, Len(b))
        = o \o (SubSeq(b, 1, ret) \o SubSeq(b, ret + 1, Len(b)))
  BY <1>1, Associative
<1>5. Rest(b, ret) = SubSeq(b, ret + 1, Len(b))
  BY DEF Rest
<1> QED BY <1>2, <1>3, <1>4, <1>5

\* process_c2c_read leaves both directions intact.
LEMMA ReadIntact ==
    ASSUME CrossInv, NEW d \in Dirs, NEW k \in 1 .. DEFAULT_BUF_SIZE,
           process_c2c_read(d, k)
    PROVE  CrossInv'
<1>1. RelayInv'
  BY ReadStep DEF CrossInv
<1>2. /\ TypeOK /\ crossed' = crossed /\ overrun' = overrun /\ out' = out /\ k \in Nat
      /\ \A e \in Dirs : LaneOK(lane'[e])
  <2>1. TypeOK /\ crossed' = crossed /\ overrun' = overrun /\ out' = out /\ k \in Nat
        /\ Running /\ active' = active
    BY Sizes DEF CrossInv, RelayInv, process_c2c_read, Readable
  <2> QED BY <1>1, <2>1 DEF RelayInv, Running
<1> SUFFICES ASSUME ~crossed
             PROVE  \A e \in Dirs : Intact(e)'
  BY <1>1, <1>2 DEF CrossInv, IntactUntilCrossed
<1>3. \A e \in Dirs : Intact(e)
  BY DEF CrossInv, IntactUntilCrossed
<1>4. \A e \in Dirs \ {d} : lane'[e] = lane[e] /\ taken'[e] = taken[e]
  BY <1>2 DEF process_c2c_read, TypeOK
<1>5. Intact(d)'
  <2> DEFINE new == [i \in 1 .. k |-> taken[d] + i]
  <2>1. taken[d] \in Nat /\ lane[d].buf \in Seq(Nat) /\ out[d] \in Seq(Nat)
    BY <1>2, Sizes DEF TypeOK, Lane
  <2>2. new \in Seq(Nat)
    <3>1. new \in [1 .. k -> Nat]
      BY <1>2, <2>1
    <3> HIDE DEF new
    <3> QED BY <1>2, <3>1
  <2>3. /\ lane'[d].buf = lane[d].buf \o new /\ taken'[d] = taken[d] + k
        /\ lane'[d].bufpos = lane[d].bufpos + k /\ k <= Room(lane[d])
    BY <1>2 DEF process_c2c_read, Received, TypeOK
  <2>4. out[d] \o lane[d].buf = [i \in 1 .. taken[d] |-> i]
    BY <1>3 DEF Intact
  <2>5. [i \in 1 .. taken[d] |-> i] \o new = [i \in 1 .. taken[d] + k |-> i]
    BY <1>2, <2>1, CountOn
  <2> HIDE DEF new
  <2>6. (out[d] \o lane[d].buf) \o new = out[d] \o (lane[d].buf \o new)
    BY <2>1, <2>2, Associative
  <2>7. out'[d] \o lane'[d].buf = [i \in 1 .. taken'[d] |-> i]
    BY <1>2, <2>3, <2>4, <2>5, <2>6
  <2>8. lane[d].bufpos \in Nat
    BY <1>2, Sizes DEF TypeOK, Lane
  <2>9. ~(lane'[d].bufpos > DEFAULT_BUF_SIZE)
    BY <1>2, <2>3, <2>8, Sizes DEF Room
  <2>10. lane'[d].bufpos = Len(lane'[d].buf)
    BY <1>2, <2>9 DEF LaneOK, Wrapped
  <2> QED BY <2>7, <2>9, <2>10 DEF Intact, Wrapped
<1>6. ASSUME NEW e \in Dirs \ {d}
      PROVE  Intact(e)'
  BY <1>2, <1>3, <1>4 DEF Intact, Wrapped
<1> QED BY <1>5, <1>6

\* The direction a socket is written in, and the other one.
Other(d) == IF d = "p1p2" THEN "p2p1" ELSE "p1p2"

\* process_c2c_write while the other direction has no bytes: ret is what send returned
\* for the block that may have some, and the other block does not run.
LEMMA WriteOneBlock ==
    ASSUME CrossInv, NEW s \in {"p1", "p2"}, process_c2c_write(s), ~crossed'
    PROVE  \E ret \in SendResults(lane[Own(s)].buf), again \in BOOLEAN :
              /\ lane'[Own(s)] = Block(Fired(s, Own(s)), ret, again)
              /\ lane'[Other(Own(s))] = lane[Other(Own(s))]
              /\ out' = Sent(Own(s), ret)
              /\ overrun' = FALSE
<1>1. /\ Own(s) \in Dirs /\ Other(Own(s)) \in Dirs /\ Own(s) # Other(Own(s))
      /\ Dirs = {Own(s), Other(Own(s))}
  BY DEF Own, Other, Dirs
<1>2. ~crossed /\ lane[Other(Own(s))].bufpos = 0
  BY <1>1 DEF process_c2c_write
<1>3. \A d \in Dirs : ~Wrapped(lane[d])
  BY <1>2 DEF CrossInv, IntactUntilCrossed, Intact
<1>4. \A d \in Dirs : \A ret : ~Outside(s, d, ret)
  BY <1>3 DEF Outside
<1>5. Fired(s, Other(Own(s))) = lane[Other(Own(s))]
  BY <1>1 DEF Fired
<1>6. \A ret, again : Block(Fired(s, Other(Own(s))), ret, again) = lane[Other(Own(s))]
  BY <1>2, <1>5 DEF Block
<1>7. PICK again1 \in BOOLEAN, again2 \in BOOLEAN, ret1 \in FirstRet(s) :
        \E ret2 \in SecondRet(s, ret1) : Wrote(s, again1, again2, ret1, ret2)
  BY WriteValues
<1>8. PICK ret2 \in SecondRet(s, ret1) : Wrote(s, again1, again2, ret1, ret2)
  BY <1>7
<1>9. overrun' = FALSE
  BY <1>4, <1>8 DEF Wrote, Dirs
<1>10. /\ lane'["p1p2"] = Block(Fired(s, "p1p2"), ret1, again1)
       /\ lane'["p2p1"] = Block(Fired(s, "p2p1"), ret2, again2)
  BY <1>8 DEF Dirs, Wrote
<1>11. CASE s = "p2"
  <2>1. Own(s) = "p1p2" /\ Other(Own(s)) = "p2p1"
    BY <1>11 DEF Own, Other
  <2>2. ret1 \in SendResults(lane[Own(s)].buf)
    BY <1>7, <1>11, <2>1 DEF FirstRet
  <2>3. out' = Sent(Own(s), ret1)
    BY <1>8, <1>11, <2>1 DEF Wrote
  <2>4. lane'[Own(s)] = Block(Fired(s, Own(s)), ret1, again1)
        /\ lane'[Other(Own(s))] = lane[Other(Own(s))]
    BY <1>6, <1>10, <2>1
  <2> QED BY <1>9, <2>2, <2>3, <2>4
<1>12. CASE s = "p1"
  <2>1. Own(s) = "p2p1" /\ Other(Own(s)) = "p1p2"
    BY <1>12 DEF Own, Other
  <2>2. ret2 \in SendResults(lane[Own(s)].buf)
    BY <1>8, <1>12, <2>1 DEF SecondRet
  <2>3. out' = Sent(Own(s), ret2)
    BY <1>8, <1>12, <2>1 DEF Wrote
  <2>4. lane'[Own(s)] = Block(Fired(s, Own(s)), ret2, again2)
        /\ lane'[Other(Own(s))] = lane[Other(Own(s))]
    BY <1>6, <1>10, <2>1
  <2> QED BY <1>9, <2>2, <2>3, <2>4
<1> QED BY <1>11, <1>12

\* process_c2c_write leaves both directions intact, however much send took.
LEMMA WriteIntact ==
    ASSUME CrossInv, NEW s \in {"p1", "p2"}, process_c2c_write(s)
    PROVE  CrossInv'
<1>1. RelayInv'
  BY WriteStep DEF CrossInv
<1>2. TypeOK /\ taken' = taken /\ (~crossed' => ~crossed)
  BY DEF CrossInv, RelayInv, process_c2c_write
<1> SUFFICES ASSUME ~crossed'
             PROVE  ~overrun' /\ \A e \in Dirs : Intact(e)'
  BY <1>1 DEF CrossInv, IntactUntilCrossed
<1> DEFINE d == Own(s)
           e == Other(Own(s))
<1>3. d \in Dirs /\ e \in Dirs /\ d # e /\ Dirs = {d, e}
  BY DEF Own, Other, Dirs
<1>4. PICK ret \in SendResults(lane[d].buf), again \in BOOLEAN :
              /\ lane'[d] = Block(Fired(s, d), ret, again)
              /\ lane'[e] = lane[e]
              /\ out' = Sent(d, ret)
              /\ overrun' = FALSE
  BY WriteOneBlock
<1>5. Intact(d) /\ Intact(e)
  BY <1>2, <1>3 DEF CrossInv, IntactUntilCrossed
<1> HIDE DEF d, e
<1>6. /\ lane[d] \in Lane /\ lane[d].buf \in Seq(Nat) /\ Len(lane[d].buf) \in Nat
      /\ out[d] \in Seq(Nat) /\ lane[d].bufpos = Len(lane[d].buf)
      /\ Len(lane[d].buf) <= DEFAULT_BUF_SIZE
  BY <1>2, <1>3, <1>5, Sizes DEF TypeOK, Lane, Intact, Wrapped
<1>7. Fired(s, d).buf = lane[d].buf /\ Fired(s, d).bufpos = lane[d].bufpos
  BY <1>6 DEF Fired, Lane
<1>8. out'[e] = out[e]
  BY <1>2, <1>3, <1>4 DEF Sent, TypeOK
<1>9. /\ out'[d] \o lane'[d].buf = out[d] \o lane[d].buf
      /\ lane'[d].bufpos = Len(lane'[d].buf) /\ ~(lane'[d].bufpos > DEFAULT_BUF_SIZE)
  <2>1. CASE ret \in 1 .. Len(lane[d].buf)
    <3>1. ret > 0 /\ lane[d].bufpos # 0 /\ ret <= lane[d].bufpos /\ ret \in Int
      BY <1>6, <2>1
    <3>2. /\ lane'[d].buf = Rest(lane[d].buf, ret)
          /\ lane'[d].bufpos = Minus(lane[d].bufpos, ret)
      BY <1>4, <1>7, <3>1 DEF Block
    <3>3. out'[d] = out[d] \o SubSeq(lane[d].buf, 1, ret)
      BY <1>2, <1>3, <1>4, <3>1 DEF Sent, TypeOK
    <3>4. Minus(lane[d].bufpos, ret) = lane[d].bufpos - ret
      BY <3>1 DEF Minus
    <3>5. Len(Rest(lane[d].buf, ret)) = Len(lane[d].buf) - ret
      BY <1>6, <3>1, RestBytes
    <3>6. (out[d] \o SubSeq(lane[d].buf, 1, ret)) \o Rest(lane[d].buf, ret) = out[d] \o lane[d].buf
      BY <1>6, <2>1, CutAndKeep
    <3>7. lane'[d].bufpos = Len(lane'[d].buf) /\ ~(lane'[d].bufpos > DEFAULT_BUF_SIZE)
      BY <1>6, <3>1, <3>2, <3>4, <3>5, Sizes
    <3> QED BY <3>2, <3>3, <3>6, <3>7
  <2>2. CASE ret = -1
    <3>1. lane'[d].buf = lane[d].buf /\ lane'[d].bufpos = lane[d].bufpos
      <4>1. Fired(s, d) \in Lane
        BY <1>6 DEF Fired, Lane
      <4> QED BY <1>4, <1>7, <2>2, <4>1 DEF Block, Lane
    <3>2. out' = out
      BY <1>4, <2>2 DEF Sent
    <3> QED BY <1>6, <3>1, <3>2, Sizes
  <2> QED BY <1>4, <2>1, <2>2 DEF SendResults
<1>10. Intact(d)' /\ Intact(e)'
  BY <1>2, <1>4, <1>5, <1>8, <1>9 DEF Intact, Wrapped, d, e
<1> QED BY <1>3, <1>4, <1>10

\* Until process_c2c_write meets bytes in both directions, the relay of process_c2c_read
\* and process_c2c_write loses, repeats and reorders nothing and stays inside its
\* buffers, for every buffer size, every split of the data by recv and send, and
\* whatever an uninitialized ret would hold.
THEOREM IntactRelay == Spec => []IntactUntilCrossed
<1>1. Init => CrossInv
  <2> SUFFICES ASSUME Init
               PROVE  CrossInv
    OBVIOUS
  <2>1. <<>> \o <<>> = <<>> /\ [i \in 1 .. 0 |-> i] = <<>> /\ Len(<<>>) = 0
    OBVIOUS
  <2>2. \A d \in Dirs : /\ lane[d].buf = <<>> /\ lane[d].bufpos = 0
                        /\ out[d] = <<>> /\ taken[d] = 0
    BY DEF Init
  <2>3. ~(0 > DEFAULT_BUF_SIZE)
    BY Sizes
  <2>4. ASSUME NEW d \in Dirs
        PROVE  Intact(d)
    BY <2>1, <2>2, <2>3 DEF Intact, Wrapped
  <2> QED BY <2>4, InitRelay DEF CrossInv, IntactUntilCrossed, Init
<1>2. CrossInv /\ [Next]_rvars => CrossInv'
  <2> SUFFICES ASSUME CrossInv, [Next]_rvars
               PROVE  CrossInv'
    OBVIOUS
  <2>1. ASSUME NEW d \in Dirs, c2c_read_fails(d)
        PROVE  CrossInv'
    BY <2>1, FailStep DEF c2c_read_fails, CrossInv, IntactUntilCrossed, Intact, Wrapped
  <2>2. ASSUME NEW d \in Dirs, c2c_read_outside(d)
        PROVE  CrossInv'
    BY <2>2, FailStep DEF c2c_read_outside, CrossInv, IntactUntilCrossed, Intact
  <2>3. CASE UNCHANGED rvars
    BY <2>3 DEF rvars, CrossInv, RelayInv, TypeOK, Running, IntactUntilCrossed, Intact, Wrapped
  <2> QED BY <2>1, <2>2, <2>3, ReadIntact, WriteIntact DEF Next, Stopped
<1>3. CrossInv => IntactUntilCrossed
  BY DEF CrossInv
<1> QED BY <1>1, <1>2, <1>3, PTL DEF Spec
=============================================================================
