------------------------------ MODULE C2CRelay ------------------------------
(****************************************************************************)
(* The relay of an active call whose two ends are on this node               *)
(* (PICA_CCLINK_LOCAL_ACTIVE in PICA_node.c): process_c2c_read moves bytes   *)
(* from the socket of one client into a buffer, process_c2c_write moves them *)
(* from the buffer to the socket of the other.                               *)
(*                                                                          *)
(* A direction is named as in the code, "p1p2" from caller to callee.  Its   *)
(* bytes are numbered, so a lost byte is seen.  reading and writing say      *)
(* whether the read event of its source and the write event of its           *)
(* destination are added.                                                    *)
(****************************************************************************)
EXTENDS Integers, Sequences

CONSTANTS
    DEFAULT_BUF_SIZE,       \* length of each buffer
    MaxBytes,               \* bound on the bytes a client sends
    INT_MAX,                \* the largest int
    EAGAIN,                 \* the value of errno when the socket takes nothing
    Garbage                 \* what an uninitialized int may hold

Dirs == {"p1p2", "p2p1"}

ASSUME RelayAssumption ==
    /\ INT_MAX \in Nat
    /\ DEFAULT_BUF_SIZE \in 1 .. INT_MAX
    /\ MaxBytes \in Nat
    /\ EAGAIN \in 1 .. INT_MAX
    /\ Garbage \subseteq -INT_MAX - 1 .. INT_MAX /\ Garbage # {}

\* The largest unsigned int.
UINT_MAX == 2 * INT_MAX + 1

VARIABLES
    lane,       \* per direction: its buffer, bufpos, jam flag and events
    taken,      \* bytes read from the source of a direction
    out,        \* bytes its destination has been given
    active,
    overrun,    \* memory outside a buffer was accessed; the model stops there
    crossed     \* history: a block of process_c2c_write has run with a ret not its own

rvars == <<lane, taken, out, active, overrun, crossed>>

\* buf: the bytes in the buffer; bufpos: how many the code takes them for.
Lane == [buf : Seq(Nat), bufpos : 0 .. UINT_MAX,
         jam : BOOLEAN, reading : BOOLEAN, writing : BOOLEAN]

\* The state cclink_activate leaves: buffers empty, both read events added.
Init ==
    /\ lane = [d \in Dirs |-> [buf |-> <<>>, bufpos |-> 0,
                              jam |-> FALSE, reading |-> TRUE, writing |-> FALSE]]
    /\ taken = [d \in Dirs |-> 0]
    /\ out = [d \in Dirs |-> <<>>]
    /\ active = TRUE
    /\ overrun = FALSE
    /\ crossed = FALSE

Running == active /\ ~overrun

\* bufpos is outside the buffer: it has wrapped.
Wrapped(l) == l.bufpos > DEFAULT_BUF_SIZE

-----------------------------------------------------------------------------
(* process_c2c_read *)

Room(l) == DEFAULT_BUF_SIZE - l.bufpos

\* Mutant of Fills: the comparison is off by one.
Fills_Late(l, k) == l.bufpos + k > DEFAULT_BUF_SIZE

Fills(l, k) == l.bufpos + k = DEFAULT_BUF_SIZE

Received(l, first, k) ==
    [buf |-> l.buf \o [i \in 1 .. k |-> first + i], bufpos |-> l.bufpos + k,
     jam |-> Fills(l, k), reading |-> ~Fills(l, k), writing |-> TRUE]

Readable(d) == Running /\ lane[d].reading /\ ~lane[d].jam

\* recv returns k bytes; a full buffer is jammed and its source no longer read.
process_c2c_read(d, k) ==
    /\ Readable(d)
    /\ ~Wrapped(lane[d])
    /\ k <= Room(lane[d]) /\ k <= MaxBytes - taken[d]
    /\ lane' = [lane EXCEPT ![d] = Received(lane[d], taken[d], k)]
    /\ taken' = [taken EXCEPT ![d] = @ + k]
    /\ UNCHANGED <<out, active, overrun, crossed>>

\* recv is called with an address behind the buffer.
c2c_read_outside(d) ==
    /\ Readable(d)
    /\ Wrapped(lane[d])
    /\ overrun' = TRUE
    /\ UNCHANGED <<lane, taken, out, active, crossed>>

\* recv returns 0 or fails: the call is deleted.
c2c_read_fails(d) ==
    /\ Readable(d)
    /\ active' = FALSE
    /\ UNCHANGED <<lane, taken, out, overrun, crossed>>

-----------------------------------------------------------------------------
(* process_c2c_write.  Its two blocks, first p1p2 and then p2p1, test the     *)
(* same variable ret, which only the block of the writable socket assigns.    *)

\* Mutant of Minus: bufpos is taken for a signed int.
Minus_Signed(bufpos, ret) == bufpos - ret

\* bufpos -= ret, where bufpos is an unsigned int and ret is above 0.
Minus(bufpos, ret) ==
    IF ret <= bufpos THEN bufpos - ret ELSE bufpos - ret + UINT_MAX + 1

\* Mutant of Rest: the memmove is forgotten.
Rest_NotMoved(b, ret) == SubSeq(b, 1, Len(b) - ret)

\* What the memmove leaves of the bytes; a ret above bufpos moves nothing.
Rest(b, ret) == IF ret <= Len(b) THEN SubSeq(b, ret + 1, Len(b)) ELSE b

\* Mutant of Emptied: reading is not resumed.
Emptied_Never(bufpos, ret) == FALSE

Emptied(bufpos, ret) == Minus(bufpos, ret) = 0

\* What a block does with ret; again: errno is EAGAIN or ENOBUFS.
Block(l, ret, again) ==
    IF l.bufpos = 0 THEN l
    ELSE IF ret > 0
    THEN [buf |-> Rest(l.buf, ret), bufpos |-> Minus(l.bufpos, ret), jam |-> FALSE,
          reading |-> l.reading \/ Emptied(l.bufpos, ret),
          writing |-> l.writing \/ Minus(l.bufpos, ret) # 0]
    ELSE [l EXCEPT !.jam = @ \/ (ret = -1 /\ again), !.writing = TRUE]

Kills(l, ret, again) == l.bufpos # 0 /\ (ret = 0 \/ (ret = -1 /\ ~again))

\* What send may return for the bytes of a buffer.
SendResults(b) == {-1} \cup 1 .. Len(b)

Own(s) == IF s = "p2" THEN "p1p2" ELSE "p2p1"

\* ret in the first block, when the socket of s is writable.
FirstRet(s) == IF s = "p2" THEN SendResults(lane["p1p2"].buf) ELSE Garbage

\* ret in the second block: send's result, or what the first block left in ret (errno
\* if send failed; when that is not EAGAIN the call ends anyway), or nothing at all.
SecondRet(s, ret) ==
    IF s = "p1" THEN SendResults(lane["p2p1"].buf)
    ELSE IF lane["p1p2"].bufpos = 0 THEN Garbage
    ELSE IF ret = -1 THEN {EAGAIN} ELSE {ret}

\* The write event that has fired is no longer added.
Fired(s, d) == IF d = Own(s) THEN [lane[d] EXCEPT !.writing = FALSE] ELSE lane[d]

Sent(d, ret) ==
    IF ret > 0 THEN [out EXCEPT ![d] = @ \o SubSeq(lane[d].buf, 1, ret)] ELSE out

\* With a bufpos that has wrapped, send reads and memmove moves what is behind the buffer.
Outside(s, d, ret) == Wrapped(lane[d]) /\ (d = Own(s) \/ ret > 0)

process_c2c_write(s) ==
    /\ Running
    /\ lane[Own(s)].writing
    /\ \E again1, again2 \in BOOLEAN, ret1 \in FirstRet(s) :
       \E ret2 \in SecondRet(s, ret1) :
          /\ lane' = [d \in Dirs |-> IF d = "p1p2" THEN Block(Fired(s, d), ret1, again1)
                                                   ELSE Block(Fired(s, d), ret2, again2)]
          /\ out' = IF s = "p2" THEN Sent("p1p2", ret1) ELSE Sent("p2p1", ret2)
          /\ overrun' = (Outside(s, "p1p2", ret1) \/ Outside(s, "p2p1", ret2))
          /\ active' = ~(\/ Kills(lane["p1p2"], ret1, again1)
                         \/ Kills(lane["p2p1"], ret2, again2))
    /\ crossed' = (crossed \/ \E d \in Dirs \ {Own(s)} : lane[d].bufpos # 0)
    /\ UNCHANGED taken

\* The call has been deleted, or is beyond what the C language defines.
Stopped == ~Running /\ UNCHANGED rvars

Next ==
    \/ \E d \in Dirs, k \in 1 .. DEFAULT_BUF_SIZE : process_c2c_read(d, k)
    \/ \E d \in Dirs : c2c_read_outside(d) \/ c2c_read_fails(d)
    \/ \E s \in {"p1", "p2"} : process_c2c_write(s)
    \/ Stopped

Spec == Init /\ [][Next]_rvars

\* The event loop serves every event that is added and ready.  The clients go on
\* sending, and reading: a socket reported writable takes something in the end.
Accepted(s) == process_c2c_write(s) /\ Len(out'[Own(s)]) > Len(out[Own(s)])

FairSpec ==
    /\ Spec
    /\ \A d \in Dirs : WF_rvars(\E k \in 1 .. DEFAULT_BUF_SIZE : process_c2c_read(d, k))
    /\ \A s \in {"p1", "p2"} : WF_rvars(Accepted(s))

-----------------------------------------------------------------------------
(* Properties *)

\* Types.  bufpos is unsigned: whatever ret is taken from it, it is a position, of a
\* buffer that may be too small for it.
TypeOK ==
    /\ lane \in [Dirs -> Lane]
    /\ taken \in [Dirs -> 0 .. MaxBytes]
    /\ out \in [Dirs -> Seq(Nat)]
    /\ active \in BOOLEAN /\ overrun \in BOOLEAN /\ crossed \in BOOLEAN

\* recv is never called with no room, which would return 0 and be taken for the end of
\* the connection: whatever partial writes, full buffers, errors and foreign rets came
\* before, a source is not read while its buffer is full.
RoomToRead ==
    Running => \A d \in Dirs :
        lane[d].reading /\ ~lane[d].jam => lane[d].bufpos # DEFAULT_BUF_SIZE

\* The relay cannot get stuck: bytes in a buffer have their write event added, a source
\* that is not read has bytes waiting, and so has a jammed direction.
NeverStalls ==
    Running => \A d \in Dirs :
        /\ lane[d].bufpos # 0 => lane[d].writing
        /\ lane[d].reading \/ lane[d].bufpos # 0
        /\ lane[d].jam => lane[d].bufpos # 0

\* doc/proto.txt line 60, "the server goes over to forwarding data between the two
\* clients": every byte taken from a client has been given to the other, in order, or is
\* waiting, and bufpos counts those that wait.
Intact(d) ==
    /\ out[d] \o lane[d].buf = [i \in 1 .. taken[d] |-> i]
    /\ lane[d].bufpos = Len(lane[d].buf) /\ ~Wrapped(lane[d])

\* In both directions nothing is lost, repeated or reordered and no access is outside a
\* buffer, through every partial write, full buffer and refused send, up to the moment
\* that process_c2c_write is called for one socket while the other direction has bytes
\* waiting, whose block then takes a ret that is not its own.  Two clients that take
\* turns, as in a TLS handshake, never reach that moment.
IntactUntilCrossed == ~crossed => ~overrun /\ \A d \in Dirs : Intact(d)

\* As long as the directions have not crossed, all that both clients send arrives, unless
\* the call ends.
DeliveredUnlessCrossed ==
    <>(~active \/ crossed \/ \A d \in Dirs : Len(out[d]) = MaxBytes)
=============================================================================
