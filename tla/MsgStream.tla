------------------------------ MODULE MsgStream ------------------------------
(****************************************************************************)
(* How a connection turns bytes into messages (PICA_msgproc.c).  Every read  *)
(* callback of the node and of the client library appends what SSL_read      *)
(* returned to a buffer and calls PICA_processdatastream, which hands each   *)
(* complete message to its handler and moves the rest to the front.  The     *)
(* peer's writes, TLS records and reads do not respect message boundaries:   *)
(* any chunks may arrive.                                                    *)
(*                                                                          *)
(* Control connections and nodelinks have a read buffer that grows           *)
(* (client_rbuf_grow, nodelink_rbuf_grow); new connections and the client    *)
(* library have one of a fixed size.                                         *)
(****************************************************************************)
EXTENDS Integers, SequencesExt

CONSTANTS
    Base,                   \* the number of values of a byte, 256 in the code
    Readers,                \* the kinds of connections, see Reader
    UINT_MAX,               \* the size of a message that is not known yet
    MaxBytes                \* bound on the bytes a peer sends

Byte == 0 .. Base - 1

\* What tells connections apart: the PICA_msginfo table [id -> [fixedsz, sz]], the ids whose
\* handler returns 0, the size of the read buffer and whether it is enlarged when full.
\* A length field has one octet or two (PICA_MSG_VARSIZE_INT8, PICA_MSG_VARSIZE_INT16).
Reader(r) ==
    /\ DOMAIN r.msgs \subseteq Byte /\ r.refused \subseteq DOMAIN r.msgs
    /\ \A id \in DOMAIN r.msgs : /\ r.msgs[id].fixedsz \in BOOLEAN
                                 /\ IF r.msgs[id].fixedsz THEN r.msgs[id].sz \in Nat \ {0, 1}
                                    ELSE r.msgs[id].sz \in {1, 2}
    /\ r.bufsize \in Nat \ {0, 1}
    /\ r.grows \in BOOLEAN

\* A buffer that cannot grow holds the largest message: NEWCONN_BUFSIZE is
\* PICA_PROTO_CONNID_SIZE, and the client library's 65536 bytes are enough for the
\* PICA_PROTO_C2CMSG_MAXDATASIZE it sends (a longer message ends the connection).
LargestSize(m) ==
    IF m.fixedsz THEN m.sz ELSE 1 + m.sz + (IF m.sz = 1 THEN Base ELSE Base * Base)

\* No buffer that holds the largest message and another read comes near UINT_MAX.
ASSUME StreamAssumption ==
    /\ Base \in Nat \ {0}
    /\ UINT_MAX \in Nat
    /\ MaxBytes \in Nat
    /\ \A r \in Readers :
         /\ Reader(r)
         /\ 1 + r.bufsize < UINT_MAX
         /\ \A id \in DOMAIN r.msgs : /\ LargestSize(r.msgs[id]) + r.bufsize <= UINT_MAX
                                      /\ r.grows \/ LargestSize(r.msgs[id]) <= r.bufsize

VARIABLES
    reader,         \* the kind of this connection
    received,       \* all bytes read so far
    buf, buflen,    \* the bytes 1 .. read_pos of the read buffer, and its size
    handled,        \* the messages handed to their handlers
    status          \* "open", "closed" by the peer, or "error"

svars == <<reader, received, buf, buflen, handled, status>>

msgs == reader.msgs

Init ==
    /\ reader \in Readers
    /\ received = <<>>
    /\ buf = <<>>
    /\ buflen = reader.bufsize
    /\ handled = <<>>
    /\ status = "open"

-----------------------------------------------------------------------------
\* Mutant of TailLen: the length is read in the other byte order.
TailLen_BigEndian(b, sz) == IF sz = 1 THEN b[3] ELSE b[4] + Base * b[3]

\* The length field: its octets become the low octets of an integer that was zero.
TailLen(b, sz) ==
    LET octet(j) == IF j < sz THEN b[3 + j] ELSE 0
    IN  octet(0) + Base * octet(1)

PICA_msggetsize(b) ==
    IF Len(b) < 2 THEN UINT_MAX
    ELSE IF b[1] # b[2] \/ b[1] \notin DOMAIN msgs THEN 0
    ELSE LET m == msgs[b[1]]
         IN  IF m.fixedsz THEN m.sz
             ELSE IF Len(b) >= m.sz + 2 THEN 2 + m.sz + TailLen(b, m.sz)
             ELSE UINT_MAX

\* The header and the id have been checked; what remains is the handler's verdict.
PICA_processmsg(m) == m[1] \notin reader.refused

\* Mutant of Complete: a message that ends where the buffer ends has to wait.
Complete_Strict(size, b) == size < Len(b)

Complete(size, b) == size <= Len(b)

\* One pass of the loop of PICA_processdatastream; one that changes nothing or fails
\* ends it.
Pass(s) ==
    LET size == PICA_msggetsize(s.buf)
        m == SubSeq(s.buf, 1, size)
    IN  IF s.buf = <<>> \/ (size # 0 /\ ~Complete(size, s.buf)) THEN s
        ELSE IF size = 0 \/ ~PICA_processmsg(m) THEN [s EXCEPT !.ret = FALSE]
        ELSE [s EXCEPT !.buf = SubSeq(s.buf, size + 1, Len(s.buf)),
                       !.handled = Append(s.handled, m)]

\* Each pass but the last takes a message, so there are at most as many as bytes.
PICA_processdatastream(b) ==
    LET after[k \in 0 .. Len(b)] ==
            IF k = 0 THEN [ret |-> TRUE, buf |-> b, handled |-> <<>>] ELSE Pass(after[k - 1])
    IN  after[Len(b)]

\* Mutant of rbuf_grow: the buffer keeps its size.
rbuf_grow_Never(b) == buflen

\* client_rbuf_grow and nodelink_rbuf_grow: a buffer that is still full is enlarged.
rbuf_grow(b) == IF reader.grows /\ Len(b) = buflen THEN buflen + reader.bufsize ELSE buflen

\* A read callback: SSL_read has returned the bytes of chunk.
Read(chunk) ==
    /\ status = "open"
    /\ LET r == PICA_processdatastream(buf \o chunk)
       IN  /\ buf' = r.buf
           /\ buflen' = rbuf_grow(r.buf)
           /\ handled' = handled \o r.handled
           /\ status' = IF r.ret THEN "open" ELSE "error"
    /\ received' = received \o chunk
    /\ UNCHANGED reader

\* SSL_read returns 0 or fails: the connection is deleted with what its buffer holds.
ReadEnds ==
    /\ status = "open"
    /\ status' = "closed"
    /\ UNCHANGED <<reader, received, buf, buflen, handled>>

Gone == status # "open" /\ UNCHANGED svars

\* What SSL_read may return for the room that is left.
Chunks ==
    LET room == buflen - Len(buf)
        left == MaxBytes - Len(received)
    IN  UNION {[1 .. k -> Byte] : k \in 1 .. (IF room < left THEN room ELSE left)}

Next == (\E chunk \in Chunks : Read(chunk)) \/ ReadEnds \/ Gone

Spec == Init /\ [][Next]_svars

-----------------------------------------------------------------------------
(* Properties *)

\* A message as doc/proto.txt lays it out: the id twice, and the size of its type or the
\* size its length field gives.
IsMessage(m) ==
    /\ Len(m) >= 2 /\ m[1] = m[2] /\ m[1] \in DOMAIN msgs
    /\ LET t == msgs[m[1]]
       IN  IF t.fixedsz THEN Len(m) = t.sz
           ELSE /\ Len(m) >= 2 + t.sz
                /\ Len(m) - 2 - t.sz = (IF t.sz = 1 THEN m[3] ELSE m[3] + Base * m[4])

\* No byte is lost, repeated or reordered, and what the handlers get is exactly one
\* message each: together with NothingWaits, how the stream was cut into reads does not
\* matter.
Framed ==
    /\ \A i \in DOMAIN handled : IsMessage(handled[i])
    /\ FlattenSeq(handled) \o buf = received

\* When the callback returns no complete message is left in the buffer, where it would
\* wait for the next read event, and an error is reported only when what follows cannot
\* be a message or its handler has refused it.
CannotBegin(b) == Len(b) >= 2 /\ (b[1] # b[2] \/ b[1] \notin DOMAIN msgs)

NothingWaits ==
    /\ status # "error" => ~CannotBegin(buf) /\ \A m \in Prefixes(buf) : ~IsMessage(m)
    /\ status = "error" => \/ CannotBegin(buf)
                           \/ \E m \in Prefixes(buf) : IsMessage(m) /\ m[1] \in reader.refused

\* SSL_read is never called with no room: it would return 0, which the callback takes
\* for the end of the connection, however large the message and whatever came before.
RoomToRead == status = "open" => Len(buf) < buflen
=============================================================================
