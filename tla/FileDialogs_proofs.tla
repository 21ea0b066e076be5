------------------------- MODULE FileDialogs_proofs -------------------------
(* Proofs about file transfer: streams, dialogs, and that a file reported as  *)
(* received is the file that was offered.                                     *)
EXTENDS FileDialogs, SequenceTheorems, TLAPS

LEMMA TwoPeers ==
    ASSUME NEW p \in Peers
    PROVE  /\ Other(p) \in Peers /\ Other(p) # p /\ Other(Other(p)) = p
           /\ \A r \in Peers : r = p \/ r = Other(p)
<1>1. PICK a \in Peers, b \in Peers : a # b /\ Peers = {a, b}
  BY FileTransferAssumption
<1>2. ASSUME NEW r \in Peers
      PROVE  Other(r) \in Peers /\ Other(r) # r
  <2>1. \E s \in Peers : s # r
    BY <1>1
  <2>2. QED
    BY <2>1 DEF Other
<1>3. Other(p) \in Peers /\ Other(p) # p /\ Other(Other(p)) \in Peers /\ Other(Other(p)) # Other(p)
  BY <1>2
<1>4. QED
  BY <1>1, <1>3

-----------------------------------------------------------------------------
(* One direction of the channel.  S is the channel at the end that sends the  *)
(* file, R at the end that receives it, w holds the messages from S to R and  *)
(* b those from R to S.                                                       *)

File == [id : Nat, size : Nat, len : Nat, pos : Nat]

Channel == [state : {"ACTIVE", "CLOSED", "CRASHED"}, sent : Nat,
            sendfilestate : SendStates, sendfile : File, sendfile_stream : Streams,
            recvfilestate : RecvStates, recvfile : File, recvfile_stream : BOOLEAN,
            written : Seq(Nat \X Nat)]

Message == [type : {"SENDFILEREQUEST"}, id : Nat, size : Nat, name : {"plain", "dotted"}]
           \cup [type : {"ACCEPTEDFILE", "DENIEDFILE"}]
           \cup [type : {"FILEFRAGMENT"}, id : Nat, from : Nat, n : Nat]
           \cup [type : {"FILECONTROL"}, snd : Commands, rcv : Commands]

Nothing == [type |-> "NOTHING"]

IsReq(m) == m.type = "SENDFILEREQUEST"
IsFrag(m) == m.type = "FILEFRAGMENT"
IsAnswer(m) == m.type \in {"ACCEPTEDFILE", "DENIEDFILE"}

NoReq(w) == \A i \in 1..Len(w) : ~IsReq(w[i])
NoFrag(w) == \A i \in 1..Len(w) : ~IsFrag(w[i])
NoAnswer(w) == \A i \in 1..Len(w) : ~IsAnswer(w[i])

Running == {"RECEIVING", "PAUSED"}

\* Nothing of a file travels behind the request for it.
LastRequest(w) ==
    \A i, j \in 1..Len(w) : i < j /\ IsReq(w[i]) => ~IsReq(w[j]) /\ ~IsFrag(w[j])

\* The fragments under way belong to file k and continue it from x, without a gap.
FirstFrag(w, i) == IsFrag(w[i]) /\ \A j \in 1..Len(w) : j < i => ~IsFrag(w[j])
LastFrag(w, i) == IsFrag(w[i]) /\ \A j \in 1..Len(w) : i < j => ~IsFrag(w[j])
NextFrag(w, i, j) == /\ i < j /\ IsFrag(w[i]) /\ IsFrag(w[j])
                     /\ \A k \in 1..Len(w) : i < k /\ k < j => ~IsFrag(w[k])

Continues(w, k, x) ==
    /\ \A i \in 1..Len(w) : IsFrag(w[i]) => w[i].id = k
    /\ \A i \in 1..Len(w) : FirstFrag(w, i) => w[i].from = x
    /\ \A i, j \in 1..Len(w) : NextFrag(w, i, j) => w[j].from = w[i].from + w[i].n

RequestsFor(w, k) == \A i \in 1..Len(w) : IsReq(w[i]) => w[i].id = k
OneAnswer(b) == \A i, j \in 1..Len(b) : IsAnswer(b[i]) /\ IsAnswer(b[j]) => i = j

\* A request is on its way, or waits for the user, or its answer is on its way.
Handshake(S, R, w, b) ==
    /\ ~NoReq(w) => /\ S.sendfilestate = "SENTREQ"
                    /\ RequestsFor(w, S.sendfile.id)
                    /\ R.recvfilestate # "WAITACCEPT"
                    /\ NoAnswer(b)
    /\ R.recvfilestate = "WAITACCEPT" => /\ S.sendfilestate = "SENTREQ"
                                         /\ R.recvfile.id = S.sendfile.id
                                         /\ NoReq(w)
                                         /\ NoAnswer(b)
    /\ ~NoAnswer(b) => /\ S.sendfilestate = "SENTREQ"
                       /\ NoReq(w)
                       /\ OneAnswer(b)

\* A sender that waits for an answer has sent nothing of the file; one that sends has
\* sent what the receiver has stored and what is under way.
Position(S, R, w) ==
    /\ S.sendfilestate = "SENTREQ" =>
          /\ S.sendfile.pos = 0
          /\ NoReq(w) => /\ NoFrag(w)
                         /\ R.recvfilestate \in Running => /\ R.recvfile.id = S.sendfile.id
                                                           /\ R.recvfile.pos = 0
    /\ S.sendfilestate \in {"SENDING", "PAUSED"} /\ R.recvfilestate \in Running =>
          /\ R.recvfile.id = S.sendfile.id
          /\ NoFrag(w) => S.sendfile.pos = R.recvfile.pos
          /\ \A i \in 1..Len(w) : LastFrag(w, i) => S.sendfile.pos = w[i].from + w[i].n

Direction(S, R, w, b) ==
    R.state = "ACTIVE" =>
        /\ LastRequest(w)
        /\ R.recvfilestate = "WAITACCEPT" => NoFrag(w)
        /\ R.recvfilestate \in Running => Continues(w, R.recvfile.id, R.recvfile.pos)
        /\ S.state = "ACTIVE" => Handshake(S, R, w, b) /\ Position(S, R, w)

\* What a step of the sending end may do to the transfer: m is the message it has read,
\* out what it has sent.
SameSend(S, T) == S.sendfile.id = T.sendfile.id /\ S.sendfile.pos = T.sendfile.pos

Unasked(m, out) == ~IsAnswer(m) /\ NoReq(out) /\ NoFrag(out)

SenderMove(S, T, m, out) ==
    \/ Unasked(m, out) /\ S.sendfilestate = T.sendfilestate /\ SameSend(S, T)
    \/ /\ S.sendfilestate = "IDLE" /\ T.sendfilestate = "SENTREQ" /\ T.sendfile.pos = 0
       /\ ~IsAnswer(m) /\ Len(out) = 1 /\ IsReq(out[1]) /\ out[1].id = T.sendfile.id
    \/ /\ S.sendfilestate = "SENTREQ" /\ IsAnswer(m) /\ NoReq(out) /\ NoFrag(out)
       /\ \/ T.sendfilestate = "SENDING" /\ SameSend(S, T)
          \/ T.sendfilestate = "IDLE"
    \/ /\ Unasked(m, out) /\ S.sendfilestate \in {"SENDING", "PAUSED"}
       /\ \/ T.sendfilestate \in {"SENDING", "PAUSED"} /\ SameSend(S, T)
          \/ T.sendfilestate = "IDLE"
    \/ /\ S.sendfilestate = "SENDING" /\ ~IsAnswer(m)
       /\ Len(out) = 1 /\ IsFrag(out[1])
       /\ out[1].id = S.sendfile.id /\ out[1].from = S.sendfile.pos
       /\ \/ T.sendfilestate = "IDLE"
          \/ /\ T.sendfilestate = "SENDING" /\ T.sendfile.id = S.sendfile.id
             /\ T.sendfile.pos = S.sendfile.pos + out[1].n

\* What a step of the receiving end may do to the transfer.
SameRecv(R, T) == R.recvfile.id = T.recvfile.id /\ R.recvfile.pos = T.recvfile.pos

Answers(out) == Len(out) = 1 /\ IsAnswer(out[1])

ReceiverMove(R, T, m, out) ==
    \/ /\ ~IsReq(m) /\ ~IsFrag(m) /\ NoAnswer(out)
       /\ T.recvfilestate = R.recvfilestate /\ SameRecv(R, T)
    \/ /\ R.recvfilestate = "IDLE" /\ IsReq(m)
       /\ T.recvfilestate # "IDLE" => T.recvfile.id = m.id /\ T.recvfile.pos = 0
       /\ \/ T.recvfilestate = "WAITACCEPT" /\ NoAnswer(out)
          \/ T.recvfilestate \in {"IDLE", "RECEIVING"} /\ Answers(out)
    \/ /\ R.recvfilestate = "WAITACCEPT" /\ ~IsReq(m) /\ ~IsFrag(m) /\ Answers(out)
       /\ \/ T.recvfilestate = "IDLE"
          \/ T.recvfilestate = "RECEIVING" /\ SameRecv(R, T)
    \/ /\ R.recvfilestate \in Running /\ ~IsReq(m) /\ NoAnswer(out)
       /\ \/ T.recvfilestate = "IDLE"
          \/ T.recvfilestate \in Running /\ ~IsFrag(m) /\ SameRecv(R, T)
          \/ /\ T.recvfilestate \in Running /\ IsFrag(m)
             /\ T.recvfile.id = R.recvfile.id /\ T.recvfile.pos = R.recvfile.pos + m.n

-----------------------------------------------------------------------------
(* Messages join and leave the two queues *)

Added(w, v, f) == /\ Len(w) \in Nat /\ Len(v) = Len(w) + 1 /\ v[Len(w) + 1] = f
                  /\ \A i \in 1..Len(w) : v[i] = w[i]

Removed(w, v, m) == /\ Len(w) \in Nat /\ Len(v) \in Nat /\ Len(w) = Len(v) + 1 /\ m = w[1]
                    /\ \A i \in 1..Len(v) : v[i] = w[i + 1]

LEMMA Sends ==
    ASSUME NEW M, NEW w \in Seq(M), NEW out \in Seq(M), Len(out) <= 1
    PROVE  /\ w \o out \in Seq(M)
           /\ \/ Len(out) = 0 /\ w \o out = w
              \/ Len(out) = 1 /\ Added(w, w \o out, out[1])
<1>1. Len(w) \in Nat /\ Len(out) \in Nat
  BY LenProperties
<1>2. /\ w \o out \in Seq(M)
      /\ Len(w \o out) = Len(w) + Len(out)
      /\ \A i \in 1..Len(w) + Len(out) :
            (w \o out)[i] = IF i <= Len(w) THEN w[i] ELSE out[i - Len(w)]
  BY ConcatProperties
<1>3. CASE Len(out) = 0
  <2>1. out = <<>>
    BY <1>3, EmptySeq
  <2>2. w \o out = w
    BY <2>1, ConcatEmptySeq
  <2>3. QED
    BY <1>2, <1>3, <2>2
<1>4. CASE Len(out) = 1
  <2>1. (w \o out)[Len(w) + 1] = out[1]
    BY <1>1, <1>2, <1>4
  <2>2. \A i \in 1..Len(w) : (w \o out)[i] = w[i]
    BY <1>1, <1>2, <1>4
  <2>3. QED
    BY <1>1, <1>2, <1>4, <2>1, <2>2 DEF Added
<1>5. Len(out) = 0 \/ Len(out) = 1
  <2>1. \A n \in Nat : n <= 1 => n = 0 \/ n = 1
    OBVIOUS
  <2>2. QED
    BY <1>1, <2>1, Zenon
<1>6. QED
  BY <1>3, <1>4, <1>5

LEMMA Reads ==
    ASSUME NEW M, NEW w \in Seq(M), w # <<>>
    PROVE  Tail(w) \in Seq(M) /\ Removed(w, Tail(w), Head(w))
BY DEF Removed

\* A message that is neither a request nor part of a file.
LEMMA QuietAdded ==
    ASSUME NEW w, NEW v, NEW f, Added(w, v, f), ~IsReq(f), ~IsFrag(f)
    PROVE  /\ LastRequest(w) => LastRequest(v)
           /\ NoReq(w) <=> NoReq(v)
           /\ NoFrag(w) <=> NoFrag(v)
           /\ \A k : RequestsFor(w, k) => RequestsFor(v, k)
           /\ \A k, x : Continues(w, k, x) => Continues(v, k, x)
           /\ \A i \in 1..Len(v) : LastFrag(v, i) => /\ i \in 1..Len(w) /\ v[i] = w[i]
                                                     /\ LastFrag(w, i)
<1>1. \A i \in 1..Len(v) : IsReq(v[i]) \/ IsFrag(v[i]) => i \in 1..Len(w) /\ v[i] = w[i]
  BY DEF Added
<1>2. \A i \in 1..Len(w) : i \in 1..Len(v) /\ v[i] = w[i]
  BY DEF Added
<1>3. LastRequest(w) => LastRequest(v)
  BY <1>1 DEF LastRequest
<1>4. /\ NoReq(w) <=> NoReq(v)
      /\ NoFrag(w) <=> NoFrag(v)
      /\ \A k : RequestsFor(w, k) => RequestsFor(v, k)
  BY <1>1, <1>2 DEF NoReq, NoFrag, RequestsFor
<1>5. \A i \in 1..Len(v) : LastFrag(v, i) => /\ i \in 1..Len(w) /\ v[i] = w[i]
                                             /\ LastFrag(w, i)
  BY <1>1, <1>2 DEF LastFrag
<1>6. ASSUME NEW k, NEW x, Continues(w, k, x)
      PROVE  Continues(v, k, x)
  <2>1. \A i \in 1..Len(v) : FirstFrag(v, i) => i \in 1..Len(w) /\ v[i] = w[i] /\ FirstFrag(w, i)
    BY <1>1, <1>2 DEF FirstFrag
  <2>2. \A i, j \in 1..Len(v) : NextFrag(v, i, j) =>
           /\ i \in 1..Len(w) /\ v[i] = w[i]
           /\ j \in 1..Len(w) /\ v[j] = w[j]
           /\ NextFrag(w, i, j)
    BY <1>1, <1>2 DEF NextFrag
  <2>3. QED
    BY <1>1, <1>6, <2>1, <2>2 DEF Continues
<1>7. QED
  BY <1>3, <1>4, <1>5, <1>6

\* A request joins a queue that holds none.
LEMMA RequestAdded ==
    ASSUME NEW w, NEW v, NEW f, Added(w, v, f), IsReq(f), NoReq(w)
    PROVE  /\ LastRequest(v)
           /\ ~NoReq(v)
           /\ RequestsFor(v, f.id)
           /\ \A k, x : Continues(w, k, x) => Continues(v, k, x)
<1>0. ~IsFrag(f)
  BY DEF IsReq, IsFrag
<1>1. \A i \in 1..Len(v) : /\ IsFrag(v[i]) => i \in 1..Len(w) /\ v[i] = w[i]
                           /\ IsReq(v[i]) => i = Len(w) + 1 /\ v[i] = f
  BY <1>0 DEF Added, NoReq
<1>2. /\ \A i \in 1..Len(w) : i \in 1..Len(v) /\ v[i] = w[i]
      /\ Len(w) + 1 \in 1..Len(v) /\ v[Len(w) + 1] = f
  BY DEF Added
<1>3. LastRequest(v)
  <2>1. Len(w) \in Nat
    BY DEF Added
  <2>2. ASSUME NEW i \in 1..Len(v), NEW j \in 1..Len(v), i < j, IsReq(v[i])
        PROVE  ~IsReq(v[j]) /\ ~IsFrag(v[j])
    <3>1. i = Len(w) + 1
      BY <1>1, <2>2
    <3>2. QED
      BY <1>1, <2>1, <2>2, <3>1
  <2>3. QED
    BY <2>2 DEF LastRequest
<1>4. ~NoReq(v) /\ RequestsFor(v, f.id)
  BY <1>1, <1>2 DEF NoReq, RequestsFor
<1>5. ASSUME NEW k, NEW x, Continues(w, k, x)
      PROVE  Continues(v, k, x)
  <2>1. \A i \in 1..Len(v) : FirstFrag(v, i) => i \in 1..Len(w) /\ v[i] = w[i] /\ FirstFrag(w, i)
    BY <1>1, <1>2 DEF FirstFrag
  <2>2. \A i, j \in 1..Len(v) : NextFrag(v, i, j) =>
           /\ i \in 1..Len(w) /\ v[i] = w[i]
           /\ j \in 1..Len(w) /\ v[j] = w[j]
           /\ NextFrag(w, i, j)
    BY <1>1, <1>2 DEF NextFrag
  <2>3. QED
    BY <1>1, <1>5, <2>1, <2>2 DEF Continues
<1>6. QED
  BY <1>3, <1>4, <1>5

\* A fragment joins a queue that holds no request.
LEMMA FragmentAdded ==
    ASSUME NEW w, NEW v, NEW f, Added(w, v, f), IsFrag(f), NoReq(w)
    PROVE  /\ LastRequest(v)
           /\ NoReq(v) /\ ~NoFrag(v)
           /\ \A i \in 1..Len(v) : LastFrag(v, i) => v[i] = f
           /\ \A x : /\ Continues(w, f.id, x)
                     /\ NoFrag(w) => f.from = x
                     /\ \A i \in 1..Len(w) : LastFrag(w, i) => f.from = w[i].from + w[i].n
                     => Continues(v, f.id, x)
<1>0. ~IsReq(f)
  BY DEF IsReq, IsFrag
<1>1. /\ Len(w) \in Nat /\ Len(v) = Len(w) + 1
      /\ \A i \in 1..Len(w) : i \in 1..Len(v) /\ v[i] = w[i]
      /\ Len(w) + 1 \in 1..Len(v) /\ v[Len(w) + 1] = f
      /\ \A i \in 1..Len(v) : i \in 1..Len(w) \/ i = Len(w) + 1
  BY DEF Added
<1>2. NoReq(v)
  BY <1>0, <1>1 DEF NoReq
<1>3. LastRequest(v)
  BY <1>2 DEF LastRequest, NoReq
<1>4. ~NoFrag(v)
  BY <1>1 DEF NoFrag
<1>5. ASSUME NEW i \in 1..Len(v), LastFrag(v, i)
      PROVE  v[i] = f
  <2>1. ~(i < Len(w) + 1)
    BY <1>1, <1>5 DEF LastFrag
  <2>2. i = Len(w) + 1
    BY <1>1, <2>1
  <2>3. QED
    BY <1>1, <2>2
<1>6. ASSUME NEW x, Continues(w, f.id, x), NoFrag(w) => f.from = x,
             \A i \in 1..Len(w) : LastFrag(w, i) => f.from = w[i].from + w[i].n
      PROVE  Continues(v, f.id, x)
  <2>1. \A i \in 1..Len(v) : IsFrag(v[i]) => v[i].id = f.id
    BY <1>1, <1>6 DEF Continues
  <2>2. ASSUME NEW i \in 1..Len(v), FirstFrag(v, i)
        PROVE  v[i].from = x
    <3>1. CASE i \in 1..Len(w)
      BY <1>1, <1>6, <2>2, <3>1 DEF Continues, FirstFrag
    <3>2. CASE i = Len(w) + 1
      <4>1. NoFrag(w)
        BY <1>1, <2>2, <3>2 DEF FirstFrag, NoFrag
      <4>2. QED
        BY <1>1, <1>6, <3>2, <4>1
    <3>3. QED
      BY <1>1, <3>1, <3>2
  <2>3. ASSUME NEW i \in 1..Len(v), NEW j \in 1..Len(v), NextFrag(v, i, j)
        PROVE  v[j].from = v[i].from + v[i].n
    <3>1. i < j /\ i \in 1..Len(w)
      BY <1>1, <2>3 DEF NextFrag
    <3>2. CASE j \in 1..Len(w)
      <4>1. NextFrag(w, i, j)
        BY <1>1, <2>3, <3>1, <3>2 DEF NextFrag
      <4>2. QED
        BY <1>1, <1>6, <3>1, <3>2, <4>1 DEF Continues
    <3>3. CASE j = Len(w) + 1
      <4>1. LastFrag(w, i)
        BY <1>1, <2>3, <3>1, <3>3 DEF NextFrag, LastFrag
      <4>2. QED
        BY <1>1, <1>6, <3>1, <3>3, <4>1
    <3>4. QED
      BY <1>1, <3>2, <3>3
  <2>4. QED
    BY <2>1, <2>2, <2>3 DEF Continues
<1>7. QED
  BY <1>2, <1>3, <1>4, <1>5, <1>6

\* The first message is taken.
LEMMA Taken ==
    ASSUME NEW w, NEW v, NEW m, Removed(w, v, m)
    PROVE  /\ \A i \in 1..Len(v) : i \in Int /\ i + 1 \in 1..Len(w) /\ v[i] = w[i + 1]
           /\ \A i \in 1..Len(w) : i # 1 => i - 1 \in 1..Len(v) /\ v[i - 1] = w[i]
           /\ 1 \in 1..Len(w) /\ w[1] = m
           /\ LastRequest(w) => LastRequest(v)
           /\ NoReq(w) => NoReq(v)
           /\ NoFrag(w) => NoFrag(v)
           /\ \A k : RequestsFor(w, k) => RequestsFor(v, k)
           /\ \A i \in 1..Len(v) : LastFrag(v, i) => LastFrag(w, i + 1)
<1>1. /\ \A i \in 1..Len(v) : i \in Int /\ i + 1 \in 1..Len(w) /\ v[i] = w[i + 1]
      /\ 1 \in 1..Len(w) /\ w[1] = m
  BY DEF Removed
<1>2. \A i \in 1..Len(w) : i # 1 => i - 1 \in 1..Len(v) /\ v[i - 1] = w[i]
  <2>1. ASSUME NEW i \in 1..Len(w), i # 1
        PROVE  i - 1 \in 1..Len(v) /\ v[i - 1] = w[i]
    <3>1. i - 1 \in 1..Len(v) /\ (i - 1) + 1 = i
      BY <2>1 DEF Removed
    <3>2. QED
      BY <1>1, <3>1
  <2>2. QED
    BY <2>1
<1>3. LastRequest(w) => LastRequest(v)
  <2>1. ASSUME LastRequest(w), NEW i \in 1..Len(v), NEW j \in 1..Len(v), i < j, IsReq(v[i])
        PROVE  ~IsReq(v[j]) /\ ~IsFrag(v[j])
    <3>1. i + 1 \in 1..Len(w) /\ j + 1 \in 1..Len(w) /\ i + 1 < j + 1
      BY <1>1, <2>1
    <3>2. QED
      BY <1>1, <2>1, <3>1 DEF LastRequest
  <2>2. QED
    BY <2>1 DEF LastRequest
<1>4. /\ NoReq(w) => NoReq(v)
      /\ NoFrag(w) => NoFrag(v)
      /\ \A k : RequestsFor(w, k) => RequestsFor(v, k)
  BY <1>1 DEF NoReq, NoFrag, RequestsFor
<1>5. ASSUME NEW i \in 1..Len(v), LastFrag(v, i)
      PROVE  LastFrag(w, i + 1)
  <2>1. IsFrag(w[i + 1])
    BY <1>1, <1>5 DEF LastFrag
  <2>2. ASSUME NEW j \in 1..Len(w), i + 1 < j
        PROVE  ~IsFrag(w[j])
    <3>1. j # 1 /\ j - 1 \in 1..Len(v) /\ v[j - 1] = w[j] /\ i < j - 1
      BY <1>1, <1>2, <2>2
    <3>2. QED
      BY <1>5, <3>1 DEF LastFrag
  <2>3. QED
    BY <2>1, <2>2 DEF LastFrag
<1>6. QED
  BY <1>1, <1>2, <1>3, <1>4, <1>5

LEMMA QuietTaken ==
    ASSUME NEW w, NEW v, NEW m, Removed(w, v, m), ~IsReq(m), ~IsFrag(m)
    PROVE  /\ NoReq(v) => NoReq(w)
           /\ NoFrag(v) => NoFrag(w)
           /\ \A k, x : Continues(w, k, x) => Continues(v, k, x)
<1>1. /\ \A i \in 1..Len(v) : i \in Int /\ i + 1 \in 1..Len(w) /\ v[i] = w[i + 1]
      /\ \A i \in 1..Len(w) : i # 1 => i - 1 \in 1..Len(v) /\ v[i - 1] = w[i]
      /\ 1 \in 1..Len(w) /\ w[1] = m
  BY Taken
<1>2. /\ NoReq(v) => NoReq(w)
      /\ NoFrag(v) => NoFrag(w)
  BY <1>1 DEF NoReq, NoFrag
<1>3. ASSUME NEW k, NEW x, Continues(w, k, x)
      PROVE  Continues(v, k, x)
  <2>1. \A i \in 1..Len(v) : IsFrag(v[i]) => v[i].id = k
    BY <1>1, <1>3 DEF Continues
  <2>2. ASSUME NEW i \in 1..Len(v), FirstFrag(v, i)
        PROVE  v[i].from = x
    <3>1. ASSUME NEW j \in 1..Len(w), j < i + 1
          PROVE  ~IsFrag(w[j])
      <4>1. CASE j = 1
        BY <1>1, <4>1
      <4>2. CASE j # 1
        <5>1. j - 1 \in 1..Len(v) /\ v[j - 1] = w[j] /\ j - 1 < i
          BY <1>1, <3>1, <4>2
        <5>2. QED
          BY <2>2, <5>1 DEF FirstFrag
      <4>3. QED
        BY <4>1, <4>2
    <3>2. FirstFrag(w, i + 1)
      BY <1>1, <2>2, <3>1 DEF FirstFrag
    <3>3. i + 1 \in 1..Len(w) /\ v[i] = w[i + 1]
      BY <1>1
    <3>4. w[i + 1].from = x
      BY <1>3, <3>2, <3>3 DEF Continues
    <3>5. QED
      BY <3>3, <3>4
  <2>3. ASSUME NEW i \in 1..Len(v), NEW j \in 1..Len(v), NextFrag(v, i, j)
        PROVE  v[j].from = v[i].from + v[i].n
    <3>1. ASSUME NEW l \in 1..Len(w), i + 1 < l, l < j + 1
          PROVE  ~IsFrag(w[l])
      <4>1. l - 1 \in 1..Len(v) /\ v[l - 1] = w[l] /\ i < l - 1 /\ l - 1 < j
        BY <1>1, <3>1
      <4>2. QED
        BY <2>3, <4>1 DEF NextFrag
    <3>2. i + 1 < j + 1 /\ IsFrag(w[i + 1]) /\ IsFrag(w[j + 1])
      BY <1>1, <2>3 DEF NextFrag
    <3>3. NextFrag(w, i + 1, j + 1)
      BY <3>1, <3>2 DEF NextFrag
    <3>4. /\ i + 1 \in 1..Len(w) /\ v[i] = w[i + 1]
          /\ j + 1 \in 1..Len(w) /\ v[j] = w[j + 1]
      BY <1>1
    <3>5. w[j + 1].from = w[i + 1].from + w[i + 1].n
      BY <1>3, <3>3, <3>4 DEF Continues
    <3>6. QED
      BY <3>4, <3>5
  <2>4. QED
    BY <2>1, <2>2, <2>3 DEF Continues
<1>4. QED
  BY <1>2, <1>3

\* The receiver takes a fragment: it is the next one, and the rest continues from its end.
LEMMA FragmentTaken ==
    ASSUME NEW w, NEW v, NEW m, Removed(w, v, m), IsFrag(m), NEW k, NEW x, Continues(w, k, x)
    PROVE  /\ m.id = k /\ m.from = x
           /\ Continues(v, k, x + m.n)
           /\ NoFrag(v) => LastFrag(w, 1)
<1>1. /\ \A i \in 1..Len(v) : i \in Int /\ i + 1 \in 1..Len(w) /\ v[i] = w[i + 1]
      /\ \A i \in 1..Len(w) : i # 1 => i - 1 \in 1..Len(v) /\ v[i - 1] = w[i]
      /\ 1 \in 1..Len(w) /\ w[1] = m
  BY Taken
<1>2. m.id = k
  BY <1>1 DEF Continues
<1>3. m.from = x
  <2>1. FirstFrag(w, 1)
    BY <1>1 DEF FirstFrag
  <2>2. QED
    BY <1>1, <2>1 DEF Continues
<1>4. NoFrag(v) => LastFrag(w, 1)
  <2>1. \A j \in 1..Len(w) : 1 < j => j # 1
    OBVIOUS
  <2>2. QED
    BY <1>1, <2>1 DEF NoFrag, LastFrag
<1>5. \A i \in 1..Len(v) : IsFrag(v[i]) => v[i].id = k
  BY <1>1 DEF Continues
<1>6. ASSUME NEW i \in 1..Len(v), FirstFrag(v, i)
      PROVE  v[i].from = x + m.n
  <2>1. ASSUME NEW l \in 1..Len(w), 1 < l, l < i + 1
        PROVE  ~IsFrag(w[l])
    <3>1. l - 1 \in 1..Len(v) /\ v[l - 1] = w[l] /\ l - 1 < i
      BY <1>1, <2>1
    <3>2. QED
      BY <1>6, <3>1 DEF FirstFrag
  <2>2. 1 < i + 1 /\ IsFrag(w[1]) /\ IsFrag(w[i + 1])
    BY <1>1, <1>6 DEF FirstFrag
  <2>3. NextFrag(w, 1, i + 1)
    BY <2>1, <2>2 DEF NextFrag
  <2>4. QED
    BY <1>1, <1>3, <2>3 DEF Continues
<1>7. ASSUME NEW i \in 1..Len(v), NEW j \in 1..Len(v), NextFrag(v, i, j)
      PROVE  v[j].from = v[i].from + v[i].n
  <2>1. ASSUME NEW l \in 1..Len(w), i + 1 < l, l < j + 1
        PROVE  ~IsFrag(w[l])
    <3>1. l - 1 \in 1..Len(v) /\ v[l - 1] = w[l] /\ i < l - 1 /\ l - 1 < j
      BY <1>1, <2>1
    <3>2. QED
      BY <1>7, <3>1 DEF NextFrag
  <2>2. i + 1 < j + 1 /\ IsFrag(w[i + 1]) /\ IsFrag(w[j + 1])
    BY <1>1, <1>7 DEF NextFrag
  <2>3. NextFrag(w, i + 1, j + 1)
    BY <2>1, <2>2 DEF NextFrag
  <2>4. /\ i + 1 \in 1..Len(w) /\ v[i] = w[i + 1]
        /\ j + 1 \in 1..Len(w) /\ v[j] = w[j + 1]
    BY <1>1
  <2>5. w[j + 1].from = w[i + 1].from + w[i + 1].n
    BY <2>3, <2>4 DEF Continues
  <2>6. QED
    BY <2>4, <2>5
<1>8. QED
  BY <1>2, <1>3, <1>4, <1>5, <1>6, <1>7 DEF Continues

LEMMA RequestTaken ==
    ASSUME NEW w, NEW v, NEW m, Removed(w, v, m), IsReq(m), LastRequest(w)
    PROVE  /\ ~NoReq(w) /\ \A k : RequestsFor(w, k) => m.id = k
           /\ NoReq(v) /\ NoFrag(v)
<1>1. /\ \A i \in 1..Len(v) : i \in Int /\ i + 1 \in 1..Len(w) /\ v[i] = w[i + 1] /\ 1 < i + 1
      /\ 1 \in 1..Len(w) /\ w[1] = m
  BY Taken
<1>2. NoReq(v) /\ NoFrag(v)
  BY <1>1 DEF LastRequest, NoReq, NoFrag
<1>3. QED
  BY <1>1, <1>2 DEF NoReq, RequestsFor

\* With no fragment under way every position is continued.
LEMMA NothingUnderWay ==
    ASSUME NEW w, NoFrag(w)
    PROVE  \A k, x : Continues(w, k, x)
BY DEF NoFrag, Continues, FirstFrag, NextFrag

LEMMA AnswersTaken ==
    ASSUME NEW b, NEW v, NEW m, Removed(b, v, m)
    PROVE  /\ NoAnswer(b) => NoAnswer(v)
           /\ OneAnswer(b) => OneAnswer(v)
           /\ IsAnswer(m) => ~NoAnswer(b)
           /\ IsAnswer(m) /\ OneAnswer(b) => NoAnswer(v)
<1>1. /\ \A i \in 1..Len(v) : i \in Int /\ i + 1 \in 1..Len(b) /\ v[i] = b[i + 1] /\ i + 1 # 1
      /\ 1 \in 1..Len(b) /\ b[1] = m
  BY DEF Removed
<1>2. NoAnswer(b) => NoAnswer(v)
  BY <1>1 DEF NoAnswer
<1>3. IsAnswer(m) => ~NoAnswer(b)
  BY <1>1 DEF NoAnswer
<1>4. IsAnswer(m) /\ OneAnswer(b) => NoAnswer(v)
  BY <1>1 DEF NoAnswer, OneAnswer
<1>5. ASSUME OneAnswer(b), NEW i \in 1..Len(v), NEW j \in 1..Len(v), IsAnswer(v[i]), IsAnswer(v[j])
      PROVE  i = j
  <2>1. i + 1 = j + 1
    BY <1>1, <1>5 DEF OneAnswer
  <2>2. QED
    BY <1>1, <2>1
<1>6. QED
  BY <1>2, <1>3, <1>4, <1>5 DEF OneAnswer

LEMMA AnswersAdded ==
    ASSUME NEW b, NEW v, NEW f, Added(b, v, f)
    PROVE  /\ ~IsAnswer(f) => (NoAnswer(b) <=> NoAnswer(v)) /\ (OneAnswer(b) => OneAnswer(v))
           /\ NoAnswer(b) => OneAnswer(v)
<1>1. /\ \A i \in 1..Len(b) : i \in 1..Len(v) /\ v[i] = b[i]
      /\ \A i \in 1..Len(v) : i \in 1..Len(b) \/ (i = Len(b) + 1 /\ v[i] = f)
  BY DEF Added
<1>2. ~IsAnswer(f) => (NoAnswer(b) <=> NoAnswer(v))
  BY <1>1 DEF NoAnswer
<1>3. ~IsAnswer(f) => (OneAnswer(b) => OneAnswer(v))
  BY <1>1 DEF OneAnswer
<1>4. NoAnswer(b) => OneAnswer(v)
  BY <1>1 DEF OneAnswer, NoAnswer
<1>5. QED
  BY <1>2, <1>3, <1>4

-----------------------------------------------------------------------------
(* Steps of the two ends keep the direction *)

\* b2 is b without the message that was read, if one was.
Took(b, m, b2) == \/ m = Nothing /\ b2 = b
                  \/ Removed(b, b2, m)

LEMMA SenderStep ==
    ASSUME NEW S, NEW T, NEW R, NEW w \in Seq(Message), NEW b, NEW b2, NEW m,
           NEW out \in Seq(Message), Len(out) <= 1,
           S.state = "ACTIVE", Took(b, m, b2), SenderMove(S, T, m, out),
           Direction(S, R, w, b)
    PROVE  Direction(T, R, w \o out, b2)
<1> DEFINE v == w \o out
<1> SUFFICES ASSUME R.state = "ACTIVE"
             PROVE  /\ LastRequest(v)
                    /\ R.recvfilestate = "WAITACCEPT" => NoFrag(v)
                    /\ R.recvfilestate \in Running => Continues(v, R.recvfile.id, R.recvfile.pos)
                    /\ Handshake(T, R, v, b2) /\ Position(T, R, v)
  BY DEF Direction
<1>0. /\ LastRequest(w) /\ Handshake(S, R, w, b) /\ Position(S, R, w)
      /\ R.recvfilestate = "WAITACCEPT" => NoFrag(w)
      /\ R.recvfilestate \in Running => Continues(w, R.recvfile.id, R.recvfile.pos)
  BY DEF Direction
<1>1. \/ Len(out) = 0 /\ v = w
      \/ Len(out) = 1 /\ Added(w, v, out[1])
  BY Sends
<1>2. /\ NoAnswer(b) => NoAnswer(b2)
      /\ OneAnswer(b) => OneAnswer(b2)
      /\ IsAnswer(m) => ~NoAnswer(b)
      /\ IsAnswer(m) /\ OneAnswer(b) => NoAnswer(b2)
  <2>1. CASE m = Nothing /\ b2 = b
    BY <2>1 DEF Nothing, IsAnswer
  <2>2. CASE Removed(b, b2, m)
    BY <2>2, AnswersTaken
  <2>3. QED
    BY <2>1, <2>2 DEF Took
<1> HIDE DEF v
<1>3. ASSUME NoReq(out), NoFrag(out)
      PROVE  /\ LastRequest(v)
             /\ NoReq(w) <=> NoReq(v)
             /\ NoFrag(w) <=> NoFrag(v)
             /\ \A k : RequestsFor(w, k) => RequestsFor(v, k)
             /\ \A k, x : Continues(w, k, x) => Continues(v, k, x)
             /\ \A i \in 1..Len(v) : LastFrag(v, i) => /\ i \in 1..Len(w) /\ v[i] = w[i]
                                                       /\ LastFrag(w, i)
  <2>1. CASE Len(out) = 0 /\ v = w
    BY <1>0, <2>1
  <2>2. CASE Len(out) = 1 /\ Added(w, v, out[1])
    <3>1. ~IsReq(out[1]) /\ ~IsFrag(out[1])
      BY <1>3, <2>2 DEF NoReq, NoFrag
    <3>2. QED
      BY <1>0, <2>2, <3>1, QuietAdded
  <2>3. QED
    BY <1>1, <2>1, <2>2
<1>4. CASE Unasked(m, out) /\ S.sendfilestate = T.sendfilestate /\ SameSend(S, T)
  <2>1. NoReq(out) /\ NoFrag(out) /\ ~IsAnswer(m)
    BY <1>4 DEF Unasked
  <2>2. /\ T.sendfilestate = S.sendfilestate
        /\ T.sendfile.id = S.sendfile.id /\ T.sendfile.pos = S.sendfile.pos
    BY <1>4 DEF SameSend
  <2>3. Handshake(T, R, v, b2)
    BY <1>0, <1>2, <1>3, <2>1, <2>2 DEF Handshake
  <2>4. Position(T, R, v)
    BY <1>0, <1>3, <2>1, <2>2 DEF Position
  <2>5. QED
    BY <1>0, <1>3, <2>1, <2>3, <2>4
<1>5. CASE /\ S.sendfilestate = "IDLE" /\ T.sendfilestate = "SENTREQ" /\ T.sendfile.pos = 0
           /\ ~IsAnswer(m) /\ Len(out) = 1 /\ IsReq(out[1]) /\ out[1].id = T.sendfile.id
  <2>1. NoReq(w) /\ NoAnswer(b) /\ R.recvfilestate # "WAITACCEPT"
    BY <1>0, <1>5 DEF Handshake
  <2>2. Added(w, v, out[1])
    BY <1>1, <1>5
  <2>3. /\ LastRequest(v) /\ ~NoReq(v) /\ RequestsFor(v, T.sendfile.id)
        /\ \A k, x : Continues(w, k, x) => Continues(v, k, x)
    BY <1>5, <2>1, <2>2, RequestAdded
  <2>4. Handshake(T, R, v, b2)
    BY <1>2, <1>5, <2>1, <2>3 DEF Handshake
  <2>5. Position(T, R, v)
    BY <1>5, <2>3 DEF Position
  <2>6. QED
    BY <1>0, <2>1, <2>3, <2>4, <2>5
<1>6. CASE /\ S.sendfilestate = "SENTREQ" /\ IsAnswer(m) /\ NoReq(out) /\ NoFrag(out)
           /\ \/ T.sendfilestate = "SENDING" /\ SameSend(S, T)
              \/ T.sendfilestate = "IDLE"
  <2>1. NoReq(w) /\ NoAnswer(b2) /\ R.recvfilestate # "WAITACCEPT"
    BY <1>0, <1>2, <1>6 DEF Handshake
  <2>2. NoFrag(w) /\ S.sendfile.pos = 0
        /\ (R.recvfilestate \in Running => /\ R.recvfile.id = S.sendfile.id
                                           /\ R.recvfile.pos = 0)
    BY <1>0, <1>6, <2>1 DEF Position
  <2>3. NoReq(v) /\ NoFrag(v)
    BY <1>3, <1>6, <2>1, <2>2
  <2>4. Handshake(T, R, v, b2)
    BY <2>1, <2>3 DEF Handshake
  <2>5. Position(T, R, v)
    BY <1>6, <2>2, <2>3 DEF Position, SameSend, LastFrag, NoFrag
  <2>6. QED
    BY <1>0, <1>3, <1>6, <2>1, <2>4, <2>5
<1>7. CASE /\ Unasked(m, out) /\ S.sendfilestate \in {"SENDING", "PAUSED"}
           /\ \/ T.sendfilestate \in {"SENDING", "PAUSED"} /\ SameSend(S, T)
              \/ T.sendfilestate = "IDLE"
  <2>1. NoReq(out) /\ NoFrag(out)
    BY <1>7 DEF Unasked
  <2>2. NoReq(w) /\ NoAnswer(b) /\ R.recvfilestate # "WAITACCEPT"
    BY <1>0, <1>7 DEF Handshake
  <2>3. Handshake(T, R, v, b2)
    BY <1>2, <1>3, <2>1, <2>2 DEF Handshake
  <2>4. Position(T, R, v)
    BY <1>0, <1>3, <1>7, <2>1 DEF Position, SameSend
  <2>5. QED
    BY <1>0, <1>3, <2>1, <2>3, <2>4
<1>8. CASE /\ S.sendfilestate = "SENDING" /\ ~IsAnswer(m)
           /\ Len(out) = 1 /\ IsFrag(out[1])
           /\ out[1].id = S.sendfile.id /\ out[1].from = S.sendfile.pos
           /\ \/ T.sendfilestate = "IDLE"
              \/ /\ T.sendfilestate = "SENDING" /\ T.sendfile.id = S.sendfile.id
                 /\ T.sendfile.pos = S.sendfile.pos + out[1].n
  <2> DEFINE f == out[1]
  <2>1. NoReq(w) /\ NoAnswer(b) /\ R.recvfilestate # "WAITACCEPT"
    BY <1>0, <1>8 DEF Handshake
  <2>2. Added(w, v, f)
    BY <1>1, <1>8
  <2> HIDE DEF f
  <2>3. IsFrag(f) /\ f.id = S.sendfile.id /\ f.from = S.sendfile.pos
    BY <1>8 DEF f
  <2>4. /\ LastRequest(v)
        /\ NoReq(v) /\ ~NoFrag(v)
        /\ \A i \in 1..Len(v) : LastFrag(v, i) => v[i] = f
        /\ \A x : /\ Continues(w, f.id, x)
                  /\ NoFrag(w) => f.from = x
                  /\ \A i \in 1..Len(w) : LastFrag(w, i) => f.from = w[i].from + w[i].n
                  => Continues(v, f.id, x)
    BY <2>1, <2>2, <2>3, FragmentAdded
  <2>5. R.recvfilestate \in Running =>
           /\ R.recvfile.id = f.id
           /\ NoFrag(w) => f.from = R.recvfile.pos
           /\ \A i \in 1..Len(w) : LastFrag(w, i) => f.from = w[i].from + w[i].n
    BY <1>0, <1>8, <2>3 DEF Position
  <2>6. R.recvfilestate \in Running => Continues(v, R.recvfile.id, R.recvfile.pos)
    BY <1>0, <2>4, <2>5
  <2>7. Handshake(T, R, v, b2)
    BY <1>2, <2>1, <2>4 DEF Handshake
  <2>8. Position(T, R, v)
    <3>1. CASE T.sendfilestate = "IDLE"
      BY <3>1 DEF Position
    <3>2. CASE /\ T.sendfilestate = "SENDING" /\ T.sendfile.id = S.sendfile.id
               /\ T.sendfile.pos = f.from + f.n
      BY <2>3, <2>4, <2>5, <3>2 DEF Position
    <3>3. QED
      BY <1>8, <2>3, <3>1, <3>2 DEF f
  <2>9. QED
    BY <2>1, <2>4, <2>6, <2>7, <2>8
<1>9. QED
  BY <1>4, <1>5, <1>6, <1>7, <1>8 DEF SenderMove

LEMMA ReceiverStep ==
    ASSUME NEW S, NEW R, NEW T, NEW w, NEW b \in Seq(Message), NEW w2, NEW m,
           NEW out \in Seq(Message), Len(out) <= 1,
           R.state = "ACTIVE", Took(w, m, w2), ReceiverMove(R, T, m, out),
           R.recvfilestate = "WAITACCEPT" => R.recvfile.pos = 0,
           Direction(S, R, w, b)
    PROVE  Direction(S, T, w2, b \o out)
<1> DEFINE c == b \o out
<1>0. /\ LastRequest(w)
      /\ R.recvfilestate = "WAITACCEPT" => NoFrag(w)
      /\ R.recvfilestate \in Running => Continues(w, R.recvfile.id, R.recvfile.pos)
      /\ S.state = "ACTIVE" => Handshake(S, R, w, b) /\ Position(S, R, w)
  BY DEF Direction
<1>1. \/ Len(out) = 0 /\ c = b
      \/ Len(out) = 1 /\ Added(b, c, out[1])
  BY Sends
<1>2. /\ NoAnswer(out) => (NoAnswer(b) <=> NoAnswer(c)) /\ (OneAnswer(b) => OneAnswer(c))
      /\ NoAnswer(b) => OneAnswer(c)
  <2>1. CASE Len(out) = 0 /\ c = b
    <3> HIDE DEF c
    <3>1. QED
      BY <2>1 DEF NoAnswer, OneAnswer
  <2>2. CASE Len(out) = 1 /\ Added(b, c, out[1])
    <3>1. NoAnswer(out) => ~IsAnswer(out[1])
      BY <2>2 DEF NoAnswer
    <3> HIDE DEF c
    <3>2. QED
      BY <2>2, <3>1, AnswersAdded
  <2>3. QED
    BY <1>1, <2>1, <2>2
<1> HIDE DEF c
<1>3. /\ LastRequest(w2)
      /\ NoReq(w) => NoReq(w2)
      /\ NoFrag(w) => NoFrag(w2)
      /\ \A k : RequestsFor(w, k) => RequestsFor(w2, k)
  <2>1. CASE m = Nothing /\ w2 = w
    BY <1>0, <2>1
  <2>2. CASE Removed(w, w2, m)
    BY <1>0, <2>2, Taken
  <2>3. QED
    BY <2>1, <2>2 DEF Took
\* A message that is not about this file.
<1>4. ASSUME ~IsReq(m), ~IsFrag(m)
      PROVE  /\ NoReq(w) <=> NoReq(w2)
             /\ NoFrag(w) <=> NoFrag(w2)
             /\ \A k, x : Continues(w, k, x) => Continues(w2, k, x)
             /\ \A i \in 1..Len(w2) : LastFrag(w2, i) =>
                   \E j \in 1..Len(w) : LastFrag(w, j) /\ w2[i] = w[j]
  <2>1. CASE m = Nothing /\ w2 = w
    BY <2>1
  <2>2. CASE Removed(w, w2, m)
    <3>1. /\ NoReq(w) <=> NoReq(w2)
          /\ NoFrag(w) <=> NoFrag(w2)
          /\ \A k, x : Continues(w, k, x) => Continues(w2, k, x)
      BY <1>3, <1>4, <2>2, QuietTaken
    <3>2. \A i \in 1..Len(w2) : i + 1 \in 1..Len(w) /\ w2[i] = w[i + 1]
                                /\ (LastFrag(w2, i) => LastFrag(w, i + 1))
      BY <2>2, Taken
    <3>3. QED
      BY <3>1, <3>2
  <2>3. QED
    BY <2>1, <2>2 DEF Took
<1>5. IsReq(m) \/ IsFrag(m) => Removed(w, w2, m)
  BY DEF Took, Nothing, IsReq, IsFrag
\* An answer leaves the state in which the request waits.
<1>6. CASE /\ ~IsReq(m) /\ ~IsFrag(m) /\ NoAnswer(out)
           /\ T.recvfilestate = R.recvfilestate /\ SameRecv(R, T)
  <2>1. T.recvfile.id = R.recvfile.id /\ T.recvfile.pos = R.recvfile.pos
    BY <1>6 DEF SameRecv
  <2>2. T.recvfilestate \in Running => Continues(w2, T.recvfile.id, T.recvfile.pos)
    BY <1>0, <1>4, <1>6, <2>1
  <2>3. S.state = "ACTIVE" => Handshake(S, T, w2, c)
    BY <1>0, <1>2, <1>3, <1>4, <1>6, <2>1 DEF Handshake
  <2>4. S.state = "ACTIVE" => Position(S, T, w2)
    BY <1>0, <1>4, <1>6, <2>1 DEF Position
  <2>5. QED
    BY <1>0, <1>3, <1>6, <2>2, <2>3, <2>4 DEF Direction, c
<1>7. CASE /\ R.recvfilestate = "IDLE" /\ IsReq(m)
           /\ T.recvfilestate # "IDLE" => T.recvfile.id = m.id /\ T.recvfile.pos = 0
           /\ \/ T.recvfilestate = "WAITACCEPT" /\ NoAnswer(out)
              \/ T.recvfilestate \in {"IDLE", "RECEIVING"} /\ Answers(out)
  <2>1. /\ ~NoReq(w) /\ \A k : RequestsFor(w, k) => m.id = k
        /\ NoReq(w2) /\ NoFrag(w2)
    BY <1>0, <1>5, <1>7, RequestTaken
  <2>2. \A k, x : Continues(w2, k, x)
    BY <2>1, NothingUnderWay
  <2>3. S.state = "ACTIVE" => /\ S.sendfilestate = "SENTREQ" /\ m.id = S.sendfile.id
                              /\ NoAnswer(b) /\ S.sendfile.pos = 0
    BY <1>0, <2>1 DEF Handshake, Position
  <2>4. S.state = "ACTIVE" => Handshake(S, T, w2, c)
    BY <1>2, <1>7, <2>1, <2>3 DEF Handshake
  <2>5. S.state = "ACTIVE" => Position(S, T, w2)
    BY <1>7, <2>1, <2>3 DEF Position, Running
  <2>6. QED
    BY <1>3, <2>1, <2>2, <2>4, <2>5 DEF Direction, c
<1>8. CASE /\ R.recvfilestate = "WAITACCEPT" /\ ~IsReq(m) /\ ~IsFrag(m) /\ Answers(out)
           /\ \/ T.recvfilestate = "IDLE"
              \/ T.recvfilestate = "RECEIVING" /\ SameRecv(R, T)
  <2>1. S.state = "ACTIVE" => /\ S.sendfilestate = "SENTREQ" /\ R.recvfile.id = S.sendfile.id
                              /\ NoReq(w) /\ NoAnswer(b) /\ NoFrag(w) /\ S.sendfile.pos = 0
    BY <1>0, <1>8 DEF Handshake, Position
  <2>2. S.state = "ACTIVE" => Handshake(S, T, w2, c)
    BY <1>2, <1>3, <1>8, <2>1 DEF Handshake
  <2>3. S.state = "ACTIVE" => Position(S, T, w2)
    <3>1. T.recvfilestate \in Running => /\ T.recvfile.id = R.recvfile.id
                                         /\ T.recvfile.pos = 0
      BY <1>8 DEF SameRecv, Running
    <3>2. QED
      BY <1>3, <2>1, <3>1 DEF Position
  <2>4. T.recvfilestate \in Running => Continues(w2, T.recvfile.id, T.recvfile.pos)
    BY <1>0, <1>3, <1>8, NothingUnderWay
  <2>5. QED
    BY <1>3, <1>8, <2>2, <2>3, <2>4 DEF Direction, c
<1>9. CASE /\ R.recvfilestate \in Running /\ ~IsReq(m) /\ NoAnswer(out)
           /\ T.recvfilestate \in Running /\ ~IsFrag(m) /\ SameRecv(R, T)
  <2>1. T.recvfile.id = R.recvfile.id /\ T.recvfile.pos = R.recvfile.pos
    BY <1>9 DEF SameRecv
  <2>2. T.recvfilestate \in Running => Continues(w2, T.recvfile.id, T.recvfile.pos)
    BY <1>0, <1>4, <1>9, <2>1
  <2>3. T.recvfilestate # "WAITACCEPT"
    BY <1>9 DEF Running
  <2>4. S.state = "ACTIVE" => Handshake(S, T, w2, c)
    BY <1>0, <1>2, <1>3, <1>4, <1>9, <2>3 DEF Handshake
  <2>5. S.state = "ACTIVE" => Position(S, T, w2)
    BY <1>0, <1>4, <1>9, <2>1 DEF Position
  <2>6. QED
    BY <1>3, <2>2, <2>3, <2>4, <2>5 DEF Direction, c
<1>10. CASE /\ R.recvfilestate \in Running /\ ~IsReq(m) /\ NoAnswer(out)
            /\ T.recvfilestate = "IDLE"
  <2>1. T.recvfilestate \notin Running
    BY <1>10 DEF Running
  <2>2. NoReq(w2) => NoReq(w)
    <3>1. CASE IsFrag(m)
      <4>1. Removed(w, w2, m)
        BY <1>5, <3>1
      <4>2. \A i \in 1..Len(w) : i # 1 => i - 1 \in 1..Len(w2) /\ w2[i - 1] = w[i]
        BY <4>1, Taken
      <4>3. w[1] = m
        BY <4>1 DEF Removed
      <4>4. QED
        BY <1>10, <4>2, <4>3 DEF NoReq
    <3>2. CASE ~IsFrag(m)
      BY <1>4, <1>10, <3>2
    <3>3. QED
      BY <3>1, <3>2
  <2>3. S.state = "ACTIVE" => Handshake(S, T, w2, c)
    BY <1>0, <1>2, <1>3, <1>10, <2>2 DEF Handshake
  <2>4. S.state = "ACTIVE" => Position(S, T, w2)
    BY <1>0, <1>3, <2>1, <2>2 DEF Position
  <2>5. QED
    BY <1>3, <1>10, <2>1, <2>3, <2>4 DEF Direction, c
<1>11. CASE /\ R.recvfilestate \in Running /\ NoAnswer(out)
            /\ T.recvfilestate \in Running /\ IsFrag(m)
            /\ T.recvfile.id = R.recvfile.id /\ T.recvfile.pos = R.recvfile.pos + m.n
  <2>0. Removed(w, w2, m) /\ ~IsReq(m)
    BY <1>5, <1>11 DEF IsReq, IsFrag
  <2>1. /\ m.id = R.recvfile.id /\ m.from = R.recvfile.pos
        /\ Continues(w2, R.recvfile.id, R.recvfile.pos + m.n)
        /\ NoFrag(w2) => LastFrag(w, 1)
    BY <1>0, <1>11, <2>0, FragmentTaken
  <2>2. T.recvfilestate # "WAITACCEPT"
    BY <1>11 DEF Running
  <2>3. /\ \A i \in 1..Len(w) : i # 1 => i - 1 \in 1..Len(w2) /\ w2[i - 1] = w[i]
        /\ 1 \in 1..Len(w) /\ w[1] = m
        /\ \A i \in 1..Len(w2) : i + 1 \in 1..Len(w) /\ w2[i] = w[i + 1]
                                 /\ (LastFrag(w2, i) => LastFrag(w, i + 1))
    BY <2>0, Taken
  <2>4. NoReq(w2) => NoReq(w)
    BY <2>0, <2>3 DEF NoReq
  <2>5. ~NoFrag(w)
    BY <1>11, <2>3 DEF NoFrag
  <2>6. S.state = "ACTIVE" => Handshake(S, T, w2, c)
    BY <1>0, <1>2, <1>3, <1>11, <2>2, <2>4 DEF Handshake
  <2>7. S.state = "ACTIVE" => Position(S, T, w2)
    <3> SUFFICES ASSUME S.state = "ACTIVE" PROVE Position(S, T, w2)
      OBVIOUS
    <3>1. S.sendfilestate = "SENTREQ" => ~NoReq(w) /\ S.sendfile.pos = 0
      BY <1>0, <2>5 DEF Position
    <3>2. S.sendfilestate \in {"SENDING", "PAUSED"} =>
             /\ R.recvfile.id = S.sendfile.id
             /\ \A i \in 1..Len(w) : LastFrag(w, i) => S.sendfile.pos = w[i].from + w[i].n
      BY <1>0, <1>11 DEF Position
    <3>3. ASSUME S.sendfilestate \in {"SENDING", "PAUSED"}
          PROVE  /\ T.recvfile.id = S.sendfile.id
                 /\ NoFrag(w2) => S.sendfile.pos = T.recvfile.pos
                 /\ \A i \in 1..Len(w2) : LastFrag(w2, i) => S.sendfile.pos = w2[i].from + w2[i].n
      BY <1>11, <2>1, <2>3, <3>2, <3>3
    <3>4. QED
      BY <2>4, <3>1, <3>3 DEF Position
  <2>8. QED
    BY <1>3, <1>11, <2>1, <2>2, <2>6, <2>7 DEF Direction, c
<1>12. QED
  BY <1>6, <1>7, <1>8, <1>9, <1>10, <1>11 DEF ReceiverMove

-----------------------------------------------------------------------------
(* What the two ends of a transfer know of each other.  A pause or resume      *)
(* flips the state of its reader, so the ends agree once everything has been   *)
(* read when their states differ exactly if an odd number of them is under     *)
(* way.                                                                        *)

Toggles == {"PAUSE", "RESUME"}
Halts == {"CANCEL", "IOERROR"}
Sending == {"SENDING", "PAUSED"}

\* The command in a message: about the file its sender sends ("snd") or receives ("rcv").
Cmd(m, side) == IF m.type # "FILECONTROL" THEN "VOID" ELSE IF side = "snd" THEN m.snd ELSE m.rcv

Quiet(w, side) == \A i \in 1..Len(w) : Cmd(w[i], side) = "VOID"
Halted(w, side) == \E i \in 1..Len(w) : Cmd(w[i], side) \in Halts

\* x is 1 when the number of pauses and resumes under way is odd; f counts them.
Counts(f, w, side) ==
    /\ f \in [0..Len(w) -> {0, 1}] /\ f[0] = 0
    /\ \A i \in 1..Len(w) : f[i] = IF Cmd(w[i], side) \in Toggles THEN 1 - f[i - 1] ELSE f[i - 1]
Parity(w, side, x) == \E f : Counts(f, w, side) /\ f[Len(w)] = x

Flip(m, side, x) == IF Cmd(m, side) \in Toggles THEN 1 - x ELSE x

Paused(state) == IF state = "PAUSED" THEN 1 ELSE 0

Has(b, type) == \E i \in 1..Len(b) : b[i].type = type

\* A command that was sent before the answer.
Early(b) == \E i, j \in 1..Len(b) : i < j /\ Cmd(b[i], "rcv") # "VOID" /\ IsAnswer(b[j])

QuietBehind(w) == \A i, j \in 1..Len(w) : i < j /\ IsReq(w[i]) => Cmd(w[j], "snd") = "VOID"
Announces(w, size) == \A i \in 1..Len(w) : IsReq(w[i]) => w[i].size = size

\* The last fragment of the file.
Final(m, size) == IsFrag(m) /\ ~(m.from + m.n < size)
Ending(w, size) == \E i \in 1..Len(w) : Cmd(w[i], "snd") \in Halts \/ Final(w[i], size)
Unfinished(w, size) == \A i \in 1..Len(w) : ~Final(w[i], size)

\* The request has been read and its answer has not.
Asked(S, R, w, b) ==
    /\ Quiet(w, "snd")
    /\ NoAnswer(b) => R.recvfilestate = "WAITACCEPT"
    /\ Has(b, "DENIEDFILE") => R.recvfilestate = "IDLE"
    /\ Has(b, "ACCEPTEDFILE") =>
          /\ R.recvfilestate \notin Running => R.recvfilestate = "IDLE" /\ Halted(b, "rcv")
          /\ R.recvfilestate \in Running =>
                /\ R.recvfile.size = S.sendfile.size
                /\ Early(b) \/ (~Halted(b, "rcv") /\ Parity(b, "rcv", Paused(R.recvfilestate)))

Balanced(S, R, w, b) ==
    \E x, y \in {0, 1} : /\ Parity(w, "snd", x) /\ Parity(b, "rcv", y)
                         /\ (Paused(S.sendfilestate) = Paused(R.recvfilestate)) <=> (x = y)

\* The file is being sent.
Paired(S, R, w, b) ==
    /\ ~Halted(w, "snd")
    /\ R.recvfilestate \notin Running => R.recvfilestate = "IDLE" /\ Halted(b, "rcv")
    /\ R.recvfilestate \in Running =>
          /\ R.recvfile.size = S.sendfile.size
          /\ ~Halted(b, "rcv")
          /\ Unfinished(w, R.recvfile.size)
          /\ Balanced(S, R, w, b)

Agrees(S, R, w, b) ==
    /\ QuietBehind(w)
    /\ Announces(w, S.sendfile.size)
    /\ R.recvfilestate = "WAITACCEPT" => R.recvfile.size = S.sendfile.size
    /\ R.recvfilestate \in Running /\ (S.sendfilestate = "IDLE" \/ ~NoReq(w))
          => Ending(w, R.recvfile.size)
    /\ S.sendfilestate = "SENTREQ" /\ NoReq(w) => Asked(S, R, w, b)
    /\ S.sendfilestate \in Sending => Paired(S, R, w, b)

Agreement(S, R, w, b) == S.state = "ACTIVE" /\ R.state = "ACTIVE" => Agrees(S, R, w, b)

\* What a step of the sending end does, with the commands it obeys and gives.
SendStep(S, T, m, out) ==
    \/ /\ Cmd(m, "rcv") = "VOID" /\ ~IsAnswer(m)
       /\ Quiet(out, "snd") /\ NoReq(out) /\ NoFrag(out)
       /\ T.sendfilestate = S.sendfilestate /\ T.sendfile.size = S.sendfile.size
    \/ /\ S.sendfilestate = "IDLE" /\ T.sendfilestate = "SENTREQ"
       /\ Cmd(m, "rcv") = "VOID" /\ ~IsAnswer(m)
       /\ Len(out) = 1 /\ IsReq(out[1]) /\ out[1].size = T.sendfile.size
    \/ /\ S.sendfilestate = "SENTREQ" /\ Len(out) = 0
       /\ \/ /\ m.type = "ACCEPTEDFILE"
             /\ T.sendfilestate = "SENDING" /\ T.sendfile.size = S.sendfile.size
          \/ m.type = "DENIEDFILE" /\ T.sendfilestate = "IDLE"
    \/ /\ S.sendfilestate \in Sending /\ T.sendfilestate \in Sending
       /\ T.sendfilestate # S.sendfilestate /\ T.sendfile.size = S.sendfile.size
       /\ ~IsAnswer(m)
       /\ \/ Cmd(m, "rcv") \in Toggles /\ Len(out) = 0
          \/ Cmd(m, "rcv") = "VOID" /\ Len(out) = 1 /\ Cmd(out[1], "snd") \in Toggles
    \/ /\ S.sendfilestate \in Sending /\ T.sendfilestate = "IDLE" /\ ~IsAnswer(m)
       /\ \/ Cmd(m, "rcv") \in Halts /\ Len(out) = 0
          \/ Len(out) = 1 /\ Cmd(out[1], "snd") \in Halts
          \/ Len(out) = 1 /\ Final(out[1], S.sendfile.size)
    \/ /\ S.sendfilestate = "SENDING" /\ T.sendfilestate = "SENDING"
       /\ T.sendfile.size = S.sendfile.size /\ ~IsAnswer(m) /\ Cmd(m, "rcv") = "VOID"
       /\ Len(out) = 1 /\ IsFrag(out[1]) /\ ~Final(out[1], S.sendfile.size)

\* What a step of the receiving end does.
Replies(R, T, size, out) ==
    /\ Len(out) = 1
    /\ \/ out[1].type = "DENIEDFILE" /\ T.recvfilestate = "IDLE"
       \/ /\ out[1].type = "ACCEPTEDFILE"
          /\ T.recvfilestate = "RECEIVING" /\ T.recvfile.size = size

RecvStep(R, T, m, out) ==
    \/ /\ Cmd(m, "snd") = "VOID" /\ ~IsReq(m) /\ ~IsFrag(m)
       /\ Quiet(out, "rcv") /\ NoAnswer(out)
       /\ T.recvfilestate = R.recvfilestate /\ T.recvfile.size = R.recvfile.size
    \/ /\ R.recvfilestate = "IDLE" /\ IsReq(m)
       /\ \/ T.recvfilestate = "WAITACCEPT" /\ T.recvfile.size = m.size /\ Len(out) = 0
          \/ Replies(R, T, m.size, out)
    \/ /\ R.recvfilestate = "WAITACCEPT" /\ Cmd(m, "snd") = "VOID" /\ ~IsReq(m) /\ ~IsFrag(m)
       /\ Replies(R, T, R.recvfile.size, out)
    \/ /\ R.recvfilestate \in Running /\ T.recvfilestate \in Running /\ ~IsReq(m) /\ ~IsFrag(m)
       /\ T.recvfilestate # R.recvfilestate /\ T.recvfile.size = R.recvfile.size
       /\ \/ Cmd(m, "snd") \in Toggles /\ Len(out) = 0
          \/ Cmd(m, "snd") = "VOID" /\ Len(out) = 1 /\ Cmd(out[1], "rcv") \in Toggles
    \/ /\ R.recvfilestate \in Running /\ IsFrag(m) /\ Len(out) = 0
       /\ T.recvfilestate = R.recvfilestate /\ T.recvfile.size = R.recvfile.size
       /\ R.recvfile.pos + m.n < R.recvfile.size
    \/ /\ R.recvfilestate \in Running /\ T.recvfilestate = "IDLE" /\ ~IsReq(m)
       /\ \/ Cmd(m, "snd") \in Halts /\ Len(out) = 0
          \/ IsFrag(m) /\ Len(out) = 0 /\ ~(R.recvfile.pos + m.n < R.recvfile.size)
          \/ Cmd(m, "snd") = "VOID" /\ Len(out) = 1 /\ Cmd(out[1], "rcv") \in Halts

LEMMA ParityAdded ==
    ASSUME NEW w, NEW v, NEW f, NEW side, NEW x \in {0, 1}, Added(w, v, f), Parity(w, side, x)
    PROVE  Parity(v, side, Flip(f, side, x))
<1>1. PICK g : Counts(g, w, side) /\ g[Len(w)] = x
  BY DEF Parity
<1> DEFINE y == Flip(f, side, x)
           h == [i \in 0..Len(v) |-> IF i = Len(v) THEN y ELSE g[i]]
<1>2. /\ Len(w) \in Nat /\ Len(v) = Len(w) + 1 /\ v[Len(w) + 1] = f
      /\ \A i \in 1..Len(w) : v[i] = w[i]
  BY DEF Added
<1>3. y \in {0, 1}
  BY DEF Flip
<1>4. /\ g \in [0..Len(w) -> {0, 1}] /\ g[0] = 0
      /\ \A i \in 1..Len(w) : g[i] = IF Cmd(w[i], side) \in Toggles THEN 1 - g[i - 1] ELSE g[i - 1]
  BY <1>1 DEF Counts
<1> HIDE DEF y
<1>5. h \in [0..Len(v) -> {0, 1}] /\ h[0] = 0 /\ h[Len(v)] = y
  BY <1>2, <1>3, <1>4
<1>6. \A i \in 0..Len(w) : h[i] = g[i]
  BY <1>2
<1> HIDE DEF h
<1>7. ASSUME NEW i \in 1..Len(v)
      PROVE  h[i] = IF Cmd(v[i], side) \in Toggles THEN 1 - h[i - 1] ELSE h[i - 1]
  <2>1. CASE i \in 1..Len(w)
    <3>1. i - 1 \in 0..Len(w) /\ i \in 0..Len(w)
      BY <2>1, <1>2
    <3>2. QED
      BY <1>2, <1>4, <1>6, <2>1, <3>1
  <2>2. CASE i = Len(v)
    <3>1. i - 1 = Len(w) /\ Len(w) \in 0..Len(w) /\ v[i] = f
      BY <2>2, <1>2
    <3>2. h[i - 1] = x /\ h[i] = y
      BY <1>1, <1>5, <1>6, <2>2, <3>1
    <3>3. QED
      BY <3>1, <3>2 DEF y, Flip
  <2>3. QED
    BY <1>2, <2>1, <2>2
<1>8. Counts(h, v, side)
  BY <1>5, <1>7 DEF Counts
<1>9. QED
  BY <1>5, <1>8 DEF Parity, y

LEMMA ParityRemoved ==
    ASSUME NEW w, NEW v, NEW m, NEW side, NEW x \in {0, 1}, Removed(w, v, m), Parity(w, side, x)
    PROVE  Parity(v, side, Flip(m, side, x))
<1>1. PICK g : Counts(g, w, side) /\ g[Len(w)] = x
  BY DEF Parity
<1> DEFINE h == [i \in 0..Len(v) |-> Flip(m, side, g[i + 1])]
<1>2. /\ Len(v) \in Nat /\ Len(w) = Len(v) + 1 /\ m = w[1]
      /\ \A i \in 1..Len(v) : v[i] = w[i + 1]
  BY DEF Removed
<1>4. /\ g \in [0..Len(w) -> {0, 1}] /\ g[0] = 0
      /\ \A i \in 1..Len(w) : g[i] = IF Cmd(w[i], side) \in Toggles THEN 1 - g[i - 1] ELSE g[i - 1]
  BY <1>1 DEF Counts
<1>5. \A z \in {0, 1} : Flip(m, side, z) \in {0, 1} /\ Flip(m, side, 1 - z) = 1 - Flip(m, side, z)
  BY DEF Flip
<1>6. \A i \in 0..Len(v) : i + 1 \in 1..Len(w) /\ g[i + 1] \in {0, 1} /\ h[i] = Flip(m, side, g[i + 1])
  BY <1>2, <1>4
<1>7. h \in [0..Len(v) -> {0, 1}]
  BY <1>5, <1>6
<1>8. h[0] = 0
  <2>1. 1 \in 1..Len(w) /\ 0 \in 0..Len(v) /\ 1 - 1 = 0 /\ 0 + 1 = 1
    BY <1>2
  <2>2. g[1] = Flip(m, side, 0)
    BY <1>2, <1>4, <2>1 DEF Flip
  <2>3. h[0] = Flip(m, side, Flip(m, side, 0))
    BY <1>6, <2>1, <2>2
  <2>4. QED
    BY <2>3 DEF Flip
<1>9. h[Len(v)] = Flip(m, side, x)
  BY <1>1, <1>2, <1>6
<1> HIDE DEF h
<1>10. ASSUME NEW i \in 1..Len(v)
       PROVE  h[i] = IF Cmd(v[i], side) \in Toggles THEN 1 - h[i - 1] ELSE h[i - 1]
  <2>1. i \in 0..Len(v) /\ i - 1 \in 0..Len(v) /\ (i - 1) + 1 = i /\ i + 1 \in 1..Len(w) /\ (i + 1) - 1 = i
    BY <1>2
  <2>2. h[i] = Flip(m, side, g[i + 1]) /\ h[i - 1] = Flip(m, side, g[i])
    BY <1>6, <2>1
  <2>3. g[i + 1] = IF Cmd(v[i], side) \in Toggles THEN 1 - g[i] ELSE g[i]
    BY <1>2, <1>4, <2>1
  <2>4. g[i] \in {0, 1}
    BY <1>6, <2>1
  <2>5. QED
    BY <1>5, <2>2, <2>3, <2>4
<1>11. Counts(h, v, side)
  BY <1>7, <1>8, <1>10 DEF Counts
<1>12. QED
  BY <1>9, <1>11 DEF Parity

LEMMA ParityQuiet ==
    ASSUME NEW w, NEW side, Len(w) \in Nat, Quiet(w, side)
    PROVE  Parity(w, side, 0)
<1> DEFINE g == [i \in 0..Len(w) |-> 0]
<1>1. g \in [0..Len(w) -> {0, 1}] /\ \A i \in 0..Len(w) : g[i] = 0
  OBVIOUS
<1>2. "VOID" \notin Toggles
  BY DEF Toggles
<1>3. \A i \in 1..Len(w) : i \in 0..Len(w) /\ i - 1 \in 0..Len(w)
  OBVIOUS
<1>4. 0 \in 0..Len(w) /\ Len(w) \in 0..Len(w)
  OBVIOUS
<1> HIDE DEF g
<1>5. Counts(g, w, side)
  BY <1>1, <1>2, <1>3, <1>4 DEF Counts, Quiet
<1>6. QED
  BY <1>1, <1>4, <1>5 DEF Parity

LEMMA ParityEmpty ==
    ASSUME NEW w, NEW side, NEW x, Len(w) = 0, Parity(w, side, x)
    PROVE  x = 0
BY DEF Parity, Counts

\* What a message changes when it joins a queue ...
LEMMA CommandsAdded ==
    ASSUME NEW w, NEW v, NEW f, Added(w, v, f)
    PROVE  /\ \A side : /\ Quiet(v, side) <=> Quiet(w, side) /\ Cmd(f, side) = "VOID"
                        /\ Halted(v, side) <=> Halted(w, side) \/ Cmd(f, side) \in Halts
           /\ \A type : Has(v, type) <=> Has(w, type) \/ f.type = type
           /\ NoReq(v) <=> NoReq(w) /\ ~IsReq(f)
           /\ NoAnswer(v) <=> NoAnswer(w) /\ ~IsAnswer(f)
           /\ QuietBehind(w) /\ (NoReq(w) \/ Cmd(f, "snd") = "VOID") => QuietBehind(v)
           /\ \A size : /\ Announces(w, size) /\ (IsReq(f) => f.size = size) => Announces(v, size)
                        /\ Ending(v, size) <=> \/ Ending(w, size)
                                               \/ Cmd(f, "snd") \in Halts \/ Final(f, size)
                        /\ Unfinished(v, size) <=> Unfinished(w, size) /\ ~Final(f, size)
           /\ Early(w) => Early(v)
           /\ IsAnswer(f) /\ ~Quiet(w, "rcv") => Early(v)
<1>1. /\ Len(w) \in Nat /\ Len(v) = Len(w) + 1
      /\ \A i \in 1..Len(w) : i \in 1..Len(v) /\ v[i] = w[i]
      /\ Len(w) + 1 \in 1..Len(v) /\ v[Len(w) + 1] = f
      /\ \A i \in 1..Len(v) : i \in 1..Len(w) \/ i = Len(w) + 1
  BY DEF Added
<1>2. \A side : /\ Quiet(v, side) <=> Quiet(w, side) /\ Cmd(f, side) = "VOID"
                /\ Halted(v, side) <=> Halted(w, side) \/ Cmd(f, side) \in Halts
  BY <1>1 DEF Quiet, Halted
<1>3. /\ \A type : Has(v, type) <=> Has(w, type) \/ f.type = type
      /\ NoReq(v) <=> NoReq(w) /\ ~IsReq(f)
      /\ NoAnswer(v) <=> NoAnswer(w) /\ ~IsAnswer(f)
  BY <1>1 DEF Has, NoReq, NoAnswer
<1>4. QuietBehind(w) /\ (NoReq(w) \/ Cmd(f, "snd") = "VOID") => QuietBehind(v)
  <2>1. ASSUME QuietBehind(w), NoReq(w) \/ Cmd(f, "snd") = "VOID",
               NEW i \in 1..Len(v), NEW j \in 1..Len(v), i < j, IsReq(v[i])
        PROVE  Cmd(v[j], "snd") = "VOID"
    <3>1. i \in 1..Len(w)
      BY <1>1, <2>1
    <3>2. CASE j \in 1..Len(w)
      BY <1>1, <2>1, <3>1, <3>2 DEF QuietBehind
    <3>3. CASE j = Len(w) + 1
      BY <1>1, <2>1, <3>1, <3>3 DEF NoReq
    <3>4. QED
      BY <1>1, <3>2, <3>3
  <2>2. QED
    BY <2>1 DEF QuietBehind
<1>5. \A size : /\ Announces(w, size) /\ (IsReq(f) => f.size = size) => Announces(v, size)
                /\ Ending(v, size) <=> \/ Ending(w, size)
                                       \/ Cmd(f, "snd") \in Halts \/ Final(f, size)
                /\ Unfinished(v, size) <=> Unfinished(w, size) /\ ~Final(f, size)
  <2>1. \A size : Announces(w, size) /\ (IsReq(f) => f.size = size) => Announces(v, size)
    BY <1>1 DEF Announces
  <2>2. \A size : Ending(v, size) <=> \/ Ending(w, size)
                                      \/ Cmd(f, "snd") \in Halts \/ Final(f, size)
    BY <1>1 DEF Ending
  <2>3. \A size : Unfinished(v, size) <=> Unfinished(w, size) /\ ~Final(f, size)
    BY <1>1 DEF Unfinished
  <2>4. QED
    BY <2>1, <2>2, <2>3
<1>6. Early(w) => Early(v)
  BY <1>1 DEF Early
<1>7. ASSUME IsAnswer(f), ~Quiet(w, "rcv")
      PROVE  Early(v)
  <2>1. PICK i \in 1..Len(w) : Cmd(w[i], "rcv") # "VOID"
    BY <1>7 DEF Quiet
  <2>2. i < Len(w) + 1
    BY <1>1
  <2>3. QED
    BY <1>1, <1>7, <2>1, <2>2 DEF Early
<1>8. QED
  BY <1>2, <1>3, <1>4, <1>5, <1>6, <1>7

\* ... and when it leaves.
LEMMA CommandsRemoved ==
    ASSUME NEW w, NEW v, NEW m, Removed(w, v, m)
    PROVE  /\ \A side : /\ Quiet(w, side) <=> Quiet(v, side) /\ Cmd(m, side) = "VOID"
                        /\ Halted(w, side) <=> Halted(v, side) \/ Cmd(m, side) \in Halts
           /\ \A type : Has(w, type) <=> Has(v, type) \/ m.type = type
           /\ NoReq(w) <=> NoReq(v) /\ ~IsReq(m)
           /\ NoAnswer(w) <=> NoAnswer(v) /\ ~IsAnswer(m)
           /\ QuietBehind(w) => QuietBehind(v) /\ (IsReq(m) => Quiet(v, "snd"))
           /\ \A size : /\ Announces(w, size) => Announces(v, size) /\ (IsReq(m) => m.size = size)
                        /\ Ending(w, size) <=> \/ Ending(v, size)
                                               \/ Cmd(m, "snd") \in Halts \/ Final(m, size)
                        /\ Unfinished(w, size) <=> Unfinished(v, size) /\ ~Final(m, size)
           /\ Early(w) /\ Cmd(m, "rcv") = "VOID" => Early(v)
           /\ Early(w) /\ IsAnswer(m) => ~OneAnswer(w)
<1>1. /\ \A i \in 1..Len(v) : i \in Int /\ i + 1 \in 1..Len(w) /\ v[i] = w[i + 1]
      /\ \A i \in 1..Len(w) : i # 1 => i - 1 \in 1..Len(v) /\ v[i - 1] = w[i]
      /\ 1 \in 1..Len(w) /\ w[1] = m
  BY Taken
<1>2. \A side : /\ Quiet(w, side) <=> Quiet(v, side) /\ Cmd(m, side) = "VOID"
                /\ Halted(w, side) <=> Halted(v, side) \/ Cmd(m, side) \in Halts
  <2>1. \A side : Quiet(w, side) <=> Quiet(v, side) /\ Cmd(m, side) = "VOID"
    BY <1>1 DEF Quiet
  <2>2. \A side : Halted(w, side) <=> Halted(v, side) \/ Cmd(m, side) \in Halts
    BY <1>1 DEF Halted
  <2>3. QED
    BY <2>1, <2>2
<1>3. /\ \A type : Has(w, type) <=> Has(v, type) \/ m.type = type
      /\ NoReq(w) <=> NoReq(v) /\ ~IsReq(m)
      /\ NoAnswer(w) <=> NoAnswer(v) /\ ~IsAnswer(m)
  <2>1. \A type : Has(w, type) <=> Has(v, type) \/ m.type = type
    BY <1>1 DEF Has
  <2>2. /\ NoReq(w) <=> NoReq(v) /\ ~IsReq(m)
        /\ NoAnswer(w) <=> NoAnswer(v) /\ ~IsAnswer(m)
    BY <1>1 DEF NoReq, NoAnswer
  <2>3. QED
    BY <2>1, <2>2
<1>4. QuietBehind(w) => QuietBehind(v) /\ (IsReq(m) => Quiet(v, "snd"))
  <2>1. ASSUME QuietBehind(w), NEW i \in 1..Len(v), NEW j \in 1..Len(v), i < j, IsReq(v[i])
        PROVE  Cmd(v[j], "snd") = "VOID"
    <3>1. i + 1 \in 1..Len(w) /\ j + 1 \in 1..Len(w) /\ i + 1 < j + 1
      BY <1>1, <2>1
    <3>2. QED
      BY <1>1, <2>1, <3>1 DEF QuietBehind
  <2>2. ASSUME QuietBehind(w), IsReq(m), NEW j \in 1..Len(v)
        PROVE  Cmd(v[j], "snd") = "VOID"
    <3>1. j + 1 \in 1..Len(w) /\ 1 < j + 1
      BY <1>1
    <3>2. QED
      BY <1>1, <2>2, <3>1 DEF QuietBehind
  <2>3. QED
    BY <2>1, <2>2 DEF QuietBehind, Quiet
<1>5. \A size : /\ Announces(w, size) => Announces(v, size) /\ (IsReq(m) => m.size = size)
                /\ Ending(w, size) <=> \/ Ending(v, size)
                                       \/ Cmd(m, "snd") \in Halts \/ Final(m, size)
                /\ Unfinished(w, size) <=> Unfinished(v, size) /\ ~Final(m, size)
  <2>1. \A size : Announces(w, size) => Announces(v, size) /\ (IsReq(m) => m.size = size)
    BY <1>1 DEF Announces
  <2>2. \A size : Ending(w, size) <=> \/ Ending(v, size)
                                      \/ Cmd(m, "snd") \in Halts \/ Final(m, size)
    BY <1>1 DEF Ending
  <2>3. \A size : Unfinished(w, size) <=> Unfinished(v, size) /\ ~Final(m, size)
    BY <1>1 DEF Unfinished
  <2>4. QED
    BY <2>1, <2>2, <2>3
<1>6. ASSUME Early(w)
      PROVE  /\ Cmd(m, "rcv") = "VOID" => Early(v)
             /\ IsAnswer(m) => ~OneAnswer(w)
  <2>1. PICK i \in 1..Len(w), j \in 1..Len(w) :
           i < j /\ Cmd(w[i], "rcv") # "VOID" /\ IsAnswer(w[j])
    BY <1>6 DEF Early
  <2>2. j # 1
    BY <2>1
  <2>3. IsAnswer(m) => ~OneAnswer(w)
    BY <1>1, <2>1, <2>2 DEF OneAnswer
  <2>4. ASSUME Cmd(m, "rcv") = "VOID"
        PROVE  Early(v)
    <3>1. i # 1
      BY <1>1, <2>1, <2>4
    <3>2. /\ i - 1 \in 1..Len(v) /\ v[i - 1] = w[i]
          /\ j - 1 \in 1..Len(v) /\ v[j - 1] = w[j]
      BY <1>1, <2>2, <3>1
    <3>3. i - 1 < j - 1
      BY <2>1
    <3>4. QED
      BY <2>1, <3>2, <3>3 DEF Early
  <2>5. QED
    BY <2>3, <2>4
<1>7. QED
  BY <1>2, <1>3, <1>4, <1>5, <1>6

\* A queue to which nothing was added, or from which nothing was taken, is the same; a
\* message that is no command and no answer changes nothing that matters.
LEMMA QuietlySent ==
    ASSUME NEW w \in Seq(Message), NEW out \in Seq(Message), Len(out) <= 1, NEW side,
           Quiet(out, side)
    PROVE  /\ Quiet(w \o out, side) <=> Quiet(w, side)
           /\ Halted(w \o out, side) <=> Halted(w, side)
           /\ \A x \in {0, 1} : Parity(w, side, x) => Parity(w \o out, side, x)
<1> DEFINE v == w \o out
<1>1. \/ Len(out) = 0 /\ v = w
      \/ Len(out) = 1 /\ Added(w, v, out[1])
  BY Sends
<1> HIDE DEF v
<1>2. CASE Len(out) = 0 /\ v = w
  BY <1>2 DEF v
<1>3. CASE Len(out) = 1 /\ Added(w, v, out[1])
  <2>1. Cmd(out[1], side) = "VOID" /\ "VOID" \notin Halts /\ "VOID" \notin Toggles
    BY <1>3 DEF Quiet, Halts, Toggles
  <2>2. /\ Quiet(v, side) <=> Quiet(w, side)
        /\ Halted(v, side) <=> Halted(w, side)
    BY <1>3, <2>1, CommandsAdded
  <2>3. \A x : Flip(out[1], side, x) = x
    BY <2>1 DEF Flip
  <2>4. \A x \in {0, 1} : Parity(w, side, x) => Parity(v, side, x)
    BY <1>3, <2>3, ParityAdded
  <2>5. QED
    BY <2>2, <2>4 DEF v
<1>4. QED
  BY <1>1, <1>2, <1>3

LEMMA QuietlyRead ==
    ASSUME NEW b, NEW b2, NEW m, NEW side, Took(b, m, b2), Cmd(m, side) = "VOID"
    PROVE  /\ Quiet(b2, side) <=> Quiet(b, side)
           /\ Halted(b2, side) <=> Halted(b, side)
           /\ \A x \in {0, 1} : Parity(b, side, x) => Parity(b2, side, x)
<1>1. CASE m = Nothing /\ b2 = b
  BY <1>1
<1>2. CASE Removed(b, b2, m)
  <2>1. "VOID" \notin Halts /\ "VOID" \notin Toggles
    BY DEF Halts, Toggles
  <2>2. /\ Quiet(b2, side) <=> Quiet(b, side)
        /\ Halted(b2, side) <=> Halted(b, side)
    BY <1>2, <2>1, CommandsRemoved
  <2>3. \A x : Flip(m, side, x) = x
    BY <2>1 DEF Flip
  <2>4. \A x \in {0, 1} : Parity(b, side, x) => Parity(b2, side, x)
    BY <1>2, <2>3, ParityRemoved
  <2>5. QED
    BY <2>2, <2>4
<1>3. QED
  BY <1>1, <1>2 DEF Took

LEMMA MessageKinds ==
    ASSUME NEW m
    PROVE  /\ IsReq(m) => ~IsFrag(m) /\ ~IsAnswer(m)
           /\ IsFrag(m) => ~IsAnswer(m)
           /\ \A side : IsReq(m) \/ IsFrag(m) \/ IsAnswer(m) => Cmd(m, side) = "VOID"
           /\ \A side : Cmd(m, side) # "VOID" => ~IsReq(m) /\ ~IsFrag(m) /\ ~IsAnswer(m)
           /\ \A side : Cmd(m, side) \in Toggles => Cmd(m, side) \notin Halts
           /\ \A side : Cmd(m, side) \in Toggles \cup Halts => Cmd(m, side) # "VOID"
           /\ \A size : Final(m, size) => IsFrag(m)
           /\ m.type = "ACCEPTEDFILE" \/ m.type = "DENIEDFILE" <=> IsAnswer(m)
           /\ ~(m.type = "ACCEPTEDFILE" /\ m.type = "DENIEDFILE")
<1>1. /\ IsReq(m) => ~IsFrag(m) /\ ~IsAnswer(m)
      /\ IsFrag(m) => ~IsAnswer(m)
      /\ \A side : IsReq(m) \/ IsFrag(m) \/ IsAnswer(m) => Cmd(m, side) = "VOID"
      /\ m.type = "ACCEPTEDFILE" \/ m.type = "DENIEDFILE" <=> IsAnswer(m)
      /\ ~(m.type = "ACCEPTEDFILE" /\ m.type = "DENIEDFILE")
  BY DEF IsReq, IsFrag, IsAnswer, Cmd
<1>2. \A side : /\ Cmd(m, side) \in Toggles => Cmd(m, side) \notin Halts
                /\ Cmd(m, side) \in Toggles \cup Halts => Cmd(m, side) # "VOID"
  BY DEF Toggles, Halts
<1>3. QED
  BY <1>1, <1>2 DEF Final

LEMMA Unanswered ==
    ASSUME NEW b
    PROVE  NoAnswer(b) <=> ~Has(b, "ACCEPTEDFILE") /\ ~Has(b, "DENIEDFILE")
BY DEF NoAnswer, Has, IsAnswer

\* A pause or resume of either end, sent or obeyed, keeps the balance.
LEMMA BalanceKept ==
    ASSUME NEW S, NEW R, NEW T, NEW w, NEW b, NEW v, NEW c,
           Balanced(S, R, w, b),
           \/ /\ Paused(T.sendfilestate) = 1 - Paused(S.sendfilestate)
              /\ \/ /\ \A x \in {0, 1} : Parity(w, "snd", x) => Parity(v, "snd", 1 - x)
                    /\ \A y \in {0, 1} : Parity(b, "rcv", y) => Parity(c, "rcv", y)
                 \/ /\ \A x \in {0, 1} : Parity(w, "snd", x) => Parity(v, "snd", x)
                    /\ \A y \in {0, 1} : Parity(b, "rcv", y) => Parity(c, "rcv", 1 - y)
           \/ /\ Paused(T.sendfilestate) = Paused(S.sendfilestate)
              /\ \A x \in {0, 1} : Parity(w, "snd", x) => Parity(v, "snd", x)
              /\ \A y \in {0, 1} : Parity(b, "rcv", y) => Parity(c, "rcv", y)
    PROVE  Balanced(T, R, v, c)
<1>1. PICK x \in {0, 1}, y \in {0, 1} :
         /\ Parity(w, "snd", x) /\ Parity(b, "rcv", y)
         /\ (Paused(S.sendfilestate) = Paused(R.recvfilestate)) <=> (x = y)
  BY DEF Balanced
<1>2. Paused(S.sendfilestate) \in {0, 1} /\ Paused(R.recvfilestate) \in {0, 1}
  BY DEF Paused
<1>3. \A i, j \in {0, 1} : /\ 1 - i \in {0, 1}
                           /\ (1 - i = j) <=> ~(i = j)
                           /\ (i = 1 - j) <=> ~(i = j)
  OBVIOUS
<1>4. \/ /\ Paused(T.sendfilestate) = 1 - Paused(S.sendfilestate)
         /\ \/ Parity(v, "snd", 1 - x) /\ Parity(c, "rcv", y)
            \/ Parity(v, "snd", x) /\ Parity(c, "rcv", 1 - y)
      \/ /\ Paused(T.sendfilestate) = Paused(S.sendfilestate)
         /\ Parity(v, "snd", x) /\ Parity(c, "rcv", y)
  BY <1>1
<1>5. QED
  BY <1>1, <1>2, <1>3, <1>4 DEF Balanced

LEMMA BalanceKeptR ==
    ASSUME NEW S, NEW R, NEW T, NEW w, NEW b, NEW v, NEW c,
           Balanced(S, R, w, b),
           \/ /\ Paused(T.recvfilestate) = 1 - Paused(R.recvfilestate)
              /\ \/ /\ \A x \in {0, 1} : Parity(w, "snd", x) => Parity(v, "snd", 1 - x)
                    /\ \A y \in {0, 1} : Parity(b, "rcv", y) => Parity(c, "rcv", y)
                 \/ /\ \A x \in {0, 1} : Parity(w, "snd", x) => Parity(v, "snd", x)
                    /\ \A y \in {0, 1} : Parity(b, "rcv", y) => Parity(c, "rcv", 1 - y)
           \/ /\ Paused(T.recvfilestate) = Paused(R.recvfilestate)
              /\ \A x \in {0, 1} : Parity(w, "snd", x) => Parity(v, "snd", x)
              /\ \A y \in {0, 1} : Parity(b, "rcv", y) => Parity(c, "rcv", y)
    PROVE  Balanced(S, T, v, c)
<1>1. PICK x \in {0, 1}, y \in {0, 1} :
         /\ Parity(w, "snd", x) /\ Parity(b, "rcv", y)
         /\ (Paused(S.sendfilestate) = Paused(R.recvfilestate)) <=> (x = y)
  BY DEF Balanced
<1>2. Paused(S.sendfilestate) \in {0, 1} /\ Paused(R.recvfilestate) \in {0, 1}
  BY DEF Paused
<1>3. \A i, j \in {0, 1} : /\ 1 - i \in {0, 1}
                           /\ (1 - i = j) <=> ~(i = j)
                           /\ (i = 1 - j) <=> ~(i = j)
  OBVIOUS
<1>4. \/ /\ Paused(T.recvfilestate) = 1 - Paused(R.recvfilestate)
         /\ \/ Parity(v, "snd", 1 - x) /\ Parity(c, "rcv", y)
            \/ Parity(v, "snd", x) /\ Parity(c, "rcv", 1 - y)
      \/ /\ Paused(T.recvfilestate) = Paused(R.recvfilestate)
         /\ Parity(v, "snd", x) /\ Parity(c, "rcv", y)
  BY <1>1
<1>5. QED
  BY <1>1, <1>2, <1>3, <1>4 DEF Balanced

LEMMA SenderAgrees ==
    ASSUME NEW S, NEW T, NEW R, NEW w \in Seq(Message), NEW b, NEW b2, NEW m,
           NEW out \in Seq(Message), Len(out) <= 1,
           S.state = "ACTIVE", Took(b, m, b2), SendStep(S, T, m, out),
           Direction(S, R, w, b), Agreement(S, R, w, b)
    PROVE  Agreement(T, R, w \o out, b2)
<1> DEFINE v == w \o out
<1> SUFFICES ASSUME R.state = "ACTIVE" PROVE Agrees(T, R, v, b2)
  BY DEF Agreement
<1>0. /\ Handshake(S, R, w, b) /\ Position(S, R, w) /\ Agrees(S, R, w, b)
  BY DEF Direction, Agreement
<1>1. \/ Len(out) = 0 /\ v = w
      \/ Len(out) = 1 /\ Added(w, v, out[1])
  BY Sends
<1>2. Len(w) \in Nat
  BY LenProperties
<1>3. ASSUME Quiet(out, "snd")
      PROVE  /\ Quiet(v, "snd") <=> Quiet(w, "snd")
             /\ Halted(v, "snd") <=> Halted(w, "snd")
             /\ \A x \in {0, 1} : Parity(w, "snd", x) => Parity(v, "snd", x)
  BY <1>3, QuietlySent
<1> HIDE DEF v
\* What is left of the queue the message came from.
<1>4. ASSUME Cmd(m, "rcv") = "VOID"
      PROVE  /\ Halted(b2, "rcv") <=> Halted(b, "rcv")
             /\ \A x \in {0, 1} : Parity(b, "rcv", x) => Parity(b2, "rcv", x)
             /\ Early(b) => Early(b2)
             /\ \A type : Has(b2, type) => Has(b, type)
             /\ ~IsAnswer(m) => (NoAnswer(b2) <=> NoAnswer(b))
  <2>1. /\ Halted(b2, "rcv") <=> Halted(b, "rcv")
        /\ \A x \in {0, 1} : Parity(b, "rcv", x) => Parity(b2, "rcv", x)
    BY <1>4, QuietlyRead
  <2>2. CASE m = Nothing /\ b2 = b
    BY <2>1, <2>2
  <2>3. CASE Removed(b, b2, m)
    BY <1>4, <2>1, <2>3, CommandsRemoved
  <2>4. QED
    BY <2>2, <2>3 DEF Took
<1>5. m.type \in {"ACCEPTEDFILE", "DENIEDFILE"} \/ Cmd(m, "rcv") # "VOID" => Removed(b, b2, m)
  BY DEF Took, Nothing, Cmd
<1>6. \A s : s \in Sending <=> s = "SENDING" \/ s = "PAUSED"
  BY DEF Sending
<1>7. S.sendfilestate \in Sending => NoReq(w) /\ NoAnswer(b) /\ R.recvfilestate # "WAITACCEPT"
  BY <1>0, <1>6 DEF Handshake
\* Nothing about this file.
<1>8. CASE /\ Cmd(m, "rcv") = "VOID" /\ ~IsAnswer(m)
           /\ Quiet(out, "snd") /\ NoReq(out) /\ NoFrag(out)
           /\ T.sendfilestate = S.sendfilestate /\ T.sendfile.size = S.sendfile.size
  <2>1. /\ NoReq(v) <=> NoReq(w)
        /\ QuietBehind(v)
        /\ Announces(v, S.sendfile.size)
        /\ \A size : /\ Ending(w, size) => Ending(v, size)
                     /\ Unfinished(w, size) => Unfinished(v, size)
    <3>1. QuietBehind(w) /\ Announces(w, S.sendfile.size)
      BY <1>0 DEF Agrees
    <3>2. CASE Len(out) = 0 /\ v = w
      BY <3>1, <3>2
    <3>3. CASE Len(out) = 1 /\ Added(w, v, out[1])
      <4>1. ~IsReq(out[1]) /\ ~IsFrag(out[1]) /\ Cmd(out[1], "snd") = "VOID"
        BY <1>8, <3>3 DEF Quiet, NoReq, NoFrag
      <4>2. QED
        BY <3>1, <3>3, <4>1, CommandsAdded, MessageKinds
    <3>4. QED
      BY <1>1, <3>2, <3>3
  <2>2. ASSUME S.sendfilestate = "SENTREQ", NoReq(w)
        PROVE  Asked(T, R, v, b2)
    <3>1. Asked(S, R, w, b)
      BY <1>0, <2>2 DEF Agrees
    <3>2. Paused(R.recvfilestate) \in {0, 1}
      BY DEF Paused
    <3>3. QED
      BY <1>3, <1>4, <1>8, <3>1, <3>2 DEF Asked
  <2>3. ASSUME S.sendfilestate \in Sending
        PROVE  Paired(T, R, v, b2)
    <3>1. Paired(S, R, w, b)
      BY <1>0, <2>3 DEF Agrees
    <3>2. Balanced(S, R, w, b) => Balanced(T, R, v, b2)
      BY <1>3, <1>4, <1>8, BalanceKept
    <3>3. QED
      BY <1>3, <1>4, <1>8, <2>1, <3>1, <3>2 DEF Paired
  <2>4. QED
    BY <1>0, <1>8, <2>1, <2>2, <2>3 DEF Agrees
\* A request.
<1>9. CASE /\ S.sendfilestate = "IDLE" /\ T.sendfilestate = "SENTREQ"
           /\ Cmd(m, "rcv") = "VOID" /\ ~IsAnswer(m)
           /\ Len(out) = 1 /\ IsReq(out[1]) /\ out[1].size = T.sendfile.size
  <2>1. NoReq(w) /\ R.recvfilestate # "WAITACCEPT"
    BY <1>0, <1>9 DEF Handshake
  <2>2. Added(w, v, out[1])
    BY <1>1, <1>9
  <2>3. QuietBehind(w) /\ (R.recvfilestate \in Running => Ending(w, R.recvfile.size))
    BY <1>0, <1>9 DEF Agrees
  <2>4. Announces(w, T.sendfile.size)
    BY <2>1 DEF NoReq, Announces
  <2>5. /\ QuietBehind(v) /\ Announces(v, T.sendfile.size) /\ ~NoReq(v)
        /\ R.recvfilestate \in Running => Ending(v, R.recvfile.size)
    BY <1>9, <2>1, <2>2, <2>3, <2>4, CommandsAdded
  <2>6. QED
    BY <1>6, <1>9, <2>1, <2>5 DEF Agrees
\* The answer.
<1>10. CASE /\ S.sendfilestate = "SENTREQ" /\ Len(out) = 0
            /\ m.type \in {"ACCEPTEDFILE", "DENIEDFILE"}
            /\ \/ /\ m.type = "ACCEPTEDFILE"
                  /\ T.sendfilestate = "SENDING" /\ T.sendfile.size = S.sendfile.size
               \/ m.type = "DENIEDFILE" /\ T.sendfilestate = "IDLE"
  <2>1. v = w /\ Removed(b, b2, m) /\ IsAnswer(m) /\ Cmd(m, "rcv") = "VOID"
    <3>1. IsAnswer(m)
      BY <1>10 DEF IsAnswer
    <3>2. QED
      BY <1>1, <1>5, <1>10, <3>1, MessageKinds
  <2>2. ~NoAnswer(b) /\ Has(b, m.type) /\ (Early(b) => ~OneAnswer(b))
    BY <2>1, CommandsRemoved
  <2>3. NoReq(w) /\ OneAnswer(b) /\ R.recvfilestate # "WAITACCEPT"
    BY <1>0, <2>2 DEF Handshake
  <2>4. Asked(S, R, w, b) /\ QuietBehind(w) /\ NoFrag(w)
    BY <1>0, <1>10, <2>3 DEF Agrees, Position
  <2>5. Announces(w, T.sendfile.size)
    BY <2>3 DEF NoReq, Announces
  <2>6. CASE m.type = "DENIEDFILE" /\ T.sendfilestate = "IDLE"
    <3>1. R.recvfilestate = "IDLE"
      BY <2>2, <2>4, <2>6 DEF Asked
    <3>2. QED
      BY <1>6, <2>1, <2>3, <2>4, <2>5, <2>6, <3>1 DEF Agrees, Running
  <2>7. CASE /\ m.type = "ACCEPTEDFILE"
             /\ T.sendfilestate = "SENDING" /\ T.sendfile.size = S.sendfile.size
    <3>1. /\ Quiet(w, "snd")
          /\ R.recvfilestate \notin Running => R.recvfilestate = "IDLE" /\ Halted(b, "rcv")
          /\ R.recvfilestate \in Running =>
                /\ R.recvfile.size = S.sendfile.size
                /\ ~Halted(b, "rcv") /\ Parity(b, "rcv", Paused(R.recvfilestate))
      BY <2>2, <2>3, <2>4, <2>7 DEF Asked
    <3>2. Parity(w, "snd", 0) /\ ~Halted(w, "snd")
      <4>1. ~Halted(w, "snd")
        BY <3>1 DEF Quiet, Halted, Halts
      <4>2. QED
        BY <1>2, <3>1, <4>1, ParityQuiet
    <3>3. Unfinished(w, R.recvfile.size)
      BY <2>4 DEF NoFrag, Unfinished, Final
    <3>4. Paused(R.recvfilestate) \in {0, 1} /\ Paused(T.sendfilestate) = 0
      BY <2>7 DEF Paused
    <3>5. R.recvfilestate \in Running => Balanced(T, R, w, b2)
      <4>1. R.recvfilestate \in Running => Parity(b2, "rcv", Paused(R.recvfilestate))
        BY <1>4, <2>1, <3>1, <3>4
      <4>2. QED
        BY <3>2, <3>4, <4>1 DEF Balanced
    <3>6. Paired(T, R, w, b2)
      BY <1>4, <2>1, <2>7, <3>1, <3>2, <3>3, <3>5 DEF Paired
    <3>7. QED
      BY <2>1, <2>3, <2>4, <2>5, <2>7, <3>6 DEF Agrees
  <2>8. QED
    BY <1>10, <2>6, <2>7
\* A pause or a resume.
<1>11. CASE /\ S.sendfilestate \in Sending /\ T.sendfilestate \in Sending
            /\ T.sendfilestate # S.sendfilestate /\ T.sendfile.size = S.sendfile.size
            /\ ~IsAnswer(m)
            /\ \/ Cmd(m, "rcv") \in Toggles /\ Len(out) = 0
               \/ Cmd(m, "rcv") = "VOID" /\ Len(out) = 1 /\ Cmd(out[1], "snd") \in Toggles
  <2>1. Paired(S, R, w, b) /\ QuietBehind(w)
    BY <1>0, <1>11 DEF Agrees
  <2>2. Paused(T.sendfilestate) = 1 - Paused(S.sendfilestate)
    BY <1>11 DEF Paused, Sending
  <2>3. CASE Cmd(m, "rcv") \in Toggles /\ Len(out) = 0
    <3>0. Cmd(m, "rcv") # "VOID" /\ Cmd(m, "rcv") \notin Halts
      BY <2>3 DEF Toggles, Halts
    <3>1. v = w /\ Removed(b, b2, m) /\ Cmd(m, "rcv") \notin Halts
      BY <1>1, <1>5, <2>3, <3>0
    <3>2. Halted(b2, "rcv") <=> Halted(b, "rcv")
      BY <3>1, CommandsRemoved
    <3>3. \A y \in {0, 1} : Parity(b, "rcv", y) => Parity(b2, "rcv", 1 - y)
      <4>1. \A y : Flip(m, "rcv", y) = 1 - y
        BY <2>3 DEF Flip
      <4>2. QED
        BY <3>1, <4>1, ParityRemoved
    <3>4. Balanced(S, R, w, b) => Balanced(T, R, w, b2)
      BY <2>2, <3>3, BalanceKept
    <3>5. Paired(T, R, w, b2)
      BY <1>11, <2>1, <3>2, <3>4 DEF Paired
    <3>6. Announces(w, T.sendfile.size)
      BY <1>0, <1>11 DEF Agrees
    <3>7. QED
      BY <1>6, <1>7, <1>11, <2>1, <3>1, <3>5, <3>6 DEF Agrees
  <2>4. CASE Cmd(m, "rcv") = "VOID" /\ Len(out) = 1 /\ Cmd(out[1], "snd") \in Toggles
    <3>1. Added(w, v, out[1])
      BY <1>1, <2>4
    <3>2. ~IsReq(out[1]) /\ ~IsFrag(out[1]) /\ Cmd(out[1], "snd") \notin Halts
      BY <2>4, MessageKinds
    <3>3. Announces(w, T.sendfile.size)
      BY <1>0, <1>11 DEF Agrees
    <3>4. /\ QuietBehind(v) /\ Announces(v, T.sendfile.size) /\ NoReq(v)
          /\ Halted(v, "snd") <=> Halted(w, "snd")
          /\ Unfinished(w, R.recvfile.size) => Unfinished(v, R.recvfile.size)
      BY <1>7, <1>11, <2>1, <3>1, <3>2, <3>3, CommandsAdded, MessageKinds
    <3>5. \A x \in {0, 1} : Parity(w, "snd", x) => Parity(v, "snd", 1 - x)
      <4>1. \A x : Flip(out[1], "snd", x) = 1 - x
        BY <2>4 DEF Flip
      <4>2. QED
        BY <3>1, <4>1, ParityAdded
    <3>6. Balanced(S, R, w, b) => Balanced(T, R, v, b2)
      BY <1>4, <2>2, <2>4, <3>5, BalanceKept
    <3>7. Paired(T, R, v, b2)
      BY <1>4, <1>11, <2>1, <2>4, <3>4, <3>6 DEF Paired
    <3>8. QED
      BY <1>6, <1>7, <1>11, <3>4, <3>7 DEF Agrees
  <2>5. QED
    BY <1>11, <2>3, <2>4
\* The end of the transfer.
<1>12. CASE /\ S.sendfilestate \in Sending /\ T.sendfilestate = "IDLE" /\ ~IsAnswer(m)
            /\ \/ Cmd(m, "rcv") \in Halts /\ Len(out) = 0
               \/ Len(out) = 1 /\ Cmd(out[1], "snd") \in Halts
               \/ Len(out) = 1 /\ Final(out[1], S.sendfile.size)
  <2>1. Paired(S, R, w, b) /\ QuietBehind(w)
    BY <1>0, <1>12 DEF Agrees
  <2>2. Announces(w, T.sendfile.size)
    BY <1>7, <1>12 DEF NoReq, Announces
  <2>3. CASE Cmd(m, "rcv") \in Halts /\ Len(out) = 0
    <3>0. Cmd(m, "rcv") # "VOID"
      BY <2>3 DEF Halts
    <3>1. v = w /\ Removed(b, b2, m)
      BY <1>1, <1>5, <2>3, <3>0
    <3>2. Halted(b, "rcv")
      BY <2>3, <3>1, CommandsRemoved
    <3>3. R.recvfilestate \notin Running
      BY <2>1, <3>2 DEF Paired
    <3>4. QED
      BY <1>6, <1>7, <1>12, <2>1, <2>2, <3>1, <3>3 DEF Agrees
  <2>4. CASE /\ Len(out) = 1
             /\ Cmd(out[1], "snd") \in Halts \/ Final(out[1], S.sendfile.size)
    <3>1. Added(w, v, out[1])
      BY <1>1, <2>4
    <3>2. ~IsReq(out[1])
      BY <2>4, MessageKinds
    <3>3. QuietBehind(v) /\ Announces(v, T.sendfile.size) /\ NoReq(v)
      BY <1>7, <1>12, <2>1, <2>2, <3>1, <3>2, CommandsAdded
    <3>4. R.recvfilestate \in Running => Ending(v, R.recvfile.size)
      <4>1. R.recvfilestate \in Running => R.recvfile.size = S.sendfile.size
        BY <2>1 DEF Paired
      <4>2. Ending(v, S.sendfile.size)
        BY <2>4, <3>1, CommandsAdded
      <4>3. QED
        BY <4>1, <4>2
    <3>5. QED
      BY <1>6, <1>7, <1>12, <3>3, <3>4 DEF Agrees
  <2>5. QED
    BY <1>12, <2>3, <2>4
\* A fragment that is not the last.
<1>13. CASE /\ S.sendfilestate = "SENDING" /\ T.sendfilestate = "SENDING"
            /\ T.sendfile.size = S.sendfile.size /\ ~IsAnswer(m) /\ Cmd(m, "rcv") = "VOID"
            /\ Len(out) = 1 /\ IsFrag(out[1]) /\ ~Final(out[1], S.sendfile.size)
  <2>0. S.sendfilestate \in Sending /\ T.sendfilestate \in Sending
    BY <1>6, <1>13
  <2>1. Paired(S, R, w, b) /\ QuietBehind(w) /\ Announces(w, T.sendfile.size)
    BY <1>0, <1>13, <2>0 DEF Agrees
  <2>2. Added(w, v, out[1]) /\ ~IsReq(out[1]) /\ Cmd(out[1], "snd") = "VOID"
    BY <1>1, <1>13, MessageKinds
  <2>3. /\ QuietBehind(v) /\ Announces(v, T.sendfile.size) /\ NoReq(v)
        /\ Unfinished(w, S.sendfile.size) => Unfinished(v, S.sendfile.size)
    BY <1>7, <1>13, <2>0, <2>1, <2>2, CommandsAdded
  <2>4. Quiet(out, "snd")
    BY <1>13, <2>2 DEF Quiet
  <2>5. Balanced(S, R, w, b) => Balanced(T, R, v, b2)
    BY <1>3, <1>4, <1>13, <2>4, BalanceKept
  <2>6. Paired(T, R, v, b2)
    BY <1>3, <1>4, <1>13, <2>1, <2>3, <2>4, <2>5 DEF Paired
  <2>7. QED
    BY <1>7, <1>13, <2>0, <2>3, <2>6 DEF Agrees
<1>14. QED
  BY <1>8, <1>9, <1>10, <1>11, <1>12, <1>13 DEF SendStep

LEMMA ReceiverAgrees ==
    ASSUME NEW S, NEW R, NEW T, NEW w, NEW b \in Seq(Message), NEW w2, NEW m,
           NEW out \in Seq(Message), Len(out) <= 1,
           R.state = "ACTIVE", Took(w, m, w2), RecvStep(R, T, m, out),
           Direction(S, R, w, b), Agreement(S, R, w, b)
    PROVE  Agreement(S, T, w2, b \o out)
<1> DEFINE c == b \o out
<1> SUFFICES ASSUME S.state = "ACTIVE" PROVE Agrees(S, T, w2, c)
  BY DEF Agreement
<1>0. /\ Handshake(S, R, w, b) /\ Position(S, R, w) /\ Agrees(S, R, w, b)
      /\ R.recvfilestate \in Running => Continues(w, R.recvfile.id, R.recvfile.pos)
  BY DEF Direction, Agreement
<1>1. \/ Len(out) = 0 /\ c = b
      \/ Len(out) = 1 /\ Added(b, c, out[1])
  BY Sends
<1>2. c \in Seq(Message) /\ Len(c) \in Nat
  BY Sends, LenProperties
<1>3. ASSUME Quiet(out, "rcv")
      PROVE  /\ Quiet(c, "rcv") <=> Quiet(b, "rcv")
             /\ Halted(c, "rcv") <=> Halted(b, "rcv")
             /\ \A x \in {0, 1} : Parity(b, "rcv", x) => Parity(c, "rcv", x)
  BY <1>3, QuietlySent
<1> HIDE DEF c
\* What is left of the queue the message came from.
<1>4. ASSUME Cmd(m, "snd") = "VOID"
      PROVE  /\ Quiet(w2, "snd") <=> Quiet(w, "snd")
             /\ Halted(w2, "snd") <=> Halted(w, "snd")
             /\ \A x \in {0, 1} : Parity(w, "snd", x) => Parity(w2, "snd", x)
  BY <1>4, QuietlyRead
<1>5. /\ QuietBehind(w2)
      /\ Announces(w2, S.sendfile.size)
      /\ ~IsReq(m) => (NoReq(w2) <=> NoReq(w))
      /\ \A size : /\ Unfinished(w, size) => Unfinished(w2, size)
                   /\ Ending(w, size) /\ Cmd(m, "snd") \notin Halts /\ ~Final(m, size)
                         => Ending(w2, size)
  <2>1. QuietBehind(w) /\ Announces(w, S.sendfile.size)
    BY <1>0 DEF Agrees
  <2>2. CASE m = Nothing /\ w2 = w
    BY <2>1, <2>2
  <2>3. CASE Removed(w, w2, m)
    BY <2>1, <2>3, CommandsRemoved
  <2>4. QED
    BY <2>2, <2>3 DEF Took
<1>6. IsReq(m) \/ IsFrag(m) \/ Cmd(m, "snd") # "VOID" => Removed(w, w2, m)
  BY DEF Took, Nothing, Cmd, IsReq, IsFrag
<1>7. \A s : s \in Sending <=> s = "SENDING" \/ s = "PAUSED"
  BY DEF Sending
<1>8. \A s : s \in Running <=> s = "RECEIVING" \/ s = "PAUSED"
  BY DEF Running
<1>9. R.recvfilestate \in Running /\ IsFrag(m) => m.from = R.recvfile.pos
  <2>1. ASSUME R.recvfilestate \in Running, IsFrag(m)
        PROVE  m.from = R.recvfile.pos
    <3>1. Removed(w, w2, m) /\ Continues(w, R.recvfile.id, R.recvfile.pos)
      BY <1>0, <1>6, <2>1
    <3>2. QED
      BY <2>1, <3>1, FragmentTaken
  <2>2. QED
    BY <2>1
\* A running transfer whose answer is still under way.
<1>10. ASSUME R.recvfilestate \in Running, S.sendfilestate = "SENTREQ", NoReq(w)
       PROVE  /\ Quiet(w, "snd") /\ NoFrag(w)
              /\ ~NoAnswer(b) /\ ~Has(b, "DENIEDFILE") /\ Has(b, "ACCEPTEDFILE")
              /\ R.recvfile.size = S.sendfile.size
              /\ Early(b) \/ (~Halted(b, "rcv") /\ Parity(b, "rcv", Paused(R.recvfilestate)))
  <2>1. Asked(S, R, w, b) /\ NoFrag(w)
    BY <1>0, <1>10 DEF Agrees, Position
  <2>2. ~NoAnswer(b) /\ ~Has(b, "DENIEDFILE")
    BY <1>8, <1>10, <2>1 DEF Asked
  <2>3. Has(b, "ACCEPTEDFILE")
    BY <2>2, Unanswered
  <2>4. QED
    BY <1>10, <2>1, <2>2, <2>3 DEF Asked
\* An answer is sent.
<1>11. ASSUME S.sendfilestate = "SENTREQ", NoReq(w2), NoAnswer(b), Quiet(w2, "snd"),
              Replies(R, T, S.sendfile.size, out)
       PROVE  Agrees(S, T, w2, c)
  <2>1. Added(b, c, out[1]) /\ IsAnswer(out[1]) /\ Cmd(out[1], "rcv") = "VOID"
    BY <1>1, <1>11, MessageKinds DEF Replies
  <2>2. ~Has(b, "ACCEPTEDFILE") /\ ~Has(b, "DENIEDFILE")
    BY <1>11, Unanswered
  <2>3. /\ ~NoAnswer(c)
        /\ Has(c, "ACCEPTEDFILE") <=> out[1].type = "ACCEPTEDFILE"
        /\ Has(c, "DENIEDFILE") <=> out[1].type = "DENIEDFILE"
        /\ ~Quiet(b, "rcv") => Early(c)
        /\ Quiet(b, "rcv") => Quiet(c, "rcv")
    BY <2>1, <2>2, CommandsAdded
  <2>4. Quiet(c, "rcv") => ~Halted(c, "rcv") /\ Parity(c, "rcv", 0)
    <3>1. Quiet(c, "rcv") => ~Halted(c, "rcv")
      BY DEF Quiet, Halted, Halts
    <3>2. QED
      BY <1>2, <3>1, ParityQuiet
  <2>5. Asked(S, T, w2, c)
    <3>1. CASE out[1].type = "DENIEDFILE" /\ T.recvfilestate = "IDLE"
      BY <1>8, <1>11, <2>3, <3>1 DEF Asked
    <3>2. CASE /\ out[1].type = "ACCEPTEDFILE"
               /\ T.recvfilestate = "RECEIVING" /\ T.recvfile.size = S.sendfile.size
      <4>1. Paused(T.recvfilestate) = 0
        BY <3>2 DEF Paused
      <4>2. QED
        BY <1>8, <1>11, <2>3, <2>4, <3>2, <4>1 DEF Asked
    <3>3. QED
      BY <1>11, <3>1, <3>2 DEF Replies
  <2>6. T.recvfilestate # "WAITACCEPT"
    BY <1>11 DEF Replies
  <2>7. QED
    BY <1>5, <1>7, <1>11, <2>5, <2>6 DEF Agrees
\* Nothing about this file.
<1>12. CASE /\ Cmd(m, "snd") = "VOID" /\ ~IsReq(m) /\ ~IsFrag(m)
            /\ Quiet(out, "rcv") /\ NoAnswer(out)
            /\ T.recvfilestate = R.recvfilestate /\ T.recvfile.size = R.recvfile.size
  <2>1. /\ NoAnswer(c) <=> NoAnswer(b)
        /\ Has(c, "ACCEPTEDFILE") <=> Has(b, "ACCEPTEDFILE")
        /\ Has(c, "DENIEDFILE") <=> Has(b, "DENIEDFILE")
        /\ Early(b) => Early(c)
    <3>1. CASE Len(out) = 0 /\ c = b
      BY <3>1
    <3>2. CASE Len(out) = 1 /\ Added(b, c, out[1])
      <4>1. ~IsAnswer(out[1])
        BY <1>12, <3>2 DEF NoAnswer
      <4>2. QED
        BY <3>2, <4>1, CommandsAdded, MessageKinds
    <3>3. QED
      BY <1>1, <3>1, <3>2
  <2>2. \A size : Ending(w, size) => Ending(w2, size)
    <3>1. Cmd(m, "snd") \notin Halts /\ \A size : ~Final(m, size)
      BY <1>12, MessageKinds DEF Halts
    <3>2. QED
      BY <1>5, <3>1
  <2>3. ASSUME S.sendfilestate = "SENTREQ", NoReq(w)
        PROVE  Asked(S, T, w2, c)
    <3>1. Asked(S, R, w, b)
      BY <1>0, <2>3 DEF Agrees
    <3>2. Paused(R.recvfilestate) \in {0, 1}
      BY DEF Paused
    <3>3. QED
      BY <1>3, <1>4, <1>12, <2>1, <3>1, <3>2 DEF Asked
  <2>4. ASSUME S.sendfilestate \in Sending
        PROVE  Paired(S, T, w2, c)
    <3>1. Paired(S, R, w, b)
      BY <1>0, <2>4 DEF Agrees
    <3>2. Balanced(S, R, w, b) => Balanced(S, T, w2, c)
      BY <1>3, <1>4, <1>12, BalanceKeptR
    <3>3. QED
      BY <1>3, <1>4, <1>5, <1>12, <3>1, <3>2 DEF Paired
  <2>5. QED
    BY <1>0, <1>5, <1>12, <2>2, <2>3, <2>4 DEF Agrees
\* A request is read.
<1>13. CASE /\ R.recvfilestate = "IDLE" /\ IsReq(m)
            /\ \/ T.recvfilestate = "WAITACCEPT" /\ T.recvfile.size = m.size /\ Len(out) = 0
               \/ Replies(R, T, m.size, out)
  <2>1. Removed(w, w2, m)
    BY <1>6, <1>13
  <2>2. ~NoReq(w) /\ Quiet(w2, "snd") /\ m.size = S.sendfile.size
    BY <1>0, <1>13, <2>1, CommandsRemoved DEF Agrees
  <2>3. S.sendfilestate = "SENTREQ" /\ NoAnswer(b)
    BY <1>0, <2>2 DEF Handshake
  <2>4. NoReq(w2)
    <3>1. LastRequest(w)
      BY DEF Direction
    <3>2. QED
      BY <1>13, <2>1, <3>1, RequestTaken
  <2>5. CASE T.recvfilestate = "WAITACCEPT" /\ T.recvfile.size = m.size /\ Len(out) = 0
    <3>1. c = b /\ ~Has(b, "ACCEPTEDFILE") /\ ~Has(b, "DENIEDFILE")
      BY <1>1, <2>3, <2>5, Unanswered
    <3>2. Asked(S, T, w2, c)
      BY <2>2, <2>3, <2>5, <3>1 DEF Asked
    <3>3. QED
      BY <1>5, <1>7, <1>8, <2>2, <2>3, <2>5, <3>2 DEF Agrees
  <2>6. CASE Replies(R, T, m.size, out)
    BY <1>11, <2>2, <2>3, <2>4, <2>6
  <2>7. QED
    BY <1>13, <2>5, <2>6
\* The user has decided.
<1>14. CASE /\ R.recvfilestate = "WAITACCEPT" /\ Cmd(m, "snd") = "VOID" /\ ~IsReq(m) /\ ~IsFrag(m)
            /\ Replies(R, T, R.recvfile.size, out)
  <2>1. S.sendfilestate = "SENTREQ" /\ NoReq(w) /\ NoAnswer(b)
    BY <1>0, <1>14 DEF Handshake
  <2>2. Asked(S, R, w, b) /\ R.recvfile.size = S.sendfile.size
    BY <1>0, <1>14, <2>1 DEF Agrees
  <2>3. NoReq(w2) /\ Quiet(w2, "snd")
    BY <1>4, <1>5, <1>14, <2>1, <2>2 DEF Asked
  <2>4. QED
    BY <1>11, <1>14, <2>1, <2>2, <2>3
\* A pause or a resume.
<1>15. CASE /\ R.recvfilestate \in Running /\ T.recvfilestate \in Running /\ ~IsReq(m) /\ ~IsFrag(m)
            /\ T.recvfilestate # R.recvfilestate /\ T.recvfile.size = R.recvfile.size
            /\ \/ Cmd(m, "snd") \in Toggles /\ Len(out) = 0
               \/ Cmd(m, "snd") = "VOID" /\ Len(out) = 1 /\ Cmd(out[1], "rcv") \in Toggles
  <2>1. Paused(T.recvfilestate) = 1 - Paused(R.recvfilestate) /\ Paused(R.recvfilestate) \in {0, 1}
    BY <1>8, <1>15 DEF Paused
  <2>2. T.recvfilestate # "WAITACCEPT" /\ T.recvfilestate # "IDLE"
    BY <1>8, <1>15
  <2>3. Cmd(m, "snd") \notin Halts /\ \A size : ~Final(m, size)
    BY <1>15, MessageKinds DEF Halts, Toggles
  <2>4. S.sendfilestate = "IDLE" \/ ~NoReq(w2) => Ending(w2, T.recvfile.size)
    BY <1>0, <1>5, <1>15, <2>3 DEF Agrees
  <2>5. CASE Cmd(m, "snd") \in Toggles /\ Len(out) = 0
    <3>0. Cmd(m, "snd") # "VOID"
      BY <2>5 DEF Toggles
    <3>1. c = b /\ Removed(w, w2, m)
      BY <1>1, <1>6, <2>5, <3>0
    <3>2. /\ ~Quiet(w, "snd")
          /\ Halted(w2, "snd") <=> Halted(w, "snd")
      BY <2>3, <3>0, <3>1, CommandsRemoved
    <3>3. ~(S.sendfilestate = "SENTREQ" /\ NoReq(w2))
      BY <1>5, <1>10, <1>15, <3>2
    <3>4. \A x \in {0, 1} : Parity(w, "snd", x) => Parity(w2, "snd", 1 - x)
      <4>1. \A x : Flip(m, "snd", x) = 1 - x
        BY <2>5 DEF Flip
      <4>2. QED
        BY <3>1, <4>1, ParityRemoved
    <3>5. ASSUME S.sendfilestate \in Sending
          PROVE  Paired(S, T, w2, c)
      <4>1. Paired(S, R, w, b)
        BY <1>0, <3>5 DEF Agrees
      <4>2. Balanced(S, R, w, b) => Balanced(S, T, w2, b)
        BY <2>1, <3>4, BalanceKeptR
      <4>3. QED
        BY <1>5, <1>15, <3>1, <3>2, <4>1, <4>2 DEF Paired
    <3>6. QED
      BY <1>5, <2>2, <2>4, <3>3, <3>5 DEF Agrees
  <2>6. CASE Cmd(m, "snd") = "VOID" /\ Len(out) = 1 /\ Cmd(out[1], "rcv") \in Toggles
    <3>1. Added(b, c, out[1])
      BY <1>1, <2>6
    <3>2. ~IsAnswer(out[1]) /\ Cmd(out[1], "rcv") \notin Halts
      BY <2>6, MessageKinds
    <3>3. /\ NoAnswer(c) <=> NoAnswer(b)
          /\ Has(c, "DENIEDFILE") <=> Has(b, "DENIEDFILE")
          /\ Halted(c, "rcv") <=> Halted(b, "rcv")
          /\ Early(b) => Early(c)
      BY <3>1, <3>2, CommandsAdded, MessageKinds
    <3>4. \A x \in {0, 1} : Parity(b, "rcv", x) => Parity(c, "rcv", 1 - x)
      <4>1. \A x : Flip(out[1], "rcv", x) = 1 - x
        BY <2>6 DEF Flip
      <4>2. QED
        BY <3>1, <4>1, ParityAdded
    <3>5. ASSUME S.sendfilestate = "SENTREQ", NoReq(w2)
          PROVE  Asked(S, T, w2, c)
      <4>1. /\ Quiet(w2, "snd") /\ ~NoAnswer(c) /\ ~Has(c, "DENIEDFILE")
            /\ R.recvfile.size = S.sendfile.size
            /\ Early(c) \/ (~Halted(c, "rcv") /\ Parity(c, "rcv", 1 - Paused(R.recvfilestate)))
        BY <1>4, <1>5, <1>10, <1>15, <2>1, <2>6, <3>3, <3>4, <3>5
      <4>2. QED
        BY <1>15, <2>1, <4>1 DEF Asked
    <3>6. ASSUME S.sendfilestate \in Sending
          PROVE  Paired(S, T, w2, c)
      <4>1. Paired(S, R, w, b)
        BY <1>0, <3>6 DEF Agrees
      <4>2. Balanced(S, R, w, b) => Balanced(S, T, w2, c)
        BY <1>4, <2>1, <2>6, <3>4, BalanceKeptR
      <4>3. QED
        BY <1>4, <1>5, <1>15, <2>6, <3>3, <4>1, <4>2 DEF Paired
    <3>7. QED
      BY <1>5, <2>2, <2>4, <3>5, <3>6 DEF Agrees
  <2>7. QED
    BY <1>15, <2>5, <2>6
\* A fragment that is not the last.
<1>16. CASE /\ R.recvfilestate \in Running /\ IsFrag(m) /\ Len(out) = 0
            /\ T.recvfilestate = R.recvfilestate /\ T.recvfile.size = R.recvfile.size
            /\ R.recvfile.pos + m.n < R.recvfile.size
  <2>1. c = b /\ Removed(w, w2, m) /\ ~IsReq(m) /\ Cmd(m, "snd") = "VOID"
    BY <1>1, <1>6, <1>16, MessageKinds
  <2>2. ~Final(m, R.recvfile.size) /\ Cmd(m, "snd") \notin Halts
    BY <1>9, <1>16, <2>1 DEF Final, Halts
  <2>3. ~NoFrag(w)
    BY <1>16, <2>1, Taken DEF NoFrag
  <2>4. ~(S.sendfilestate = "SENTREQ" /\ NoReq(w2))
    BY <1>5, <1>10, <1>16, <2>1, <2>3
  <2>5. S.sendfilestate = "IDLE" \/ ~NoReq(w2) => Ending(w2, T.recvfile.size)
    BY <1>0, <1>5, <1>16, <2>1, <2>2 DEF Agrees
  <2>6. ASSUME S.sendfilestate \in Sending
        PROVE  Paired(S, T, w2, c)
    <3>1. Paired(S, R, w, b)
      BY <1>0, <2>6 DEF Agrees
    <3>2. Balanced(S, R, w, b) => Balanced(S, T, w2, b)
      BY <1>4, <1>16, <2>1, BalanceKeptR
    <3>3. QED
      BY <1>4, <1>5, <1>16, <2>1, <3>1, <3>2 DEF Paired
  <2>7. T.recvfilestate # "WAITACCEPT"
    BY <1>8, <1>16
  <2>8. QED
    BY <1>5, <2>4, <2>5, <2>6, <2>7 DEF Agrees
\* The end of the transfer.
<1>17. CASE /\ R.recvfilestate \in Running /\ T.recvfilestate = "IDLE" /\ ~IsReq(m)
            /\ \/ Cmd(m, "snd") \in Halts /\ Len(out) = 0
               \/ IsFrag(m) /\ Len(out) = 0 /\ ~(R.recvfile.pos + m.n < R.recvfile.size)
               \/ Cmd(m, "snd") = "VOID" /\ Len(out) = 1 /\ Cmd(out[1], "rcv") \in Halts
  <2>1. T.recvfilestate \notin Running /\ T.recvfilestate # "WAITACCEPT"
    BY <1>8, <1>17
  <2>2. CASE \/ Cmd(m, "snd") \in Halts
             \/ IsFrag(m) /\ ~(R.recvfile.pos + m.n < R.recvfile.size)
    <3>1. Cmd(m, "snd") # "VOID" \/ IsFrag(m)
      BY <2>2 DEF Halts
    <3>2. Removed(w, w2, m)
      BY <1>6, <3>1
    <3>3. Cmd(m, "snd") \in Halts \/ Final(m, R.recvfile.size)
      BY <1>9, <1>17, <2>2 DEF Final
    <3>4. ~Quiet(w, "snd") \/ ~NoFrag(w)
      <4>1. IsFrag(m) => ~NoFrag(w)
        BY <3>2, Taken DEF NoFrag
      <4>2. QED
        BY <3>1, <3>2, <4>1, CommandsRemoved
    <3>5. ~(S.sendfilestate = "SENTREQ" /\ NoReq(w2))
      BY <1>5, <1>10, <1>17, <3>4
    <3>6. Halted(w, "snd") \/ ~Unfinished(w, R.recvfile.size)
      BY <3>2, <3>3, CommandsRemoved
    <3>7. S.sendfilestate \notin Sending
      BY <1>0, <1>17, <3>6 DEF Agrees, Paired
    <3>8. QED
      BY <1>5, <2>1, <3>5, <3>7 DEF Agrees
  <2>3. CASE Cmd(m, "snd") = "VOID" /\ Len(out) = 1 /\ Cmd(out[1], "rcv") \in Halts
    <3>1. Added(b, c, out[1]) /\ ~IsAnswer(out[1])
      <4>1. Cmd(out[1], "rcv") # "VOID"
        BY <2>3 DEF Halts
      <4>2. QED
        BY <1>1, <2>3, <4>1, MessageKinds
    <3>2. Halted(c, "rcv") /\ (NoAnswer(c) <=> NoAnswer(b))
      BY <2>3, <3>1, CommandsAdded
    <3>3. S.sendfilestate = "SENTREQ" /\ NoReq(w2) => Asked(S, T, w2, c)
      BY <1>4, <1>5, <1>10, <1>17, <2>1, <2>3, <3>2 DEF Asked
    <3>4. S.sendfilestate \in Sending => Paired(S, T, w2, c)
      <4>1. S.sendfilestate \in Sending => ~Halted(w, "snd")
        BY <1>0 DEF Agrees, Paired
      <4>2. QED
        BY <1>4, <1>17, <2>1, <2>3, <3>2, <4>1 DEF Paired
    <3>5. QED
      BY <1>5, <2>1, <3>3, <3>4 DEF Agrees
  <2>4. QED
    BY <1>17, <2>2, <2>3
<1>18. QED
  BY <1>12, <1>13, <1>14, <1>15, <1>16, <1>17 DEF RecvStep

-----------------------------------------------------------------------------
(* What a call of the library does to one end *)

\* Files are open while they are used, and what has been stored is the start of the file.
Local(c) ==
    /\ c \in Channel
    /\ c.sendfile_stream = "open" <=> c.sendfilestate # "IDLE"
    /\ c.recvfile_stream <=> c.recvfilestate \in Running
    /\ c.recvfilestate = "WAITACCEPT" => c.written = <<>> /\ c.recvfile.pos = 0
    /\ c.recvfilestate \in Running => c.written = Units(c.recvfile.id, 0, c.recvfile.pos)
    /\ c.state # "ACTIVE" => c.sendfilestate = "IDLE" /\ c.recvfilestate = "IDLE"

\* A result that leaves the end in a good state; m is the message that was handled.
Good(c, m, r) ==
    /\ r.out \in Seq(Message) /\ Len(r.out) <= 1
    /\ r.chan \in Channel
    /\ \/ r.chan.state = "CRASHED" /\ r.out = <<>>
       \/ /\ r.chan.state = c.state
          /\ Local(r.chan)
          /\ SenderMove(c, r.chan, m, r.out)
          /\ ReceiverMove(c, r.chan, m, r.out)
          /\ SendStep(c, r.chan, m, r.out)
          /\ RecvStep(c, r.chan, m, r.out)

LEMMA UnitsType ==
    ASSUME NEW id \in Nat, NEW from \in Nat, NEW n \in Nat
    PROVE  Units(id, from, n) \in Seq(Nat \X Nat) /\ Len(Units(id, from, n)) = n
BY DEF Units

LEMMA UnitsJoin ==
    ASSUME NEW id \in Nat, NEW x \in Nat, NEW n \in Nat
    PROVE  Units(id, 0, x) \o Units(id, x, n) = Units(id, 0, x + n)
<1> DEFINE a == Units(id, 0, x)
           b == Units(id, x, n)
           c == Units(id, 0, x + n)
<1>1. /\ a \in Seq(Nat \X Nat) /\ Len(a) = x
      /\ b \in Seq(Nat \X Nat) /\ Len(b) = n
  BY UnitsType
<1>2. c \in Seq(Nat \X Nat) /\ Len(c) = x + n
  <2>1. 0 \in Nat /\ x + n \in Nat
    OBVIOUS
  <2>2. QED
    BY <2>1, UnitsType
<1>3. /\ \A i \in 1..x : a[i] = <<id, i>>
      /\ \A i \in 1..n : b[i] = <<id, x + i>>
      /\ \A i \in 1..x + n : c[i] = <<id, i>>
  BY DEF Units
<1> HIDE DEF a, b, c
<1>4. /\ a \o b \in Seq(Nat \X Nat)
      /\ Len(a \o b) = x + n
      /\ \A i \in 1..x + n : (a \o b)[i] = IF i <= x THEN a[i] ELSE b[i - x]
  BY <1>1, ConcatProperties
<1>5. ASSUME NEW i \in 1..x + n
      PROVE  (a \o b)[i] = c[i]
  <2>1. CASE i <= x
    <3>1. i \in 1..x
      BY <2>1
    <3>2. (a \o b)[i] = a[i]
      BY <1>4, <2>1
    <3>3. QED
      BY <1>3, <3>1, <3>2
  <2>2. CASE ~(i <= x)
    <3>1. i - x \in 1..n /\ x + (i - x) = i
      BY <2>2
    <3>2. b[i - x] = <<id, i>>
      BY <1>3, <3>1
    <3>3. (a \o b)[i] = b[i - x]
      BY <1>4, <2>2
    <3>4. QED
      BY <1>3, <3>2, <3>3
  <2>3. QED
    BY <2>1, <2>2
<1>6. a \o b = c
  BY <1>2, <1>4, <1>5, SeqEqual
<1>7. QED
  BY <1>6 DEF a, b, c

LEMMA NothingStored ==
    ASSUME NEW id
    PROVE  Units(id, 0, 0) = <<>>
BY DEF Units

LEMMA NewIsLocal == Local(NewChannel) /\ NewChannel.state = "ACTIVE"
BY DEF Local, NewChannel, Channel, NoFile, File, SendStates, RecvStates, Running, Streams

SameSendSide(c, t) ==
    /\ t.sendfilestate = c.sendfilestate /\ t.sendfile = c.sendfile
    /\ t.sendfile_stream = c.sendfile_stream

SameRecvSide(c, t) ==
    /\ t.recvfilestate = c.recvfilestate /\ t.recvfile = c.recvfile
    /\ t.recvfile_stream = c.recvfile_stream /\ t.written = c.written

\* A step of the sending side leaves the receiving side alone, and the other way round.
LEMMA SendOnly ==
    ASSUME NEW c, NEW t \in Channel, NEW m, NEW out, NEW cb, Local(c), c.state = "ACTIVE",
           out \in Seq(Message), Len(out) <= 1,
           t.state = c.state, SameRecvSide(c, t),
           t.sendfile_stream = "open" <=> t.sendfilestate # "IDLE",
           SenderMove(c, t, m, out), ~IsReq(m), ~IsFrag(m), NoAnswer(out),
           SendStep(c, t, m, out), Cmd(m, "snd") = "VOID", Quiet(out, "rcv")
    PROVE  Good(c, m, Done(t, out, cb))
<1>1. Local(t)
  BY DEF Local, SameRecvSide
<1>2. ReceiverMove(c, t, m, out)
  BY DEF ReceiverMove, SameRecvSide, SameRecv
<1>3. RecvStep(c, t, m, out)
  BY DEF RecvStep, SameRecvSide
<1>4. QED
  BY <1>1, <1>2, <1>3 DEF Good, Done

LEMMA RecvOnly ==
    ASSUME NEW c, NEW t \in Channel, NEW m, NEW out, NEW cb, Local(c), c.state = "ACTIVE",
           out \in Seq(Message), Len(out) <= 1,
           t.state = c.state, SameSendSide(c, t),
           t.recvfile_stream <=> t.recvfilestate \in Running,
           t.recvfilestate = "WAITACCEPT" => t.written = <<>> /\ t.recvfile.pos = 0,
           t.recvfilestate \in Running => t.written = Units(t.recvfile.id, 0, t.recvfile.pos),
           ReceiverMove(c, t, m, out), ~IsAnswer(m), NoReq(out), NoFrag(out),
           RecvStep(c, t, m, out), Cmd(m, "rcv") = "VOID", Quiet(out, "snd")
    PROVE  Good(c, m, Done(t, out, cb))
<1>1. Local(t)
  BY DEF Local, SameSendSide
<1>2. SenderMove(c, t, m, out)
  BY DEF SenderMove, SameSendSide, SameSend, Unasked
<1>3. SendStep(c, t, m, out)
  BY DEF SendStep, SameSendSide
<1>4. QED
  BY <1>1, <1>2, <1>3 DEF Good, Done

LEMMA NoMessages == /\ <<>> \in Seq(Message) /\ Len(<<>>) = 0 /\ Len(<<>>) <= 1
                    /\ NoReq(<<>>) /\ NoFrag(<<>>) /\ NoAnswer(<<>>)
                    /\ Quiet(<<>>, "snd") /\ Quiet(<<>>, "rcv")
BY DEF NoReq, NoFrag, NoAnswer, Quiet

LEMMA OneMessage ==
    ASSUME NEW f \in Message
    PROVE  /\ <<f>> \in Seq(Message) /\ Len(<<f>>) = 1 /\ <<f>>[1] = f
           /\ NoReq(<<f>>) <=> ~IsReq(f)
           /\ NoFrag(<<f>>) <=> ~IsFrag(f)
           /\ NoAnswer(<<f>>) <=> ~IsAnswer(f)
           /\ \A side : Quiet(<<f>>, side) <=> Cmd(f, side) = "VOID"
<1>1. <<f>> \in Seq(Message) /\ Len(<<f>>) = 1 /\ <<f>>[1] = f
  OBVIOUS
<1>2. 1..Len(<<f>>) = {1}
  BY <1>1
<1>3. QED
  BY <1>1, <1>2 DEF NoReq, NoFrag, NoAnswer, Quiet

LEMMA Messages ==
    /\ Accepted \in Message /\ IsAnswer(Accepted) /\ ~IsReq(Accepted) /\ ~IsFrag(Accepted)
    /\ Denied \in Message /\ IsAnswer(Denied) /\ ~IsReq(Denied) /\ ~IsFrag(Denied)
    /\ \A s, r \in Commands :
          /\ Control(s, r) \in Message /\ ~IsAnswer(Control(s, r))
          /\ ~IsReq(Control(s, r)) /\ ~IsFrag(Control(s, r))
    /\ \A f \in File, name \in {"plain", "dotted"} :
          /\ Request(f, name) \in Message /\ IsReq(Request(f, name))
          /\ ~IsFrag(Request(f, name)) /\ ~IsAnswer(Request(f, name))
          /\ Request(f, name).id = f.id
    /\ \A id, from, n \in Nat :
          /\ Fragment(id, from, n) \in Message /\ IsFrag(Fragment(id, from, n))
          /\ ~IsReq(Fragment(id, from, n)) /\ ~IsAnswer(Fragment(id, from, n))
          /\ Fragment(id, from, n).id = id /\ Fragment(id, from, n).from = from
          /\ Fragment(id, from, n).n = n
    /\ ~IsReq(Nothing) /\ ~IsFrag(Nothing) /\ ~IsAnswer(Nothing)
<1>1. /\ Accepted \in Message /\ IsAnswer(Accepted) /\ ~IsReq(Accepted) /\ ~IsFrag(Accepted)
      /\ Denied \in Message /\ IsAnswer(Denied) /\ ~IsReq(Denied) /\ ~IsFrag(Denied)
      /\ ~IsReq(Nothing) /\ ~IsFrag(Nothing) /\ ~IsAnswer(Nothing)
  BY DEF Accepted, Denied, Nothing, Message, IsAnswer, IsReq, IsFrag
<1>2. \A s, r \in Commands :
          /\ Control(s, r) \in Message /\ ~IsAnswer(Control(s, r))
          /\ ~IsReq(Control(s, r)) /\ ~IsFrag(Control(s, r))
  BY DEF Control, Message, IsAnswer, IsReq, IsFrag
<1>3. \A f \in File, name \in {"plain", "dotted"} :
          /\ Request(f, name) \in Message /\ IsReq(Request(f, name))
          /\ ~IsFrag(Request(f, name)) /\ ~IsAnswer(Request(f, name))
          /\ Request(f, name).id = f.id
  BY DEF Request, File, Message, IsAnswer, IsReq, IsFrag
<1>4. \A id, from, n \in Nat :
          /\ Fragment(id, from, n) \in Message /\ IsFrag(Fragment(id, from, n))
          /\ ~IsReq(Fragment(id, from, n)) /\ ~IsAnswer(Fragment(id, from, n))
          /\ Fragment(id, from, n).id = id /\ Fragment(id, from, n).from = from
          /\ Fragment(id, from, n).n = n
  BY DEF Fragment, Message, IsAnswer, IsReq, IsFrag
<1>5. QED
  BY <1>1, <1>2, <1>3, <1>4

\* The commands in the messages.
LEMMA Contents ==
    /\ Accepted.type = "ACCEPTEDFILE" /\ Denied.type = "DENIEDFILE"
    /\ \A side : /\ Cmd(Accepted, side) = "VOID" /\ Cmd(Denied, side) = "VOID"
                 /\ Cmd(Nothing, side) = "VOID"
    /\ \A s, r : Cmd(Control(s, r), "snd") = s /\ Cmd(Control(s, r), "rcv") = r
    /\ \A f, name : /\ Request(f, name).size = f.size
                    /\ \A side : Cmd(Request(f, name), side) = "VOID"
    /\ \A id, from, n, side : Cmd(Fragment(id, from, n), side) = "VOID"
<1>1. Accepted.type = "ACCEPTEDFILE" /\ Denied.type = "DENIEDFILE" /\ Nothing.type = "NOTHING"
  BY DEF Accepted, Denied, Nothing
<1>2. /\ \A s, r : /\ Control(s, r).type = "FILECONTROL"
                   /\ Control(s, r).snd = s /\ Control(s, r).rcv = r
      /\ \A f, name : Request(f, name).type = "SENDFILEREQUEST" /\ Request(f, name).size = f.size
      /\ \A id, from, n : Fragment(id, from, n).type = "FILEFRAGMENT"
  BY DEF Control, Request, Fragment
<1>3. QED
  BY <1>1, <1>2 DEF Cmd

LEMMA Stops ==
    ASSUME NEW c \in Channel
    PROVE  /\ StopSending(c) \in Channel /\ StopSending(c).state = c.state
           /\ StopSending(c).sendfilestate = "IDLE" /\ StopSending(c).sendfile_stream = "NULL"
           /\ SameRecvSide(c, StopSending(c))
           /\ StopReceiving(c) \in Channel /\ StopReceiving(c).state = c.state
           /\ StopReceiving(c).recvfilestate = "IDLE" /\ StopReceiving(c).recvfile_stream = FALSE
           /\ SameSendSide(c, StopReceiving(c))
<1>1. NoFile \in File
  BY DEF NoFile, File
<1>2. /\ StopSending(c) \in Channel /\ StopSending(c).state = c.state
      /\ StopSending(c).sendfilestate = "IDLE" /\ StopSending(c).sendfile_stream = "NULL"
      /\ SameRecvSide(c, StopSending(c))
  BY <1>1 DEF StopSending, Channel, SendStates, SameRecvSide, Streams
<1>3. /\ StopReceiving(c) \in Channel /\ StopReceiving(c).state = c.state
      /\ StopReceiving(c).recvfilestate = "IDLE" /\ StopReceiving(c).recvfile_stream = FALSE
      /\ SameSendSide(c, StopReceiving(c))
  <2>1. <<>> \in Seq(Nat \X Nat)
    OBVIOUS
  <2>2. StopReceiving(c) \in Channel
    BY <1>1, <2>1 DEF StopReceiving, Channel, RecvStates
  <2>3. /\ StopReceiving(c).state = c.state
        /\ StopReceiving(c).recvfilestate = "IDLE" /\ StopReceiving(c).recvfile_stream = FALSE
        /\ SameSendSide(c, StopReceiving(c))
    BY DEF StopReceiving, Channel, SameSendSide
  <2>4. QED
    BY <2>2, <2>3
<1>4. QED
  BY <1>2, <1>3

\* A call that fails and changes nothing.
LEMMA FailedGood ==
    ASSUME NEW c, Local(c), c.state = "ACTIVE"
    PROVE  Good(c, Nothing, Failed(c))
<1>1. c \in Channel /\ (c.sendfile_stream = "open" <=> c.sendfilestate # "IDLE")
  BY DEF Local
<1>2. SameRecvSide(c, c)
  BY DEF SameRecvSide
<1>3. SenderMove(c, c, Nothing, <<>>)
  BY NoMessages, Messages DEF SenderMove, Unasked, SameSend
<1>4. Cmd(Nothing, "snd") = "VOID" /\ Cmd(Nothing, "rcv") = "VOID"
  BY Contents
<1>5. SendStep(c, c, Nothing, <<>>)
  BY <1>4, NoMessages, Messages DEF SendStep
<1>6. Good(c, Nothing, Done(c, <<>>, <<>>))
  BY <1>1, <1>2, <1>3, <1>4, <1>5, NoMessages, Messages, SendOnly
<1>7. Done(c, <<>>, <<>>).out = Failed(c).out /\ Done(c, <<>>, <<>>).chan = Failed(c).chan
  BY DEF Done, Failed
<1>8. QED
  BY <1>6, <1>7 DEF Good

\* A file that could not be opened or measured: only the stream changes.
LEMMA UnopenedGood ==
    ASSUME NEW c, Local(c), c.state = "ACTIVE", c.sendfilestate = "IDLE",
           NEW stream \in Streams, stream # "open"
    PROVE  LET t == [c EXCEPT !.sendfile_stream = stream]
           IN  Good(c, Nothing, Failed(t)) /\ t.sendfilestate = "IDLE"
<1> DEFINE t == [c EXCEPT !.sendfile_stream = stream]
<1>1. c \in Channel
  BY DEF Local
<1>2. /\ t \in Channel /\ t.state = c.state /\ SameRecvSide(c, t)
      /\ t.sendfile_stream = stream /\ t.sendfilestate = "IDLE" /\ t.sendfile = c.sendfile
  BY <1>1 DEF Channel, SameRecvSide
<1> HIDE DEF t
<1>3. SenderMove(c, t, Nothing, <<>>)
  BY <1>2, NoMessages, Messages DEF SenderMove, Unasked, SameSend
<1>4. Cmd(Nothing, "snd") = "VOID" /\ Cmd(Nothing, "rcv") = "VOID"
  BY Contents
<1>5. SendStep(c, t, Nothing, <<>>)
  BY <1>2, <1>4, NoMessages, Messages DEF SendStep
<1>6. t.sendfile_stream = "open" <=> t.sendfilestate # "IDLE"
  BY <1>2
<1>7. Good(c, Nothing, Done(t, <<>>, <<>>))
  BY <1>2, <1>3, <1>4, <1>5, <1>6, NoMessages, Messages, SendOnly
<1>8. Done(t, <<>>, <<>>).out = Failed(t).out /\ Done(t, <<>>, <<>>).chan = Failed(t).chan
  BY DEF Done, Failed
<1>9. Good(c, Nothing, Failed(t)) /\ t.sendfilestate = "IDLE"
  BY <1>2, <1>7, <1>8 DEF Good
<1>10. QED
  BY <1>9 DEF t

LEMMA SendFileGood ==
    ASSUME NEW c, Local(c), c.state = "ACTIVE", NEW size \in Nat, NEW name \in {"plain", "dotted"},
           c.sendfilestate = "IDLE"
    PROVE  LET r == PICA_send_file(c, size, name, "open")
           IN  /\ Good(c, Nothing, r) /\ r.ok
               /\ r.chan.sendfile.id \in Nat /\ r.chan.sendfile.size = size
<1> DEFINE f == [id |-> c.sent + 1, size |-> size, len |-> size, pos |-> 0]
           t == [[c EXCEPT !.sendfile_stream = "open"]
                      EXCEPT !.sendfilestate = "SENTREQ", !.sendfile = f, !.sent = @ + 1]
           out == <<Request(f, name)>>
<1>1. c \in Channel
  BY DEF Local
<1>2. PICA_send_file(c, size, name, "open") = Done(t, out, <<>>)
  BY DEF PICA_send_file
<1>3. f \in File /\ f.pos = 0 /\ f.size = size
  BY <1>1 DEF File, Channel
<1> HIDE DEF f
<1>4. /\ t \in Channel /\ t.state = c.state /\ SameRecvSide(c, t)
      /\ t.sendfile_stream = "open" /\ t.sendfilestate = "SENTREQ" /\ t.sendfile = f
  <2>1. c.sent + 1 \in Nat
    BY <1>1 DEF Channel
  <2>2. t \in Channel
    BY <1>1, <1>3, <2>1 DEF Channel, SendStates, Streams
  <2>3. QED
    BY <1>1, <2>2 DEF Channel, SameRecvSide
<1>5. /\ Request(f, name) \in Message /\ IsReq(Request(f, name))
      /\ ~IsAnswer(Request(f, name)) /\ Request(f, name).id = f.id
  BY <1>3, Messages
<1>6. out \in Seq(Message) /\ Len(out) = 1 /\ out[1] = Request(f, name) /\ NoAnswer(out)
  BY <1>5, OneMessage
<1>7. Request(f, name).size = f.size /\ Cmd(Nothing, "snd") = "VOID" /\ Cmd(Nothing, "rcv") = "VOID"
  BY Contents
<1>8. Quiet(out, "rcv")
  BY <1>5, Contents, OneMessage
<1> HIDE DEF t, out
<1>9. SenderMove(c, t, Nothing, out)
  BY <1>2, <1>3, <1>4, <1>5, <1>6, Messages DEF SenderMove
<1>10. Len(out) <= 1 /\ (t.sendfile_stream = "open" <=> t.sendfilestate # "IDLE")
  BY <1>4, <1>6
<1>11. ~IsReq(Nothing) /\ ~IsFrag(Nothing)
  BY Messages
<1>12. SendStep(c, t, Nothing, out)
  BY <1>2, <1>4, <1>5, <1>6, <1>7, Messages DEF SendStep
<1>13. Good(c, Nothing, Done(t, out, <<>>))
  BY <1>4, <1>6, <1>9, <1>10, <1>11, <1>7, <1>8, <1>12, SendOnly
<1>14. /\ Done(t, out, <<>>).ok /\ Done(t, out, <<>>).chan = t
       /\ f.id \in Nat
  BY <1>3 DEF Done, File
<1>15. QED
  BY <1>2, <1>3, <1>4, <1>13, <1>14

LEMMA AcceptGood ==
    ASSUME NEW c, Local(c), c.state = "ACTIVE", NEW opens, PICA_accept_file(c, opens).ok
    PROVE  Good(c, Nothing, PICA_accept_file(c, opens))
<1> DEFINE t == [c EXCEPT !.recvfilestate = "RECEIVING", !.recvfile_stream = TRUE]
           out == <<Accepted>>
<1>1. c \in Channel
  BY DEF Local
<1>2. PICA_accept_file(c, opens) = Done(t, out, <<>>) /\ c.recvfilestate = "WAITACCEPT"
  BY DEF PICA_accept_file, Failed
<1>3. /\ t \in Channel /\ t.state = c.state /\ SameSendSide(c, t)
      /\ t.recvfilestate = "RECEIVING" /\ t.recvfile_stream = TRUE
      /\ t.recvfile = c.recvfile /\ t.written = c.written
  BY <1>1 DEF Channel, RecvStates, SameSendSide
<1>4. /\ out \in Seq(Message) /\ Len(out) = 1 /\ out[1] = Accepted
      /\ NoReq(out) /\ NoFrag(out)
  BY Messages, OneMessage
<1>5. Len(out) <= 1
  BY <1>4
<1>6. out[1].type = "ACCEPTEDFILE" /\ Cmd(Nothing, "snd") = "VOID" /\ Cmd(Nothing, "rcv") = "VOID"
  BY <1>4, Contents
<1>7. Quiet(out, "snd")
  BY Messages, Contents, OneMessage
<1> HIDE DEF t, out
<1>8. t.written = Units(t.recvfile.id, 0, t.recvfile.pos)
  BY <1>2, <1>3, NothingStored DEF Local
<1>9. ~IsReq(Nothing) /\ ~IsFrag(Nothing) /\ ~IsAnswer(Nothing)
  BY Messages
<1>10. ReceiverMove(c, t, Nothing, out)
  BY <1>2, <1>3, <1>4, <1>9, Messages DEF ReceiverMove, Answers, SameRecv
<1>11. RecvStep(c, t, Nothing, out)
  BY <1>2, <1>3, <1>4, <1>9, <1>6 DEF RecvStep, Replies
<1>12. /\ t.recvfile_stream <=> t.recvfilestate \in Running
       /\ t.recvfilestate # "WAITACCEPT"
  BY <1>3 DEF Running
<1>13. Good(c, Nothing, Done(t, out, <<>>))
  BY <1>3, <1>4, <1>5, <1>8, <1>9, <1>10, <1>12, <1>6, <1>7, <1>11, RecvOnly
<1>14. QED
  BY <1>2, <1>13

LEMMA DenyGood ==
    ASSUME NEW c, Local(c), c.state = "ACTIVE", PICA_deny_file(c).ok
    PROVE  Good(c, Nothing, PICA_deny_file(c))
<1> DEFINE t == StopReceiving(c)
           out == <<Denied>>
<1>1. c \in Channel
  BY DEF Local
<1>2. PICA_deny_file(c) = Done(t, out, <<>>) /\ c.recvfilestate = "WAITACCEPT"
  BY DEF PICA_deny_file, Failed
<1>3. /\ t \in Channel /\ t.state = c.state /\ SameSendSide(c, t)
      /\ t.recvfilestate = "IDLE" /\ t.recvfile_stream = FALSE
  BY <1>1, Stops
<1>4. /\ out \in Seq(Message) /\ Len(out) = 1 /\ out[1] = Denied
      /\ NoReq(out) /\ NoFrag(out)
  BY Messages, OneMessage
<1>5. Len(out) <= 1
  BY <1>4
<1>6. out[1].type = "DENIEDFILE" /\ Cmd(Nothing, "snd") = "VOID" /\ Cmd(Nothing, "rcv") = "VOID"
  BY <1>4, Contents
<1>7. Quiet(out, "snd")
  BY Messages, Contents, OneMessage
<1> HIDE DEF t, out
<1>8. ~IsReq(Nothing) /\ ~IsFrag(Nothing) /\ ~IsAnswer(Nothing)
  BY Messages
<1>9. ReceiverMove(c, t, Nothing, out)
  BY <1>2, <1>3, <1>4, <1>8, Messages DEF ReceiverMove, Answers, SameRecv
<1>10. RecvStep(c, t, Nothing, out)
  BY <1>2, <1>3, <1>4, <1>8, <1>6 DEF RecvStep, Replies
<1>11. /\ t.recvfile_stream <=> t.recvfilestate \in Running
       /\ t.recvfilestate # "WAITACCEPT" /\ t.recvfilestate \notin Running
  BY <1>3 DEF Running
<1>12. Good(c, Nothing, Done(t, out, <<>>))
  BY <1>3, <1>4, <1>5, <1>8, <1>9, <1>11, <1>6, <1>7, <1>10, RecvOnly
<1>13. QED
  BY <1>2, <1>12

\* Pausing, resuming and stopping: one side moves and a command is sent.
LEMMA SendMoves ==
    ASSUME NEW c, Local(c), c.state = "ACTIVE", c.sendfilestate \in {"SENDING", "PAUSED"},
           NEW t \in Channel, t.state = c.state, SameRecvSide(c, t),
           t.sendfile_stream = "open" <=> t.sendfilestate # "IDLE",
           \/ t.sendfilestate \in {"SENDING", "PAUSED"} /\ SameSend(c, t)
           \/ t.sendfilestate = "IDLE",
           NEW m, ~IsReq(m), ~IsFrag(m), ~IsAnswer(m),
           NEW out \in Seq(Message), Len(out) <= 1, NoReq(out), NoFrag(out), NoAnswer(out),
           SendStep(c, t, m, out), Cmd(m, "snd") = "VOID", Quiet(out, "rcv"),
           NEW cb
    PROVE  Good(c, m, Done(t, out, cb))
<1>1. SenderMove(c, t, m, out)
  BY DEF SenderMove, Unasked
<1>2. QED
  BY <1>1, SendOnly

LEMMA RecvMoves ==
    ASSUME NEW c, Local(c), c.state = "ACTIVE", c.recvfilestate \in Running,
           NEW t \in Channel, t.state = c.state, SameSendSide(c, t),
           t.recvfile_stream <=> t.recvfilestate \in Running,
           NEW m, ~IsReq(m), ~IsAnswer(m),
           \/ /\ t.recvfilestate \in Running /\ t.recvfile = c.recvfile /\ t.written = c.written
              /\ ~IsFrag(m)
           \/ t.recvfilestate = "IDLE",
           NEW out \in Seq(Message), Len(out) <= 1, NoReq(out), NoFrag(out), NoAnswer(out),
           RecvStep(c, t, m, out), Cmd(m, "rcv") = "VOID", Quiet(out, "snd"),
           NEW cb
    PROVE  Good(c, m, Done(t, out, cb))
<1>1. ReceiverMove(c, t, m, out)
  BY DEF ReceiverMove, SameRecv
<1>2. t.recvfilestate # "WAITACCEPT"
  BY DEF Running
<1>3. t.recvfilestate \in Running => t.written = Units(t.recvfile.id, 0, t.recvfile.pos)
  BY DEF Running, Local
<1>4. QED
  BY <1>1, <1>2, <1>3, RecvOnly


LEMMA CommandSent ==
    ASSUME NEW s \in Commands, NEW r \in Commands
    PROVE  LET out == <<Control(s, r)>>
           IN  /\ out \in Seq(Message) /\ Len(out) <= 1 /\ NoReq(out) /\ NoFrag(out) /\ NoAnswer(out)
               /\ Len(out) = 1 /\ Cmd(out[1], "snd") = s /\ Cmd(out[1], "rcv") = r
               /\ s = "VOID" => Quiet(out, "snd")
               /\ r = "VOID" => Quiet(out, "rcv")
<1>1. /\ Control(s, r) \in Message /\ ~IsAnswer(Control(s, r))
      /\ ~IsReq(Control(s, r)) /\ ~IsFrag(Control(s, r))
  BY Messages
<1>2. Cmd(Control(s, r), "snd") = s /\ Cmd(Control(s, r), "rcv") = r
  BY Contents
<1>3. QED
  BY <1>1, <1>2, OneMessage

LEMMA SwitchGood ==
    ASSUME NEW c, Local(c), c.state = "ACTIVE", NEW sending \in BOOLEAN,
           NEW from, NEW to, NEW cmd \in Toggles, from # to,
           sending => {from, to} \subseteq {"SENDING", "PAUSED"},
           ~sending => {from, to} \subseteq Running,
           Switch(c, sending, from, to, cmd).ok
    PROVE  Good(c, Nothing, Switch(c, sending, from, to, cmd))
<1>1. c \in Channel
  BY DEF Local
<1>2. ~IsReq(Nothing) /\ ~IsFrag(Nothing) /\ ~IsAnswer(Nothing)
      /\ "VOID" \in Commands /\ cmd \in Commands
      /\ Cmd(Nothing, "snd") = "VOID" /\ Cmd(Nothing, "rcv") = "VOID"
  BY Messages, Contents DEF Commands, Toggles
<1>3. CASE sending
  <2> DEFINE t == [c EXCEPT !.sendfilestate = to]
             out == <<Control(cmd, "VOID")>>
  <2>1. Switch(c, sending, from, to, cmd) = Done(t, out, <<>>) /\ c.sendfilestate = from
    BY <1>3 DEF Switch, Failed
  <2>2. /\ t \in Channel /\ t.state = c.state /\ SameRecvSide(c, t)
        /\ t.sendfilestate = to /\ t.sendfile = c.sendfile /\ t.sendfile_stream = c.sendfile_stream
    BY <1>1, <1>3 DEF Channel, SendStates, SameRecvSide
  <2>3. /\ out \in Seq(Message) /\ Len(out) <= 1 /\ NoReq(out) /\ NoFrag(out) /\ NoAnswer(out)
        /\ Len(out) = 1 /\ Cmd(out[1], "snd") = cmd /\ Quiet(out, "rcv")
    BY <1>2, CommandSent
  <2> HIDE DEF t, out
  <2>4. /\ c.sendfilestate \in {"SENDING", "PAUSED"} /\ t.sendfilestate \in {"SENDING", "PAUSED"}
        /\ SameSend(c, t) /\ (t.sendfile_stream = "open" <=> t.sendfilestate # "IDLE")
    BY <1>3, <2>1, <2>2 DEF SameSend, Local
  <2>5. SendStep(c, t, Nothing, out)
    BY <1>2, <2>1, <2>2, <2>3, <2>4 DEF SendStep, Sending
  <2>6. Good(c, Nothing, Done(t, out, <<>>))
    BY <1>2, <2>2, <2>3, <2>4, <2>5, SendMoves
  <2>7. QED
    BY <2>1, <2>6
<1>4. CASE ~sending
  <2> DEFINE t == [c EXCEPT !.recvfilestate = to]
             out == <<Control("VOID", cmd)>>
  <2>1. Switch(c, sending, from, to, cmd) = Done(t, out, <<>>) /\ c.recvfilestate = from
    BY <1>4 DEF Switch, Failed
  <2>2. /\ t \in Channel /\ t.state = c.state /\ SameSendSide(c, t)
        /\ t.recvfilestate = to /\ t.recvfile = c.recvfile /\ t.recvfile_stream = c.recvfile_stream
        /\ t.written = c.written
    BY <1>1, <1>4 DEF Channel, RecvStates, Running, SameSendSide
  <2>3. /\ out \in Seq(Message) /\ Len(out) <= 1 /\ NoReq(out) /\ NoFrag(out) /\ NoAnswer(out)
        /\ Len(out) = 1 /\ Cmd(out[1], "rcv") = cmd /\ Quiet(out, "snd")
    BY <1>2, CommandSent
  <2> HIDE DEF t, out
  <2>4. /\ c.recvfilestate \in Running /\ t.recvfilestate \in Running
        /\ t.recvfile_stream <=> t.recvfilestate \in Running
    BY <1>4, <2>1, <2>2 DEF Local
  <2>5. RecvStep(c, t, Nothing, out)
    BY <1>2, <2>1, <2>2, <2>3, <2>4 DEF RecvStep
  <2>6. Good(c, Nothing, Done(t, out, <<>>))
    BY <1>2, <2>2, <2>3, <2>4, <2>5, RecvMoves
  <2>7. QED
    BY <2>1, <2>6
<1>5. QED
  BY <1>3, <1>4

LEMMA PauseGood ==
    ASSUME NEW c, Local(c), c.state = "ACTIVE", NEW sending \in BOOLEAN,
           PICA_pause_file(c, sending).ok
    PROVE  Good(c, Nothing, PICA_pause_file(c, sending))
<1> DEFINE from == IF sending THEN "SENDING" ELSE "RECEIVING"
<1>1. /\ "PAUSE" \in Toggles /\ from # "PAUSED"
      /\ sending => {from, "PAUSED"} \subseteq {"SENDING", "PAUSED"}
      /\ ~sending => {from, "PAUSED"} \subseteq Running
  BY DEF Toggles, Running
<1>2. PICA_pause_file(c, sending) = Switch(c, sending, from, "PAUSED", "PAUSE")
  BY DEF PICA_pause_file
<1> HIDE DEF from
<1>3. QED
  BY <1>1, <1>2, SwitchGood

LEMMA ResumeGood ==
    ASSUME NEW c, Local(c), c.state = "ACTIVE", NEW sending \in BOOLEAN,
           PICA_resume_file(c, sending).ok
    PROVE  Good(c, Nothing, PICA_resume_file(c, sending))
<1> DEFINE to == IF sending THEN "SENDING" ELSE "RECEIVING"
<1>1. /\ "RESUME" \in Toggles /\ to # "PAUSED"
      /\ sending => {"PAUSED", to} \subseteq {"SENDING", "PAUSED"}
      /\ ~sending => {"PAUSED", to} \subseteq Running
  BY DEF Toggles, Running
<1>2. PICA_resume_file(c, sending) = Switch(c, sending, "PAUSED", to, "RESUME")
  BY DEF PICA_resume_file
<1> HIDE DEF to
<1>3. QED
  BY <1>1, <1>2, SwitchGood

LEMMA CancelGood ==
    ASSUME NEW c, Local(c), c.state = "ACTIVE", NEW sending \in BOOLEAN,
           PICA_cancel_file(c, sending).ok
    PROVE  Good(c, Nothing, PICA_cancel_file(c, sending))
<1>1. c \in Channel
  BY DEF Local
<1>2. /\ ~IsReq(Nothing) /\ ~IsFrag(Nothing) /\ ~IsAnswer(Nothing)
      /\ "VOID" \in Commands /\ "CANCEL" \in Commands /\ "CANCEL" \in Halts
      /\ Cmd(Nothing, "snd") = "VOID" /\ Cmd(Nothing, "rcv") = "VOID"
  BY Messages, Contents DEF Commands, Halts
<1>3. CASE sending
  <2> DEFINE t == StopSending(c)
             out == <<Control("CANCEL", "VOID")>>
  <2>1. /\ PICA_cancel_file(c, sending) = Done(t, out, <<>>)
        /\ c.sendfilestate \in {"SENDING", "PAUSED"}
    BY <1>3 DEF PICA_cancel_file, Failed
  <2>2. /\ t \in Channel /\ t.state = c.state /\ SameRecvSide(c, t)
        /\ t.sendfilestate = "IDLE" /\ t.sendfile_stream = "NULL"
    BY <1>1, Stops
  <2>3. /\ out \in Seq(Message) /\ Len(out) <= 1 /\ NoReq(out) /\ NoFrag(out) /\ NoAnswer(out)
        /\ Len(out) = 1 /\ Cmd(out[1], "snd") = "CANCEL" /\ Quiet(out, "rcv")
    BY <1>2, CommandSent
  <2> HIDE DEF t, out
  <2>4. SendStep(c, t, Nothing, out)
    BY <1>2, <2>1, <2>2, <2>3 DEF SendStep, Sending
  <2>5. Good(c, Nothing, Done(t, out, <<>>))
    BY <1>2, <2>1, <2>2, <2>3, <2>4, SendMoves
  <2>6. QED
    BY <2>1, <2>5
<1>4. CASE ~sending
  <2> DEFINE t == StopReceiving(c)
             out == <<Control("VOID", "CANCEL")>>
  <2>1. PICA_cancel_file(c, sending) = Done(t, out, <<>>) /\ c.recvfilestate \in Running
    BY <1>4 DEF PICA_cancel_file, Failed, Running
  <2>2. /\ t \in Channel /\ t.state = c.state /\ SameSendSide(c, t)
        /\ t.recvfilestate = "IDLE" /\ t.recvfile_stream = FALSE
    BY <1>1, Stops
  <2>3. /\ out \in Seq(Message) /\ Len(out) <= 1 /\ NoReq(out) /\ NoFrag(out) /\ NoAnswer(out)
        /\ Len(out) = 1 /\ Cmd(out[1], "rcv") = "CANCEL" /\ Quiet(out, "snd")
    BY <1>2, CommandSent
  <2> HIDE DEF t, out
  <2>4. t.recvfile_stream <=> t.recvfilestate \in Running
    BY <2>2 DEF Running
  <2>5. RecvStep(c, t, Nothing, out)
    BY <1>2, <2>1, <2>2, <2>3 DEF RecvStep
  <2>6. Good(c, Nothing, Done(t, out, <<>>))
    BY <1>2, <2>1, <2>2, <2>3, <2>4, <2>5, RecvMoves
  <2>7. QED
    BY <2>1, <2>6
<1>5. QED
  BY <1>3, <1>4


LEMMA SendFragmentGood ==
    ASSUME NEW c, Local(c), c.state = "ACTIVE", c.sendfilestate = "SENDING"
    PROVE  Good(c, Nothing, PICA_send_file_fragment(c))
<1> DEFINE f == c.sendfile
           left == IF f.len > f.pos THEN f.len - f.pos ELSE 0
           n == IF left < FRAGMENT THEN left ELSE FRAGMENT
           r == PICA_send_file_fragment(c)
           out == <<Fragment(f.id, f.pos, n)>>
           t == [c EXCEPT !.sendfile.pos = @ + n]
<1>1. c \in Channel
  BY DEF Local
<1>2. f.id \in Nat /\ f.pos \in Nat /\ f.len \in Nat /\ f.size \in Nat /\ FRAGMENT \in Nat
  BY <1>1, FileTransferAssumption DEF Channel, File
<1>3. left \in Nat
  BY <1>2
<1>4. n \in Nat
  BY <1>2, <1>3
<1>5. /\ ~IsReq(Nothing) /\ ~IsFrag(Nothing) /\ ~IsAnswer(Nothing)
      /\ "VOID" \in Commands /\ "IOERROR" \in Commands /\ "IOERROR" \in Halts
      /\ Cmd(Nothing, "snd") = "VOID" /\ Cmd(Nothing, "rcv") = "VOID"
  BY Messages, Contents DEF Commands, Halts
<1>6. /\ StopSending(c) \in Channel /\ StopSending(c).state = c.state
      /\ StopSending(c).sendfilestate = "IDLE" /\ StopSending(c).sendfile_stream = "NULL"
      /\ SameRecvSide(c, StopSending(c))
  BY <1>1, Stops
<1>7. \/ r = Done(StopSending(c), <<Control("IOERROR", "VOID")>>, <<>>)
      \/ r = Done(StopSending(c), out, r.cb) /\ f.pos + n >= f.size
      \/ r = Done(t, out, r.cb) /\ ~(f.pos + n >= f.size)
  BY DEF PICA_send_file_fragment, Done
<1>8. CASE r = Done(StopSending(c), <<Control("IOERROR", "VOID")>>, <<>>)
  <2> DEFINE o == <<Control("IOERROR", "VOID")>>
  <2>1. /\ o \in Seq(Message) /\ Len(o) <= 1 /\ NoReq(o) /\ NoFrag(o) /\ NoAnswer(o)
        /\ Len(o) = 1 /\ Cmd(o[1], "snd") = "IOERROR" /\ Quiet(o, "rcv")
    BY <1>5, CommandSent
  <2> HIDE DEF o
  <2>2. SendStep(c, StopSending(c), Nothing, o)
    BY <1>5, <1>6, <2>1 DEF SendStep, Sending
  <2>3. Good(c, Nothing, Done(StopSending(c), o, <<>>))
    BY <1>5, <1>6, <2>1, <2>2, SendMoves
  <2>4. QED
    BY <1>8, <2>3 DEF o
<1>9. /\ Fragment(f.id, f.pos, n) \in Message /\ IsFrag(Fragment(f.id, f.pos, n))
      /\ ~IsAnswer(Fragment(f.id, f.pos, n))
      /\ Fragment(f.id, f.pos, n).id = f.id /\ Fragment(f.id, f.pos, n).from = f.pos
      /\ Fragment(f.id, f.pos, n).n = n
  <2> HIDE DEF n, f
  <2>1. QED
    BY <1>2, <1>4, Messages
<1>10. /\ out \in Seq(Message) /\ Len(out) = 1 /\ NoAnswer(out)
       /\ IsFrag(out[1]) /\ out[1].id = c.sendfile.id /\ out[1].from = c.sendfile.pos
       /\ out[1].n = n /\ Quiet(out, "rcv")
  BY <1>9, Contents, OneMessage
<1>11. Len(out) <= 1
  BY <1>10
<1>12. /\ t \in Channel /\ t.state = c.state /\ SameRecvSide(c, t)
       /\ t.sendfilestate = "SENDING" /\ t.sendfile_stream = c.sendfile_stream
       /\ t.sendfile.id = c.sendfile.id /\ t.sendfile.pos = c.sendfile.pos + n
       /\ t.sendfile.size = c.sendfile.size
  <2> HIDE DEF n
  <2>1. f.pos + n \in Nat
    BY <1>2, <1>4
  <2>2. t = [c EXCEPT !.sendfile = [f EXCEPT !.pos = f.pos + n]]
    OBVIOUS
  <2>3. f \in File
    BY <1>1 DEF Channel
  <2>4. /\ [f EXCEPT !.pos = f.pos + n] \in File
        /\ [f EXCEPT !.pos = f.pos + n].id = f.id
        /\ [f EXCEPT !.pos = f.pos + n].pos = f.pos + n
        /\ [f EXCEPT !.pos = f.pos + n].size = f.size
    BY <2>1, <2>3 DEF File
  <2>5. t \in Channel
    BY <1>1, <2>2, <2>4 DEF Channel
  <2>6. QED
    BY <1>1, <2>2, <2>4, <2>5 DEF Channel, SameRecvSide
<1> HIDE DEF r, out, t, n
<1>13. Final(out[1], c.sendfile.size) <=> f.pos + n >= f.size
  BY <1>2, <1>4, <1>10 DEF Final
<1>14. CASE r = Done(StopSending(c), out, r.cb) /\ f.pos + n >= f.size
  <2>1. SenderMove(c, StopSending(c), Nothing, out)
    BY <1>5, <1>6, <1>10 DEF SenderMove
  <2>2. SendStep(c, StopSending(c), Nothing, out)
    BY <1>5, <1>6, <1>10, <1>14, <1>13 DEF SendStep, Sending
  <2>3. Good(c, Nothing, Done(StopSending(c), out, r.cb))
    BY <1>5, <1>6, <1>10, <1>11, <2>1, <2>2, SendOnly
  <2>4. QED
    BY <1>14, <2>3 DEF r
<1>15. CASE r = Done(t, out, r.cb) /\ ~(f.pos + n >= f.size)
  <2>1. SenderMove(c, t, Nothing, out)
    BY <1>5, <1>10, <1>12 DEF SenderMove
  <2>2. t.sendfile_stream = "open" <=> t.sendfilestate # "IDLE"
    BY <1>12 DEF Local
  <2>3. SendStep(c, t, Nothing, out)
    BY <1>5, <1>10, <1>12, <1>15, <1>13 DEF SendStep
  <2>4. Good(c, Nothing, Done(t, out, r.cb))
    BY <1>5, <1>10, <1>11, <1>12, <2>1, <2>2, <2>3, SendOnly
  <2>5. QED
    BY <1>15, <2>4 DEF r
<1>16. QED
  BY <1>7, <1>8, <1>14, <1>15 DEF r

-----------------------------------------------------------------------------
(* Handlers of the messages of the peer *)

LEMMA AcceptedGood ==
    ASSUME NEW c, Local(c), c.state = "ACTIVE", NEW m \in Message, m.type = "ACCEPTEDFILE",
           procmsg_ACCEPTEDFILE(c).ok
    PROVE  Good(c, m, procmsg_ACCEPTEDFILE(c))
<1> DEFINE t == [c EXCEPT !.sendfilestate = "SENDING"]
           r == procmsg_ACCEPTEDFILE(c)
<1>1. c \in Channel
  BY DEF Local
<1>2. r = Done(t, <<>>, r.cb) /\ c.sendfilestate = "SENTREQ"
  BY DEF procmsg_ACCEPTEDFILE, Failed, Done
<1>3. /\ t \in Channel /\ t.state = c.state /\ SameRecvSide(c, t) /\ t.sendfilestate = "SENDING"
      /\ t.sendfile = c.sendfile /\ t.sendfile_stream = c.sendfile_stream
  BY <1>1 DEF Channel, SendStates, SameRecvSide
<1>4. /\ IsAnswer(m) /\ ~IsReq(m) /\ ~IsFrag(m)
      /\ Cmd(m, "snd") = "VOID" /\ Cmd(m, "rcv") = "VOID"
  BY DEF IsAnswer, IsReq, IsFrag, Cmd
<1> HIDE DEF t, r
<1>5. SenderMove(c, t, m, <<>>)
  BY <1>2, <1>3, <1>4, NoMessages DEF SenderMove, SameSend
<1>6. t.sendfile_stream = "open" <=> t.sendfilestate # "IDLE"
  BY <1>2, <1>3 DEF Local
<1>7. SendStep(c, t, m, <<>>)
  BY <1>2, <1>3, NoMessages DEF SendStep
<1>8. Good(c, m, Done(t, <<>>, r.cb))
  BY <1>3, <1>4, <1>5, <1>6, <1>7, NoMessages, SendOnly
<1>9. QED
  BY <1>2, <1>8 DEF r

LEMMA DeniedGood ==
    ASSUME NEW c, Local(c), c.state = "ACTIVE", NEW m \in Message, m.type = "DENIEDFILE",
           procmsg_DENIEDFILE(c).ok
    PROVE  Good(c, m, procmsg_DENIEDFILE(c))
<1> DEFINE t == StopSending(c)
           r == procmsg_DENIEDFILE(c)
<1>1. c \in Channel
  BY DEF Local
<1>2. r = Done(t, <<>>, r.cb) /\ c.sendfilestate = "SENTREQ"
  BY DEF procmsg_DENIEDFILE, Failed, Done
<1>3. /\ t \in Channel /\ t.state = c.state /\ SameRecvSide(c, t)
      /\ t.sendfilestate = "IDLE" /\ t.sendfile_stream = "NULL"
  BY <1>1, Stops
<1>4. /\ IsAnswer(m) /\ ~IsReq(m) /\ ~IsFrag(m)
      /\ Cmd(m, "snd") = "VOID" /\ Cmd(m, "rcv") = "VOID"
  BY DEF IsAnswer, IsReq, IsFrag, Cmd
<1> HIDE DEF t, r
<1>5. SenderMove(c, t, m, <<>>)
  BY <1>2, <1>3, <1>4, NoMessages DEF SenderMove
<1>6. SendStep(c, t, m, <<>>)
  BY <1>2, <1>3, NoMessages DEF SendStep
<1>7. Good(c, m, Done(t, <<>>, r.cb))
  BY <1>3, <1>4, <1>5, <1>6, NoMessages, SendOnly
<1>8. QED
  BY <1>2, <1>7 DEF r


LEMMA RequestGood ==
    ASSUME NEW c, Local(c), c.state = "ACTIVE", NEW m \in Message, m.type = "SENDFILEREQUEST",
           NEW answer, NEW opens, procmsg_SENDFILEREQUEST(c, m, answer, opens).ok
    PROVE  Good(c, m, procmsg_SENDFILEREQUEST(c, m, answer, opens))
<1> DEFINE f == [id |-> m.id, size |-> m.size, len |-> 0, pos |-> 0]
           w == [c EXCEPT !.recvfilestate = "WAITACCEPT", !.written = <<>>, !.recvfile = f]
           a == [w EXCEPT !.recvfilestate = "RECEIVING", !.recvfile_stream = TRUE]
           r == procmsg_SENDFILEREQUEST(c, m, answer, opens)
<1>1. c \in Channel
  BY DEF Local
<1>2. f \in File /\ f.id = m.id /\ f.pos = 0 /\ f.size = m.size
  BY DEF Message, File
<1>3. c.recvfilestate = "IDLE" /\ c.recvfile_stream = FALSE
  <2>1. c.recvfilestate = "IDLE"
    BY DEF procmsg_SENDFILEREQUEST, Failed
  <2>2. c.recvfile_stream \in BOOLEAN /\ ~c.recvfile_stream
    BY <1>1, <2>1 DEF Local, Channel, Running
  <2>3. QED
    BY <2>1, <2>2
<1> HIDE DEF f
<1>4. /\ w \in Channel /\ w.state = c.state /\ SameSendSide(c, w)
      /\ w.recvfilestate = "WAITACCEPT" /\ w.written = <<>> /\ w.recvfile = f
      /\ w.recvfile_stream = FALSE
  <2>1. <<>> \in Seq(Nat \X Nat)
    OBVIOUS
  <2>2. w \in Channel
    BY <1>1, <1>2, <2>1 DEF Channel, RecvStates
  <2>3. QED
    BY <1>1, <1>3, <2>2 DEF Channel, SameSendSide
<1>5. \/ r = Done(w, <<>>, r.cb)
      \/ r = Done(a, <<Accepted>>, r.cb)
      \/ r = Done(StopReceiving(w), <<Denied>>, r.cb)
  <2> HIDE DEF w
  <2>1. \A o : PICA_accept_file(w, o) \in {Done(a, <<Accepted>>, <<>>), Failed(w)}
    BY <1>4 DEF PICA_accept_file
  <2>2. PICA_deny_file(w) = Done(StopReceiving(w), <<Denied>>, <<>>)
    BY <1>4 DEF PICA_deny_file
  <2>3. ~Failed(w).ok
    BY DEF Failed
  <2>4. \E q \in {Done(w, <<>>, <<>>), Done(a, <<Accepted>>, <<>>),
                  Done(StopReceiving(w), <<Denied>>, <<>>)} :
           r = [q EXCEPT !.cb = r.cb]
    <3>1. r = [IF answer = 1
               THEN IF PICA_accept_file(w, opens).ok THEN PICA_accept_file(w, opens)
                                                     ELSE PICA_deny_file(w)
               ELSE IF answer = 0 THEN PICA_deny_file(w) ELSE Done(w, <<>>, <<>>)
               EXCEPT !.cb = <<[ev |-> "request", size |-> m.size]>>]
      BY DEF procmsg_SENDFILEREQUEST, Failed, f, w
    <3>2. (IF answer = 1
           THEN IF PICA_accept_file(w, opens).ok THEN PICA_accept_file(w, opens)
                                                 ELSE PICA_deny_file(w)
           ELSE IF answer = 0 THEN PICA_deny_file(w) ELSE Done(w, <<>>, <<>>))
          \in {Done(w, <<>>, <<>>), Done(a, <<Accepted>>, <<>>),
               Done(StopReceiving(w), <<Denied>>, <<>>)}
      BY <2>1, <2>2, <2>3
    <3> HIDE DEF r
    <3>3. r.cb = <<[ev |-> "request", size |-> m.size]>>
      BY <3>1, <3>2 DEF Done
    <3>4. QED
      BY <3>1, <3>2, <3>3
  <2>5. QED
    BY <2>4 DEF Done
<1>6. IsReq(m) /\ ~IsAnswer(m) /\ Cmd(m, "snd") = "VOID" /\ Cmd(m, "rcv") = "VOID"
  BY DEF IsReq, IsAnswer, Cmd
<1>7. /\ a \in Channel /\ a.state = c.state /\ SameSendSide(c, a)
      /\ a.recvfilestate = "RECEIVING" /\ a.written = <<>> /\ a.recvfile = f
      /\ a.recvfile_stream = TRUE
  <2> HIDE DEF w
  <2>1. QED
    BY <1>4 DEF Channel, RecvStates, SameSendSide
<1>8. /\ StopReceiving(w) \in Channel /\ StopReceiving(w).state = c.state
      /\ StopReceiving(w).recvfilestate = "IDLE" /\ StopReceiving(w).recvfile_stream = FALSE
      /\ SameSendSide(c, StopReceiving(w))
  <2> HIDE DEF w
  <2>1. QED
    BY <1>4, Stops DEF SameSendSide
<1>9. /\ <<Accepted>> \in Seq(Message) /\ NoReq(<<Accepted>>) /\ NoFrag(<<Accepted>>)
      /\ Answers(<<Accepted>>) /\ Len(<<Accepted>>) <= 1
      /\ <<Denied>> \in Seq(Message) /\ NoReq(<<Denied>>) /\ NoFrag(<<Denied>>)
      /\ Answers(<<Denied>>) /\ Len(<<Denied>>) <= 1
  BY Messages, OneMessage DEF Answers
<1>10. /\ Quiet(<<Accepted>>, "snd") /\ Quiet(<<Denied>>, "snd")
       /\ <<Accepted>>[1].type = "ACCEPTEDFILE" /\ <<Denied>>[1].type = "DENIEDFILE"
       /\ Len(<<Accepted>>) = 1 /\ Len(<<Denied>>) = 1
  BY Messages, Contents, OneMessage
<1> HIDE DEF r, w, a
<1>11. CASE r = Done(w, <<>>, r.cb)
  <2>1. ReceiverMove(c, w, m, <<>>)
    BY <1>2, <1>3, <1>4, <1>6, NoMessages DEF ReceiverMove
  <2>2. /\ w.recvfile_stream <=> w.recvfilestate \in Running
        /\ w.recvfilestate \notin Running /\ w.written = <<>> /\ w.recvfile.pos = 0
    BY <1>2, <1>4 DEF Running
  <2>3. RecvStep(c, w, m, <<>>)
    BY <1>2, <1>3, <1>4, <1>6, NoMessages DEF RecvStep
  <2>4. Good(c, m, Done(w, <<>>, r.cb))
    BY <1>4, <1>6, <2>1, <2>2, <2>3, NoMessages, RecvOnly
  <2>5. QED
    BY <1>11, <2>4 DEF r
<1>12. CASE r = Done(a, <<Accepted>>, r.cb)
  <2>1. ReceiverMove(c, a, m, <<Accepted>>)
    BY <1>2, <1>3, <1>6, <1>7, <1>9 DEF ReceiverMove
  <2>2. /\ a.recvfile_stream <=> a.recvfilestate \in Running
        /\ a.recvfilestate # "WAITACCEPT"
    BY <1>2, <1>7 DEF Running
  <2>3. a.written = Units(a.recvfile.id, 0, a.recvfile.pos)
    BY <1>2, <1>7, NothingStored
  <2>4. RecvStep(c, a, m, <<Accepted>>)
    BY <1>2, <1>3, <1>6, <1>7, <1>10 DEF RecvStep, Replies
  <2>5. Good(c, m, Done(a, <<Accepted>>, r.cb))
    BY <1>6, <1>7, <1>9, <1>10, <2>1, <2>2, <2>3, <2>4, RecvOnly
  <2>6. QED
    BY <1>12, <2>5 DEF r
<1>13. CASE r = Done(StopReceiving(w), <<Denied>>, r.cb)
  <2>1. ReceiverMove(c, StopReceiving(w), m, <<Denied>>)
    BY <1>3, <1>6, <1>8, <1>9 DEF ReceiverMove
  <2>2. /\ StopReceiving(w).recvfile_stream <=> StopReceiving(w).recvfilestate \in Running
        /\ StopReceiving(w).recvfilestate # "WAITACCEPT"
        /\ StopReceiving(w).recvfilestate \notin Running
    BY <1>8 DEF Running
  <2>3. RecvStep(c, StopReceiving(w), m, <<Denied>>)
    BY <1>3, <1>6, <1>8, <1>10 DEF RecvStep, Replies
  <2>4. Good(c, m, Done(StopReceiving(w), <<Denied>>, r.cb))
    BY <1>6, <1>8, <1>9, <1>10, <2>1, <2>2, <2>3, RecvOnly
  <2>5. QED
    BY <1>13, <2>4 DEF r
<1>14. QED
  BY <1>5, <1>11, <1>12, <1>13 DEF r


\* A channel whose process dies keeps its type.
LEMMA CrashGood ==
    ASSUME NEW c, NEW m, NEW t \in Channel, NEW cb
    PROVE  Good(c, m, Crash(t, cb))
<1>1. /\ [t EXCEPT !.state = "CRASHED"] \in Channel
      /\ [t EXCEPT !.state = "CRASHED"].state = "CRASHED"
  BY DEF Channel
<1>2. QED
  BY <1>1, NoMessages DEF Good, Crash, Done

\* The fragment that is next is stored behind the ones before it.
LEMMA FragmentGood ==
    ASSUME NEW c, Local(c), c.state = "ACTIVE", NEW m \in Message, m.type = "FILEFRAGMENT",
           c.recvfilestate \in Running => m.id = c.recvfile.id /\ m.from = c.recvfile.pos,
           NEW writes \in BOOLEAN, procmsg_FILEFRAGMENT(c, m, writes).ok
    PROVE  Good(c, m, procmsg_FILEFRAGMENT(c, m, writes))
<1> DEFINE pos == c.recvfile.pos + m.n
           u == c.written \o Units(m.id, m.from, m.n)
           s == [c EXCEPT !.written = u, !.recvfile.pos = pos]
           r == procmsg_FILEFRAGMENT(c, m, writes)
           e == <<Control("VOID", "IOERROR")>>
<1>1. c \in Channel
  BY DEF Local
<1>2. c.recvfilestate \in Running
  BY DEF procmsg_FILEFRAGMENT, Failed, Running
<1>3. /\ c.recvfile \in File /\ c.recvfile.id \in Nat /\ c.recvfile.pos \in Nat
      /\ m.n \in Nat /\ m.id = c.recvfile.id /\ m.from = c.recvfile.pos
  <2>1. c.recvfile \in File /\ c.recvfile.id \in Nat /\ c.recvfile.pos \in Nat
    BY <1>1 DEF Channel, File
  <2>2. m.n \in Nat
    BY DEF Message
  <2>3. QED
    BY <1>2, <2>1, <2>2
<1>4. u = Units(c.recvfile.id, 0, pos) /\ pos \in Nat
  <2>1. c.written = Units(c.recvfile.id, 0, c.recvfile.pos)
    BY <1>2 DEF Local
  <2>2. Units(c.recvfile.id, 0, c.recvfile.pos) \o Units(c.recvfile.id, c.recvfile.pos, m.n)
           = Units(c.recvfile.id, 0, c.recvfile.pos + m.n)
    BY <1>3, UnitsJoin
  <2>3. c.recvfile.pos + m.n \in Nat
    BY <1>3
  <2>4. QED
    BY <1>3, <2>1, <2>2, <2>3
<1>5. u \in Seq(Nat \X Nat)
  <2> HIDE DEF u, pos
  <2>1. 0 \in Nat
    OBVIOUS
  <2>2. Units(c.recvfile.id, 0, pos) \in Seq(Nat \X Nat)
    BY <1>3, <1>4, <2>1, UnitsType
  <2>3. QED
    BY <1>4, <2>2
<1>6. /\ IsFrag(m) /\ ~IsReq(m) /\ ~IsAnswer(m)
      /\ Cmd(m, "snd") = "VOID" /\ Cmd(m, "rcv") = "VOID"
      /\ "VOID" \in Commands /\ "IOERROR" \in Commands /\ "IOERROR" \in Halts
  BY DEF IsFrag, IsReq, IsAnswer, Cmd, Commands, Halts
<1>7. /\ e \in Seq(Message) /\ Len(e) <= 1 /\ NoReq(e) /\ NoFrag(e) /\ NoAnswer(e)
      /\ Len(e) = 1 /\ Cmd(e[1], "rcv") = "IOERROR" /\ Quiet(e, "snd")
  BY <1>6, CommandSent
<1>8. \/ r = Done(s, <<>>, r.cb) /\ pos < c.recvfile.size
      \/ r = Done(StopReceiving(c), e, r.cb)
      \/ r = Crash(StopReceiving(c), r.cb)
      \/ r = Done(StopReceiving(s), <<>>, r.cb) /\ ~(pos < c.recvfile.size)
  BY DEF procmsg_FILEFRAGMENT, Failed, Done, Crash
<1> HIDE DEF u, pos, e, r
<1>9. /\ s \in Channel /\ s.state = c.state /\ SameSendSide(c, s)
      /\ s.recvfilestate = c.recvfilestate /\ s.recvfile_stream = c.recvfile_stream
      /\ s.recvfile.id = c.recvfile.id /\ s.recvfile.pos = pos /\ s.written = u
      /\ s.recvfile.size = c.recvfile.size
  <2>1. s = [c EXCEPT !.written = u, !.recvfile = [c.recvfile EXCEPT !.pos = pos]]
    OBVIOUS
  <2>2. /\ [c.recvfile EXCEPT !.pos = pos] \in File
        /\ [c.recvfile EXCEPT !.pos = pos].id = c.recvfile.id
        /\ [c.recvfile EXCEPT !.pos = pos].pos = pos
        /\ [c.recvfile EXCEPT !.pos = pos].size = c.recvfile.size
    BY <1>3, <1>4 DEF File
  <2>3. s \in Channel
    BY <1>1, <1>5, <2>1, <2>2 DEF Channel
  <2>4. QED
    BY <1>1, <2>1, <2>2, <2>3 DEF Channel, SameSendSide
<1> HIDE DEF s
<1>10. ASSUME NEW x \in Channel, x.state = c.state, SameSendSide(c, x)
       PROVE  /\ StopReceiving(x) \in Channel /\ StopReceiving(x).state = c.state
              /\ StopReceiving(x).recvfilestate = "IDLE"
              /\ StopReceiving(x).recvfile_stream <=> StopReceiving(x).recvfilestate \in Running
              /\ SameSendSide(c, StopReceiving(x))
  BY <1>10, Stops DEF SameSendSide, Running
<1>11. SameSendSide(c, c)
  BY DEF SameSendSide
<1>12. CASE r = Done(s, <<>>, r.cb) /\ pos < c.recvfile.size
  <2>1. ReceiverMove(c, s, m, <<>>)
    BY <1>2, <1>6, <1>9, NoMessages DEF ReceiverMove, pos
  <2>2. /\ s.recvfile_stream <=> s.recvfilestate \in Running
        /\ s.recvfilestate # "WAITACCEPT" /\ s.written = Units(s.recvfile.id, 0, s.recvfile.pos)
    BY <1>2, <1>4, <1>9 DEF Running, Local
  <2>3. RecvStep(c, s, m, <<>>)
    BY <1>2, <1>6, <1>9, <1>12, NoMessages DEF RecvStep, pos
  <2>4. Good(c, m, Done(s, <<>>, r.cb))
    BY <1>6, <1>9, <2>1, <2>2, <2>3, NoMessages, RecvOnly
  <2>5. QED
    BY <1>12, <2>4 DEF r
<1>13. CASE r = Done(StopReceiving(c), e, r.cb)
  <2>1. RecvStep(c, StopReceiving(c), m, e)
    BY <1>1, <1>2, <1>6, <1>7, <1>10, <1>11 DEF RecvStep
  <2>2. Good(c, m, Done(StopReceiving(c), e, r.cb))
    BY <1>1, <1>2, <1>6, <1>7, <1>10, <1>11, <2>1, RecvMoves
  <2>3. QED
    BY <1>13, <2>2 DEF r
<1>14. CASE r = Crash(StopReceiving(c), r.cb)
  <2>1. Good(c, m, Crash(StopReceiving(c), r.cb))
    BY <1>1, <1>10, <1>11, CrashGood
  <2>2. QED
    BY <1>14, <2>1 DEF r
<1>15. CASE r = Done(StopReceiving(s), <<>>, r.cb) /\ ~(pos < c.recvfile.size)
  <2>1. RecvStep(c, StopReceiving(s), m, <<>>)
    BY <1>2, <1>6, <1>9, <1>10, <1>15, NoMessages DEF RecvStep, pos
  <2>2. Good(c, m, Done(StopReceiving(s), <<>>, r.cb))
    BY <1>2, <1>6, <1>9, <1>10, <2>1, NoMessages, RecvMoves
  <2>3. QED
    BY <1>15, <2>2 DEF r
<1>16. QED
  BY <1>8, <1>12, <1>13, <1>14, <1>15 DEF r

\* A transfer that is reported as finished has every unit.
LEMMA FragmentCompletes ==
    ASSUME NEW c, Local(c), NEW m \in Message, m.type = "FILEFRAGMENT",
           c.recvfilestate \in Running => m.id = c.recvfile.id /\ m.from = c.recvfile.pos,
           NEW writes \in BOOLEAN,
           NEW i \in DOMAIN procmsg_FILEFRAGMENT(c, m, writes).cb,
           procmsg_FILEFRAGMENT(c, m, writes).cb[i] = [ev |-> "finished", sending |-> FALSE]
    PROVE  c.written \o Units(m.id, m.from, m.n) = Units(c.recvfile.id, 0, c.recvfile.size)
<1> DEFINE pos == c.recvfile.pos + m.n
           progress == [ev |-> "progress", sending |-> FALSE, pos |-> pos]
           r == procmsg_FILEFRAGMENT(c, m, writes)
<1>1. /\ c.recvfile.id \in Nat /\ c.recvfile.pos \in Nat /\ c.recvfile.size \in Nat
      /\ m.n \in Nat
  <2>1. c.recvfile \in File
    BY DEF Local, Channel
  <2>2. QED
    BY <2>1 DEF File, Message
<1>2. progress # [ev |-> "finished", sending |-> FALSE]
  OBVIOUS
<1>3. c.recvfilestate \in Running /\ pos <= c.recvfile.size /\ ~(pos < c.recvfile.size)
  <2>1. r.cb # <<>>
    OBVIOUS
  <2>2. r # Failed(c)
    BY <2>1 DEF Failed
  <2>3. c.recvfilestate \in Running /\ ~(pos > c.recvfile.size)
    BY <2>2 DEF procmsg_FILEFRAGMENT, Running
  <2>4. r.cb # <<progress>>
    BY <1>2
  <2>5. ~(pos < c.recvfile.size)
    BY <2>3, <2>4 DEF procmsg_FILEFRAGMENT, Running, Done
  <2>6. QED
    BY <1>1, <2>3, <2>5
<1>4. pos = c.recvfile.size
  BY <1>1, <1>3
<1>5. m.id = c.recvfile.id /\ m.from = c.recvfile.pos
  BY <1>3
<1>6. c.written = Units(c.recvfile.id, 0, c.recvfile.pos)
  BY <1>3 DEF Local
<1>7. Units(c.recvfile.id, 0, c.recvfile.pos) \o Units(c.recvfile.id, c.recvfile.pos, m.n)
         = Units(c.recvfile.id, 0, pos)
  BY <1>1, UnitsJoin
<1>8. QED
  BY <1>4, <1>5, <1>6, <1>7

LEMMA ObeyFacts ==
    ASSUME NEW state, NEW running, NEW cmd \in Commands, running # "PAUSED"
    PROVE  /\ cmd = "VOID" => Obey(state, running, cmd) = state
           /\ cmd \in {"CANCEL", "IOERROR"} => Obey(state, running, cmd) = "IDLE"
           /\ cmd \in {"PAUSE", "RESUME"} /\ Obey(state, running, cmd) # "refused" =>
                 /\ {state, Obey(state, running, cmd)} \subseteq {running, "PAUSED"}
                 /\ Obey(state, running, cmd) # state
BY DEF Obey, Commands

LEMMA ControlGood ==
    ASSUME NEW c, Local(c), c.state = "ACTIVE", NEW m \in Message, m.type = "FILECONTROL",
           procmsg_FILECONTROL(c, m).ok
    PROVE  Good(c, m, procmsg_FILECONTROL(c, m))
<1> DEFINE recv == Obey(c.recvfilestate, "RECEIVING", m.snd)
           send == Obey(c.sendfilestate, "SENDING", m.rcv)
           stops(cmd) == cmd \in {"CANCEL", "IOERROR"}
           c1 == IF stops(m.snd) THEN StopReceiving(c) ELSE [c EXCEPT !.recvfilestate = recv]
           c2 == IF stops(m.rcv) THEN StopSending(c1) ELSE [c1 EXCEPT !.sendfilestate = send]
           r == procmsg_FILECONTROL(c, m)
<1>1. c \in Channel
  BY DEF Local
<1>2. m.snd \in Commands /\ m.rcv \in Commands
  BY DEF Message
<1>3. ~IsFrag(m) /\ ~IsReq(m) /\ ~IsAnswer(m)
  BY DEF IsFrag, IsReq, IsAnswer
<1>4. /\ m.rcv # "VOID" => c.sendfilestate \notin {"IDLE", "SENTREQ"}
      /\ m.snd # "VOID" => c.recvfilestate # "IDLE"
      /\ recv # "refused" /\ send # "refused"
      /\ \/ r = Crash(c, r.cb)
         \/ /\ stops(m.snd) => c.recvfile_stream
            /\ r = Done(c2, <<>>, r.cb)
  BY DEF procmsg_FILECONTROL, Failed, Crash, Done
<1>5. /\ m.snd = "VOID" => recv = c.recvfilestate
      /\ m.snd \in {"PAUSE", "RESUME"} =>
            {c.recvfilestate, recv} \subseteq Running /\ recv # c.recvfilestate
      /\ m.rcv = "VOID" => send = c.sendfilestate
      /\ m.rcv \in {"PAUSE", "RESUME"} =>
            {c.sendfilestate, send} \subseteq {"SENDING", "PAUSED"} /\ send # c.sendfilestate
  BY <1>2, <1>4, ObeyFacts DEF Running
<1>6. /\ c.sendfilestate \in SendStates /\ c.recvfilestate \in RecvStates
      /\ m.rcv # "VOID" => c.sendfilestate \in {"SENDING", "PAUSED"}
  BY <1>1, <1>4 DEF Channel, SendStates
<1>7. \A cmd \in Commands : cmd = "VOID" \/ cmd \in {"PAUSE", "RESUME"} \/ stops(cmd)
  BY DEF Commands
<1>8. Cmd(m, "snd") = m.snd /\ Cmd(m, "rcv") = m.rcv
  BY DEF Cmd
<1>9. Toggles = {"PAUSE", "RESUME"} /\ Halts = {"CANCEL", "IOERROR"}
  BY DEF Toggles, Halts
<1>10. /\ ~stops(m.snd) => recv \in RecvStates
       /\ ~stops(m.rcv) => send \in SendStates
  BY <1>2, <1>5, <1>6, <1>7 DEF Running, RecvStates, SendStates
<1> HIDE DEF recv, send, r
<1>11. CASE r = Crash(c, r.cb)
  <2>1. Good(c, m, Crash(c, r.cb))
    BY <1>1, CrashGood
  <2>2. QED
    BY <1>11, <2>1 DEF r
<1>12. CASE (stops(m.snd) => c.recvfile_stream) /\ r = Done(c2, <<>>, r.cb)
  <2>1. /\ c1 \in Channel /\ c1.state = c.state /\ SameSendSide(c, c1)
        /\ ~stops(m.snd) => /\ c1.recvfilestate = recv /\ c1.recvfile = c.recvfile
                            /\ c1.recvfile_stream = c.recvfile_stream /\ c1.written = c.written
        /\ stops(m.snd) => c1.recvfilestate = "IDLE" /\ c1.recvfile_stream = FALSE
    <3>1. CASE stops(m.snd)
      BY <1>1, <3>1, Stops
    <3>2. CASE ~stops(m.snd)
      BY <1>1, <1>10, <3>2 DEF Channel, SameSendSide
    <3>3. QED
      BY <3>1, <3>2
  <2> HIDE DEF c1
  <2>2. /\ c2 \in Channel /\ c2.state = c1.state /\ SameRecvSide(c1, c2)
        /\ ~stops(m.rcv) => /\ c2.sendfilestate = send /\ c2.sendfile = c1.sendfile
                            /\ c2.sendfile_stream = c1.sendfile_stream
        /\ stops(m.rcv) => c2.sendfilestate = "IDLE" /\ c2.sendfile_stream = "NULL"
    <3>1. CASE stops(m.rcv)
      BY <2>1, <3>1, Stops
    <3>2. CASE ~stops(m.rcv)
      BY <1>10, <2>1, <3>2 DEF Channel, SameRecvSide
    <3>3. QED
      BY <3>1, <3>2
  <2> HIDE DEF c2
  <2>3. stops(m.snd) => c.recvfilestate \in Running
    BY <1>12 DEF Local
  <2>4. /\ ReceiverMove(c, c2, m, <<>>) /\ RecvStep(c, c2, m, <<>>)
        /\ c2.recvfile_stream <=> c2.recvfilestate \in Running
        /\ c2.recvfilestate = "WAITACCEPT" => c2.written = <<>> /\ c2.recvfile.pos = 0
        /\ c2.recvfilestate \in Running => c2.written = Units(c2.recvfile.id, 0, c2.recvfile.pos)
    <3>1. CASE stops(m.snd)
      <4>1. c2.recvfilestate = "IDLE" /\ c2.recvfile_stream = FALSE
        BY <2>1, <2>2, <3>1 DEF SameRecvSide
      <4>2. RecvStep(c, c2, m, <<>>)
        BY <1>3, <1>8, <1>9, <2>3, <3>1, <4>1, NoMessages DEF RecvStep
      <4>3. QED
        BY <1>3, <2>3, <3>1, <4>1, <4>2, NoMessages DEF ReceiverMove, Running
    <3>2. CASE m.snd = "VOID"
      <4>1. /\ c2.recvfilestate = c.recvfilestate /\ c2.recvfile = c.recvfile
            /\ c2.recvfile_stream = c.recvfile_stream /\ c2.written = c.written
        BY <1>5, <2>1, <2>2, <3>2 DEF SameRecvSide
      <4>2. RecvStep(c, c2, m, <<>>)
        BY <1>3, <1>8, <3>2, <4>1, NoMessages DEF RecvStep
      <4>3. QED
        BY <1>3, <4>1, <4>2, NoMessages DEF ReceiverMove, SameRecv, Local
    <3>3. CASE m.snd \in {"PAUSE", "RESUME"}
      <4>1. /\ c.recvfilestate \in Running /\ c2.recvfilestate \in Running
            /\ c2.recvfilestate # c.recvfilestate /\ c2.recvfile = c.recvfile
            /\ c2.recvfile_stream = c.recvfile_stream /\ c2.written = c.written
        BY <1>5, <2>1, <2>2, <3>3 DEF SameRecvSide
      <4>2. RecvStep(c, c2, m, <<>>)
        BY <1>3, <1>8, <1>9, <3>3, <4>1, NoMessages DEF RecvStep
      <4>3. QED
        BY <1>3, <4>1, <4>2, NoMessages DEF ReceiverMove, SameRecv, Local, Running
    <3>4. QED
      BY <1>2, <1>7, <3>1, <3>2, <3>3
  <2>5. /\ SenderMove(c, c2, m, <<>>) /\ SendStep(c, c2, m, <<>>)
        /\ c2.sendfile_stream = "open" <=> c2.sendfilestate # "IDLE"
    <3>1. CASE stops(m.rcv)
      <4>1. c2.sendfilestate = "IDLE" /\ c2.sendfile_stream = "NULL"
        BY <2>2, <3>1
      <4>2. c.sendfilestate \in {"SENDING", "PAUSED"}
        BY <1>6, <3>1
      <4>3. SendStep(c, c2, m, <<>>)
        BY <1>3, <1>8, <1>9, <3>1, <4>1, <4>2, NoMessages DEF SendStep, Sending
      <4>4. QED
        BY <1>3, <4>1, <4>2, <4>3, NoMessages DEF SenderMove, Unasked
    <3>2. CASE m.rcv = "VOID"
      <4>1. /\ c2.sendfilestate = c.sendfilestate /\ c2.sendfile = c.sendfile
            /\ c2.sendfile_stream = c.sendfile_stream
        BY <1>5, <2>1, <2>2, <3>2 DEF SameSendSide
      <4>2. SendStep(c, c2, m, <<>>)
        BY <1>3, <1>8, <3>2, <4>1, NoMessages DEF SendStep
      <4>3. QED
        BY <1>3, <4>1, <4>2, NoMessages DEF SenderMove, SameSend, Unasked, Local
    <3>3. CASE m.rcv \in {"PAUSE", "RESUME"}
      <4>1. /\ c.sendfilestate \in {"SENDING", "PAUSED"}
            /\ c2.sendfilestate \in {"SENDING", "PAUSED"} /\ c2.sendfile = c.sendfile
            /\ c2.sendfile_stream = c.sendfile_stream
        BY <1>5, <2>1, <2>2, <3>3 DEF SameSendSide
      <4>2. c2.sendfilestate # c.sendfilestate
        BY <1>5, <2>2, <3>3
      <4>3. SendStep(c, c2, m, <<>>)
        BY <1>3, <1>8, <1>9, <3>3, <4>1, <4>2, NoMessages DEF SendStep, Sending
      <4>4. QED
        BY <1>3, <4>1, <4>3, NoMessages DEF SenderMove, SameSend, Unasked, Local
    <3>4. QED
      BY <1>2, <1>7, <3>1, <3>2, <3>3
  <2>6. Local(c2)
    BY <2>1, <2>2, <2>4, <2>5 DEF Local
  <2>7. Good(c, m, Done(c2, <<>>, r.cb))
    BY <2>1, <2>2, <2>4, <2>5, <2>6, NoMessages DEF Good, Done
  <2>8. QED
    BY <1>12, <2>7 DEF r
<1>13. QED
  BY <1>4, <1>11, <1>12


LEMMA HandleGood ==
    ASSUME NEW c, Local(c), c.state = "ACTIVE", NEW m \in Message,
           c.recvfilestate \in Running /\ IsFrag(m) => m.id = c.recvfile.id /\ m.from = c.recvfile.pos,
           NEW answer, NEW works \in BOOLEAN, Handle(c, m, answer, works).ok
    PROVE  Good(c, m, Handle(c, m, answer, works))
<1>0. m.type \in {"SENDFILEREQUEST", "ACCEPTEDFILE", "DENIEDFILE", "FILEFRAGMENT", "FILECONTROL"}
  BY DEF Message
<1>1. CASE m.type = "SENDFILEREQUEST"
  <2>1. Handle(c, m, answer, works) = procmsg_SENDFILEREQUEST(c, m, answer, works)
    BY <1>1 DEF Handle
  <2>2. QED
    BY <1>1, <2>1, RequestGood
<1>2. CASE m.type = "ACCEPTEDFILE"
  <2>1. Handle(c, m, answer, works) = procmsg_ACCEPTEDFILE(c)
    BY <1>2 DEF Handle
  <2>2. QED
    BY <1>2, <2>1, AcceptedGood
<1>3. CASE m.type = "DENIEDFILE"
  <2>1. Handle(c, m, answer, works) = procmsg_DENIEDFILE(c)
    BY <1>3 DEF Handle
  <2>2. QED
    BY <1>3, <2>1, DeniedGood
<1>4. CASE m.type = "FILEFRAGMENT"
  <2>1. Handle(c, m, answer, works) = procmsg_FILEFRAGMENT(c, m, works)
    BY <1>4 DEF Handle
  <2>2. c.recvfilestate \in Running => m.id = c.recvfile.id /\ m.from = c.recvfile.pos
    BY <1>4 DEF IsFrag
  <2>3. QED
    BY <1>4, <2>1, <2>2, FragmentGood
<1>5. CASE m.type = "FILECONTROL"
  <2>1. Handle(c, m, answer, works) = procmsg_FILECONTROL(c, m)
    BY <1>5 DEF Handle
  <2>2. QED
    BY <1>5, <2>1, ControlGood
<1>6. QED
  BY <1>0, <1>1, <1>2, <1>3, <1>4, <1>5

\* Only the last fragment of a file makes a handler report a file as received.
LEMMA HandleCompletes ==
    ASSUME NEW c, Local(c), NEW m \in Message,
           c.recvfilestate \in Running /\ IsFrag(m) => m.id = c.recvfile.id /\ m.from = c.recvfile.pos,
           NEW answer, NEW works \in BOOLEAN,
           NEW i \in DOMAIN Handle(c, m, answer, works).cb,
           Handle(c, m, answer, works).cb[i] = [ev |-> "finished", sending |-> FALSE]
    PROVE  c.written \o Units(m.id, m.from, m.n) = Units(c.recvfile.id, 0, c.recvfile.size)
<1>0. m.type \in {"SENDFILEREQUEST", "ACCEPTEDFILE", "DENIEDFILE", "FILEFRAGMENT", "FILECONTROL"}
  BY DEF Message
<1>1. m.type # "SENDFILEREQUEST"
  <2> SUFFICES ASSUME m.type = "SENDFILEREQUEST" PROVE FALSE
    OBVIOUS
  <2> DEFINE r == procmsg_SENDFILEREQUEST(c, m, answer, works)
             asked == <<[ev |-> "request", size |-> m.size]>>
  <2>1. Handle(c, m, answer, works) = r
    BY DEF Handle
  <2>2. r.cb = <<>> \/ r.cb = asked
    BY DEF procmsg_SENDFILEREQUEST, Failed, Done, PICA_accept_file, PICA_deny_file
  <2> HIDE DEF r
  <2>3. QED
    BY <2>1, <2>2
<1>2. m.type # "ACCEPTEDFILE"
  BY DEF Handle, procmsg_ACCEPTEDFILE, Failed, Done
<1>3. m.type # "DENIEDFILE"
  BY DEF Handle, procmsg_DENIEDFILE, Failed, Done
<1>4. m.type # "FILECONTROL"
  <2> SUFFICES ASSUME m.type = "FILECONTROL" PROVE FALSE
    OBVIOUS
  <2> DEFINE r == procmsg_FILECONTROL(c, m)
             event == <<[ev |-> "control", snd |-> m.snd, rcv |-> m.rcv]>>
  <2>1. Handle(c, m, answer, works) = r
    BY DEF Handle
  <2>2. r.cb = <<>> \/ r.cb = event
    BY DEF procmsg_FILECONTROL, Failed, Done, Crash
  <2> HIDE DEF r
  <2>3. QED
    BY <2>1, <2>2
<1>5. m.type = "FILEFRAGMENT"
  BY <1>0, <1>1, <1>2, <1>3, <1>4
<1>6. Handle(c, m, answer, works) = procmsg_FILEFRAGMENT(c, m, works)
  BY <1>5 DEF Handle
<1>7. c.recvfilestate \in Running => m.id = c.recvfile.id /\ m.from = c.recvfile.pos
  BY <1>5 DEF IsFrag
<1>8. QED
  BY <1>5, <1>6, <1>7, FragmentCompletes


-----------------------------------------------------------------------------
(* The two channels and what is under way between them *)

FileInv ==
    /\ chan \in [Peers -> Channel]
    /\ wire \in [Peers -> Seq(Message)]
    /\ \A p \in Peers : Local(chan[p])
    /\ \A p \in Peers : Direction(chan[Other(p)], chan[p], wire[Other(p)], wire[p])
    /\ \A p \in Peers : Agreement(chan[Other(p)], chan[p], wire[Other(p)], wire[p])

LEMMA DeadEnds ==
    ASSUME NEW c \in Channel, NEW s \in {"CLOSED", "CRASHED"}
    PROVE  LET d == [NewChannel EXCEPT !.state = s, !.sent = c.sent]
           IN  d \in Channel /\ Local(d) /\ d.state = s /\ d.sendfilestate = "IDLE"
<1>1. c.sent \in Nat
  BY DEF Channel
<1>2. QED
  BY <1>1, NewIsLocal DEF NewChannel, Channel, Local, Running

\* An end that closes or dies takes its half of the transfers with it; the messages it
\* has sent stay.
LEMMA EndCloses ==
    ASSUME FileInv, NEW p \in Peers, NEW d \in Channel, Local(d), d.state # "ACTIVE",
           chan' = [chan EXCEPT ![p] = d],
           wire' \in [Peers -> Seq(Message)], wire'[p] = wire[p]
    PROVE  FileInv'
<1> DEFINE q == Other(p)
<1>1. q \in Peers /\ q # p /\ Other(q) = p /\ \A r \in Peers : r = p \/ r = q
  BY TwoPeers
<1>2. /\ chan' \in [Peers -> Channel] /\ chan'[p] = d
      /\ chan'[q] = chan[q]
  BY <1>1 DEF FileInv
<1> HIDE DEF q
<1>3. Direction(chan'[q], chan'[p], wire'[q], wire'[p])
  BY <1>2 DEF Direction
<1>4. Direction(chan[p], chan[q], wire[p], wire[q])
  BY <1>1 DEF FileInv
<1>5. Direction(chan'[p], chan'[q], wire'[p], wire'[q])
  BY <1>2, <1>4 DEF Direction
<1>6. \A r \in Peers : Direction(chan'[Other(r)], chan'[r], wire'[Other(r)], wire'[r])
  <2>1. Other(p) = q
    BY DEF q
  <2>2. QED
    BY <1>1, <1>3, <1>5, <2>1
<1>7. \A r \in Peers : Agreement(chan'[Other(r)], chan'[r], wire'[Other(r)], wire'[r])
  <2>1. Other(p) = q
    BY DEF q
  <2>2. QED
    BY <1>1, <1>2, <2>1 DEF Agreement
<1>8. \A r \in Peers : Local(chan'[r])
  BY <1>1, <1>2 DEF FileInv
<1>9. QED
  BY <1>2, <1>6, <1>8, <1>7 DEF FileInv

\* A call or a handler at one end: m is the message it has taken, if any.
LEMMA EndStep ==
    ASSUME FileInv, NEW p \in Peers, NEW m, NEW r, chan[p].state = "ACTIVE",
           Good(chan[p], m, r), chan' = [chan EXCEPT ![p] = Dead(r.chan)],
           wire' \in [Peers -> Seq(Message)], wire'[p] = wire[p] \o r.out,
           Took(wire[Other(p)], m, wire'[Other(p)])
    PROVE  FileInv'
<1> DEFINE q == Other(p)
<1>1. q \in Peers /\ q # p /\ Other(q) = p /\ \A s \in Peers : s = p \/ s = q
  BY TwoPeers
<1>2. CASE r.chan.state = "CRASHED" /\ r.out = <<>>
  <2>1. r.chan \in Channel
    BY DEF Good
  <2>2. Dead(r.chan) \in Channel /\ Local(Dead(r.chan)) /\ Dead(r.chan).state # "ACTIVE"
    BY <1>2, <2>1, DeadEnds DEF Dead
  <2>3. wire[p] \in Seq(Message)
    BY DEF FileInv
  <2>4. wire'[p] = wire[p]
    BY <1>2, <2>3, ConcatEmptySeq
  <2>5. QED
    BY <2>2, <2>4, EndCloses
<1>3. CASE /\ r.chan.state = chan[p].state /\ Local(r.chan)
           /\ SenderMove(chan[p], r.chan, m, r.out)
           /\ ReceiverMove(chan[p], r.chan, m, r.out)
           /\ SendStep(chan[p], r.chan, m, r.out)
           /\ RecvStep(chan[p], r.chan, m, r.out)
  <2>1. r.chan \in Channel /\ r.out \in Seq(Message) /\ Len(r.out) <= 1
    BY DEF Good
  <2>2. /\ chan' \in [Peers -> Channel] /\ chan'[p] = r.chan
        /\ chan'[q] = chan[q]
    BY <1>1, <1>3, <2>1 DEF FileInv, Dead
  <2>3. wire[p] \in Seq(Message) /\ wire[q] \in Seq(Message)
    BY <1>1 DEF FileInv
  <2>4. Local(chan[p])
    BY DEF FileInv
  <2>5. Took(wire[q], m, wire'[q]) /\ Other(p) = q
    OBVIOUS
  <2> HIDE DEF q
  <2>6. /\ Direction(chan[p], chan[q], wire[p], wire[q])
        /\ Direction(chan[q], chan[p], wire[q], wire[p])
        /\ Agreement(chan[p], chan[q], wire[p], wire[q])
        /\ Agreement(chan[q], chan[p], wire[q], wire[p])
    BY <1>1, <2>5 DEF FileInv
  <2>7. Direction(r.chan, chan[q], wire[p] \o r.out, wire'[q])
    BY <1>3, <2>1, <2>3, <2>5, <2>6, SenderStep
  <2>8. Direction(chan[q], r.chan, wire'[q], wire[p] \o r.out)
    <3>1. chan[p].recvfilestate = "WAITACCEPT" => chan[p].recvfile.pos = 0
      BY <2>4 DEF Local
    <3>2. QED
      BY <1>3, <2>1, <2>3, <2>5, <2>6, <3>1, ReceiverStep
  <2>9. /\ Direction(chan'[p], chan'[q], wire'[p], wire'[q])
        /\ Direction(chan'[q], chan'[p], wire'[q], wire'[p])
    BY <2>2, <2>7, <2>8
  <2>10. \A s \in Peers : Direction(chan'[Other(s)], chan'[s], wire'[Other(s)], wire'[s])
    BY <1>1, <2>5, <2>9
  <2>11. \A s \in Peers : Local(chan'[s])
    BY <1>1, <1>3, <2>2 DEF FileInv
  <2>12. Agreement(r.chan, chan[q], wire[p] \o r.out, wire'[q])
    BY <1>3, <2>1, <2>3, <2>5, <2>6, SenderAgrees
  <2>13. Agreement(chan[q], r.chan, wire'[q], wire[p] \o r.out)
    BY <1>3, <2>1, <2>3, <2>5, <2>6, ReceiverAgrees
  <2>14. \A s \in Peers : Agreement(chan'[Other(s)], chan'[s], wire'[Other(s)], wire'[s])
    BY <1>1, <2>2, <2>5, <2>12, <2>13
  <2>15. QED
    BY <2>2, <2>10, <2>11, <2>14 DEF FileInv
<1>4. QED
  BY <1>2, <1>3 DEF Good

\* A call of the application, and the sending of a fragment.
LEMMA CallStep ==
    ASSUME FileInv, NEW p \in Peers, NEW r, chan[p].state = "ACTIVE",
           Good(chan[p], Nothing, r), Apply(p, r)
    PROVE  FileInv'
<1>1. Other(p) \in Peers /\ Other(p) # p
  BY TwoPeers
<1>2. wire \in [Peers -> Seq(Message)] /\ wire[p] \in Seq(Message)
  BY DEF FileInv
<1>3. r.out \in Seq(Message) /\ Len(r.out) <= 1
  BY DEF Good
<1>4. wire[p] \o r.out \in Seq(Message)
  BY <1>2, <1>3, Sends
<1>5. /\ wire' \in [Peers -> Seq(Message)] /\ wire'[p] = wire[p] \o r.out
      /\ wire'[Other(p)] = wire[Other(p)]
  BY <1>1, <1>2, <1>4 DEF Apply
<1>6. Took(wire[Other(p)], Nothing, wire'[Other(p)])
  BY <1>5 DEF Took
<1>7. chan' = [chan EXCEPT ![p] = Dead(r.chan)]
  BY DEF Apply
<1>8. QED
  BY <1>5, <1>6, <1>7, EndStep

\* A call that fails leaves an end that is not dead as it was.
LEMMA FailedCall ==
    ASSUME FileInv, NEW p \in Peers, Apply(p, Failed(chan[p]))
    PROVE  FileInv' /\ (chan[p].state = "ACTIVE" => chan'[p] = chan[p])
<1>1. /\ chan' = [chan EXCEPT ![p] = Dead(chan[p])]
      /\ wire' = [wire EXCEPT ![p] = @ \o <<>>]
  BY DEF Apply, Failed
<1>2. /\ wire \in [Peers -> Seq(Message)] /\ wire[p] \in Seq(Message)
      /\ chan \in [Peers -> Channel] /\ chan[p] \in Channel /\ Local(chan[p])
  BY DEF FileInv
<1>3. wire[p] \o <<>> = wire[p]
  BY <1>2, ConcatEmptySeq
<1>4. wire' = wire
  BY <1>1, <1>2, <1>3
<1>5. CASE chan[p].state = "CRASHED"
  <2>1. Dead(chan[p]) \in Channel /\ Local(Dead(chan[p])) /\ Dead(chan[p]).state # "ACTIVE"
    BY <1>2, <1>5, DeadEnds DEF Dead
  <2>2. QED
    BY <1>1, <1>2, <1>4, <1>5, <2>1, EndCloses
<1>6. CASE chan[p].state # "CRASHED"
  <2>1. chan' = chan
    BY <1>1, <1>2, <1>6 DEF Dead
  <2>2. FileInv' <=> FileInv
    BY <1>4, <2>1 DEF FileInv
  <2>3. QED
    BY <2>1, <2>2
<1>7. QED
  BY <1>5, <1>6


\* The next message of the peer is what the receiving side expects.
LEMMA NextIsExpected ==
    ASSUME FileInv, NEW p \in Peers, chan[p].state = "ACTIVE", wire[Other(p)] # <<>>
    PROVE  /\ Head(wire[Other(p)]) \in Message
           /\ chan[p].recvfilestate \in Running /\ IsFrag(Head(wire[Other(p)])) =>
                 /\ Head(wire[Other(p)]).id = chan[p].recvfile.id
                 /\ Head(wire[Other(p)]).from = chan[p].recvfile.pos
<1> DEFINE w == wire[Other(p)]
<1>1. Other(p) \in Peers /\ w \in Seq(Message)
  BY TwoPeers DEF FileInv
<1>2. Head(w) \in Message /\ Head(w) = w[1] /\ 1 \in 1..Len(w)
  BY <1>1
<1>3. Direction(chan[Other(p)], chan[p], w, wire[p])
  BY DEF FileInv
<1> HIDE DEF w
<1>4. ASSUME chan[p].recvfilestate \in Running, IsFrag(w[1])
      PROVE  w[1].id = chan[p].recvfile.id /\ w[1].from = chan[p].recvfile.pos
  <2>1. Continues(w, chan[p].recvfile.id, chan[p].recvfile.pos)
    BY <1>3, <1>4 DEF Direction
  <2>2. FirstFrag(w, 1)
    <3>1. \A j \in 1..Len(w) : ~(j < 1)
      OBVIOUS
    <3>2. QED
      BY <1>4, <3>1 DEF FirstFrag
  <2>3. QED
    BY <1>2, <1>4, <2>1, <2>2 DEF Continues
<1>5. QED
  BY <1>2, <1>4 DEF w

\* What has been stored of the files that were reported as received.
Received == [size : Nat, id : Nat, data : Seq(Nat \X Nat)]

DoneInv == done \in [Peers -> SUBSET Received] /\ WholeFile

LEMMA ReadStep ==
    ASSUME FileInv, DoneInv, NEW p \in Peers, NEW answer, NEW works \in BOOLEAN,
           Read(p, answer, works)
    PROVE  FileInv' /\ DoneInv'
<1> DEFINE q == Other(p)
           m == Head(wire[q])
           r == Handle(chan[p], m, answer, works)
<1>1. q \in Peers /\ q # p /\ \A s \in Peers : s = p \/ s = q
  BY TwoPeers
<1>2. /\ chan[p].state = "ACTIVE" /\ wire[q] # <<>>
      /\ chan' = [chan EXCEPT ![p] = IF r.ok THEN Dead(r.chan) ELSE PICA_close_c2c(@)]
      /\ wire' = [wire EXCEPT ![q] = Tail(@), ![p] = @ \o r.out]
  BY DEF Read
<1>3. /\ m \in Message
      /\ chan[p].recvfilestate \in Running /\ IsFrag(m) =>
            m.id = chan[p].recvfile.id /\ m.from = chan[p].recvfile.pos
  BY <1>2, NextIsExpected
<1>4. Local(chan[p]) /\ chan[p] \in Channel
  BY DEF FileInv
<1>5. /\ wire \in [Peers -> Seq(Message)] /\ wire[p] \in Seq(Message) /\ wire[q] \in Seq(Message)
      /\ chan \in [Peers -> Channel]
  BY <1>1 DEF FileInv
<1>6. Tail(wire[q]) \in Seq(Message) /\ Removed(wire[q], Tail(wire[q]), m)
  BY <1>2, <1>5, Reads
<1>8. done' = IF \E i \in DOMAIN r.cb : r.cb[i] = [ev |-> "finished", sending |-> FALSE]
              THEN [done EXCEPT ![p] = @ \cup {[size |-> chan[p].recvfile.size,
                        id |-> chan[p].recvfile.id,
                        data |-> chan[p].written \o Units(m.id, m.from, m.n)]}]
              ELSE done
  BY DEF Read
<1>9. DoneInv'
  <2>1. CASE \E i \in DOMAIN r.cb : r.cb[i] = [ev |-> "finished", sending |-> FALSE]
    <3> DEFINE data == chan[p].written \o Units(m.id, m.from, m.n)
               new == [size |-> chan[p].recvfile.size, id |-> chan[p].recvfile.id, data |-> data]
    <3>1. data = Units(chan[p].recvfile.id, 0, chan[p].recvfile.size)
      BY <1>3, <1>4, <2>1, HandleCompletes
    <3>2. chan[p].recvfile.id \in Nat /\ chan[p].recvfile.size \in Nat
      BY <1>4 DEF Channel, File
    <3>3. data \in Seq(Nat \X Nat)
      <4>1. 0 \in Nat
        OBVIOUS
      <4>2. Units(chan[p].recvfile.id, 0, chan[p].recvfile.size) \in Seq(Nat \X Nat)
        BY <3>2, <4>1, UnitsType
      <4>3. QED
        BY <3>1, <4>2
    <3>4. done' = [done EXCEPT ![p] = @ \cup {new}]
      BY <1>8, <2>1
    <3> HIDE DEF data, r, m
    <3>5. new \in Received /\ new.data = Units(new.id, 0, new.size)
      BY <3>1, <3>2, <3>3 DEF Received
    <3> HIDE DEF new
    <3>6. done' \in [Peers -> SUBSET Received]
      BY <3>4, <3>5 DEF DoneInv
    <3>7. ASSUME NEW s \in Peers, NEW f \in done'[s]
          PROVE  f.data = Units(f.id, 0, f.size)
      <4>1. f \in done[s] \/ f = new
        BY <3>4 DEF DoneInv
      <4>2. QED
        BY <3>5, <4>1 DEF DoneInv, WholeFile
    <3>8. QED
      BY <3>6, <3>7 DEF DoneInv, WholeFile
  <2>2. CASE ~\E i \in DOMAIN r.cb : r.cb[i] = [ev |-> "finished", sending |-> FALSE]
    <3>1. done' = done
      BY <1>8, <2>2
    <3>2. QED
      BY <3>1 DEF DoneInv, WholeFile
  <2>3. QED
    BY <2>1, <2>2
<1>10. CASE r.ok
  <2>1. Good(chan[p], m, r)
    BY <1>2, <1>3, <1>4, <1>10, HandleGood
  <2> HIDE DEF r
  <2>2. wire[p] \o r.out \in Seq(Message)
    BY <1>5, <2>1, Sends DEF Good
  <2>3. /\ wire' \in [Peers -> Seq(Message)] /\ wire'[p] = wire[p] \o r.out
        /\ wire'[q] = Tail(wire[q])
    BY <1>1, <1>2, <1>5, <1>6, <2>2
  <2>4. Took(wire[q], m, wire'[q])
    BY <1>6, <2>3 DEF Took
  <2>5. chan' = [chan EXCEPT ![p] = Dead(r.chan)]
    BY <1>2, <1>10
  <2>6. FileInv'
    BY <1>2, <2>1, <2>3, <2>4, <2>5, EndStep
  <2>7. QED
    BY <1>9, <2>6
<1>11. CASE ~r.ok
  <2>1. r.out = <<>>
    <3>1. m.type \in {"SENDFILEREQUEST", "ACCEPTEDFILE", "DENIEDFILE", "FILEFRAGMENT", "FILECONTROL"}
      BY <1>3 DEF Message
    <3>2. QED
      BY <1>11, <3>1 DEF Handle, procmsg_SENDFILEREQUEST, procmsg_ACCEPTEDFILE, procmsg_DENIEDFILE,
         procmsg_FILEFRAGMENT, procmsg_FILECONTROL, PICA_accept_file, PICA_deny_file, Done, Failed, Crash
  <2> HIDE DEF r
  <2>2. wire[p] \o r.out = wire[p]
    BY <1>5, <2>1, ConcatEmptySeq
  <2>3. wire' \in [Peers -> Seq(Message)] /\ wire'[p] = wire[p]
    BY <1>1, <1>2, <1>5, <1>6, <2>2
  <2>4. /\ PICA_close_c2c(chan[p]) \in Channel /\ Local(PICA_close_c2c(chan[p]))
        /\ PICA_close_c2c(chan[p]).state # "ACTIVE"
    BY <1>4, DeadEnds DEF PICA_close_c2c
  <2>5. chan' = [chan EXCEPT ![p] = PICA_close_c2c(chan[p])]
    BY <1>2, <1>11
  <2>6. FileInv'
    BY <2>3, <2>4, <2>5, EndCloses
  <2>7. QED
    BY <1>9, <2>6
<1>12. QED
  BY <1>10, <1>11

LEMMA DisconnectedStep ==
    ASSUME FileInv, NEW p \in Peers, Disconnected(p)
    PROVE  FileInv'
<1>1. chan' = [chan EXCEPT ![p] = PICA_close_c2c(chan[p])] /\ wire' = wire
  BY DEF Disconnected
<1>2. chan[p] \in Channel /\ wire \in [Peers -> Seq(Message)]
  BY DEF FileInv
<1>3. /\ PICA_close_c2c(chan[p]) \in Channel /\ Local(PICA_close_c2c(chan[p]))
      /\ PICA_close_c2c(chan[p]).state # "ACTIVE"
  BY <1>2, DeadEnds DEF PICA_close_c2c
<1>4. QED
  BY <1>1, <1>2, <1>3, EndCloses

LEMMA CrashStep ==
    ASSUME FileInv, NEW p \in Peers, UNCHANGED wire,
           chan' = [chan EXCEPT ![p] = Dead([@ EXCEPT !.state = "CRASHED"])]
    PROVE  FileInv' /\ chan'[p].state = "CRASHED" /\ chan'[p].sendfilestate = "IDLE"
<1> DEFINE d == Dead([chan[p] EXCEPT !.state = "CRASHED"])
<1>1. chan[p] \in Channel /\ chan \in [Peers -> Channel] /\ wire \in [Peers -> Seq(Message)]
  BY DEF FileInv
<1>2. d = [NewChannel EXCEPT !.state = "CRASHED", !.sent = chan[p].sent]
  BY <1>1 DEF Dead, Channel
<1>3. d \in Channel /\ Local(d) /\ d.state = "CRASHED" /\ d.sendfilestate = "IDLE"
  BY <1>1, <1>2, DeadEnds
<1>4. chan' = [chan EXCEPT ![p] = d]
  OBVIOUS
<1> HIDE DEF d
<1>5. FileInv'
  BY <1>1, <1>3, <1>4, EndCloses
<1>6. QED
  BY <1>1, <1>3, <1>4, <1>5

\* A step of the library that goes on sending the same file, or none.
SameSent(c, t) ==
    t.sendfilestate # "IDLE" =>
        /\ c.sendfilestate # "IDLE"
        /\ t.sendfile.id = c.sendfile.id /\ t.sendfile.size = c.sendfile.size

LEMMA FileChangesStep ==
    ASSUME FileInv, NEW p \in Peers, FileChanges(p)
    PROVE  FileInv' /\ SameSent(chan[p], chan'[p]) /\ chan'[p].state = chan[p].state
<1>1. PICK len \in 0..(chan[p].sendfile.size + 1) : chan' = [chan EXCEPT ![p].sendfile.len = len]
  BY DEF FileChanges
<1>2. /\ chan[p].sendfile_stream = "open" /\ wire' = wire
  BY DEF FileChanges
<1> DEFINE c == chan[p]
           f == [c.sendfile EXCEPT !.len = len]
           t == [c EXCEPT !.sendfile = f]
<1>3. c \in Channel /\ Local(c) /\ chan \in [Peers -> Channel] /\ wire \in [Peers -> Seq(Message)]
  BY DEF FileInv
<1>4. c.sendfilestate # "IDLE" /\ c.state = "ACTIVE"
  BY <1>2, <1>3 DEF Local, Channel
<1>5. c.sendfile \in File /\ len \in Nat
  BY <1>3 DEF Channel, File
<1>6. f \in File /\ f.id = c.sendfile.id /\ f.pos = c.sendfile.pos /\ f.size = c.sendfile.size
  BY <1>5 DEF File
<1>7. chan' = [chan EXCEPT ![p] = t]
  BY <1>1
<1> HIDE DEF f
<1>8. /\ t \in Channel /\ t.state = c.state /\ SameRecvSide(c, t)
      /\ t.sendfilestate = c.sendfilestate /\ t.sendfile = f
      /\ t.sendfile_stream = c.sendfile_stream
  BY <1>3, <1>6 DEF Channel, SameRecvSide
<1> HIDE DEF t, c
<1>9. SenderMove(c, t, Nothing, <<>>)
  BY <1>6, <1>8, NoMessages, Messages DEF SenderMove, Unasked, SameSend
<1>10. t.sendfile_stream = "open" <=> t.sendfilestate # "IDLE"
  BY <1>3, <1>8 DEF Local
<1>11. Cmd(Nothing, "snd") = "VOID" /\ Cmd(Nothing, "rcv") = "VOID"
  BY Contents
<1>12. SendStep(c, t, Nothing, <<>>)
  BY <1>6, <1>8, <1>11, NoMessages, Messages DEF SendStep
<1>13. Good(c, Nothing, Done(t, <<>>, <<>>))
  BY <1>3, <1>4, <1>8, <1>9, <1>10, <1>11, <1>12, NoMessages, Messages, SendOnly
<1>14. Dead(t) = t /\ Done(t, <<>>, <<>>).chan = t /\ Done(t, <<>>, <<>>).out = <<>>
  BY <1>4, <1>8 DEF Dead, Done
<1>15. wire[p] \o <<>> = wire[p]
  <2>1. wire[p] \in Seq(Message)
    BY <1>3
  <2>2. QED
    BY <2>1, ConcatEmptySeq
<1>16. Took(wire[Other(p)], Nothing, wire'[Other(p)])
  BY <1>2 DEF Took
<1>17. FileInv'
  BY <1>2, <1>3, <1>4, <1>7, <1>13, <1>14, <1>15, <1>16, EndStep DEF c
<1>18. SameSent(c, t) /\ chan'[p] = t
  BY <1>3, <1>6, <1>7, <1>8 DEF SameSent, c
<1>19. QED
  BY <1>8, <1>17, <1>18 DEF c


-----------------------------------------------------------------------------
(* The graphical client *)

MaybeDialog == Dialogs \cup {None}

Gui == [active_filetransfers : Int, alive : BOOLEAN,
        modal : {"none", "save", "in", "out"}, forgotten : Nat,
        ftdialogs_in : MaybeDialog, ftdialogs_out : MaybeDialog, wired_in : Nat, wired_out : Nat]

\* The dialog of the file that is being sent: it has the file's size, and so is not
\* finished before the file is.
Owns(c, d) ==
    /\ d # None /\ d.file = c.sendfile.id /\ d.size = c.sendfile.size
    /\ c.sendfile.size > 0 => d.righton

HasDialog(c, g) ==
    c.sendfilestate # "IDLE" /\ c.sendfile.id # g.forgotten => Owns(c, g.ftdialogs_out)

\* A client whose channel is open is alive, and has the dialog of the file it sends.
DialogOK(c, g) == (c.state = "ACTIVE" => g.alive) /\ HasDialog(c, g)

GuiInv ==
    /\ app \in [Peers -> Apps]
    /\ gui \in [Peers -> Gui]
    /\ \A p \in Peers : app[p] = "gui" => DialogOK(chan[p], gui[p])

LEMMA DialogTypes ==
    ASSUME NEW d \in Dialogs
    PROVE  /\ d # None
           /\ Terminal(d) \in Dialogs
           /\ \A b \in BOOLEAN : [d EXCEPT !.lefton = b] \in Dialogs
           /\ \A l \in {"Accept", "Pause", "Resume"} : [d EXCEPT !.left = l] \in Dialogs
<1>1. d # None
  BY DialogsAssumption
<1>2. QED
  BY <1>1 DEF Terminal, Dialogs

LEMMA NewDialog ==
    ASSUME NEW file \in Nat, NEW size \in Nat, NEW left \in {"Accept", "Pause", "Resume"},
           NEW lefton \in BOOLEAN
    PROVE  LET d == Dialog(file, size, left, lefton)
           IN  /\ d \in Dialogs /\ d # None /\ d.file = file /\ d.size = size
               /\ size > 0 => d.righton
<1> DEFINE d == Dialog(file, size, left, lefton)
           e == [file |-> file, size |-> size, left |-> left, lefton |-> lefton, righton |-> TRUE]
<1>a. e \in Dialogs /\ e.file = file /\ e.size = size /\ e.righton
  BY DEF Dialogs
<1>b. Terminal(e) \in Dialogs /\ Terminal(e).file = file /\ Terminal(e).size = size
  BY DEF Dialogs, Terminal
<1>c. d = IF size = 0 THEN Terminal(e) ELSE e
  BY DEF Dialog
<1> HIDE DEF d, e
<1>1. d \in Dialogs /\ d.file = file /\ d.size = size /\ (size > 0 => d.righton)
  <2>1. CASE size = 0
    BY <1>b, <1>c, <2>1
  <2>2. CASE size # 0
    BY <1>a, <1>c, <2>2
  <2>3. QED
    BY <2>1, <2>2
<1>2. d # None
  BY <1>1, DialogTypes
<1>3. QED
  BY <1>1, <1>2 DEF d

\* A dialog that stays the dialog of its file, with the same right button.
SameDialog(d, e) ==
    d # None => e # None /\ e.file = d.file /\ e.size = d.size /\ e.righton = d.righton

\* A step of a slot that touches the dialogs of received files only.
SameOut(g, h) ==
    h.alive = g.alive /\ h.forgotten = g.forgotten /\ h.ftdialogs_out = g.ftdialogs_out

\* A step of a slot that keeps the dialog of the file that is being sent.
KeepsOut(g, h) == h.forgotten = g.forgotten /\ SameDialog(g.ftdialogs_out, h.ftdialogs_out)

LEMMA DialogKept ==
    ASSUME NEW c, NEW t, NEW g, NEW h, HasDialog(c, g), SameSent(c, t), KeepsOut(g, h)
    PROVE  HasDialog(t, h)
BY DEF HasDialog, SameSent, KeepsOut, SameDialog, Owns

LEMMA SameOutKeeps ==
    ASSUME NEW g, NEW h, SameOut(g, h)
    PROVE  KeepsOut(g, h)
BY DEF SameOut, KeepsOut, SameDialog

LEMMA RequestSlot ==
    ASSUME NEW g \in Gui, NEW size \in Nat
    PROVE  file_request(g, size) \in Gui /\ SameOut(g, file_request(g, size))
<1> DEFINE d == Dialog(0, size, "Accept", TRUE)
<1>1. d \in MaybeDialog
  BY NewDialog DEF MaybeDialog
<1> HIDE DEF d
<1>2. [g EXCEPT !.ftdialogs_in = d] \in Gui /\ SameOut(g, [g EXCEPT !.ftdialogs_in = d])
  BY <1>1 DEF Gui, SameOut
<1>3. QED
  BY <1>2 DEF file_request, d

LEMMA CountSlot ==
    ASSUME NEW g \in Gui
    PROVE  /\ active_filetransfers_up(g) \in Gui /\ SameOut(g, active_filetransfers_up(g))
           /\ active_filetransfers_up(g).ftdialogs_in = g.ftdialogs_in
           /\ active_filetransfers_down(g) \in Gui /\ SameOut(g, active_filetransfers_down(g))
           /\ active_filetransfers_down(g).ftdialogs_in = g.ftdialogs_in
<1>1. g.active_filetransfers + 1 \in Int /\ g.active_filetransfers - 1 \in Int
  BY DEF Gui
<1>2. QED
  BY <1>1 DEF Gui, active_filetransfers_up, active_filetransfers_down, SameOut

LEMMA AcceptedSlot ==
    ASSUME NEW g \in Gui, file_accepted_by_peer(g).alive
    PROVE  /\ file_accepted_by_peer(g) \in Gui /\ file_accepted_by_peer(g).alive = g.alive
           /\ KeepsOut(g, file_accepted_by_peer(g))
<1> DEFINE w == [g EXCEPT !.wired_out = @ + 1]
           d == [g.ftdialogs_out EXCEPT !.lefton = TRUE]
<1>1. /\ w \in Gui /\ w.alive = g.alive /\ w.ftdialogs_out = g.ftdialogs_out
      /\ w.forgotten = g.forgotten
  <2>1. g.wired_out + 1 \in Nat
    BY DEF Gui
  <2>2. QED
    BY <2>1 DEF Gui
<1>2. g.ftdialogs_out # None
  BY <1>1 DEF file_accepted_by_peer, NullDialog, Gui
<1>3. g.ftdialogs_out \in Dialogs
  BY <1>2 DEF Gui, MaybeDialog
<1>4. d \in Dialogs
  BY <1>3, DialogTypes
<1>5. d # None /\ d \in MaybeDialog /\ SameDialog(g.ftdialogs_out, d)
  <2>1. d # None /\ d \in MaybeDialog
    BY <1>4, DialogTypes DEF MaybeDialog
  <2>2. d.file = g.ftdialogs_out.file /\ d.size = g.ftdialogs_out.size
    BY <1>3 DEF Dialogs
  <2>3. d.righton = g.ftdialogs_out.righton
    BY <1>3 DEF Dialogs
  <2>4. QED
    BY <2>1, <2>2, <2>3 DEF SameDialog
<1>6. file_accepted_by_peer(g) = [w EXCEPT !.ftdialogs_out = d]
  BY <1>1, <1>2 DEF file_accepted_by_peer
<1> HIDE DEF w, d
<1>7. [w EXCEPT !.ftdialogs_out = d] \in Gui
  BY <1>1, <1>5 DEF Gui
<1>8. /\ [w EXCEPT !.ftdialogs_out = d].alive = w.alive
      /\ [w EXCEPT !.ftdialogs_out = d].forgotten = w.forgotten
      /\ [w EXCEPT !.ftdialogs_out = d].ftdialogs_out = d
  BY <1>1 DEF Gui
<1>9. QED
  BY <1>1, <1>5, <1>6, <1>7, <1>8 DEF KeepsOut

LEMMA DeniedSlot ==
    ASSUME NEW g \in Gui, file_denied_by_peer(g).alive
    PROVE  file_denied_by_peer(g) \in Gui /\ file_denied_by_peer(g).alive = g.alive
<1>1. g.ftdialogs_out # None
  BY DEF file_denied_by_peer, NullDialog, Gui
<1>2. g.ftdialogs_out \in Dialogs
  BY <1>1 DEF Gui, MaybeDialog
<1>3. Terminal(g.ftdialogs_out) \in MaybeDialog
  BY <1>2, DialogTypes DEF MaybeDialog
<1>4. file_denied_by_peer(g) = [g EXCEPT !.ftdialogs_out = Terminal(g.ftdialogs_out)]
  BY <1>1 DEF file_denied_by_peer
<1>5. QED
  BY <1>3, <1>4 DEF Gui

\* The last part of a file disables the buttons of its dialog.
LEMMA ProgressSlot ==
    ASSUME NEW g \in Gui, NEW sending \in BOOLEAN, NEW pos
    PROVE  LET h == file_progress(g, sending, pos)
           IN  /\ h \in Gui /\ h.alive = g.alive
               /\ sending /\ g.ftdialogs_out.size # pos => h = g
               /\ ~sending => SameOut(g, h)
<1> DEFINE h == file_progress(g, sending, pos)
<1>0. g.ftdialogs_in \in MaybeDialog /\ g.ftdialogs_out \in MaybeDialog
  BY DEF Gui
<1>1. \/ h = g
      \/ /\ sending /\ g.ftdialogs_out # None /\ g.ftdialogs_out.size = pos
         /\ h = [g EXCEPT !.ftdialogs_out = Terminal(g.ftdialogs_out)]
      \/ /\ ~sending /\ g.ftdialogs_in # None
         /\ h = [g EXCEPT !.ftdialogs_in = Terminal(g.ftdialogs_in)]
  BY DEF file_progress
<1> HIDE DEF h
<1>2. ASSUME NEW d \in MaybeDialog, d # None
      PROVE  Terminal(d) \in MaybeDialog /\ Terminal(d) # None
  <2>1. d \in Dialogs
    BY <1>2 DEF MaybeDialog
  <2>2. Terminal(d) \in Dialogs
    BY <2>1, DialogTypes
  <2>3. QED
    BY <2>2, DialogTypes DEF MaybeDialog
<1>3. CASE h = g
  BY <1>3 DEF SameOut, h
<1>4. CASE /\ sending /\ g.ftdialogs_out # None /\ g.ftdialogs_out.size = pos
           /\ h = [g EXCEPT !.ftdialogs_out = Terminal(g.ftdialogs_out)]
  <2> DEFINE t == Terminal(g.ftdialogs_out)
  <2>1. t \in MaybeDialog /\ t # None
    BY <1>0, <1>2, <1>4
  <2>2. h = [g EXCEPT !.ftdialogs_out = t]
    BY <1>4
  <2> HIDE DEF t
  <2>3. h \in Gui /\ h.alive = g.alive
    BY <2>1, <2>2 DEF Gui
  <2>4. QED
    BY <1>4, <2>1, <2>3 DEF h
<1>5. CASE /\ ~sending /\ g.ftdialogs_in # None
           /\ h = [g EXCEPT !.ftdialogs_in = Terminal(g.ftdialogs_in)]
  <2> DEFINE t == Terminal(g.ftdialogs_in)
  <2>1. t \in MaybeDialog
    BY <1>0, <1>2, <1>5
  <2>2. h = [g EXCEPT !.ftdialogs_in = t]
    BY <1>5
  <2> HIDE DEF t
  <2>3. h \in Gui /\ SameOut(g, h)
    BY <2>1, <2>2 DEF Gui, SameOut
  <2>4. h.alive = g.alive
    BY <2>3 DEF SameOut
  <2>5. QED
    BY <1>5, <2>3, <2>4 DEF h
<1>6. QED
  BY <1>1, <1>3, <1>4, <1>5

LEMMA FinishedSlot ==
    ASSUME NEW g \in Gui, NEW sending \in BOOLEAN
    PROVE  LET h == file_finished(g, sending)
           IN  h \in Gui /\ h.alive = g.alive /\ (~sending => SameOut(g, h))
<1> DEFINE d == active_filetransfers_down(g)
           h == file_finished(g, sending)
<1>1. d \in Gui /\ SameOut(g, d)
  BY CountSlot
<1>2. \/ h = d
      \/ sending /\ h = [d EXCEPT !.ftdialogs_out = None]
      \/ ~sending /\ h = [d EXCEPT !.ftdialogs_in = None]
  BY DEF file_finished
<1> HIDE DEF d, h
<1>3. None \in MaybeDialog
  BY DEF MaybeDialog
<1>4. CASE h = d
  BY <1>1, <1>4 DEF SameOut, h
<1>5. CASE sending /\ h = [d EXCEPT !.ftdialogs_out = None]
  <2>1. h \in Gui /\ h.alive = d.alive
    BY <1>1, <1>3, <1>5 DEF Gui
  <2>2. QED
    BY <1>1, <1>5, <2>1 DEF SameOut, h
<1>6. CASE ~sending /\ h = [d EXCEPT !.ftdialogs_in = None]
  <2>1. h \in Gui /\ SameOut(d, h)
    BY <1>1, <1>3, <1>6 DEF Gui, SameOut
  <2>2. QED
    BY <1>1, <2>1 DEF SameOut, h
<1>7. QED
  BY <1>2, <1>4, <1>5, <1>6


LEMMA NotifyFacts ==
    ASSUME NEW g, NEW dialog \in MaybeDialog, NEW wired, NEW cmd
    PROVE  LET n == Notify(g, dialog, wired, cmd)
           IN  /\ n.dialog \in MaybeDialog /\ n.dead \in BOOLEAN
               /\ ~n.dead /\ cmd \notin {"CANCEL", "IOERROR"} => SameDialog(dialog, n.dialog)
<1> DEFINE n == Notify(g, dialog, wired, cmd)
           e == [dialog EXCEPT !.lefton = (cmd = "RESUME")]
<1>1. \/ n = [dead |-> FALSE, dialog |-> dialog]
      \/ n = [dead |-> TRUE, dialog |-> None]
      \/ dialog # None /\ cmd \in {"CANCEL", "IOERROR"} /\ n = [dead |-> FALSE, dialog |-> None]
      \/ dialog # None /\ n = [dead |-> FALSE, dialog |-> e]
  BY DEF Notify
<1>2. dialog # None => e \in MaybeDialog /\ SameDialog(dialog, e)
  <2> SUFFICES ASSUME dialog # None PROVE e \in MaybeDialog /\ SameDialog(dialog, e)
    OBVIOUS
  <2>1. dialog \in Dialogs
    BY DEF MaybeDialog
  <2>2. (cmd = "RESUME") \in BOOLEAN
    OBVIOUS
  <2>3. e \in Dialogs
    BY <2>1, <2>2, DialogTypes
  <2>4. e.file = dialog.file /\ e.size = dialog.size
    BY <2>1 DEF Dialogs
  <2>5. e.righton = dialog.righton
    BY <2>1 DEF Dialogs
  <2>6. e # None
    BY <2>3, DialogTypes
  <2>7. QED
    BY <2>3, <2>4, <2>5, <2>6 DEF MaybeDialog, SameDialog
<1>3. None \in MaybeDialog
  BY DEF MaybeDialog
<1> HIDE DEF n, e
<1>4. /\ n.dialog \in MaybeDialog /\ n.dead \in BOOLEAN
      /\ ~n.dead /\ cmd \notin {"CANCEL", "IOERROR"} => SameDialog(dialog, n.dialog)
  <2>1. CASE n = [dead |-> FALSE, dialog |-> dialog]
    BY <2>1 DEF SameDialog
  <2>2. CASE n = [dead |-> TRUE, dialog |-> None]
    BY <1>3, <2>2
  <2>3. CASE cmd \in {"CANCEL", "IOERROR"} /\ n = [dead |-> FALSE, dialog |-> None]
    BY <1>3, <2>3
  <2>4. CASE dialog # None /\ n = [dead |-> FALSE, dialog |-> e]
    BY <1>2, <2>4
  <2>5. QED
    BY <1>1, <2>1, <2>2, <2>3, <2>4
<1>5. QED
  BY <1>4 DEF n

LEMMA ControlSlot ==
    ASSUME NEW g \in Gui, NEW snd, NEW rcv
    PROVE  LET h == file_control(g, snd, rcv)
           IN  /\ h \in Gui
               /\ h.alive /\ rcv \notin {"CANCEL", "IOERROR"} => KeepsOut(g, h)
<1> DEFINE h == file_control(g, snd, rcv)
           cmd == IF rcv = "VOID" THEN snd ELSE rcv
           c == IF cmd = "RESUME" THEN active_filetransfers_up(g)
                                  ELSE active_filetransfers_down(g)
           in == Notify(c, c.ftdialogs_in, c.wired_in, cmd)
           out == Notify(c, c.ftdialogs_out, c.wired_out, cmd)
<1>1. c \in Gui /\ c.ftdialogs_out = g.ftdialogs_out /\ c.forgotten = g.forgotten
  BY CountSlot DEF SameOut
<1>2. /\ rcv = "VOID" => h = [c EXCEPT !.ftdialogs_in = in.dialog, !.alive = ~in.dead]
      /\ rcv # "VOID" => h = [c EXCEPT !.ftdialogs_out = out.dialog, !.alive = ~out.dead]
      /\ rcv # "VOID" => cmd = rcv
  BY DEF file_control
<1> HIDE DEF c, h, cmd
<1>3. c.ftdialogs_in \in MaybeDialog /\ c.ftdialogs_out \in MaybeDialog
  BY <1>1 DEF Gui
<1>4. /\ in.dialog \in MaybeDialog /\ in.dead \in BOOLEAN
      /\ out.dialog \in MaybeDialog /\ out.dead \in BOOLEAN
      /\ ~out.dead /\ cmd \notin {"CANCEL", "IOERROR"} =>
            SameDialog(c.ftdialogs_out, out.dialog)
  BY <1>3, NotifyFacts
<1> HIDE DEF in, out
<1>5. CASE rcv = "VOID"
  <2>1. (~in.dead) \in BOOLEAN
    OBVIOUS
  <2>2. h \in Gui /\ h.ftdialogs_out = c.ftdialogs_out /\ h.forgotten = c.forgotten
    BY <1>1, <1>2, <1>4, <1>5, <2>1 DEF Gui
  <2>3. QED
    BY <1>1, <1>5, <2>2 DEF h, KeepsOut, SameDialog
<1>6. CASE rcv # "VOID"
  <2>1. (~out.dead) \in BOOLEAN
    OBVIOUS
  <2>2. /\ h \in Gui /\ h.ftdialogs_out = out.dialog /\ h.alive = ~out.dead
        /\ h.forgotten = c.forgotten
    BY <1>1, <1>2, <1>4, <1>6, <2>1 DEF Gui
  <2>3. QED
    BY <1>1, <1>2, <1>4, <1>6, <2>2 DEF h, KeepsOut
<1>7. QED
  BY <1>5, <1>6

LEMMA CallbackLists ==
    ASSUME NEW g, NEW a, NEW b
    PROVE  /\ Callbacks(g, <<>>) = g
           /\ Callbacks(g, <<a>>) = Callback(g, a)
           /\ Callbacks(g, <<a, b>>) = Callback(Callback(g, a), b)
<1>1. Len(<<>>) = 0 /\ Len(<<a>>) = 1 /\ Len(<<a, b>>) = 2
  OBVIOUS
<1>2. <<a>>[1] = a /\ <<a, b>>[1] = a /\ <<a, b>>[2] = b
  OBVIOUS
<1>3. QED
  BY <1>1, <1>2 DEF Callbacks

\* The callbacks of a message handler keep a dialog for the file being sent, or kill the
\* client.
LEMMA ReadDialogs ==
    ASSUME NEW c, Local(c), c.state = "ACTIVE", NEW m \in Message, NEW works \in BOOLEAN,
           NEW g \in Gui, DialogOK(c, g), Handle(c, m, 2, works).ok,
           Callbacks(g, Handle(c, m, 2, works).cb).alive,
           Handle(c, m, 2, works).chan.state # "CRASHED"
    PROVE  /\ Callbacks(g, Handle(c, m, 2, works).cb) \in Gui
           /\ DialogOK(Handle(c, m, 2, works).chan, Callbacks(g, Handle(c, m, 2, works).cb))
<1> DEFINE r == Handle(c, m, 2, works)
           h == Callbacks(g, r.cb)
<1>0. m.type \in {"SENDFILEREQUEST", "ACCEPTEDFILE", "DENIEDFILE", "FILEFRAGMENT", "FILECONTROL"}
  BY DEF Message
<1>a. c \in Channel
  BY DEF Local
<1>b. SUFFICES h \in Gui /\ HasDialog(r.chan, h)
  BY DEF DialogOK
<1>c. HasDialog(c, g)
  BY DEF DialogOK
<1>1. CASE m.type = "SENDFILEREQUEST"
  <2> DEFINE e == [ev |-> "request", size |-> m.size]
  <2>1. r = procmsg_SENDFILEREQUEST(c, m, 2, works)
    BY <1>1 DEF Handle
  <2>2. r.cb = <<e>> /\ SameSent(c, r.chan)
    <3> DEFINE w == [c EXCEPT !.recvfilestate = "WAITACCEPT", !.written = <<>>,
                         !.recvfile = [id |-> m.id, size |-> m.size, len |-> 0, pos |-> 0]]
    <3>1. r.ok
      OBVIOUS
    <3>2. r = [Done(w, <<>>, <<>>) EXCEPT !.cb = <<e>>]
      BY <2>1, <3>1 DEF procmsg_SENDFILEREQUEST, Failed
    <3>3. SameSent(c, w)
      BY <1>a DEF Channel, SameSent
    <3> HIDE DEF w, r, e
    <3>4. QED
      BY <3>2, <3>3 DEF Done
  <2>3. m.size \in Nat
    BY <1>1 DEF Message
  <2>4. Callback(g, e) = file_request(g, m.size)
    BY DEF Callback
  <2> HIDE DEF e, r
  <2>6. h = file_request(g, m.size)
    BY <2>2, <2>4, CallbackLists
  <2> HIDE DEF h
  <2>5. QED
    BY <1>c, <2>2, <2>3, <2>6, RequestSlot, SameOutKeeps, DialogKept
<1>2. CASE m.type = "ACCEPTEDFILE"
  <2> DEFINE u == active_filetransfers_up(g)
  <2>1. r = procmsg_ACCEPTEDFILE(c)
    BY <1>2 DEF Handle
  <2>2. r.cb = <<[ev |-> "accepted"]>> /\ SameSent(c, r.chan)
    <3> DEFINE t == [c EXCEPT !.sendfilestate = "SENDING"]
               cb == <<[ev |-> "accepted"]>>
    <3>1. r = Done(t, <<>>, cb) /\ c.sendfilestate = "SENTREQ"
      BY <2>1 DEF procmsg_ACCEPTEDFILE, Failed
    <3>2. SameSent(c, t)
      BY <1>a, <3>1 DEF Channel, SameSent
    <3> HIDE DEF t, r, cb
    <3>3. r.cb = cb /\ r.chan = t
      BY <3>1 DEF Done
    <3>4. QED
      BY <3>2, <3>3 DEF cb
  <2>3. h = file_accepted_by_peer(u)
    <3> DEFINE e == [ev |-> "accepted"]
    <3>1. Callback(g, e) = file_accepted_by_peer(u)
      BY DEF Callback
    <3>2. r.cb = <<e>>
      BY <2>2
    <3> HIDE DEF e, r, u
    <3>3. QED
      BY <3>1, <3>2, CallbackLists
  <2>4. u \in Gui /\ SameOut(g, u)
    BY CountSlot
  <2>5. h.alive
    OBVIOUS
  <2> HIDE DEF h, r, u
  <2>6. h \in Gui /\ KeepsOut(u, h)
    BY <2>3, <2>4, <2>5, AcceptedSlot
  <2>7. KeepsOut(g, h)
    BY <2>4, <2>6 DEF SameOut, KeepsOut
  <2>8. QED
    BY <1>c, <2>2, <2>6, <2>7, DialogKept
<1>3. CASE m.type = "DENIEDFILE"
  <2>1. r = procmsg_DENIEDFILE(c)
    BY <1>3 DEF Handle
  <2>2. r.cb = <<[ev |-> "denied"]>> /\ r.chan.sendfilestate = "IDLE"
    <3>1. r.ok
      OBVIOUS
    <3>2. r = Done(StopSending(c), <<>>, <<[ev |-> "denied"]>>)
      BY <2>1, <3>1 DEF procmsg_DENIEDFILE, Failed
    <3> HIDE DEF r
    <3>3. QED
      BY <1>a, <3>2, Stops DEF Done
  <2>3. h = file_denied_by_peer(g)
    <3> DEFINE e == [ev |-> "denied"]
    <3>1. Callback(g, e) = file_denied_by_peer(g)
      BY DEF Callback
    <3>2. r.cb = <<e>>
      BY <2>2
    <3> HIDE DEF e, r
    <3>3. QED
      BY <3>1, <3>2, CallbackLists
  <2>4. h.alive
    OBVIOUS
  <2> HIDE DEF h, r
  <2>5. QED
    BY <2>2, <2>3, <2>4, DeniedSlot DEF HasDialog
<1>4. CASE m.type = "FILEFRAGMENT"
  <2> DEFINE pos == c.recvfile.pos + m.n
             a == [ev |-> "progress", sending |-> FALSE, pos |-> pos]
             b == [ev |-> "finished", sending |-> FALSE]
             k == file_progress(g, FALSE, pos)
  <2>1. r = procmsg_FILEFRAGMENT(c, m, works)
    BY <1>4 DEF Handle
  <2> DEFINE s == [c EXCEPT !.written = @ \o Units(m.id, m.from, m.n), !.recvfile.pos = pos]
             o == <<Control("VOID", "IOERROR")>>
  <2>a. \/ r = Done(s, <<>>, <<a>>)
        \/ r = Done(StopReceiving(c), o, <<a>>)
        \/ r = Crash(StopReceiving(c), <<a>>)
        \/ r = Done(StopReceiving(s), <<>>, <<a, b>>)
    <3>1. r.ok
      OBVIOUS
    <3>2. QED
      BY <2>1, <3>1 DEF procmsg_FILEFRAGMENT, Failed
  <2>b. SameSent(c, s) /\ SameSent(c, StopReceiving(s))
    BY <1>a DEF StopReceiving, Channel, SameSent
  <2>c. SameSent(c, StopReceiving(c)) /\ SameSent(c, Crash(StopReceiving(c), <<a>>).chan)
    BY <1>a DEF StopReceiving, Channel, Crash, Done, SameSent
  <2> HIDE DEF s, o, r, a, b
  <2>2. r.cb = <<a>> \/ r.cb = <<a, b>>
    BY <2>a DEF Done, Crash
  <2>3. SameSent(c, r.chan)
    BY <2>a, <2>b, <2>c DEF Done
  <2>4. Callback(g, a) = k /\ Callback(k, b) = file_finished(k, FALSE)
    BY DEF Callback, a, b
  <2>5. h = k \/ h = file_finished(k, FALSE)
    <3> HIDE DEF k
    <3>1. Callbacks(g, <<a>>) = Callback(g, a) /\ Callbacks(g, <<a, b>>) = Callback(Callback(g, a), b)
      BY CallbackLists
    <3>2. QED
      BY <2>2, <2>4, <3>1
  <2>6. k \in Gui /\ SameOut(g, k)
    BY ProgressSlot
  <2> HIDE DEF h, k
  <2>7. file_finished(k, FALSE) \in Gui /\ SameOut(k, file_finished(k, FALSE))
    BY <2>6, FinishedSlot
  <2>8. h \in Gui /\ SameOut(g, h)
    BY <2>5, <2>6, <2>7 DEF SameOut
  <2>9. QED
    BY <1>c, <2>3, <2>8, SameOutKeeps, DialogKept
<1>5. CASE m.type = "FILECONTROL"
  <2> DEFINE e == [ev |-> "control", snd |-> m.snd, rcv |-> m.rcv]
  <2>1. r = procmsg_FILECONTROL(c, m)
    BY <1>5 DEF Handle
  <2>2. m.rcv \in Commands /\ m.snd \in Commands
    BY <1>5 DEF Message
  <2>3. r.cb = <<e>>
    <3>1. Crash(c, <<>>).chan.state = "CRASHED"
      BY <1>a DEF Crash, Done, Channel
    <3>2. QED
      BY <2>1, <3>1 DEF procmsg_FILECONTROL, Failed, Done
  <2>4. h = file_control(g, m.snd, m.rcv)
    <3>1. Callback(g, e) = file_control(g, m.snd, m.rcv)
      BY DEF Callback
    <3> HIDE DEF e, r
    <3>2. QED
      BY <2>3, <3>1, CallbackLists
  <2>5. m.rcv \notin {"CANCEL", "IOERROR"} => SameSent(c, r.chan)
    <3> SUFFICES ASSUME m.rcv \notin {"CANCEL", "IOERROR"} PROVE SameSent(c, r.chan)
      OBVIOUS
    <3> DEFINE recv == Obey(c.recvfilestate, "RECEIVING", m.snd)
               send == Obey(c.sendfilestate, "SENDING", m.rcv)
               c1 == IF m.snd \in {"CANCEL", "IOERROR"} THEN StopReceiving(c)
                     ELSE [c EXCEPT !.recvfilestate = recv]
    <3>1. /\ r.chan = [c1 EXCEPT !.sendfilestate = send]
          /\ m.rcv # "VOID" => c.sendfilestate # "IDLE"
      <4>1. Crash(c, <<>>).chan.state = "CRASHED"
        BY <1>a DEF Crash, Done, Channel
      <4>2. QED
        BY <2>1, <4>1 DEF procmsg_FILECONTROL, Failed, Done
    <3>2. /\ c1.sendfile = c.sendfile /\ "sendfilestate" \in DOMAIN c1
          /\ m.rcv = "VOID" => send = c.sendfilestate
      BY <1>a DEF StopReceiving, Channel, Obey
    <3> HIDE DEF c1, r, send
    <3>3. /\ [c1 EXCEPT !.sendfilestate = send].sendfilestate = send
          /\ [c1 EXCEPT !.sendfilestate = send].sendfile = c1.sendfile
      BY <3>2
    <3>4. QED
      BY <3>1, <3>2, <3>3 DEF SameSent
  <2>8. m.rcv \in {"CANCEL", "IOERROR"} => r.chan.sendfilestate = "IDLE"
    <3> SUFFICES ASSUME m.rcv \in {"CANCEL", "IOERROR"} PROVE r.chan.sendfilestate = "IDLE"
      OBVIOUS
    <3> DEFINE recv == Obey(c.recvfilestate, "RECEIVING", m.snd)
               c1 == IF m.snd \in {"CANCEL", "IOERROR"} THEN StopReceiving(c)
                     ELSE [c EXCEPT !.recvfilestate = recv]
    <3>1. r.chan = StopSending(c1)
      <4>1. Crash(c, <<>>).chan.state = "CRASHED"
        BY <1>a DEF Crash, Done, Channel
      <4>2. QED
        BY <2>1, <4>1 DEF procmsg_FILECONTROL, Failed, Done
    <3>2. \A x : StopSending(x) = [x EXCEPT !.sendfilestate = "IDLE", !.sendfile = NoFile,
                                            !.sendfile_stream = "NULL"]
      BY DEF StopSending
    <3>3. "sendfilestate" \in DOMAIN c1
      BY <1>a DEF StopReceiving, Channel
    <3> HIDE DEF c1, r
    <3>4. QED
      BY <3>1, <3>2, <3>3
  <2>9. h.alive
    OBVIOUS
  <2> HIDE DEF h, r
  <2>10. QED
    <3>1. h \in Gui /\ (m.rcv \notin {"CANCEL", "IOERROR"} => KeepsOut(g, h))
      BY <2>4, <2>9, ControlSlot
    <3>2. CASE m.rcv \in {"CANCEL", "IOERROR"}
      BY <2>8, <3>1, <3>2 DEF HasDialog
    <3>3. CASE m.rcv \notin {"CANCEL", "IOERROR"}
      BY <1>c, <2>5, <3>1, <3>3, DialogKept
    <3>4. QED
      BY <3>2, <3>3
<1>6. QED
  BY <1>0, <1>1, <1>2, <1>3, <1>4, <1>5


LEMMA SendDialogs ==
    ASSUME NEW c, Local(c), c.state = "ACTIVE", c.sendfilestate = "SENDING", NEW g \in Gui,
           DialogOK(c, g)
    PROVE  LET r == PICA_send_file_fragment(c)
               h == Callbacks(g, r.cb)
           IN  h \in Gui /\ h.alive /\ DialogOK(r.chan, h)
<1> DEFINE f == c.sendfile
           left == IF f.len > f.pos THEN f.len - f.pos ELSE 0
           n == IF left < FRAGMENT THEN left ELSE FRAGMENT
           a == [ev |-> "progress", sending |-> TRUE, pos |-> f.pos + n]
           b == [ev |-> "finished", sending |-> TRUE]
           t == [c EXCEPT !.sendfile.pos = @ + n]
           o == <<Fragment(f.id, f.pos, n)>>
           r == PICA_send_file_fragment(c)
           h == Callbacks(g, r.cb)
           k == file_progress(g, TRUE, f.pos + n)
<1>1. \/ r = Done(StopSending(c), <<Control("IOERROR", "VOID")>>, <<>>)
      \/ r = Done(StopSending(c), o, <<a, b>>)
      \/ r = Done(t, o, <<a>>) /\ ~(f.pos + n >= f.size)
  BY DEF PICA_send_file_fragment
<1>2. Callback(g, a) = k /\ Callback(k, b) = file_finished(k, TRUE)
  BY DEF Callback
<1>3. c \in Channel
  BY DEF Local
<1>4. StopSending(c).sendfilestate = "IDLE" /\ StopSending(c).state = c.state
  BY <1>3, Stops
<1>5. t.state = c.state /\ SameSent(c, t)
  <2>1. c.sendfile \in File
    BY <1>3 DEF Channel
  <2>2. QED
    BY <1>3, <2>1 DEF Channel, SameSent, File
<1>6. g.alive /\ HasDialog(c, g)
  BY DEF DialogOK
<1>7. /\ k \in Gui /\ k.alive = g.alive
      /\ g.ftdialogs_out.size # f.pos + n => k = g
  BY ProgressSlot
<1>a. f.pos \in Nat /\ f.size \in Nat /\ n \in Nat
  <2>1. c.sendfile \in File
    BY <1>3 DEF Channel
  <2>2. f.pos \in Nat /\ f.size \in Nat /\ f.len \in Nat /\ FRAGMENT \in Nat
    BY <2>1, FileTransferAssumption DEF File
  <2>3. left \in Nat
    BY <2>2
  <2>4. QED
    BY <2>2, <2>3
<1>b. f = c.sendfile
  OBVIOUS
<1> HIDE DEF f, left, n, a, b, t, o, r, k
<1>8. file_finished(k, TRUE) \in Gui /\ file_finished(k, TRUE).alive = k.alive
  BY <1>7, FinishedSlot
<1>9. /\ Callbacks(g, <<>>) = g /\ Callbacks(g, <<a>>) = Callback(g, a)
      /\ Callbacks(g, <<a, b>>) = Callback(Callback(g, a), b)
  BY CallbackLists
<1>10. CASE r = Done(StopSending(c), <<Control("IOERROR", "VOID")>>, <<>>)
  <2>1. h = g /\ r.chan = StopSending(c)
    BY <1>9, <1>10 DEF Done
  <2> HIDE DEF h
  <2>2. h \in Gui /\ h.alive /\ DialogOK(r.chan, h)
    BY <1>4, <1>6, <2>1 DEF DialogOK, HasDialog
  <2>3. QED
    BY <2>2 DEF h, r
<1>11. CASE r = Done(StopSending(c), o, <<a, b>>)
  <2>1. h = file_finished(k, TRUE) /\ r.chan = StopSending(c)
    BY <1>2, <1>9, <1>11 DEF Done
  <2> HIDE DEF h
  <2>2. h \in Gui /\ h.alive /\ DialogOK(r.chan, h)
    BY <1>4, <1>6, <1>7, <1>8, <2>1 DEF DialogOK, HasDialog
  <2>3. QED
    BY <2>2 DEF h, r
<1>12. CASE r = Done(t, o, <<a>>) /\ ~(f.pos + n >= f.size)
  <2>1. h = k /\ r.chan = t
    BY <1>2, <1>9, <1>12 DEF Done
  <2> HIDE DEF h
  <2>a. HasDialog(t, h)
    <3>1. CASE c.sendfile.id # g.forgotten
      <4>1. g.ftdialogs_out.size = f.size
        BY <1>6, <1>b, <3>1 DEF HasDialog, Owns
      <4>2. f.size # f.pos + n
        BY <1>12, <1>a
      <4>3. h = g
        BY <1>7, <2>1, <4>1, <4>2
      <4>4. QED
        BY <1>5, <1>6, <4>3, DialogKept DEF KeepsOut, SameDialog
    <3>2. CASE c.sendfile.id = g.forgotten
      <4>1. k.forgotten = g.forgotten
        BY DEF k, file_progress, Gui
      <4>2. QED
        BY <1>5, <2>1, <3>2, <4>1 DEF HasDialog, SameSent
    <3>3. QED
      BY <3>1, <3>2
  <2>2. h \in Gui /\ h.alive /\ DialogOK(r.chan, h)
    BY <1>5, <1>6, <1>7, <2>1, <2>a DEF DialogOK
  <2>3. QED
    BY <2>2 DEF h, r
<1>13. QED
  BY <1>1, <1>10, <1>11, <1>12

LEMMA NewGuiType == NewGui \in Gui /\ [NewGui EXCEPT !.alive = FALSE] \in Gui
<1>1. None \in MaybeDialog
  BY DEF MaybeDialog
<1>2. NewGui \in Gui
  BY <1>1 DEF NewGui, Gui
<1>3. \A g \in Gui : [g EXCEPT !.alive = FALSE] \in Gui
  BY DEF Gui
<1>4. QED
  BY <1>2, <1>3

\* A step of one end; the other end's application and channel stay as they are.
LEMMA GuiStep ==
    ASSUME GuiInv, chan \in [Peers -> Channel], NEW p \in Peers, NEW d, NEW g \in Gui,
           chan' = [chan EXCEPT ![p] = d], Settle(p, g),
           g.alive => DialogOK(d, g),
           ~g.alive => d.state # "ACTIVE" /\ d.sendfilestate = "IDLE"
    PROVE  GuiInv'
<1> DEFINE s == IF g.alive THEN g ELSE [NewGui EXCEPT !.alive = FALSE]
<1>1. gui' = [gui EXCEPT ![p] = s] /\ app' = app
  BY DEF Settle
<1>2. s \in Gui
  BY NewGuiType
<1>3. DialogOK(d, s)
  BY DEF DialogOK, HasDialog
<1> HIDE DEF s
<1>4. gui' \in [Peers -> Gui] /\ app' \in [Peers -> Apps]
  BY <1>1, <1>2 DEF GuiInv
<1>5. ASSUME NEW q \in Peers, app'[q] = "gui"
      PROVE  DialogOK(chan'[q], gui'[q])
  <2>1. CASE q = p
    <3>1. chan'[q] = d /\ gui'[q] = s
      BY <1>1, <2>1 DEF GuiInv
    <3>2. QED
      BY <1>3, <3>1
  <2>2. CASE q # p
    <3>1. chan'[q] = chan[q] /\ gui'[q] = gui[q] /\ app[q] = "gui"
      BY <1>1, <1>5, <2>2 DEF GuiInv
    <3>2. QED
      BY <3>1 DEF GuiInv
  <2>3. QED
    BY <2>1, <2>2
<1>6. QED
  BY <1>4, <1>5 DEF GuiInv

LEMMA BotKeeps ==
    ASSUME GuiInv, chan \in [Peers -> Channel], NEW p \in Peers, NEW d,
           chan' = [chan EXCEPT ![p] = d], UNCHANGED <<app, gui>>,
           app[p] = "bot" \/ (d.state = chan[p].state /\ SameSent(chan[p], d))
    PROVE  GuiInv'
<1>1. ASSUME NEW q \in Peers, app[q] = "gui"
      PROVE  DialogOK(chan'[q], gui[q])
  <2>1. DialogOK(chan[q], gui[q])
    BY <1>1 DEF GuiInv
  <2>2. CASE q = p
    <3>1. chan'[q] = d
      BY <2>2
    <3>2. app[p] # "bot"
      BY <1>1, <2>2
    <3>3. QED
      BY <2>1, <2>2, <3>1, <3>2 DEF DialogOK, HasDialog, SameSent, Owns
  <2>3. CASE q # p
    <3>1. chan'[q] = chan[q]
      BY <2>3
    <3>2. QED
      BY <2>1, <3>1
  <2>4. QED
    BY <2>2, <2>3
<1>2. QED
  BY <1>1 DEF GuiInv


-----------------------------------------------------------------------------
(* The steps of the specification *)

DialogsInv == FileInv /\ DoneInv /\ GuiInv

LEMMA DoneKept ==
    ASSUME DoneInv, UNCHANGED done
    PROVE  DoneInv'
BY DEF DoneInv, WholeFile

LEMMA PeerGone ==
    ASSUME NEW g \in Gui
    PROVE  file_peer_disconnected(g) \in Gui /\ file_peer_disconnected(g).alive = g.alive
<1>1. None \in MaybeDialog
  BY DEF MaybeDialog
<1>2. QED
  BY <1>1 DEF file_peer_disconnected, Gui

LEMMA GuiReadStep ==
    ASSUME DialogsInv, NEW p \in Peers, GuiRead(p)
    PROVE  DialogsInv'
<1>1. app[p] = "gui"
  BY DEF GuiRead
<1>2. PICK works \in BOOLEAN :
         LET r == Handle(chan[p], Head(wire[Other(p)]), 2, works)
             g == IF r.ok THEN Callbacks(gui[p], r.cb) ELSE file_peer_disconnected(gui[p])
         IN  /\ Read(p, 2, works)
             /\ chan'[p].state # "CRASHED"
             /\ g.alive
             /\ Settle(p, g)
  BY DEF GuiRead
<1> DEFINE m == Head(wire[Other(p)])
           r == Handle(chan[p], m, 2, works)
           g == IF r.ok THEN Callbacks(gui[p], r.cb) ELSE file_peer_disconnected(gui[p])
           d == IF r.ok THEN Dead(r.chan) ELSE PICA_close_c2c(chan[p])
<1>3. Read(p, 2, works) /\ chan'[p].state # "CRASHED" /\ g.alive /\ Settle(p, g)
  BY <1>2
<1>4. FileInv' /\ DoneInv'
  BY <1>3, ReadStep DEF DialogsInv
<1>5. chan[p].state = "ACTIVE" /\ wire[Other(p)] # <<>> /\ chan' = [chan EXCEPT ![p] = d]
  BY <1>3 DEF Read
<1>6. /\ chan \in [Peers -> Channel] /\ Local(chan[p]) /\ chan[p] \in Channel
      /\ m \in Message /\ gui[p] \in Gui /\ DialogOK(chan[p], gui[p])
  <2>1. m \in Message
    BY <1>5, NextIsExpected DEF DialogsInv
  <2>2. QED
    BY <1>1, <2>1 DEF DialogsInv, FileInv, GuiInv
<1>7. chan'[p] = d
  BY <1>5, <1>6
<1> HIDE DEF m, g, d
<1>8. g \in Gui /\ DialogOK(d, g)
  <2>1. CASE r.ok
    <3>1. d = Dead(r.chan) /\ g = Callbacks(gui[p], r.cb)
      BY <2>1 DEF d, g
    <3>2. r.chan.state # "CRASHED"
      <4> HIDE DEF r
      <4>1. r.chan.state = "CRASHED" => Dead(r.chan).state = "CRASHED"
        BY DEF Dead, NewChannel
      <4>2. QED
        BY <1>3, <1>7, <3>1, <4>1
    <3>3. d = r.chan
      BY <3>1, <3>2 DEF Dead
    <3>4. Callbacks(gui[p], r.cb) \in Gui /\ DialogOK(r.chan, Callbacks(gui[p], r.cb))
      BY <1>3, <1>5, <1>6, <2>1, <3>1, <3>2, ReadDialogs
    <3>5. QED
      BY <3>1, <3>3, <3>4
  <2>2. CASE ~r.ok
    <3>1. d = PICA_close_c2c(chan[p]) /\ g = file_peer_disconnected(gui[p])
      BY <2>2 DEF d, g
    <3>2. d.state # "ACTIVE" /\ d.sendfilestate = "IDLE"
      BY <1>6, <3>1, DeadEnds DEF PICA_close_c2c
    <3>3. g \in Gui
      BY <1>6, <3>1, PeerGone
    <3>4. QED
      BY <3>2, <3>3 DEF DialogOK, HasDialog
  <2>3. QED
    BY <2>1, <2>2
<1>9. GuiInv'
  BY <1>3, <1>5, <1>6, <1>8, GuiStep DEF DialogsInv
<1>10. QED
  BY <1>4, <1>9 DEF DialogsInv

LEMMA GuiDiesStep ==
    ASSUME DialogsInv, NEW p \in Peers, GuiDies(p)
    PROVE  DialogsInv'
<1> DEFINE d == Dead([chan[p] EXCEPT !.state = "CRASHED"])
<1>1. /\ chan' = [chan EXCEPT ![p] = Dead([@ EXCEPT !.state = "CRASHED"])]
      /\ Settle(p, NullDialog(gui[p])) /\ wire' = wire /\ done' = done
  BY DEF GuiDies
<1>2. chan \in [Peers -> Channel] /\ gui[p] \in Gui
  BY DEF DialogsInv, FileInv, GuiInv
<1>3. FileInv' /\ chan'[p].state = "CRASHED" /\ chan'[p].sendfilestate = "IDLE"
  BY <1>1, CrashStep DEF DialogsInv
<1>4. DoneInv'
  BY <1>1, DoneKept DEF DialogsInv
<1>5. NullDialog(gui[p]) \in Gui /\ ~NullDialog(gui[p]).alive
  BY <1>2 DEF NullDialog, Gui
<1>6. chan' = [chan EXCEPT ![p] = d] /\ d = chan'[p]
  BY <1>1, <1>2
<1> HIDE DEF d
<1>7. GuiInv'
  BY <1>1, <1>2, <1>3, <1>5, <1>6, GuiStep DEF DialogsInv
<1>8. QED
  BY <1>3, <1>4, <1>7 DEF DialogsInv

LEMMA GuiSendFragmentStep ==
    ASSUME DialogsInv, NEW p \in Peers, GuiSendFragment(p)
    PROVE  DialogsInv'
<1> DEFINE r == PICA_send_file_fragment(chan[p])
           g == Callbacks(gui[p], r.cb)
<1>1. /\ app[p] = "gui" /\ chan[p].state = "ACTIVE" /\ chan[p].sendfilestate = "SENDING"
      /\ Apply(p, r) /\ done' = done /\ Settle(p, g)
  BY DEF GuiSendFragment, SendFragment
<1>2. /\ chan \in [Peers -> Channel] /\ Local(chan[p]) /\ chan[p] \in Channel
      /\ gui[p] \in Gui /\ DialogOK(chan[p], gui[p])
  BY <1>1 DEF DialogsInv, FileInv, GuiInv
<1>3. Good(chan[p], Nothing, r)
  BY <1>1, <1>2, SendFragmentGood
<1>4. g \in Gui /\ g.alive /\ DialogOK(r.chan, g)
  BY <1>1, <1>2, SendDialogs
<1> HIDE DEF r, g
<1>5. FileInv'
  BY <1>1, <1>3, CallStep DEF DialogsInv
<1>6. DoneInv'
  BY <1>1, DoneKept DEF DialogsInv
<1>7. chan' = [chan EXCEPT ![p] = Dead(r.chan)]
  BY <1>1 DEF Apply
<1>8. DialogOK(Dead(r.chan), g)
  <2>1. Dead(r.chan) = r.chan \/ Dead(r.chan).sendfilestate = "IDLE"
    BY DEF Dead, NewChannel
  <2>2. QED
    BY <1>4, <2>1 DEF DialogOK, HasDialog
<1>9. GuiInv'
  BY <1>1, <1>2, <1>4, <1>7, <1>8, GuiStep DEF DialogsInv
<1>10. QED
  BY <1>5, <1>6, <1>9 DEF DialogsInv

LEMMA GuiDisconnectedStep ==
    ASSUME DialogsInv, NEW p \in Peers, GuiDisconnected(p)
    PROVE  DialogsInv'
<1> DEFINE g == file_peer_disconnected(gui[p])
           d == PICA_close_c2c(chan[p])
<1>1. /\ app[p] = "gui" /\ Disconnected(p) /\ done' = done /\ Settle(p, g)
      /\ chan' = [chan EXCEPT ![p] = d]
  BY DEF GuiDisconnected, Disconnected
<1>2. chan \in [Peers -> Channel] /\ chan[p] \in Channel /\ gui[p] \in Gui
  BY DEF DialogsInv, FileInv, GuiInv
<1>3. g \in Gui
  BY <1>2, PeerGone
<1>4. d.state = "CLOSED" /\ d.sendfilestate = "IDLE"
  BY <1>2, DeadEnds DEF PICA_close_c2c
<1>5. FileInv' /\ DoneInv'
  BY <1>1, DisconnectedStep, DoneKept DEF DialogsInv
<1> HIDE DEF g, d
<1>6. GuiInv'
  BY <1>1, <1>2, <1>3, <1>4, GuiStep DEF DialogsInv, DialogOK, HasDialog
<1>7. QED
  BY <1>5, <1>6 DEF DialogsInv


LEMMA BotStepStep ==
    ASSUME DialogsInv, NEW p \in Peers, BotStep(p)
    PROVE  DialogsInv'
<1>1. app[p] = "bot" /\ UNCHANGED <<app, gui>>
  BY DEF BotStep
<1>2. chan \in [Peers -> Channel] /\ Local(chan[p])
  BY DEF DialogsInv, FileInv
<1>3. CASE \E answer \in 0..2, works \in BOOLEAN : Read(p, answer, works)
  <2>1. PICK answer \in 0..2, works \in BOOLEAN : Read(p, answer, works)
    BY <1>3
  <2>2. FileInv' /\ DoneInv'
    BY <2>1, ReadStep DEF DialogsInv
  <2>3. \E d : chan' = [chan EXCEPT ![p] = d]
    BY <2>1 DEF Read
  <2>4. GuiInv'
    BY <1>1, <1>2, <2>3, BotKeeps DEF DialogsInv
  <2>5. QED
    BY <2>2, <2>4 DEF DialogsInv
<1>4. CASE SendFragment(p)
  <2>1. /\ chan[p].state = "ACTIVE" /\ chan[p].sendfilestate = "SENDING"
        /\ Apply(p, PICA_send_file_fragment(chan[p])) /\ done' = done
    BY <1>4 DEF SendFragment
  <2>2. Good(chan[p], Nothing, PICA_send_file_fragment(chan[p]))
    BY <1>2, <2>1, SendFragmentGood
  <2>3. FileInv' /\ DoneInv'
    BY <2>1, <2>2, CallStep, DoneKept DEF DialogsInv
  <2>4. \E d : chan' = [chan EXCEPT ![p] = d]
    BY <2>1 DEF Apply
  <2>5. GuiInv'
    BY <1>1, <1>2, <2>4, BotKeeps DEF DialogsInv
  <2>6. QED
    BY <2>3, <2>5 DEF DialogsInv
<1>5. CASE Disconnected(p)
  <2>1. done' = done /\ \E d : chan' = [chan EXCEPT ![p] = d]
    BY <1>5 DEF Disconnected
  <2>2. FileInv' /\ DoneInv'
    BY <1>5, <2>1, DisconnectedStep, DoneKept DEF DialogsInv
  <2>3. GuiInv'
    BY <1>1, <1>2, <2>1, BotKeeps DEF DialogsInv
  <2>4. QED
    BY <2>2, <2>3 DEF DialogsInv
<1>6. QED
  BY <1>3, <1>4, <1>5 DEF BotStep

\* A call of the library by an application that is not the graphical client.
LEMMA BotCall ==
    ASSUME DialogsInv, NEW p \in Peers, app[p] = "bot", UNCHANGED <<app, gui>>, NEW r, Call(p, r),
           chan[p].state = "ACTIVE" => Good(chan[p], Nothing, r)
    PROVE  DialogsInv'
<1>1. chan[p].state = "ACTIVE" /\ Apply(p, r) /\ done' = done
  BY DEF Call
<1>2. FileInv' /\ DoneInv'
  BY <1>1, CallStep, DoneKept DEF DialogsInv
<1>3. \E d : chan' = [chan EXCEPT ![p] = d]
  BY <1>1 DEF Apply
<1>4. chan \in [Peers -> Channel]
  BY DEF DialogsInv, FileInv
<1>5. GuiInv'
  BY <1>3, <1>4, BotKeeps DEF DialogsInv
<1>6. QED
  BY <1>2, <1>5 DEF DialogsInv

\* Every call of the application, taken or refused.
LEMMA CallsGood ==
    ASSUME NEW c, Local(c), c.state = "ACTIVE", NEW sending \in BOOLEAN
    PROVE  /\ \A opens \in BOOLEAN : Good(c, Nothing, PICA_accept_file(c, opens))
           /\ Good(c, Nothing, PICA_deny_file(c))
           /\ Good(c, Nothing, PICA_pause_file(c, sending))
           /\ Good(c, Nothing, PICA_resume_file(c, sending))
           /\ Good(c, Nothing, PICA_cancel_file(c, sending))
<1>1. Good(c, Nothing, Failed(c))
  BY FailedGood
<1>2. ASSUME NEW opens \in BOOLEAN
      PROVE  PICA_accept_file(c, opens).ok \/ PICA_accept_file(c, opens) = Failed(c)
  BY DEF PICA_accept_file, Done
<1>3. PICA_deny_file(c).ok \/ PICA_deny_file(c) = Failed(c)
  BY DEF PICA_deny_file, Done
<1>4. \A from, to, cmd : Switch(c, sending, from, to, cmd).ok
                         \/ Switch(c, sending, from, to, cmd) = Failed(c)
  BY DEF Switch, Done
<1>5. /\ PICA_pause_file(c, sending).ok \/ PICA_pause_file(c, sending) = Failed(c)
      /\ PICA_resume_file(c, sending).ok \/ PICA_resume_file(c, sending) = Failed(c)
  BY <1>4 DEF PICA_pause_file, PICA_resume_file
<1>6. PICA_cancel_file(c, sending).ok \/ PICA_cancel_file(c, sending) = Failed(c)
  BY DEF PICA_cancel_file, Done
<1>7. \A opens \in BOOLEAN : Good(c, Nothing, PICA_accept_file(c, opens))
  BY <1>1, <1>2, AcceptGood
<1>8. Good(c, Nothing, PICA_deny_file(c))
  BY <1>1, <1>3, DenyGood
<1>9. /\ Good(c, Nothing, PICA_pause_file(c, sending))
      /\ Good(c, Nothing, PICA_resume_file(c, sending))
  BY <1>1, <1>5, PauseGood, ResumeGood
<1>10. Good(c, Nothing, PICA_cancel_file(c, sending))
  BY <1>1, <1>6, CancelGood
<1>11. QED
  BY <1>7, <1>8, <1>9, <1>10

\* PICA_send_file: the file is requested, could not be opened, or another one is being sent.
LEMMA SendCallGood ==
    ASSUME NEW c, Local(c), c.state = "ACTIVE", NEW size \in Nat, NEW name \in {"plain", "dotted"},
           NEW stream \in Streams
    PROVE  LET r == PICA_send_file(c, size, name, stream)
           IN  /\ Good(c, Nothing, r)
               /\ r.ok => r.chan.sendfile.id \in Nat /\ r.chan.sendfile.size = size
               /\ ~r.ok => r.chan = c \/ r.chan.sendfilestate = "IDLE"
<1> DEFINE r == PICA_send_file(c, size, name, stream)
           t == [c EXCEPT !.sendfile_stream = stream]
<1>1. CASE c.sendfilestate # "IDLE"
  <2>1. r = Failed(c)
    BY <1>1 DEF PICA_send_file
  <2> HIDE DEF r
  <2>2. Good(c, Nothing, r) /\ ~r.ok /\ r.chan = c
    BY <2>1, FailedGood DEF Failed
  <2>3. QED
    BY <2>2 DEF r
<1>2. CASE c.sendfilestate = "IDLE" /\ stream # "open"
  <2>1. r = Failed(t)
    BY <1>2 DEF PICA_send_file
  <2>2. Good(c, Nothing, Failed(t)) /\ t.sendfilestate = "IDLE"
    BY <1>2, UnopenedGood
  <2> HIDE DEF r, t
  <2>3. Good(c, Nothing, r) /\ ~r.ok /\ r.chan = t
    BY <2>1, <2>2 DEF Failed
  <2>4. QED
    BY <2>2, <2>3 DEF r
<1>3. CASE c.sendfilestate = "IDLE" /\ stream = "open"
  BY <1>3, SendFileGood
<1>4. QED
  BY <1>1, <1>2, <1>3

LEMMA BotCallsStep ==
    ASSUME DialogsInv, NEW p \in Peers, BotCalls(p)
    PROVE  DialogsInv'
<1>1. app[p] = "bot" /\ UNCHANGED <<app, gui>>
  BY DEF BotCalls
<1>2. Local(chan[p])
  BY DEF DialogsInv, FileInv
<1>3. CASE AppSends(p)
  <2>1. PICK size \in Sizes, name \in Names, stream \in Streams :
           Call(p, PICA_send_file(chan[p], size, name, stream))
    BY <1>3 DEF AppSends
  <2>2. size \in Nat /\ name \in {"plain", "dotted"}
    BY FileTransferAssumption
  <2>3. chan[p].state = "ACTIVE" =>
           Good(chan[p], Nothing, PICA_send_file(chan[p], size, name, stream))
    BY <1>2, <2>2, SendCallGood
  <2>4. QED
    BY <1>1, <2>1, <2>3, BotCall
<1>4. CASE AppAnswers(p)
  <2>1. CASE Call(p, PICA_accept_file(chan[p], TRUE))
    BY <1>1, <1>2, <2>1, CallsGood, BotCall
  <2>2. CASE Call(p, PICA_deny_file(chan[p]))
    BY <1>1, <1>2, <2>2, CallsGood, BotCall
  <2>3. QED
    BY <1>4, <2>1, <2>2 DEF AppAnswers
<1>5. CASE AppControls(p)
  <2>1. PICK sending \in BOOLEAN :
           \/ Call(p, PICA_pause_file(chan[p], sending))
           \/ Call(p, PICA_resume_file(chan[p], sending))
           \/ Call(p, PICA_cancel_file(chan[p], sending))
    BY <1>5 DEF AppControls
  <2>2. CASE Call(p, PICA_pause_file(chan[p], sending))
    BY <1>1, <1>2, <2>2, CallsGood, BotCall
  <2>3. CASE Call(p, PICA_resume_file(chan[p], sending))
    BY <1>1, <1>2, <2>3, CallsGood, BotCall
  <2>4. CASE Call(p, PICA_cancel_file(chan[p], sending))
    BY <1>1, <1>2, <2>4, CallsGood, BotCall
  <2>5. QED
    BY <2>1, <2>2, <2>3, <2>4
<1>6. QED
  BY <1>3, <1>4, <1>5 DEF BotCalls

\* A click: what it does to the channel and to the dialogs.
LEMMA ClickStep ==
    ASSUME DialogsInv, NEW p \in Peers, NEW r, NEW g \in Gui, Clicks(p, r, g), g.alive = gui[p].alive,
           Good(chan[p], Nothing, r), HasDialog(r.chan, g)
    PROVE  DialogsInv'
<1>1. /\ app[p] = "gui" /\ chan[p].state = "ACTIVE" /\ done' = done /\ Settle(p, g)
      /\ Apply(p, r)
  BY DEF Clicks
<1>2. chan \in [Peers -> Channel] /\ chan[p] \in Channel /\ DialogOK(chan[p], gui[p])
  BY <1>1 DEF DialogsInv, FileInv, GuiInv
<1>3. g.alive
  BY <1>1, <1>2 DEF DialogOK
<1>4. DoneInv'
  BY <1>1, DoneKept DEF DialogsInv
<1>5. FileInv'
  BY <1>1, CallStep DEF DialogsInv
<1>6. chan' = [chan EXCEPT ![p] = Dead(r.chan)]
  BY <1>1 DEF Apply
<1>7. DialogOK(Dead(r.chan), g)
  <2>1. Dead(r.chan) = r.chan \/ Dead(r.chan).sendfilestate = "IDLE"
    BY DEF Dead, NewChannel
  <2>2. QED
    BY <1>3, <2>1 DEF DialogOK, HasDialog
<1>8. GuiInv'
  BY <1>1, <1>2, <1>3, <1>6, <1>7, GuiStep DEF DialogsInv
<1>9. QED
  BY <1>4, <1>5, <1>8 DEF DialogsInv

LEMMA DialogUpdates ==
    ASSUME NEW g \in Gui, NEW d \in MaybeDialog
    PROVE  /\ [g EXCEPT !.ftdialogs_in = d] \in Gui
           /\ SameOut(g, [g EXCEPT !.ftdialogs_in = d])
           /\ [g EXCEPT !.ftdialogs_out = d] \in Gui
           /\ [g EXCEPT !.ftdialogs_out = d].alive = g.alive
           /\ [g EXCEPT !.ftdialogs_out = d].forgotten = g.forgotten
           /\ [g EXCEPT !.ftdialogs_out = d].ftdialogs_out = d
BY DEF Gui, SameOut

LEMMA ButtonRenamed ==
    ASSUME NEW d \in MaybeDialog, d # None, NEW l \in {"Accept", "Pause", "Resume"}
    PROVE  [d EXCEPT !.left = l] \in MaybeDialog /\ SameDialog(d, [d EXCEPT !.left = l])
<1> DEFINE e == [d EXCEPT !.left = l]
<1>1. d \in Dialogs
  BY DEF MaybeDialog
<1>2. e \in Dialogs
  BY <1>1, DialogTypes
<1>3. e # None
  BY <1>2, DialogTypes
<1>4. e.file = d.file /\ e.size = d.size
  BY <1>1 DEF Dialogs
<1>5. e.righton = d.righton
  BY <1>1 DEF Dialogs
<1>6. QED
  BY <1>2, <1>3, <1>4, <1>5 DEF MaybeDialog, SameDialog

LEMMA SendFileStep ==
    ASSUME DialogsInv, NEW p \in Peers, send_file(p)
    PROVE  DialogsInv'
<1> DEFINE R(size, name, stream) == PICA_send_file(chan[p], size, name, stream)
           F(x) == IF x.ok THEN x.chan.sendfile.id ELSE 0
<1>1. PICK size \in Sizes, name \in Names, stream \in Streams :
         Clicks(p, R(size, name, stream),
                [gui[p] EXCEPT !.ftdialogs_out =
                    Dialog(F(R(size, name, stream)), size, "Pause", FALSE)])
  BY DEF send_file
<1> DEFINE r == R(size, name, stream)
           d == Dialog(F(r), size, "Pause", FALSE)
           g == [gui[p] EXCEPT !.ftdialogs_out = d]
<1>2. size \in Nat /\ name \in {"plain", "dotted"}
  BY FileTransferAssumption
<1>3. gui[p] \in Gui /\ Local(chan[p])
  BY DEF DialogsInv, FileInv, GuiInv
<1>4. Clicks(p, r, g) /\ chan[p].state = "ACTIVE" /\ app[p] = "gui"
  BY <1>1 DEF Clicks
<1>5. gui[p].ftdialogs_out = None
  BY DEF send_file
<1>6. /\ Good(chan[p], Nothing, r)
      /\ r.ok => r.chan.sendfile.id \in Nat /\ r.chan.sendfile.size = size
      /\ ~r.ok => r.chan = chan[p] \/ r.chan.sendfilestate = "IDLE"
  BY <1>2, <1>3, <1>4, SendCallGood
<1> HIDE DEF R
<1> HIDE DEF r
<1>7. F(r) \in Nat
  BY <1>6
<1> HIDE DEF F
<1>8. d \in MaybeDialog /\ d # None /\ d.file = F(r) /\ d.size = size /\ (size > 0 => d.righton)
  BY <1>2, <1>7, NewDialog DEF MaybeDialog
<1> HIDE DEF d
<1>9. /\ g \in Gui /\ g.alive = gui[p].alive /\ g.ftdialogs_out = d
      /\ g.forgotten = gui[p].forgotten
  BY <1>3, <1>8, DialogUpdates
<1> HIDE DEF g
<1>10. HasDialog(r.chan, g)
  <2>1. CASE r.ok
    BY <1>6, <1>8, <1>9, <2>1 DEF HasDialog, Owns, F
  <2>2. CASE ~r.ok /\ r.chan = chan[p]
    <3>1. HasDialog(chan[p], gui[p])
      BY <1>4 DEF DialogsInv, GuiInv, DialogOK
    <3>2. QED
      BY <1>5, <1>9, <2>2, <3>1 DEF HasDialog, Owns
  <2>3. CASE r.chan.sendfilestate = "IDLE"
    BY <2>3 DEF HasDialog
  <2>4. QED
    BY <1>6, <2>1, <2>2, <2>3
<1>11. QED
  BY <1>4, <1>6, <1>9, <1>10, ClickStep


\* A click that does not reach the library.
LEMMA QuietClick ==
    ASSUME DialogsInv, NEW p \in Peers, NEW g \in Gui, Clicks(p, Failed(chan[p]), g),
           SameOut(gui[p], g)
    PROVE  DialogsInv'
<1>1. app[p] = "gui" /\ chan[p].state = "ACTIVE"
  BY DEF Clicks
<1>2. Local(chan[p]) /\ HasDialog(chan[p], gui[p])
  BY <1>1 DEF DialogsInv, FileInv, GuiInv, DialogOK
<1>3. HasDialog(chan[p], g)
  BY <1>2 DEF HasDialog, SameOut
<1>4. Good(chan[p], Nothing, Failed(chan[p])) /\ Failed(chan[p]).chan = chan[p]
  BY <1>1, <1>2, FailedGood DEF Failed
<1>5. QED
  BY <1>3, <1>4, ClickStep DEF SameOut

LEMMA ClickAcceptStep ==
    ASSUME DialogsInv, NEW p \in Peers, ClickAccept(p)
    PROVE  DialogsInv'
<1> DEFINE g == [gui[p] EXCEPT !.ftdialogs_in.left = "Pause", !.modal = "save"]
           d == [gui[p].ftdialogs_in EXCEPT !.left = "Pause"]
<1>1. gui[p].ftdialogs_in # None /\ Clicks(p, Failed(chan[p]), g)
  BY DEF ClickAccept
<1>2. gui[p] \in Gui
  BY <1>1 DEF DialogsInv, GuiInv
<1>3. gui[p].ftdialogs_in \in MaybeDialog
  BY <1>2 DEF Gui
<1>4. d \in MaybeDialog
  BY <1>1, <1>3, ButtonRenamed
<1>5. g = [gui[p] EXCEPT !.ftdialogs_in = d, !.modal = "save"]
  BY <1>2 DEF Gui
<1> HIDE DEF d
<1>6. g \in Gui /\ SameOut(gui[p], g)
  BY <1>2, <1>4, <1>5 DEF Gui, SameOut
<1> HIDE DEF g
<1>7. QED
  BY <1>1, <1>6, QuietClick

LEMMA ClickCancelStep ==
    ASSUME DialogsInv, NEW p \in Peers, NEW sending \in BOOLEAN, ClickCancel(p, sending)
    PROVE  DialogsInv'
<1> DEFINE g == [gui[p] EXCEPT !.modal = IF sending THEN "out" ELSE "in"]
<1>1. Clicks(p, Failed(chan[p]), g)
  BY DEF ClickCancel
<1>2. gui[p] \in Gui
  BY <1>1 DEF DialogsInv, GuiInv
<1>3. g \in Gui /\ SameOut(gui[p], g)
  BY <1>2 DEF Gui, SameOut
<1> HIDE DEF g
<1>4. QED
  BY <1>1, <1>3, QuietClick

\* A click after which the same file is being sent, or none, with the same dialog.
LEMMA SteadyClick ==
    ASSUME DialogsInv, NEW p \in Peers, NEW r, NEW g \in Gui, Clicks(p, r, g),
           g.alive = gui[p].alive, KeepsOut(gui[p], g), Good(chan[p], Nothing, r),
           SameSent(chan[p], r.chan)
    PROVE  DialogsInv'
<1>1. HasDialog(chan[p], gui[p])
  BY DEF DialogsInv, GuiInv, DialogOK, Clicks
<1>2. HasDialog(r.chan, g)
  BY <1>1, DialogKept
<1>3. QED
  BY <1>2, ClickStep

LEMMA ClickDenyStep ==
    ASSUME DialogsInv, NEW p \in Peers, ClickDeny(p)
    PROVE  DialogsInv'
<1> DEFINE g == [gui[p] EXCEPT !.ftdialogs_in = None]
           r == PICA_deny_file(chan[p])
<1>1. Clicks(p, r, g) /\ chan[p].state = "ACTIVE"
  BY DEF ClickDeny, Clicks
<1>2. gui[p] \in Gui /\ Local(chan[p]) /\ chan[p] \in Channel
  BY <1>1 DEF DialogsInv, FileInv, GuiInv
<1>3. None \in MaybeDialog
  BY DEF MaybeDialog
<1>4. g \in Gui /\ SameOut(gui[p], g)
  BY <1>2, <1>3, DialogUpdates
<1>5. Good(chan[p], Nothing, r)
  BY <1>1, <1>2, CallsGood
<1>6. SameSent(chan[p], r.chan)
  <2>1. r = Done(StopReceiving(chan[p]), <<Denied>>, <<>>) \/ r = Failed(chan[p])
    BY DEF PICA_deny_file
  <2>2. /\ StopReceiving(chan[p]).sendfilestate = chan[p].sendfilestate
        /\ StopReceiving(chan[p]).sendfile = chan[p].sendfile
    BY <1>2, Stops DEF SameSendSide
  <2> HIDE DEF r
  <2>3. QED
    BY <2>1, <2>2 DEF Done, Failed, SameSent
<1> HIDE DEF g, r
<1>7. KeepsOut(gui[p], g) /\ g.alive = gui[p].alive
  BY <1>4, SameOutKeeps DEF SameOut
<1>8. QED
  BY <1>1, <1>4, <1>5, <1>6, <1>7, SteadyClick

\* Pause and resume: the dialog stays, with another text on its button.
LEMMA RenamedGui ==
    ASSUME NEW g \in Gui, NEW sending \in BOOLEAN, NEW l \in {"Accept", "Pause", "Resume"},
           (IF sending THEN g.ftdialogs_out ELSE g.ftdialogs_in) # None
    PROVE  LET h == IF sending THEN [g EXCEPT !.ftdialogs_out.left = l]
                               ELSE [g EXCEPT !.ftdialogs_in.left = l]
           IN  h \in Gui /\ h.alive = g.alive /\ KeepsOut(g, h)
<1> DEFINE h == IF sending THEN [g EXCEPT !.ftdialogs_out.left = l]
                           ELSE [g EXCEPT !.ftdialogs_in.left = l]
<1>1. g.ftdialogs_out \in MaybeDialog /\ g.ftdialogs_in \in MaybeDialog
  BY DEF Gui
<1>2. CASE sending
  <2> DEFINE d == [g.ftdialogs_out EXCEPT !.left = l]
  <2>1. d \in MaybeDialog /\ SameDialog(g.ftdialogs_out, d)
    BY <1>1, <1>2, ButtonRenamed
  <2>2. h = [g EXCEPT !.ftdialogs_out = d]
    BY <1>2
  <2> HIDE DEF h, d
  <2>3. h \in Gui /\ h.alive = g.alive /\ h.ftdialogs_out = d /\ h.forgotten = g.forgotten
    BY <2>1, <2>2, DialogUpdates
  <2>4. QED
    BY <2>1, <2>3 DEF h, KeepsOut
<1>3. CASE ~sending
  <2> DEFINE d == [g.ftdialogs_in EXCEPT !.left = l]
  <2>1. d \in MaybeDialog
    BY <1>1, <1>3, ButtonRenamed
  <2>2. h = [g EXCEPT !.ftdialogs_in = d]
    BY <1>3
  <2> HIDE DEF h, d
  <2>3. h \in Gui /\ SameOut(g, h)
    BY <2>1, <2>2, DialogUpdates
  <2>4. h.alive = g.alive /\ KeepsOut(g, h)
    BY <2>3, SameOutKeeps DEF SameOut
  <2>5. QED
    BY <2>3, <2>4 DEF h
<1>4. QED
  BY <1>2, <1>3

\* A call that is not the answer to a request starts no transfer.
LEMMA SwitchKeepsSending ==
    ASSUME NEW c \in Channel, NEW sending \in BOOLEAN, NEW from, NEW to, NEW cmd,
           sending => from # "IDLE"
    PROVE  SameSent(c, Switch(c, sending, from, to, cmd).chan)
<1>1. CASE Switch(c, sending, from, to, cmd) = Failed(c)
  BY <1>1 DEF Failed, SameSent
<1>2. CASE sending /\ Switch(c, sending, from, to, cmd) # Failed(c)
  <2> DEFINE t == [c EXCEPT !.sendfilestate = to]
  <2>1. /\ Switch(c, sending, from, to, cmd) = Done(t, <<Control(cmd, "VOID")>>, <<>>)
        /\ c.sendfilestate = from
    BY <1>2 DEF Switch
  <2>2. t.sendfile = c.sendfile
    BY DEF Channel
  <2> HIDE DEF t
  <2>3. c.sendfilestate # "IDLE"
    BY <1>2, <2>1
  <2>4. Switch(c, sending, from, to, cmd).chan = t
    BY <2>1 DEF Done
  <2>5. QED
    BY <2>2, <2>3, <2>4 DEF SameSent
<1>3. CASE ~sending /\ Switch(c, sending, from, to, cmd) # Failed(c)
  <2> DEFINE t == [c EXCEPT !.recvfilestate = to]
  <2>1. Switch(c, sending, from, to, cmd) = Done(t, <<Control("VOID", cmd)>>, <<>>)
    BY <1>3 DEF Switch
  <2>2. t.sendfile = c.sendfile /\ t.sendfilestate = c.sendfilestate
    BY DEF Channel
  <2> HIDE DEF t
  <2>3. QED
    BY <2>1, <2>2 DEF Done, SameSent
<1>4. QED
  BY <1>1, <1>2, <1>3

LEMMA ClickPauseStep ==
    ASSUME DialogsInv, NEW p \in Peers, NEW sending \in BOOLEAN, ClickPause(p, sending)
    PROVE  DialogsInv'
<1> DEFINE g == IF sending THEN [gui[p] EXCEPT !.ftdialogs_out.left = "Resume"]
                           ELSE [gui[p] EXCEPT !.ftdialogs_in.left = "Resume"]
           r == PICA_pause_file(chan[p], sending)
<1>1. /\ Clicks(p, r, g) /\ chan[p].state = "ACTIVE"
      /\ (IF sending THEN gui[p].ftdialogs_out ELSE gui[p].ftdialogs_in) # None
  BY DEF ClickPause, Clicks
<1>2. gui[p] \in Gui /\ Local(chan[p]) /\ chan[p] \in Channel
  BY <1>1 DEF DialogsInv, FileInv, GuiInv
<1>3. g \in Gui /\ g.alive = gui[p].alive /\ KeepsOut(gui[p], g)
  BY <1>1, <1>2, RenamedGui
<1>4. Good(chan[p], Nothing, r)
  BY <1>1, <1>2, CallsGood
<1>5. SameSent(chan[p], r.chan)
  BY <1>2, SwitchKeepsSending DEF PICA_pause_file
<1> HIDE DEF g, r
<1>6. QED
  BY <1>1, <1>3, <1>4, <1>5, SteadyClick

LEMMA ClickResumeStep ==
    ASSUME DialogsInv, NEW p \in Peers, NEW sending \in BOOLEAN, ClickResume(p, sending)
    PROVE  DialogsInv'
<1> DEFINE g == IF sending THEN [gui[p] EXCEPT !.ftdialogs_out.left = "Pause"]
                           ELSE [gui[p] EXCEPT !.ftdialogs_in.left = "Pause"]
           r == PICA_resume_file(chan[p], sending)
<1>1. /\ Clicks(p, r, g) /\ chan[p].state = "ACTIVE"
      /\ (IF sending THEN gui[p].ftdialogs_out ELSE gui[p].ftdialogs_in) # None
  BY DEF ClickResume, Clicks
<1>2. gui[p] \in Gui /\ Local(chan[p]) /\ chan[p] \in Channel
  BY <1>1 DEF DialogsInv, FileInv, GuiInv
<1>3. g \in Gui /\ g.alive = gui[p].alive /\ KeepsOut(gui[p], g)
  BY <1>1, <1>2, RenamedGui
<1>4. Good(chan[p], Nothing, r)
  BY <1>1, <1>2, CallsGood
<1>5. SameSent(chan[p], r.chan)
  BY <1>2, SwitchKeepsSending DEF PICA_resume_file
<1> HIDE DEF g, r
<1>6. QED
  BY <1>1, <1>3, <1>4, <1>5, SteadyClick


\* An answer to a modal dialog that does not reach the library, or finds no channel.
LEMMA QuietAnswer ==
    ASSUME DialogsInv, NEW p \in Peers, NEW h \in Gui, app[p] = "gui",
           Apply(p, Failed(chan[p])), Settle(p, h), h.alive = gui[p].alive,
           HasDialog(chan[p], h)
    PROVE  FileInv' /\ GuiInv'
<1>1. DialogOK(chan[p], gui[p]) /\ Local(chan[p]) /\ chan \in [Peers -> Channel]
  BY DEF DialogsInv, FileInv, GuiInv
<1>2. FileInv'
  BY FailedCall DEF DialogsInv
<1>3. chan' = [chan EXCEPT ![p] = Dead(chan[p])]
  BY DEF Apply, Failed
<1>4. \/ Dead(chan[p]) = chan[p]
      \/ Dead(chan[p]).state # "ACTIVE" /\ Dead(chan[p]).sendfilestate = "IDLE"
  BY DEF Dead, NewChannel
<1>5. DialogOK(Dead(chan[p]), h)
  BY <1>1, <1>4 DEF DialogOK, HasDialog
<1>6. ~h.alive => Dead(chan[p]).state # "ACTIVE" /\ Dead(chan[p]).sendfilestate = "IDLE"
  <2>1. ~h.alive => chan[p].state # "ACTIVE"
    BY <1>1 DEF DialogOK
  <2>2. chan[p].state # "ACTIVE" => chan[p].sendfilestate = "IDLE"
    BY <1>1 DEF Local
  <2>3. QED
    BY <1>4, <2>1, <2>2
<1>7. GuiInv'
  BY <1>1, <1>3, <1>5, <1>6, GuiStep DEF DialogsInv
<1>8. QED
  BY <1>2, <1>7

\* An answer to a modal dialog that the library takes.
LEMMA TakenAnswer ==
    ASSUME DialogsInv, NEW p \in Peers, NEW r, NEW h \in Gui, app[p] = "gui",
           chan[p].state = "ACTIVE", Good(chan[p], Nothing, r), Apply(p, r), Settle(p, h),
           h.alive = gui[p].alive, HasDialog(r.chan, h)
    PROVE  FileInv' /\ GuiInv'
<1>1. DialogOK(chan[p], gui[p]) /\ chan \in [Peers -> Channel]
  BY DEF DialogsInv, FileInv, GuiInv
<1>2. FileInv'
  BY CallStep DEF DialogsInv
<1>3. chan' = [chan EXCEPT ![p] = Dead(r.chan)]
  BY DEF Apply
<1>4. h.alive
  BY <1>1 DEF DialogOK
<1>5. DialogOK(Dead(r.chan), h)
  <2>1. Dead(r.chan) = r.chan \/ Dead(r.chan).sendfilestate = "IDLE"
    BY DEF Dead, NewChannel
  <2>2. QED
    BY <1>4, <2>1 DEF DialogOK, HasDialog
<1>6. GuiInv'
  BY <1>1, <1>3, <1>4, <1>5, GuiStep DEF DialogsInv
<1>7. QED
  BY <1>2, <1>6

\* The user answers whether to cancel: a file that waits for the peer's answer goes on
\* without its dialog, and is forgotten.
LEMMA CancelledByMeStep ==
    ASSUME DialogsInv, NEW p \in Peers, file_cancelled_by_me(p)
    PROVE  DialogsInv'
<1> DEFINE c == chan[p]
           sending == gui[p].modal = "out"
           closed == [gui[p] EXCEPT !.modal = "none"]
           forgotten == IF c.sendfilestate = "SENTREQ" THEN c.sendfile.id ELSE gui[p].forgotten
           r == IF c.state = "ACTIVE" THEN PICA_cancel_file(c, sending) ELSE Failed(c)
           h == IF sending
                THEN [closed EXCEPT !.ftdialogs_out = None, !.forgotten = forgotten]
                ELSE [closed EXCEPT !.ftdialogs_in = None]
<1>1. /\ app[p] = "gui" /\ done' = done
      /\ \/ Apply(p, Failed(c)) /\ Settle(p, closed)
         \/ Apply(p, r) /\ Settle(p, h)
  BY DEF file_cancelled_by_me
<1>2. /\ gui[p] \in Gui /\ HasDialog(c, gui[p]) /\ Local(c) /\ c \in Channel
  BY <1>1 DEF DialogsInv, FileInv, GuiInv, DialogOK
<1>3. DoneInv'
  BY <1>1, DoneKept DEF DialogsInv
<1>4. closed \in Gui /\ SameOut(gui[p], closed)
  BY <1>2 DEF Gui, SameOut
<1>5. CASE Apply(p, Failed(c)) /\ Settle(p, closed)
  <2>1. HasDialog(c, closed) /\ closed.alive = gui[p].alive
    BY <1>2, <1>4 DEF HasDialog, SameOut
  <2> HIDE DEF closed
  <2>2. FileInv' /\ GuiInv'
    BY <1>1, <1>4, <1>5, <2>1, QuietAnswer
  <2>3. QED
    BY <1>3, <2>2 DEF DialogsInv
<1>6. CASE Apply(p, r) /\ Settle(p, h)
  <2>1. forgotten \in Nat /\ None \in MaybeDialog /\ sending \in BOOLEAN
    <3>1. c.sendfile \in File
      BY <1>2 DEF Channel
    <3>2. c.sendfile.id \in Nat /\ gui[p].forgotten \in Nat
      BY <1>2, <3>1 DEF File, Gui
    <3>3. QED
      BY <3>2 DEF MaybeDialog
  <2> HIDE DEF closed, forgotten
  <2>2. /\ h \in Gui /\ h.alive = gui[p].alive
        /\ sending => h.forgotten = forgotten
        /\ ~sending => SameOut(gui[p], h)
    BY <1>4, <2>1 DEF Gui, SameOut
  <2> HIDE DEF h
  <2>3. CASE c.state # "ACTIVE"
    <3>1. Apply(p, Failed(c))
      BY <1>6, <2>3
    <3>2. HasDialog(c, h)
      BY <1>2, <2>3 DEF HasDialog, Local
    <3>3. FileInv' /\ GuiInv'
      BY <1>1, <1>6, <2>2, <3>1, <3>2, QuietAnswer
    <3>4. QED
      BY <1>3, <3>3 DEF DialogsInv
  <2>4. CASE c.state = "ACTIVE"
    <3>1. r = PICA_cancel_file(c, sending)
      BY <2>4
    <3>2. Good(c, Nothing, r)
      BY <1>2, <2>1, <2>4, <3>1, CallsGood
    <3>3. \/ sending /\ r = Done(StopSending(c), <<Control("CANCEL", "VOID")>>, <<>>)
          \/ ~sending /\ r = Done(StopReceiving(c), <<Control("VOID", "CANCEL")>>, <<>>)
          \/ r = Failed(c) /\ (sending => c.sendfilestate \notin {"SENDING", "PAUSED"})
      BY <3>1 DEF PICA_cancel_file
    <3>4. /\ StopSending(c).sendfilestate = "IDLE"
          /\ StopReceiving(c).sendfilestate = c.sendfilestate
          /\ StopReceiving(c).sendfile = c.sendfile
      BY <1>2, Stops DEF SameSendSide
    <3> HIDE DEF r
    <3>5. HasDialog(r.chan, h)
      <4>1. CASE sending /\ r = Done(StopSending(c), <<Control("CANCEL", "VOID")>>, <<>>)
        <5>1. r.chan.sendfilestate = "IDLE"
          BY <3>4, <4>1 DEF Done
        <5>2. QED
          BY <5>1 DEF HasDialog
      <4>2. CASE /\ r = Failed(c) /\ sending /\ c.sendfilestate \notin {"SENDING", "PAUSED"}
        <5>1. c.sendfilestate \in SendStates
          BY <1>2 DEF Channel
        <5>2. c.sendfilestate = "IDLE" \/ c.sendfilestate = "SENTREQ"
          BY <4>2, <5>1 DEF SendStates
        <5>3. r.chan = c
          BY <4>2 DEF Failed
        <5>4. QED
          BY <2>2, <4>2, <5>2, <5>3 DEF HasDialog, forgotten
      <4>3. CASE ~sending
        <5>1. r.chan.sendfilestate = c.sendfilestate /\ r.chan.sendfile = c.sendfile
          BY <3>3, <3>4, <4>3 DEF Done, Failed
        <5>2. SameSent(c, r.chan)
          BY <5>1 DEF SameSent
        <5>3. KeepsOut(gui[p], h)
          BY <2>2, <4>3, SameOutKeeps
        <5>4. QED
          BY <1>2, <5>2, <5>3, DialogKept
      <4>4. QED
        BY <3>3, <4>1, <4>2, <4>3
    <3>6. FileInv' /\ GuiInv'
      BY <1>1, <1>6, <2>2, <2>4, <3>2, <3>5, TakenAnswer
    <3>7. QED
      BY <1>3, <3>6 DEF DialogsInv
  <2>5. QED
    BY <2>3, <2>4
<1>7. QED
  BY <1>1, <1>5, <1>6


\* The user has chosen where to save the file: the offer may be gone by then, and so may
\* the channel.
LEMMA AcceptedByMeStep ==
    ASSUME DialogsInv, NEW p \in Peers, file_accepted_by_me(p)
    PROVE  DialogsInv'
<1>1. app[p] = "gui" /\ done' = done
  BY DEF file_accepted_by_me
<1>2. /\ gui[p] \in Gui /\ DialogOK(chan[p], gui[p]) /\ Local(chan[p])
      /\ chan \in [Peers -> Channel] /\ chan[p] \in Channel
  BY <1>1 DEF DialogsInv, FileInv, GuiInv
<1>3. DoneInv'
  BY <1>1, DoneKept DEF DialogsInv
<1> DEFINE g == [gui[p] EXCEPT !.modal = "none", !.wired_in = @ + 1]
<1>4. g \in Gui /\ SameOut(gui[p], g)
  <2>1. gui[p].wired_in + 1 \in Nat
    BY <1>2 DEF Gui
  <2>2. QED
    BY <1>2, <2>1 DEF Gui, SameOut
<1>5. PICK opens \in BOOLEAN :
         LET r == PICA_accept_file(chan[p], opens)
             taken == r.ok /\ chan[p].state = "ACTIVE"
         IN  IF gui[p].ftdialogs_in = None
             THEN /\ chan' = [chan EXCEPT ![p] = Dead([@ EXCEPT !.state = "CRASHED"])]
                  /\ Settle(p, NullDialog(g))
                  /\ UNCHANGED wire
             ELSE /\ Apply(p, IF taken THEN r ELSE Failed(chan[p]))
                  /\ Settle(p, IF taken THEN active_filetransfers_up(g) ELSE g)
  BY DEF file_accepted_by_me
<1> DEFINE r == PICA_accept_file(chan[p], opens)
           taken == r.ok /\ chan[p].state = "ACTIVE"
<1> HIDE DEF g
<1>6. CASE gui[p].ftdialogs_in = None
  <2> DEFINE d == Dead([chan[p] EXCEPT !.state = "CRASHED"])
  <2>1. /\ chan' = [chan EXCEPT ![p] = Dead([@ EXCEPT !.state = "CRASHED"])]
        /\ Settle(p, NullDialog(g)) /\ wire' = wire
    BY <1>5, <1>6
  <2>2. FileInv' /\ chan'[p].state = "CRASHED" /\ chan'[p].sendfilestate = "IDLE"
    BY <2>1, CrashStep DEF DialogsInv
  <2>3. NullDialog(g) \in Gui /\ ~NullDialog(g).alive
    BY <1>4 DEF NullDialog, Gui
  <2>4. chan' = [chan EXCEPT ![p] = d] /\ d = chan'[p]
    BY <1>2, <2>1
  <2> HIDE DEF d
  <2>5. GuiInv'
    BY <1>2, <2>1, <2>2, <2>3, <2>4, GuiStep DEF DialogsInv
  <2>6. QED
    BY <1>3, <2>2, <2>5 DEF DialogsInv
<1>7. CASE gui[p].ftdialogs_in # None /\ taken
  <2> DEFINE h == active_filetransfers_up(g)
  <2>1. Apply(p, r) /\ Settle(p, h)
    BY <1>5, <1>7
  <2>2. Good(chan[p], Nothing, r)
    BY <1>2, <1>7, AcceptGood
  <2>3. h \in Gui /\ SameOut(gui[p], h)
    BY <1>4, CountSlot DEF SameOut
  <2>4. SameSent(chan[p], r.chan)
    <3> DEFINE t == [chan[p] EXCEPT !.recvfilestate = "RECEIVING", !.recvfile_stream = TRUE]
    <3>1. r = Done(t, <<Accepted>>, <<>>)
      BY <1>7 DEF PICA_accept_file, Failed
    <3>2. SameSent(chan[p], t)
      BY <1>2 DEF Channel, SameSent
    <3> HIDE DEF r, t
    <3>3. QED
      BY <3>1, <3>2 DEF Done
  <2> HIDE DEF r, h
  <2>5. HasDialog(r.chan, h)
    BY <1>2, <2>3, <2>4, SameOutKeeps, DialogKept DEF DialogOK
  <2>6. FileInv' /\ GuiInv'
    BY <1>1, <1>7, <2>1, <2>2, <2>3, <2>5, TakenAnswer DEF SameOut
  <2>7. QED
    BY <1>3, <2>6 DEF DialogsInv
<1>8. CASE gui[p].ftdialogs_in # None /\ ~taken
  <2>1. Apply(p, Failed(chan[p])) /\ Settle(p, g)
    BY <1>5, <1>8
  <2>2. HasDialog(chan[p], g)
    BY <1>2, <1>4 DEF DialogOK, HasDialog, SameOut
  <2>3. FileInv' /\ GuiInv'
    BY <1>1, <1>4, <2>1, <2>2, QuietAnswer DEF SameOut
  <2>4. QED
    BY <1>3, <2>3 DEF DialogsInv
<1>9. QED
  BY <1>6, <1>7, <1>8

LEMMA FileLengthStep ==
    ASSUME DialogsInv, NEW p \in Peers, FileChanges(p), UNCHANGED <<app, gui>>
    PROVE  DialogsInv'
<1>1. FileInv' /\ SameSent(chan[p], chan'[p]) /\ chan'[p].state = chan[p].state
  BY FileChangesStep DEF DialogsInv
<1>2. done' = done
  BY DEF FileChanges
<1>3. chan \in [Peers -> Channel]
  BY DEF DialogsInv, FileInv
<1>4. PICK d : chan' = [chan EXCEPT ![p] = d]
  BY DEF FileChanges
<1>5. chan'[p] = d
  BY <1>3, <1>4
<1>6. GuiInv'
  BY <1>1, <1>3, <1>4, <1>5, BotKeeps DEF DialogsInv
<1>7. QED
  BY <1>1, <1>2, <1>6, DoneKept DEF DialogsInv

LEMMA DialogsInit == Init => DialogsInv
<1> SUFFICES ASSUME Init PROVE DialogsInv
  OBVIOUS
<1>1. /\ chan = [p \in Peers |-> NewChannel] /\ wire = [p \in Peers |-> <<>>]
      /\ done = [p \in Peers |-> {}]
      /\ app \in [Peers -> Apps] /\ gui = [p \in Peers |-> NewGui]
  BY DEF Init, FileInit
<1>2. Local(NewChannel) /\ NewChannel \in Channel
  BY NewIsLocal DEF Local
<1>3. NoReq(<<>>) /\ NoFrag(<<>>) /\ NoAnswer(<<>>) /\ <<>> \in Seq(Message)
  BY NoMessages
<1>4. Direction(NewChannel, NewChannel, <<>>, <<>>)
  <2>1. NewChannel.sendfilestate = "IDLE" /\ NewChannel.recvfilestate = "IDLE"
    BY DEF NewChannel
  <2>2. LastRequest(<<>>)
    BY <1>3 DEF LastRequest, NoReq
  <2>3. QED
    BY <1>3, <2>1, <2>2 DEF Direction, Handshake, Position, Running
<1>5. Agreement(NewChannel, NewChannel, <<>>, <<>>)
  <2>1. NewChannel.sendfilestate = "IDLE" /\ NewChannel.recvfilestate = "IDLE"
    BY DEF NewChannel
  <2>2. \A i \in 1..Len(<<>>) : FALSE
    BY <1>3, NoMessages
  <2>3. QED
    BY <2>1, <2>2 DEF Agreement, Agrees, QuietBehind, Announces, Running, Sending
<1>6. FileInv
  <2>1. chan \in [Peers -> Channel] /\ wire \in [Peers -> Seq(Message)]
    BY <1>1, <1>2, <1>3
  <2>2. ASSUME NEW p \in Peers
        PROVE  /\ Local(chan[p])
               /\ Direction(chan[Other(p)], chan[p], wire[Other(p)], wire[p])
               /\ Agreement(chan[Other(p)], chan[p], wire[Other(p)], wire[p])
    BY <1>1, <1>2, <1>4, <1>5, TwoPeers
  <2>3. QED
    BY <2>1, <2>2 DEF FileInv
<1>7. DoneInv
  BY <1>1 DEF DoneInv, WholeFile
<1>8. GuiInv
  <2>1. NewGui.alive /\ NewChannel.sendfilestate = "IDLE"
    BY DEF NewGui, NewChannel
  <2>2. QED
    BY <1>1, <2>1, NewGuiType DEF GuiInv, DialogOK, HasDialog
<1>9. QED
  BY <1>6, <1>7, <1>8 DEF DialogsInv

LEMMA DialogsNext == DialogsInv /\ [Next]_vars => DialogsInv'
<1> SUFFICES ASSUME DialogsInv, [Next]_vars PROVE DialogsInv'
  OBVIOUS
<1>1. CASE UNCHANGED vars
  BY <1>1 DEF DialogsInv, FileInv, DoneInv, GuiInv, WholeFile, vars, fileVars
<1>2. CASE Next
  <2>1. PICK p \in Peers :
           \/ GuiRead(p) \/ GuiDies(p) \/ GuiSendFragment(p) \/ GuiDisconnected(p)
           \/ BotStep(p) \/ BotCalls(p)
           \/ UserClicks(p) \/ file_accepted_by_me(p) \/ file_cancelled_by_me(p)
           \/ FileChanges(p) /\ UNCHANGED <<app, gui>>
    BY <1>2 DEF Next
  <2>2. UserClicks(p) => DialogsInv'
    BY SendFileStep, ClickAcceptStep, ClickDenyStep, ClickPauseStep, ClickResumeStep,
       ClickCancelStep DEF UserClicks
  <2>3. QED
    BY <2>1, <2>2, GuiReadStep, GuiDiesStep, GuiSendFragmentStep, GuiDisconnectedStep,
       BotStepStep, BotCallsStep, AcceptedByMeStep, CancelledByMeStep, FileLengthStep
<1>3. QED
  BY <1>1, <1>2

LEMMA DialogsAlways == Spec => []DialogsInv
BY DialogsInit, DialogsNext, PTL DEF Spec

\* With both queues empty no command is left that could explain a difference.
LEMMA NothingLeft ==
    ASSUME NEW S \in Channel, NEW R \in Channel, S.state = "ACTIVE", R.state = "ACTIVE",
           NEW w, NEW b, Len(w) = 0, Len(b) = 0, Direction(S, R, w, b), Agreement(S, R, w, b)
    PROVE  <<S.sendfilestate, R.recvfilestate>> \in
               {<<"IDLE", "IDLE">>, <<"SENTREQ", "WAITACCEPT">>,
                <<"SENDING", "RECEIVING">>, <<"PAUSED", "PAUSED">>}
<1>1. Handshake(S, R, w, b) /\ Agrees(S, R, w, b)
  BY DEF Direction, Agreement
<1>2. S.sendfilestate \in SendStates /\ R.recvfilestate \in RecvStates
  BY DEF Channel
<1>3. /\ NoReq(w) /\ NoAnswer(b) /\ ~Halted(b, "rcv")
      /\ \A size : ~Ending(w, size)
  BY DEF NoReq, NoAnswer, Halted, Ending
<1>4. ASSUME S.sendfilestate = "IDLE"
      PROVE  R.recvfilestate = "IDLE"
  <2>1. R.recvfilestate # "WAITACCEPT"
    BY <1>1, <1>4 DEF Handshake
  <2>2. R.recvfilestate \notin Running
    BY <1>1, <1>3, <1>4 DEF Agrees
  <2>3. QED
    BY <1>2, <2>1, <2>2 DEF RecvStates, Running
<1>5. ASSUME S.sendfilestate = "SENTREQ"
      PROVE  R.recvfilestate = "WAITACCEPT"
  BY <1>1, <1>3, <1>5 DEF Agrees, Asked
<1>6. ASSUME S.sendfilestate \in Sending
      PROVE  R.recvfilestate = IF S.sendfilestate = "PAUSED" THEN "PAUSED" ELSE "RECEIVING"
  <2>1. Paired(S, R, w, b)
    BY <1>1, <1>6 DEF Agrees
  <2>2. R.recvfilestate \in Running /\ Balanced(S, R, w, b)
    BY <1>3, <2>1 DEF Paired
  <2>3. PICK x \in {0, 1}, y \in {0, 1} :
           /\ Parity(w, "snd", x) /\ Parity(b, "rcv", y)
           /\ (Paused(S.sendfilestate) = Paused(R.recvfilestate)) <=> (x = y)
    BY <2>2 DEF Balanced
  <2>4. x = 0 /\ y = 0
    BY <2>3, ParityEmpty
  <2>5. Paused(S.sendfilestate) = Paused(R.recvfilestate)
    BY <2>3, <2>4
  <2>6. QED
    BY <2>2, <2>5 DEF Paused, Running
<1>7. QED
  BY <1>2, <1>4, <1>5, <1>6 DEF SendStates, Sending

-----------------------------------------------------------------------------
(* The theorems *)

\* A file reported as received is the file that was offered, from its first unit to its
\* last, for files of any size, fragments of any length and any number of transfers that
\* were cancelled, refused, paused or cut off before it on the same channel.
THEOREM FilesArriveWhole == Spec => []WholeFile
<1>1. DialogsInv => WholeFile
  BY DEF DialogsInv, DoneInv
<1>2. QED
  BY <1>1, DialogsAlways, PTL

\* The library's file streams are open exactly while a transfer uses them, but for one
\* that could not be measured.
THEOREM StreamsAlways == Spec => []StreamsMatch
<1>1. DialogsInv => StreamsMatch
  BY DEF DialogsInv, FileInv, Local, StreamsMatch, Running
<1>2. QED
  BY <1>1, DialogsAlways, PTL

\* The controller knows the file it sends by the dialog made for it, whose cancel button
\* is on, from the request to the last fragment, unless the user has cancelled it before
\* the peer answered.
THEOREM SendsHaveTheirDialogs == Spec => []EverySendHasItsDialog
<1>1. DialogsInv => EverySendHasItsDialog
  BY DEF DialogsInv, GuiInv, DialogOK, HasDialog, Owns, EverySendHasItsDialog
<1>2. QED
  BY <1>1, DialogsAlways, PTL

\* Once everything has been read the two ends of an open channel agree about both of its
\* transfers, whatever pauses, resumes, cancellations and answers crossed on the way.
THEOREM EndsAlwaysAgree == Spec => []EndsAgree
<1>1. DialogsInv => EndsAgree
  <2> SUFFICES ASSUME DialogsInv, NEW p \in Peers,
                      \A q \in Peers : chan[q].state = "ACTIVE" /\ wire[q] = <<>>
               PROVE  <<chan[p].sendfilestate, chan[Other(p)].recvfilestate>> \in
                         {<<"IDLE", "IDLE">>, <<"SENTREQ", "WAITACCEPT">>,
                          <<"SENDING", "RECEIVING">>, <<"PAUSED", "PAUSED">>}
    BY DEF EndsAgree
  <2> DEFINE q == Other(p)
  <2>1. q \in Peers /\ Other(q) = p
    BY TwoPeers
  <2> HIDE DEF q
  <2>2. /\ chan[p] \in Channel /\ chan[q] \in Channel
        /\ Direction(chan[p], chan[q], wire[p], wire[q])
        /\ Agreement(chan[p], chan[q], wire[p], wire[q])
    BY <2>1 DEF DialogsInv, FileInv
  <2>3. /\ chan[p].state = "ACTIVE" /\ chan[q].state = "ACTIVE"
        /\ Len(wire[p]) = 0 /\ Len(wire[q]) = 0
    BY <2>1
  <2>4. QED
    BY <2>2, <2>3, NothingLeft DEF q
<1>2. QED
  BY <1>1, DialogsAlways, PTL
=============================================================================
