---------------------------- MODULE FileTransfer ----------------------------
(***************************************************************************)
(* File transfer between the two ends of an active c2c channel, as the     *)
(* client library does it (src/PICA_client.c).  Both ends may send a file  *)
(* to the other at the same time over the same channel, and the messages   *)
(* of the two transfers share it.                                          *)
(*                                                                         *)
(* A function of the library that works on a struct PICA_c2c is an         *)
(* operator that takes the channel record and returns what the call leaves *)
(* behind: the changed channel, the messages it pushed, the callbacks it   *)
(* made and whether it succeeded.  The channel itself is a FIFO of         *)
(* messages each way; DirectSwitch shows that the library keeps it one.    *)
(* File contents are numbered units, FRAGMENT of which fit one             *)
(* FILEFRAGMENT message.  Memory exhaustion is left out.                   *)
(***************************************************************************)
EXTENDS Integers, Sequences

CONSTANTS
    Peers,      \* the two ends of the channel
    FRAGMENT,   \* units of a file in one message (PICA_FILEFRAGMENTSIZE - 4)
    Sizes,      \* the sizes of files a user may choose
    Names,      \* the names of files: "plain" ones, and "dotted" ones that
                \* the receiver refuses
    MaxFiles,   \* bound: files requested by the two ends together
    MaxClicks,  \* bound: calls of the applications
    MaxFaults   \* bound: failed opens, seeks and writes, files changed while sent

ASSUME FileTransferAssumption ==
    /\ \E p, q \in Peers : p # q /\ Peers = {p, q}
    /\ FRAGMENT \in Nat \ {0}
    /\ Sizes \subseteq Nat
    /\ Names \subseteq {"plain", "dotted"}
    /\ {MaxFiles, MaxClicks, MaxFaults} \subseteq Nat

VARIABLES
    chan,       \* struct PICA_c2c at each end, the part that concerns files
    wire,       \* wire[p]: messages from p that its peer has not processed
    done,       \* done[p]: what p has stored of each file it was told is complete
    clicks,     \* calls of the applications so far
    faults      \* failures so far

fileVars == <<chan, wire, done, clicks, faults>>

Other(p) == CHOOSE q \in Peers : q # p

MoreFiles == \A p \in Peers : chan[p].sent + chan[Other(p)].sent < MaxFiles

SendStates == {"IDLE", "SENTREQ", "SENDING", "PAUSED"}
RecvStates == {"IDLE", "WAITACCEPT", "RECEIVING", "PAUSED"}
Commands == {"VOID", "PAUSE", "RESUME", "CANCEL", "IOERROR"}

\* sendfile_stream: NULL, the open file, or a file that was opened but whose end
\* could not be found (fseeko failed).
Streams == {"NULL", "open", "unseekable"}

\* The file being sent: its id, the size announced, the length it has on disk
\* now and how much has been sent.  Files are numbered by their sender.
NoFile == [id |-> 0, size |-> 0, len |-> 0, pos |-> 0]

NewChannel ==
    [state |-> "ACTIVE", sent |-> 0,
     sendfilestate |-> "IDLE", sendfile |-> NoFile, sendfile_stream |-> "NULL",
     recvfilestate |-> "IDLE", recvfile |-> NoFile, recvfile_stream |-> FALSE,
     written |-> <<>>]

Request(f, name) == [type |-> "SENDFILEREQUEST", id |-> f.id, size |-> f.size, name |-> name]
Accepted == [type |-> "ACCEPTEDFILE"]
Denied == [type |-> "DENIEDFILE"]
Fragment(id, from, n) == [type |-> "FILEFRAGMENT", id |-> id, from |-> from, n |-> n]
Control(snd, rcv) == [type |-> "FILECONTROL", snd |-> snd, rcv |-> rcv]

\* What a call returns.  A message handler that fails (returns 0) makes
\* process_c2c close the channel; a call of the application that fails pushes
\* no message.
Done(c, out, cb) == [ok |-> TRUE, chan |-> c, out |-> out, cb |-> cb]
Failed(c) == [ok |-> FALSE, chan |-> c, out |-> <<>>, cb |-> <<>>]
\* fclose(NULL): the process dies.
Crash(c, cb) == Done([c EXCEPT !.state = "CRASHED"], <<>>, cb)

StopSending(c) == [c EXCEPT !.sendfilestate = "IDLE", !.sendfile = NoFile,
                            !.sendfile_stream = "NULL"]
StopReceiving(c) == [c EXCEPT !.recvfilestate = "IDLE", !.recvfile = NoFile,
                              !.recvfile_stream = FALSE, !.written = <<>>]

-----------------------------------------------------------------------------
(* Calls of the application.                                               *)

\* stream: what PICA_sendfile_open_read leaves in sendfile_stream.  A stream
\* whose seek failed is neither closed nor forgotten, and the one an earlier
\* failure left there is overwritten without being closed.
PICA_send_file(c, size, name, stream) ==
    LET f == [id |-> c.sent + 1, size |-> size, len |-> size, pos |-> 0]
        opened == [c EXCEPT !.sendfile_stream = stream]
    IN  IF c.sendfilestate # "IDLE" THEN Failed(c)
        ELSE IF stream # "open" THEN Failed(opened)
        ELSE Done([opened EXCEPT !.sendfilestate = "SENTREQ", !.sendfile = f, !.sent = @ + 1],
                  <<Request(f, name)>>, <<>>)

\* opens: whether the file to write to could be opened.
PICA_accept_file(c, opens) ==
    IF c.recvfilestate # "WAITACCEPT" \/ ~opens THEN Failed(c)
    ELSE Done([c EXCEPT !.recvfilestate = "RECEIVING", !.recvfile_stream = TRUE],
              <<Accepted>>, <<>>)

PICA_deny_file(c) ==
    IF c.recvfilestate # "WAITACCEPT" THEN Failed(c)
    ELSE Done(StopReceiving(c), <<Denied>>, <<>>)

Switch(c, sending, from, to, cmd) ==
    IF sending
    THEN IF c.sendfilestate # from THEN Failed(c)
         ELSE Done([c EXCEPT !.sendfilestate = to], <<Control(cmd, "VOID")>>, <<>>)
    ELSE IF c.recvfilestate # from THEN Failed(c)
         ELSE Done([c EXCEPT !.recvfilestate = to], <<Control("VOID", cmd)>>, <<>>)

PICA_pause_file(c, sending) ==
    Switch(c, sending, IF sending THEN "SENDING" ELSE "RECEIVING", "PAUSED", "PAUSE")

PICA_resume_file(c, sending) ==
    Switch(c, sending, "PAUSED", IF sending THEN "SENDING" ELSE "RECEIVING", "RESUME")

PICA_cancel_file(c, sending) ==
    IF sending
    THEN IF c.sendfilestate \notin {"SENDING", "PAUSED"} THEN Failed(c)
         ELSE Done(StopSending(c), <<Control("CANCEL", "VOID")>>, <<>>)
    ELSE IF c.recvfilestate \notin {"RECEIVING", "PAUSED"} THEN Failed(c)
         ELSE Done(StopReceiving(c), <<Control("VOID", "CANCEL")>>, <<>>)

-----------------------------------------------------------------------------
(* Sending, whenever the socket takes data and the write buffer is empty.  *)
(* The error codes it returns are overwritten by the write that follows.   *)

Units(id, from, n) == [i \in 1..n |-> <<id, from + i>>]

\* Mutant: the end of the file is noticed one fragment late.
PICA_send_file_fragment_Late(c) ==
    LET f == c.sendfile
        left == IF f.len > f.pos THEN f.len - f.pos ELSE 0
        n == IF left < FRAGMENT THEN left ELSE FRAGMENT
        progress == [ev |-> "progress", sending |-> TRUE, pos |-> f.pos + n]
    IN  IF n = 0
        THEN Done(StopSending(c), <<Control("IOERROR", "VOID")>>, <<>>)
        ELSE IF f.pos + n > f.size
        THEN Done(StopSending(c), <<Fragment(f.id, f.pos, n)>>,
                  <<progress, [ev |-> "finished", sending |-> TRUE]>>)
        ELSE Done([c EXCEPT !.sendfile.pos = @ + n], <<Fragment(f.id, f.pos, n)>>,
                  <<progress>>)

PICA_send_file_fragment(c) ==
    LET f == c.sendfile
        left == IF f.len > f.pos THEN f.len - f.pos ELSE 0
        n == IF left < FRAGMENT THEN left ELSE FRAGMENT
        progress == [ev |-> "progress", sending |-> TRUE, pos |-> f.pos + n]
    IN  IF n = 0
        THEN Done(StopSending(c), <<Control("IOERROR", "VOID")>>, <<>>)
        ELSE IF f.pos + n >= f.size
        THEN Done(StopSending(c), <<Fragment(f.id, f.pos, n)>>,
                  <<progress, [ev |-> "finished", sending |-> TRUE]>>)
        ELSE Done([c EXCEPT !.sendfile.pos = @ + n], <<Fragment(f.id, f.pos, n)>>,
                  <<progress>>)

-----------------------------------------------------------------------------
(* Handlers of the messages of the peer.                                   *)

\* answer: what accept_file_cb returned, 2 to decide later.
procmsg_SENDFILEREQUEST(c, m, answer, opens) ==
    LET w == [c EXCEPT !.recvfilestate = "WAITACCEPT", !.written = <<>>,
                       !.recvfile = [id |-> m.id, size |-> m.size, len |-> 0, pos |-> 0]]
        asked == <<[ev |-> "request", size |-> m.size]>>
        r == IF answer = 1
             THEN IF PICA_accept_file(w, opens).ok THEN PICA_accept_file(w, opens)
                                                   ELSE PICA_deny_file(w)
             ELSE IF answer = 0 THEN PICA_deny_file(w) ELSE Done(w, <<>>, <<>>)
    IN  IF c.recvfilestate # "IDLE" \/ m.name = "dotted" THEN Failed(c)
        ELSE [r EXCEPT !.cb = asked]

procmsg_ACCEPTEDFILE(c) ==
    IF c.sendfilestate # "SENTREQ" THEN Failed(c)
    ELSE Done([c EXCEPT !.sendfilestate = "SENDING"], <<>>, <<[ev |-> "accepted"]>>)

\* Mutant: the file stays open.
procmsg_DENIEDFILE_Open(c) ==
    IF c.sendfilestate # "SENTREQ" THEN Failed(c)
    ELSE Done([c EXCEPT !.sendfilestate = "IDLE"], <<>>, <<[ev |-> "denied"]>>)

procmsg_DENIEDFILE(c) ==
    IF c.sendfilestate # "SENTREQ" THEN Failed(c)
    ELSE Done(StopSending(c), <<>>, <<[ev |-> "denied"]>>)

\* Mutant: the result of fwrite is not looked at.
procmsg_FILEFRAGMENT_Unchecked(c, m, writes) ==
    LET pos == c.recvfile.pos + m.n
        units == IF writes THEN Units(m.id, m.from, m.n) ELSE <<>>
        stored == [c EXCEPT !.written = @ \o units, !.recvfile.pos = pos]
    IN  IF c.recvfilestate \notin {"RECEIVING", "PAUSED"} \/ pos > c.recvfile.size
        THEN Failed(c)
        ELSE IF pos < c.recvfile.size THEN Done(stored, <<>>, <<>>)
        ELSE Done(StopReceiving(stored), <<>>, <<[ev |-> "finished", sending |-> FALSE]>>)

\* writes: whether fwrite stored the fragment.  When it did not, the transfer
\* is over but the rest of the handler still runs, up to a second fclose.
procmsg_FILEFRAGMENT(c, m, writes) ==
    LET pos == c.recvfile.pos + m.n
        progress == [ev |-> "progress", sending |-> FALSE, pos |-> pos]
        out == IF writes THEN <<>> ELSE <<Control("VOID", "IOERROR")>>
        stored == IF writes
                  THEN [c EXCEPT !.written = @ \o Units(m.id, m.from, m.n),
                                 !.recvfile.pos = pos]
                  ELSE StopReceiving(c)
    IN  IF c.recvfilestate \notin {"RECEIVING", "PAUSED"} \/ pos > c.recvfile.size
        THEN Failed(c)
        ELSE IF pos < c.recvfile.size THEN Done(stored, out, <<progress>>)
        ELSE IF ~writes THEN Crash(stored, <<progress>>)
        ELSE Done(StopReceiving(stored), <<>>,
                  <<progress, [ev |-> "finished", sending |-> FALSE]>>)

\* Mutant: a command that does not fit the state is ignored.
Obey_Lenient(state, running, cmd) ==
    CASE cmd = "PAUSE"  -> IF state = running THEN "PAUSED" ELSE state
      [] cmd = "RESUME" -> IF state = "PAUSED" THEN running ELSE state
      [] cmd = "VOID"   -> state
      [] OTHER          -> "IDLE"

\* The part of FILECONTROL for one of the two transfers of the channel.
Obey(state, running, cmd) ==
    CASE cmd = "PAUSE"  -> IF state = running THEN "PAUSED" ELSE "refused"
      [] cmd = "RESUME" -> IF state = "PAUSED" THEN running ELSE "refused"
      [] cmd = "VOID"   -> state
      [] OTHER          -> "IDLE"

procmsg_FILECONTROL(c, m) ==
    LET recv == Obey(c.recvfilestate, "RECEIVING", m.snd)
        send == Obey(c.sendfilestate, "SENDING", m.rcv)
        stops(cmd) == cmd \in {"CANCEL", "IOERROR"}
        c1 == IF stops(m.snd) THEN StopReceiving(c) ELSE [c EXCEPT !.recvfilestate = recv]
        c2 == IF stops(m.rcv) THEN StopSending(c1) ELSE [c1 EXCEPT !.sendfilestate = send]
    IN  IF \/ m.rcv # "VOID" /\ c.sendfilestate \in {"IDLE", "SENTREQ"}
           \/ m.snd # "VOID" /\ c.recvfilestate = "IDLE"
           \/ "refused" \in {recv, send}
        THEN Failed(c)
        ELSE IF \/ stops(m.snd) /\ ~c.recvfile_stream
                \/ stops(m.rcv) /\ c.sendfile_stream = "NULL"
        THEN Crash(c, <<>>)
        ELSE Done(c2, <<>>, <<[ev |-> "control", snd |-> m.snd, rcv |-> m.rcv]>>)

\* c2c_messages: the handler of each type of message.
Handle(c, m, answer, works) ==
    CASE m.type = "SENDFILEREQUEST" -> procmsg_SENDFILEREQUEST(c, m, answer, works)
      [] m.type = "ACCEPTEDFILE"    -> procmsg_ACCEPTEDFILE(c)
      [] m.type = "DENIEDFILE"      -> procmsg_DENIEDFILE(c)
      [] m.type = "FILEFRAGMENT"    -> procmsg_FILEFRAGMENT(c, m, works)
      [] m.type = "FILECONTROL"     -> procmsg_FILECONTROL(c, m)

-----------------------------------------------------------------------------
(* Steps of one end.                                                       *)

\* PICA_close_c2c frees the channel and closes the files it has open.
PICA_close_c2c(c) == [NewChannel EXCEPT !.state = "CLOSED", !.sent = c.sent]

Dead(c) == IF c.state = "CRASHED" THEN [NewChannel EXCEPT !.state = "CRASHED", !.sent = c.sent]
                                  ELSE c

Apply(p, r) ==
    /\ chan' = [chan EXCEPT ![p] = Dead(r.chan)]
    /\ wire' = [wire EXCEPT ![p] = @ \o r.out]

\* A call of the application that leaves something behind: it succeeds, or it
\* fails and changes the channel.
Call(p, r) ==
    /\ chan[p].state = "ACTIVE" /\ clicks < MaxClicks
    /\ r.ok \/ r.chan # chan[p]
    /\ Apply(p, r)
    /\ clicks' = clicks + 1
    /\ UNCHANGED done

\* process_c2c when the socket is writable: send the next part of a file.
SendFragment(p) ==
    /\ chan[p].state = "ACTIVE" /\ chan[p].sendfilestate = "SENDING"
    /\ Apply(p, PICA_send_file_fragment(chan[p]))
    /\ UNCHANGED <<done, clicks, faults>>

\* PICA_read_c2c: the next message of the peer, and the end of the channel
\* when its handler fails.  works is FALSE when a file operation of the
\* handler fails.
Read(p, answer, works) ==
    LET q == Other(p)
        m == Head(wire[q])
        r == Handle(chan[p], m, answer, works)
        touchesDisk == \/ m.type = "FILEFRAGMENT"
                       \/ m.type = "SENDFILEREQUEST" /\ answer = 1
    IN  /\ chan[p].state = "ACTIVE" /\ wire[q] # <<>>
        /\ works \/ (touchesDisk /\ faults < MaxFaults)
        /\ answer = 2 \/ m.type = "SENDFILEREQUEST"
        /\ chan' = [chan EXCEPT ![p] = IF r.ok THEN Dead(r.chan) ELSE PICA_close_c2c(@)]
        /\ wire' = [wire EXCEPT ![q] = Tail(@), ![p] = @ \o r.out]
        /\ done' = IF \E i \in DOMAIN r.cb : r.cb[i] = [ev |-> "finished", sending |-> FALSE]
                   THEN [done EXCEPT ![p] = @ \cup {[size |-> chan[p].recvfile.size,
                             id |-> chan[p].recvfile.id,
                             data |-> chan[p].written \o Units(m.id, m.from, m.n)]}]
                   ELSE done
        /\ faults' = IF works THEN faults ELSE faults + 1
        /\ UNCHANGED clicks

\* The connection ends: the peer closed its end or died, whatever of its
\* messages is still under way.
Disconnected(p) ==
    /\ chan[p].state = "ACTIVE" /\ chan[Other(p)].state # "ACTIVE"
    /\ chan' = [chan EXCEPT ![p] = PICA_close_c2c(@)]
    /\ UNCHANGED <<wire, done, clicks, faults>>

\* A file that is being sent changes its length on disk.
FileChanges(p) ==
    /\ chan[p].sendfile_stream = "open" /\ faults < MaxFaults
    /\ \E len \in 0..(chan[p].sendfile.size + 1) \ {chan[p].sendfile.len} :
          chan' = [chan EXCEPT ![p].sendfile.len = len]
    /\ faults' = faults + 1
    /\ UNCHANGED <<wire, done, clicks>>

\* A file to send that cannot be opened or measured is one of the failures.
OpenFault(stream) ==
    /\ stream = "open" \/ faults < MaxFaults
    /\ faults' = IF stream = "open" THEN faults ELSE faults + 1

\* An application that calls the library whenever it likes.
AppSends(p) ==
    /\ MoreFiles
    /\ \E size \in Sizes, name \in Names, stream \in Streams :
          /\ Call(p, PICA_send_file(chan[p], size, name, stream))
          /\ OpenFault(stream)

AppAnswers(p) ==
    \/ Call(p, PICA_accept_file(chan[p], TRUE)) /\ UNCHANGED faults
    \/ Call(p, PICA_deny_file(chan[p])) /\ UNCHANGED faults

AppControls(p) ==
    /\ \E sending \in BOOLEAN :
          \/ Call(p, PICA_pause_file(chan[p], sending))
          \/ Call(p, PICA_resume_file(chan[p], sending))
          \/ Call(p, PICA_cancel_file(chan[p], sending))
    /\ UNCHANGED faults

FileInit ==
    /\ chan = [p \in Peers |-> NewChannel]
    /\ wire = [p \in Peers |-> <<>>]
    /\ done = [p \in Peers |-> {}]
    /\ clicks = 0 /\ faults = 0

-----------------------------------------------------------------------------
(* Properties.                                                             *)

\* A file the application is told it has received completely
\* (file_finished_cb) holds every unit of the file that was offered, in order
\* and none twice, whatever was cancelled, paused, refused or sent before it
\* over the same channel.
WholeFile ==
    \A p \in Peers : \A f \in done[p] : f.data = Units(f.id, 0, f.size)

\* Once every message has been processed the two ends of a channel that is
\* still open agree about both transfers: neither waits for a peer that has
\* forgotten the transfer, and no pause or resume has been lost, also when
\* both ends changed the transfer at the same time.
EndsAgree ==
    \A p \in Peers :
        (\A q \in Peers : chan[q].state = "ACTIVE" /\ wire[q] = <<>>)
        => <<chan[p].sendfilestate, chan[Other(p)].recvfilestate>> \in
               {<<"IDLE", "IDLE">>, <<"SENTREQ", "WAITACCEPT">>,
                <<"SENDING", "RECEIVING">>, <<"PAUSED", "PAUSED">>}

\* A file is open exactly while its transfer can read or write it: none is used
\* after it was closed, and none is left open by a transfer that was cancelled,
\* refused, broken off or finished.  (The one stream that stays open without a
\* transfer is that of a file PICA_sendfile_open_read could not measure.)
StreamsMatch ==
    \A p \in Peers :
        /\ chan[p].sendfile_stream = "open" <=> chan[p].sendfilestate # "IDLE"
        /\ chan[p].recvfile_stream <=> chan[p].recvfilestate \in {"RECEIVING", "PAUSED"}
=============================================================================
