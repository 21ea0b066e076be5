---------------------------- MODULE DirectSwitch ----------------------------
(***************************************************************************)
(* A c2c channel from the exchange of protocol versions on: it runs        *)
(* through the nodes (the relayed connection) and is moved, while messages *)
(* are under way, to a direct TLS connection between the two clients, if   *)
(* their settings and the network allow it (src/PICA_client.c).            *)
(*                                                                         *)
(* "out" is the end that called and "in" the end that was called.  Each    *)
(* end runs one event loop, whose steps on this channel are the actions.   *)
(* An address list holds one address, so each end makes at most one direct *)
(* connection, and a connection is named by the end that makes it.  TLS    *)
(* 1.2 handshakes are full ones: SSL_accept returns 1 first, and by the    *)
(* time SSL_connect does and the client's SWITCH arrives, the pass of the  *)
(* event loop in which SSL_accept returned is over.                        *)
(* Buffers hold whole messages; memory exhaustion is left out.             *)
(***************************************************************************)
EXTENDS Integers, SequencesExt

CONSTANTS
    MaxTexts,   \* bound: text messages sent by the two ends
    MaxFaults,  \* bound: connections that break or ends that close
    MaxBlocked  \* bound: writes that would block

ASSUME DirectSwitchAssumption == {MaxTexts, MaxFaults, MaxBlocked} \subseteq Nat

Ends == {"out", "in"}
Other(p) == CHOOSE q \in Ends : q # p

Configs == {"DISABLED", "CONNECTONLY", "ALLOWINCOMING"}

VARIABLES
    config,     \* directc2c_config of each end
    c2c,        \* struct PICA_c2c of each end
    accepted,   \* accepted[p]: the connection in the accepted_connections of p
    net,        \* net[p]: the TCP connection made by p; "closed" when an end has
                \* closed it and what it sent before can still be read
    relay,      \* relay[p]: messages of p on the relayed connection
    link,       \* link[c][p]: messages of p on the connection made by c
    got,        \* got[p]: texts passed to newmsg_cb at p
    texts,      \* texts[p]: texts sent by p so far
    faults,     \* faults so far
    blocked     \* writes that would have blocked so far

dvars == <<config, c2c, accepted, net, relay, link, got, texts, faults, blocked>>

Text(n) == [type |-> "MSGUTF8", n |-> n]
Texts == {Text(n) : n \in 1..MaxTexts}
Plain(t) == [type |-> t, n |-> 0]

\* struct PICA_directc2c: whether the end made the connection ("out") or it was
\* accepted ("in"); "list" when only the peer's address is kept so far.
NoDirect == [is |-> "none", state |-> "NEW"]
AddressOnly == [is |-> "list", state |-> "NEW"]

\* A caller with another version of the protocol sends "C2CCONNREQ-other".
InitC2C(p) ==
    [state |-> IF p = "out" THEN "WAITINGREP" ELSE "WAITINGC2CPROTOVER",
     directc2c_state |-> "INACTIVE", direct |-> NoDirect,
     write_buf |-> <<>>, write_sslbytestowrite |-> 0,
     barrier_pos |-> 0, before_barrier_pos |-> 0,
     switched_write |-> FALSE, switched_read |-> FALSE]

Init ==
    /\ config \in [Ends -> Configs]
    /\ \E version \in {"C2CCONNREQ", "C2CCONNREQ-other"} :
         c2c = [p \in Ends |-> IF p = "in" THEN InitC2C(p)
                               ELSE [InitC2C(p) EXCEPT !.write_buf = <<Plain(version)>>]]
    /\ accepted = [p \in Ends |-> "none"]
    /\ net = [p \in Ends |-> "none"]
    /\ relay = [p \in Ends |-> <<>>]
    /\ link = [c \in Ends |-> [p \in Ends |-> <<>>]]
    /\ got = [p \in Ends |-> <<>>]
    /\ texts = [p \in Ends |-> 0]
    /\ faults = 0
    /\ blocked = 0

Alive(p) == c2c[p].state \notin {"CLOSED", "EXITED", "CRASHED"}

\* The connection an end uses, named by the end that made it.
Connection(p) == IF c2c[p].direct.is = "in" THEN Other(p) ELSE p
Connected(p) == c2c[p].direct.is \in {"out", "in"}

Push(c, m) == [c EXCEPT !.write_buf = Append(@, m)]

-----------------------------------------------------------------------------
(* Ends of a channel that go.                                              *)

\* The buffers are freed, by PICA_close_c2c or with the whole process.
Gone(c, state) == [c EXCEPT !.state = state, !.write_buf = <<>>, !.barrier_pos = 0,
                            !.before_barrier_pos = 0, !.write_sslbytestowrite = 0]

\* Both sockets of the channel are closed; those of the listener go with the process.
Sockets(p, state) ==
    [c \in Ends |-> IF /\ net[c] \in {"syn", "up"}
                       /\ state # "CLOSED" \/ (Connected(p) /\ Connection(p) = c)
                    THEN "closed" ELSE net[c]]

PICA_close_c2c(p, state) ==
    /\ c2c' = [c2c EXCEPT ![p] = Gone(@, state)]
    /\ net' = Sockets(p, state)
    /\ UNCHANGED <<config, accepted, relay, link, got, texts, faults, blocked>>

\* The connection through the nodes is lost, or the application closes the channel.
Leave(p) ==
    /\ Alive(p)
    /\ faults < MaxFaults
    /\ faults' = faults + 1
    /\ c2c' = [c2c EXCEPT ![p] = Gone(@, "CLOSED")]
    /\ net' = Sockets(p, "CLOSED")
    /\ UNCHANGED <<config, accepted, relay, link, got, texts, blocked>>

\* A direct connection breaks.
Break(c) ==
    /\ net[c] \in {"syn", "up"}
    /\ faults < MaxFaults
    /\ faults' = faults + 1
    /\ net' = [net EXCEPT ![c] = "broken"]
    /\ UNCHANGED <<config, c2c, accepted, relay, link, got, texts, blocked>>

-----------------------------------------------------------------------------
(* Handlers of messages: what the call leaves of the channel, "fail" when  *)
(* it returned 0 and "crash" when it used a null pointer.                  *)

Ok(c) == [result |-> "ok", chan |-> c]
Fail(c) == [result |-> "fail", chan |-> c]
NullPointer(c) == [result |-> "crash", chan |-> c]

PICA_send_directc2caddrlist(p, c) ==
    IF config[p] # "ALLOWINCOMING" THEN c
    ELSE [Push(c, Plain("ADDRLIST")) EXCEPT !.directc2c_state = "WAITINGINCOMING"]

procmsg_C2CCONNREQ(p, c, m) ==
    IF c.state # "WAITINGC2CPROTOVER" THEN Fail(c)
    ELSE IF m.type = "C2CCONNREQ"
    THEN Ok(PICA_send_directc2caddrlist(p,
                [Push(c, Plain("INITRESPOK")) EXCEPT !.state = "ACTIVE"]))
    ELSE Ok(Push(c, Plain("VERDIFFER")))

procmsg_INITRESP_c2c(p, c, m) ==
    IF c.state # "WAITINGREP" \/ p # "out" \/ m.type = "VERDIFFER" THEN Fail(c)
    ELSE Ok(PICA_send_directc2caddrlist(p, [c EXCEPT !.state = "ACTIVE"]))

procmsg_MSGUTF8(p, c, m) ==
    IF c.state # "ACTIVE" THEN Fail(c) ELSE Ok(Push(c, Plain("MSGOK")))

\* The only address of the list is tried; Dials says whether this starts one.
directc2c_connect_next(d) ==
    IF d.is = "list" THEN [is |-> "out", state |-> "CONNECTING"] ELSE NoDirect
Dials(d, e) == d.is # "out" /\ e.is = "out"

\* Mutant: an end that waits to be connected to does not keep the address.
procmsg_PICA_PROTO_DIRECTC2C_ADDRLIST_Dropped(p, c, m) ==
    IF config[p] = "DISABLED" \/ (p = "in" /\ config[p] = "ALLOWINCOMING") THEN Ok(c)
    ELSE Ok([c EXCEPT !.direct = directc2c_connect_next(AddressOnly),
                      !.directc2c_state = "CONNECTING"])

procmsg_PICA_PROTO_DIRECTC2C_ADDRLIST(p, c, m) ==
    IF config[p] = "DISABLED" THEN Ok(c)
    ELSE IF c.directc2c_state \notin {"INACTIVE", "WAITINGINCOMING"} THEN Fail(c)
    ELSE IF p = "in" /\ config[p] = "ALLOWINCOMING"
    THEN Ok([c EXCEPT !.direct = AddressOnly])
    ELSE Ok([c EXCEPT !.direct = directc2c_connect_next(AddressOnly),
                      !.directc2c_state = "CONNECTING"])

procmsg_PICA_PROTO_DIRECTC2C_FAILED(p, c, m) ==
    IF c.directc2c_state # "WAITINGINCOMING" \/ config[p] = "DISABLED" \/ p # "in"
    THEN Fail(c)
    ELSE IF c.direct.is = "none" THEN NullPointer(c)
    ELSE Ok([c EXCEPT !.direct = directc2c_connect_next(@),
                      !.directc2c_state = "CONNECTING"])

procmsg_PICA_PROTO_DIRECTC2C_SWITCH(p, c, m) ==
    IF config[p] = "DISABLED" \/ c.directc2c_state \notin {"ACTIVE", "CONNECTING"}
    THEN Fail(c)
    ELSE Ok([c EXCEPT !.switched_read = TRUE])

Handle(p, c, m) ==
    CASE m.type \in {"C2CCONNREQ", "C2CCONNREQ-other"} -> procmsg_C2CCONNREQ(p, c, m)
      [] m.type \in {"INITRESPOK", "VERDIFFER"} -> procmsg_INITRESP_c2c(p, c, m)
      [] m.type = "MSGUTF8" -> procmsg_MSGUTF8(p, c, m)
      [] m.type = "MSGOK" -> Ok(c)
      [] m.type = "ADDRLIST" -> procmsg_PICA_PROTO_DIRECTC2C_ADDRLIST(p, c, m)
      [] m.type = "FAILED" -> procmsg_PICA_PROTO_DIRECTC2C_FAILED(p, c, m)
      [] m.type = "SWITCH" -> procmsg_PICA_PROTO_DIRECTC2C_SWITCH(p, c, m)

-----------------------------------------------------------------------------
(* Reading.  process_c2c reads when the relayed socket has something, or   *)
(* when the direct one has and the channel is switched (ACTIVE); what it   *)
(* then reads from is another matter.                                      *)

Down(c) == net[c] \in {"refused", "closed", "broken"}

RelayReadable(p) == relay[Other(p)] # <<>> \/ ~Alive(Other(p))

DirectReadable(p) ==
    /\ c2c[p].directc2c_state = "ACTIVE"
    /\ link[Connection(p)][Other(p)] # <<>> \/ Down(Connection(p))

ReadMessage(p) ==
    LET q == Other(p)
        source == IF c2c[p].switched_read THEN link[Connection(p)][q] ELSE relay[q]
        m == Head(source)
        r == Handle(p, c2c[p], m)
        state == IF r.result = "fail" THEN "CLOSED" ELSE "CRASHED"
    IN  /\ source # <<>>
        /\ IF r.result = "ok"
           THEN /\ c2c' = [c2c EXCEPT ![p] = r.chan]
                /\ net' = IF Dials(c2c[p].direct, r.chan.direct)
                          THEN [net EXCEPT ![p] = "syn"] ELSE net
                /\ got' = IF m.type = "MSGUTF8" THEN [got EXCEPT ![p] = Append(@, m)] ELSE got
           ELSE /\ c2c' = [c2c EXCEPT ![p] = Gone(@, state)]
                /\ net' = Sockets(p, state)
                /\ UNCHANGED got
        /\ IF c2c[p].switched_read
           THEN link' = [link EXCEPT ![Connection(p)][q] = Tail(@)] /\ UNCHANGED relay
           ELSE relay' = [relay EXCEPT ![q] = Tail(@)] /\ UNCHANGED link
        /\ UNCHANGED <<config, accepted, texts, faults, blocked>>

\* The connection read from has been closed by the peer or is broken; messages
\* still in it may be lost.
ReadFails(p) ==
    /\ IF c2c[p].switched_read THEN Down(Connection(p)) ELSE ~Alive(Other(p))
    /\ PICA_close_c2c(p, "CLOSED")

PICA_read_c2c(p) ==
    /\ Alive(p)
    /\ RelayReadable(p) \/ DirectReadable(p)
    /\ IF c2c[p].switched_read /\ ~Connected(p)
       THEN PICA_close_c2c(p, "CRASHED")
       ELSE ReadMessage(p) \/ ReadFails(p)

-----------------------------------------------------------------------------
(* Writing.                                                                *)

\* Mutant: the event loop waits for the relayed socket only.
Writable_RelayOnly(p) ==
    /\ c2c[p].write_buf # <<>>
    /\ c2c[p].directc2c_state # "ACTIVE"

\* process_c2c writes when the socket the event loop waits for takes data.
Writable(p) ==
    /\ c2c[p].write_buf # <<>>
    /\ c2c[p].directc2c_state # "ACTIVE" \/ Connected(p)

\* What a pass wants to write: all of the buffer or, once SWITCH is in it, what is
\* left of the messages up to SWITCH; but a write that blocked is repeated as it was.
WriteEnd(c) ==
    IF c.barrier_pos = 0 THEN Len(c.write_buf)
    ELSE IF c.before_barrier_pos = 0 THEN c.barrier_pos ELSE c.before_barrier_pos

Attempt(c) ==
    IF c.write_sslbytestowrite = 0 THEN WriteEnd(c) ELSE c.write_sslbytestowrite

\* Mutant: what has been written stays in the buffer.
Moved_Not(buf, n, pos) == buf

\* The first n of the first pos messages are taken from the buffer by memmove.
Moved(buf, n, pos) ==
    [i \in DOMAIN buf |-> IF i <= pos - n THEN buf[i + n] ELSE buf[i]]

Written(c) ==
    LET n == Attempt(c)
        left == WriteEnd(c) - n
        moved == Moved(c.write_buf, n, WriteEnd(c))
    IN  IF c.barrier_pos = 0
        THEN [c EXCEPT !.write_buf = SubSeq(moved, 1, left), !.write_sslbytestowrite = 0]
        ELSE IF left > 0
        THEN [c EXCEPT !.write_buf = moved, !.write_sslbytestowrite = 0,
                       !.before_barrier_pos = left]
        ELSE [c EXCEPT !.write_buf = SubSeq(moved, c.barrier_pos + 1, Len(moved)),
                       !.write_sslbytestowrite = 0, !.before_barrier_pos = 0,
                       !.barrier_pos = 0, !.switched_write = TRUE]

\* The connection written to.
ToDirect(c) == c.switched_write /\ c.barrier_pos = 0

PICA_write_c2c(p) ==
    LET c == c2c[p]
        data == SubSeq(c.write_buf, 1, Attempt(c))
    IN  /\ Alive(p)
        /\ Writable(p)
        /\ IF c.state = "WAITINGC2CPROTOVER" THEN PICA_close_c2c(p, "EXITED")
           ELSE IF ToDirect(c) /\ ~Connected(p) THEN PICA_close_c2c(p, "CRASHED")
           ELSE IF ToDirect(c) /\ Down(Connection(p))
           THEN PICA_close_c2c(p, "CLOSED")
           ELSE /\ c2c' = [c2c EXCEPT ![p] = Written(c)]
                /\ IF ToDirect(c)
                   THEN link' = [link EXCEPT ![Connection(p)][p] = @ \o data] /\ UNCHANGED relay
                   ELSE relay' = [relay EXCEPT ![p] = @ \o data] /\ UNCHANGED link
                /\ UNCHANGED <<config, accepted, net, got, texts, faults, blocked>>

\* SSL_write wants to be called again with the same data.
WriteBlocks(p) ==
    /\ Alive(p)
    /\ Writable(p)
    /\ c2c[p].state = "ACTIVE"
    /\ blocked < MaxBlocked
    /\ blocked' = blocked + 1
    /\ c2c' = [c2c EXCEPT ![p].write_sslbytestowrite = Attempt(c2c[p]),
                          ![p].before_barrier_pos =
                              IF c2c[p].barrier_pos = 0 THEN 0 ELSE WriteEnd(c2c[p])]
    /\ UNCHANGED <<config, accepted, net, relay, link, got, texts, faults>>

\* The application sends a text on the established channel.
PICA_send_msg(p) ==
    /\ c2c[p].state = "ACTIVE"
    /\ texts["out"] + texts["in"] < MaxTexts
    /\ texts' = [texts EXCEPT ![p] = @ + 1]
    /\ c2c' = [c2c EXCEPT ![p] = Push(@, Text(texts[p] + 1))]
    /\ UNCHANGED <<config, accepted, net, relay, link, got, faults, blocked>>

-----------------------------------------------------------------------------
(* Direct connections: the listener.                                       *)

\* The address of the peer is reached or not.
Reach(c) ==
    /\ net[c] = "syn"
    /\ \E result \in {"up", "refused"} : net' = [net EXCEPT ![c] = result]
    /\ UNCHANGED <<config, c2c, accepted, relay, link, got, texts, faults, blocked>>

Running(p) == c2c[p].state \notin {"EXITED", "CRASHED"}

listener_add_connection(p) ==
    /\ Running(p)
    /\ net[Other(p)] \in {"up", "closed", "broken"}
    /\ accepted[p] = "none"
    /\ accepted' = [accepted EXCEPT ![p] = "WAITINGTLS"]
    /\ UNCHANGED <<config, c2c, net, relay, link, got, texts, faults, blocked>>

Handshaking(c) == c2c[c].direct.is = "out" /\ c2c[c].direct.state \in {"WAITINGTLS", "ACTIVE"}

\* SSL_accept returns 1, or fails on a broken connection.
process_listener_conn(p) ==
    /\ Running(p)
    /\ accepted[p] = "WAITINGTLS"
    /\ \/ /\ Handshaking(Other(p))
          /\ accepted' = [accepted EXCEPT ![p] = "ACTIVE"]
       \/ /\ Down(Other(p))
          /\ accepted' = [accepted EXCEPT ![p] = "failed"]
    /\ UNCHANGED <<config, c2c, net, relay, link, got, texts, faults, blocked>>

PICA_send_directc2c_switch(c) ==
    [Push(c, Plain("SWITCH")) EXCEPT !.barrier_pos = Len(c.write_buf) + 1]

\* Mutant: a connection of the peer is taken in any state of the channel.
find_matching_c2c_AnyState(p) == Alive(p)

find_matching_c2c(p) == Alive(p) /\ c2c[p].directc2c_state = "WAITINGINCOMING"

\* An accepted connection replaces what the channel has, or finds no channel
\* waiting and is closed.
process_accepted(p) ==
    /\ Running(p)
    /\ accepted[p] = "ACTIVE"
    /\ accepted' = [accepted EXCEPT ![p] = "served"]
    /\ IF find_matching_c2c(p)
       THEN /\ c2c' = [c2c EXCEPT ![p] =
                         [PICA_send_directc2c_switch(@) EXCEPT
                            !.direct = [is |-> "in", state |-> "ACTIVE"],
                            !.directc2c_state = "ACTIVE"]]
            /\ UNCHANGED net
       ELSE UNCHANGED c2c /\ net' = [net EXCEPT ![Other(p)] = "closed"]
    /\ UNCHANGED <<config, relay, link, got, texts, faults, blocked>>

-----------------------------------------------------------------------------
(* Direct connections: the end that connects.                              *)

Outgoing(p, state) ==
    c2c[p].state = "ACTIVE" /\ c2c[p].directc2c_state = "CONNECTING"
        /\ c2c[p].direct.is = "out" /\ c2c[p].direct.state = state

\* The result of connect, then SSL_connect is called for the first time.
directc2c_stage2_starttls(p) ==
    /\ Outgoing(p, "CONNECTING")
    /\ net[p] # "syn"
    /\ c2c' = [c2c EXCEPT ![p].direct.state = IF net[p] = "up" THEN "WAITINGTLS" ELSE "FAILED"]
    /\ UNCHANGED <<config, accepted, net, relay, link, got, texts, faults, blocked>>

\* SSL_connect returns 1 and the certificate is the peer's, or it fails.
process_directc2c_tls(p) ==
    /\ Outgoing(p, "WAITINGTLS")
    /\ \/ /\ accepted[Other(p)] = "served"
          /\ c2c' = [c2c EXCEPT ![p] = [PICA_send_directc2c_switch(@)
                                          EXCEPT !.direct.state = "ACTIVE"]]
       \/ /\ net[p] = "broken" \/ (net[p] = "closed" /\ accepted[Other(p)] # "served")
          /\ c2c' = [c2c EXCEPT ![p].direct.state = "FAILED"]
    /\ UNCHANGED <<config, accepted, net, relay, link, got, texts, faults, blocked>>

\* There is no other address to try.
process_directc2c_failed(p) ==
    /\ Outgoing(p, "FAILED")
    /\ c2c' = [c2c EXCEPT ![p].direct = directc2c_connect_next(c2c[p].direct),
                          ![p].directc2c_state = "FAILEDTOCONNECT"]
    /\ UNCHANGED <<config, accepted, net, relay, link, got, texts, faults, blocked>>

process_directc2c_active(p) ==
    /\ Outgoing(p, "ACTIVE")
    /\ c2c' = [c2c EXCEPT ![p].directc2c_state = "ACTIVE"]
    /\ UNCHANGED <<config, accepted, net, relay, link, got, texts, faults, blocked>>

\* The caller asks the called end to connect instead, if it accepts connections.
PICA_send_directc2cfailed(p) ==
    /\ Alive(p)
    /\ c2c[p].directc2c_state = "FAILEDTOCONNECT"
    /\ c2c' = [c2c EXCEPT ![p] =
                 IF p = "out" /\ config[p] = "ALLOWINCOMING"
                 THEN [Push(@, Plain("FAILED")) EXCEPT !.directc2c_state = "WAITINGINCOMING"]
                 ELSE [@ EXCEPT !.directc2c_state = "INACTIVE"]]
    /\ UNCHANGED <<config, accepted, net, relay, link, got, texts, faults, blocked>>

process_directc2c(p) ==
    \/ process_accepted(p)
    \/ directc2c_stage2_starttls(p)
    \/ process_directc2c_tls(p)
    \/ process_directc2c_failed(p)
    \/ process_directc2c_active(p)
    \/ PICA_send_directc2cfailed(p)

process_listener(p) == listener_add_connection(p) \/ process_listener_conn(p)

-----------------------------------------------------------------------------
PICA_event_loop(p) ==
    \/ process_listener(p)
    \/ PICA_write_c2c(p)
    \/ PICA_read_c2c(p)
    \/ process_directc2c(p)

Next ==
    \E p \in Ends :
        \/ PICA_event_loop(p)
        \/ WriteBlocks(p)
        \/ PICA_send_msg(p)
        \/ Reach(p)
        \/ Break(p)
        \/ Leave(p)

\* Each end runs its event loop and each pass serves every ready socket; the
\* network tells whether an address answers.
Fairness ==
    \A p \in Ends :
        /\ WF_dvars(PICA_write_c2c(p))
        /\ WF_dvars(PICA_read_c2c(p))
        /\ WF_dvars(process_listener(p))
        /\ WF_dvars(process_directc2c(p))
        /\ WF_dvars(Reach(p))

Spec == Init /\ [][Next]_dvars /\ Fairness

-----------------------------------------------------------------------------
(* Properties.                                                             *)

\* What p still has in its buffer: up to the barrier, then behind it.
Buffered(p) ==
    LET c == c2c[p]
    IN  IF c.barrier_pos = 0 THEN c.write_buf
        ELSE SubSeq(c.write_buf, 1, WriteEnd(c))
               \o SubSeq(c.write_buf, c.barrier_pos + 1, Len(c.write_buf))

\* All messages of p that have not been read, in the order they will be.
Unread(p) == relay[p] \o link["out"][p] \o link["in"][p] \o Buffered(p)

\* The texts among some messages.
OnlyTexts(ms) ==
    FlattenSeq([i \in DOMAIN ms |-> IF ms[i].type = "MSGUTF8" THEN <<ms[i]>> ELSE <<>>])

UnderWay(p) == OnlyTexts(Unread(p))

Fifo == INSTANCE FifoChannel WITH
    Messages <- Texts,
    open <- [p \in Ends |-> Alive(p)],
    queue <- [p \in Ends |-> UnderWay(p)],
    got <- got

\* Moving a channel from the relayed to the direct connection, write barrier and
\* all, loses, repeats and reorders no message (PICA_write_c2c, PICA_read_c2c).
ImplementsFifo == Fifo!FifoSpec

\* When both ends have gone over to a direct connection, it is the same one:
\* process_directc2c never leaves each end with a connection of its own.
SameConnection ==
    (\A p \in Ends : c2c[p].state = "ACTIVE" /\ c2c[p].directc2c_state = "ACTIVE")
        => Connection("out") = Connection("in")

\* An end reads from or writes to a direct connection only when it has one, as long
\* as no TCP connection breaks half way (chn->direct in PICA_read_c2c and
\* PICA_write_c2c, cc->direct in the handler of DIRECTC2C_FAILED).
DirectIsThere ==
    faults = 0 =>
        \A p \in Ends : /\ c2c[p].state # "CRASHED"
                        /\ c2c[p].switched_read \/ c2c[p].switched_write => Connected(p)

\* What an end sends arrives unless one of the ends goes or a direct connection
\* breaks: neither the barrier nor the choice of sockets to wait for leaves a message
\* in a buffer for good.
Arrives ==
    \A p \in Ends :
        (Alive(p) /\ UnderWay(p) # <<>>)
            ~> \/ UnderWay(p) = <<>>
               \/ \E q \in Ends : ~Alive(q) \/ net[q] = "broken"
=============================================================================
