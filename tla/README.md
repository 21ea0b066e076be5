# Formal models of pica-pica

pica-pica is a messenger.  Users are known by the hash of their certificate, keep a control
connection to a *node* (`PICA_node.c`) and talk to each other through it, over TLS that the node
relays and cannot read, or over a direct connection.  Nodes form a network and find each other's
users.  This directory holds TLA+ models of the program, the TLC configurations that check them on
small instances, and theorems that TLAPS checks for every instance.

    tlc -workers 2 -config NodeCallsSetup.cfg MCNodeCalls     # one run
    tlapm NodeCalls_proofs.tla                                # the proofs of one module

`PROJECT.json` lists the components, the runs, the source lines behind every definition, the
findings, the hazards and the theorems.

## The system

| Component | State it keeps | Operations | Module |
|---|---|---|---|
| New connections of the node (`PICA_node.c`) | `newconns[MAX_NEWCONNS]`: state, address, time, a pointer to the client, call or nodelink the connection is becoming; `newconns_pos` | accept and evict, anonymous TLS accept, INITREQ, CONNID, NODECONNREQ, TLS shutdown and hand-over, 10 s timeout | `NodeCalls`; the nodelink that NODECONNREQ makes in `NodeMesh` |
| Control connections, multilogin (`PICA_node.c`) | `struct client` list: state, id, reply timer; primaries in `client_tree`, further connections of an id in the `next_multi` chain | authenticate, log in, promote a secondary, ping, pass MULTILOGIN on, delete | `NodeCalls`, `ClientTree` |
| Call set-up on one node (`PICA_node.c`) | `struct cclink` list: state, two clients, two sockets, time | CONNREQOUTG, CONNALLOW, CONNDENY, joining by CONNID, FOUND and NOTFOUND, 15 s timeout, deletion with a client | `NodeCalls`, `CallService` |
| Client tree (`PICA_node.c`) | `left`, `right`, `up`, `next_multi` in `struct client`, `client_tree_root` | add, search, remove, replace by a secondary, attach a secondary | `ClientTree` |
| Relay of an active call (`PICA_node.c`) | two buffers, two jam flags, four events | `process_c2c_read`, `process_c2c_write` | `C2CRelay` |
| Message streams (`PICA_msgproc.c`) | a read buffer per connection | `PICA_msggetsize`, `PICA_processmsg`, `PICA_processdatastream`, buffer growth | `MsgStream` |
| Calls between nodes (`PICA_node.c`) | the N2NCLR_ and N2NCLE_ states of a cclink, its buffers | SEARCH, N2NFOUND, N2NCONNREQOUTG, N2NALLOW, N2NNOTFOUND, N2NMSG, deletion by link | `N2NCalls` |
| Joining the network (`PICA_node.c`, `PICA_nodewait.c`, `PICA_nodeaddrlist.c`) | `nodewait_list` shared with resolver and connect threads, the address database, the `struct nodelink` list | start threads, collect results, announce, exchange addresses, ping, refresh and clean up | `NodeMesh` |
| Client library, channels (`PICA_client.c`) | `PICA_c2n`, `PICA_c2c`, `PICA_directc2c`, listener | log in, call, be called, exchange messages, move to a direct connection | `SkyNet`, `DirectSwitch`, `FifoChannel` |
| Client library, files (`PICA_client.c`) | the send and receive state, stream and position of each channel | offer, accept, deny, send fragments, pause, resume, cancel | `FileTransfer` |
| Graphical client (`pica-client/`) | `SkyNet`: pending and active node links, queues, timers; the history table; one file dialog per peer and direction | join, reconnect, queue and flush messages, mark them, drive file transfers | `SkyNet`, `FileDialogs` |
| Ids, signatures, local addresses, log, configuration | none to speak of | calls into OpenSSL and the system | not modelled |

How they interact.  The node is one libevent loop: the accept event, one read and one write event
per socket, and a one-second timer.  All its state is global and every callback runs to its end, so
an interleaving is an order of callbacks; what makes it hard is that the structures point to each
other.  A newconn points to the client, call or nodelink it will become, a call points to two
clients, the tree to the clients, a client to the next connection of its id, and any callback may
delete any of them: a read that fails, an answer that comes too late, an eviction, a timeout.
The only threads of the node are the nodewait threads, which share their list entry with the event
loop without a lock.  The client library is another event loop, driven by a timer of the
application, with callbacks into it; the application's slots run inside the callback.

What is hard: pointers that outlive what they point to; an answer that races a timeout or the
departure of the other side; two connections that claim the same end of a call; the order FOUND,
CONNID and TLS shutdown happen in; a promotion in the middle of a call; a table or buffer that is
exactly full; messages cut anywhere by TLS and TCP; use of an uninitialized variable and of a
position that wraps; a callback that takes away what the rest of the same pass still serves; commands of
the two ends of a channel that cross; a channel that moves to another connection while messages are
under way; messages of a call that only one node has forgotten.  `PROJECT.json`
lists the hazards one by one, at their lines.

What makes each component correct.

- New connections: no slot is used twice, every pointer to a client is valid and to a client in its
  handshake that no other newconn points to; handshakes end.
- Control connections: the tree holds one live primary for every id that is logged in.
- Calls: at most one per pair, both ends live primaries, sockets from the right addresses, the
  callee first, FOUND at the right moment; phases in order; set-up ends.
- Tree: every id that is logged in is found, the others are not.
- Relay: nothing stuck; nothing lost or reordered and no overrun until its two directions cross.
- Streams: the handlers see the same messages however the bytes arrive, as soon as they can.
- Calls between nodes: no call points to a client or link that has gone; FOUND after the callee
  has joined; data is handed on.
- Network: one link per pair of nodes, no node forgotten while it is linked, no half-open link for
  ever, no connection attempt for ever while its peer answers or is known to have gone.
- Client: no dead connection is used, a lost one is tried again, messages stay in order, a mark
  stands for a receipt.
- Channels: a FIFO, on whatever connections they run.
- Files: a file reported complete is complete, the two ends agree, none that is transferred stays
  open, and a send can be stopped.

## Modules

`NodeCalls` is the core.  Each action is one run of one callback with all that it calls; the peers
are the choice of the next callback and of what it reads.

| TLA+ | Code |
|---|---|
| `newconns`, `newconns_pos` | the table and its cursor; `cl` and `cc` are the union `iconn` |
| `clients` | the client list; `age` is now - `tmst`, `ticking` is `disconnect_ticking` |
| `tree` | `client_tree`, as the map that `client_tree_search` computes |
| `links` | the cclink list; `sck_p1` and `sck_p2` are known by the address they come from |
| `sent` | the messages this callback pushed with `client_wbuf_push` |
| `undefined` | a freed structure was used, or the tree may have wrong pointers; the model stops there |
| `Freed` | a pointer whose target has been freed |

Points a reader should know:

- The structures are kept in slots, and the bound on slots stands for `malloc`.  Running out of
  memory is not modelled.
- Several deletions happen in one callback (the timer, an eviction).  `Delete(N, C, L, cs)` gives
  their joint effect: the newconns N are closed with what they own, the clients C and the calls L
  are deleted, the calls of deleted clients too, and the surviving newconns keep pointers that may
  now be `Freed`.  The order of the sweep matters in one place, the ping of clients
  (`idle == Idle \ ...`), and is kept there.
- Ages are saturated just above the limit they are compared with: the code only compares them.
  The timer may be late; `Second` and `process_timeouts` are separate actions.
- A read of a new connection may hold several INITREQs and NODECONNREQs, which
  `PICA_processdatastream` hands to their handlers one after the other; these do not look at the state.
  One action is the whole read: it adds a client for each INITREQ (the set `C` of `Requests`), and the
  last request decides what the newconn points to and becomes.  The other clients are left without a
  newconn and go by the ping timer.  A read that holds several messages of a control connection is
  several actions.
- The tree is kept as a map, which is what its pointers are until a client with two children has been
  removed (see `ClientTree`).  A deletion that may remove such a client, an id leaving the tree
  while two others are in it (`MayHaveTwoChildren`), may therefore leave `undefined` set, after which
  nothing is said.
- A failing write of INITRESPOK, and VERDIFFER once written, close the connection: that is
  `newconn_fail`.  A failed certificate check or an all-zero id is `c2n_fail`.  One turn of the
  accept loop is one action.
- A secondary's CONNREQOUTG, CONNALLOW and CONNDENY go to `procmsg_dummy_multi_c2n`, which does
  nothing, so they are no actions.  NODELISTREQ only reads a database and answers.
- Which secondary is promoted is left open here; the chain's order is in `ClientTree`.
- A node without nodelinks answers NOTFOUND for an id that is not on it.

`CallService` is what a node promises its users about calls, without connections, sockets, timers
or messages: an id has one device, a call goes through ringing, allowed, calleeIn and talking in
this order, and no call survives a hand-over of either side.  `NodeCallsImpl` maps the
node to it (device is the primary, the phase is read off the cclink) and states the refinement.

`ClientTree` keeps the tree pointer by pointer: `client_tree_add`, `_search`, `_remove`,
`_replace_multi`, `client_attach_multi_secondary` and the tree part of `client_list_delete`.  A use of
freed memory, a NULL the code does not test for and a cycle make the rest undefined.  NodeCalls uses
the map this structure is meant to be; `ClientTree` shows where they part: after the removal of a
client with two children (see Known departures).  Until then they agree, which is `OneStepIsRight`:
it also says that no other operation leaves a wrong pointer.

`C2CRelay` keeps the two buffers of an active call byte by byte, with their jam flags and events.
`process_c2c_write` has one `ret` for both directions and assigns it only in the block of the socket
that is writable: the model carries the value from one block to the next, and where nothing was
assigned it takes any value of `Garbage`.  `bufpos` is kept apart from the bytes that are in the
buffer: it is unsigned, a foreign `ret` is taken from it modulo UINT_MAX + 1 (`Minus`), and the access
outside the buffer that follows sets `overrun`, where the model stops.  `crossed` remembers that a
block has run with bytes waiting and a `ret` that is not its own.

`MsgStream` is the parser on a read buffer, with any chunks of bytes arriving; `reader` is the kind
of connection, its message table, its buffer and whether that grows.  An error path of the code
that deletes the connection is `status = "error"`.

`N2NCalls` is a call between two nodes.  Each node keeps its half in `cclinks[n]`, in the order of
the C list since `cclink_list_search` takes the first that matches; `wire[n][m]` is what n pushed for
m, in order, and a link that breaks loses any tail of it.  A client's answer and its handling are one
step, and the data of a call is counted.  `AfterWrite` is what `process_c2c_write(-1)` does to the
buffer for the local client, with `ret` uninitialized or left from the other direction.  The
newconns of data connections are in NodeCalls, the making of links in NodeMesh: two nodes have one.

`NodeMesh` is how links come about: databases, nodewait threads, connections with a queue each way,
NODECONNREQ to NODELIST, pings, refreshes, crashes and restarts.  A DNS name is an address of the node
it resolves to.  An attempt whose `connect` has returned is in HANDSHAKE until `SSL_connect` returns;
when the other node crashes meanwhile, the thread is told (BROKEN) or waits for a peer that says
nothing any more (HUNG).  The event loop may see that a thread has connected before it sees the address the
thread has connected to (`seen`), since nothing synchronises the two.  There is no clock: a time-out or a refresh happens whenever
its other conditions hold, which includes every order the clock would give.

`SkyNet` is one client application with its library: the stages of a c2n, Join at several nodes at
once, the reconnect timer, calls in both directions, message queues and the history.  The peer and
the nodes are the choice of what comes next.  A freed c2n keeps its name, so that a pointer to it shows.
`timerEvent` makes the vector of connections to serve once per pass of the event loop.  An action is what a pass does
with one of them, and passes are told apart where it matters: when the last pending login fails, which
clears `self_aware`, the active c2n is still served to the end of that pass (`turn`, `Serving`,
`timerEvent_ends`).  `left` is the active_nodelink that such a failure left behind.

`DirectSwitch` is one c2c channel at both ends from the exchange of versions on, with the relayed
connection, a direct connection that each end may make, and the write buffer with its barrier.  An
address list holds one address; `Configs` are the three settings of the user.  It implements
`FifoChannel`, in which a channel is two queues: the mapping joins what is on the relayed connection,
on the direct ones and in the buffer, in this order.

`FileTransfer` has one operator per library function and handler: it takes the channel record and
returns the changed channel, the messages pushed, the callbacks made and whether it succeeded.
`FileDialogs` composes two ends, each run by the graphical client or by another application of the
library that calls any function at any time; a callback's slots run in the same step.  The modal
dialogs of the user, where to save a file and whether to cancel one, are two steps each, and
everything but the user's other clicks may happen between them.  A dialog carries the number of the file
it was made for, which only the properties look at.  A method called
through the null pointer of a missing dialog ends the client (`alive`).  The channel is a FIFO, which
is what `DirectSwitch` implements.

The MC modules give the constants and the symmetries.  Slots, ids and addresses of NodeCalls are
interchangeable, clients of ClientTree are too and its ids are not, since the tree orders them; the
two ends of a file transfer, the nodes of SkyNet, the nodes and the ids of N2NCalls are alike.  Runs
with liveness use no symmetry.

Definitions called `X_Something` directly above `X` are mutants: plausible bugs used to see that each
property can fail.  Nothing uses them.

## Runs

Limits of the code are scaled down (60 s to 1, 15 s and 10 s to 0: a timeout of 0 expires after one
second), which keeps their order; `progress` has 0 for all of them, the least that still makes every
timeout wait for a clock step.

| Run | Instance | Shows |
|---|---|---|
| `setup` | 2 ids, 2 clients, 1 call, 2 addresses, 2 new connections | types; sockets from the right address, callee first; newconns point to clients of their own in the handshake, whatever a read holds; one newconn per joining end; FOUND only after the callee has joined |
| `multilogin` | 3 clients on 2 ids, 1 call | the tree holds the primaries, calls end with their clients, the node implements `CallService` |
| `progress` | 2 clients, 2 calls at once, fairness | one call per pair; call set-ups and handshakes end |
| `tree` | 6 clients, 5 ids | a login or deletion on a tree whose pointers are right keeps every id reachable, and the pointers right but for a removal with two children |
| `relay` | buffers of 2, 5 bytes each way, integers up to 3, fairness | unsigned positions, no read without room, no stall; until the directions cross everything arrives in order and nothing is accessed outside a buffer |
| `stream` | byte values 0..3, up to 9 bytes, two kinds of connections | the same messages however the stream is cut, at once, with room to read |
| `file` | 2 files of 0 or 3 units, 2 units a fragment, 6 calls of the applications, 1 failure | a file reported complete is the file offered; the ends agree when nothing is under way; files are open exactly while they are transferred; a file being sent has its own dialog, where it can be cancelled |
| `direct` | 2 texts, every pair of settings, 1 fault, 1 blocked write, fairness | the channel is a FIFO through the switch, both ends end up on the same connection, no end uses one it has not, what is sent arrives |
| `skynet` | 2 nodes, 2 joins, 3 messages of which 1 is too long, 1 call from the peer, 1 fault | no pointer to a freed connection but a stale one that is not served, a lost one is tried again, nothing overtakes, marks are receipts |
| `mesh` | 2 nodes and a DNS name, 2 connections, up to 3 refreshes, 1 fault, fairness | one link per pair, no peer forgotten, NODELISTREQ after NEWNODE; half-open links end, and attempts but for lost threads and silent peers |
| `n2n` | 2 nodes, 2 clients, 2 calls, 5 log-ins, 3 reads of 1 unit, 1 fault | calls point to clients and links that are there, FOUND after the callee has joined |
| `n2n_data` | 1 call, 1 read, fairness | violated, see Findings |

Why the bounds are enough.  Two new connections are what an eviction, a race for one end of a call
and a client and a call in the making at the same time take; two addresses make a wrong one
possible.  Three connections on two ids give a primary with a call and a secondary, or two
secondaries; two calls are one in each direction.  Six clients and five ids give every shape of tree
in which the removed client has two children and the leftmost client a right subtree, with a
secondary left over.  A buffer of 2 with 5 bytes fills up, is partly emptied and fills up again; a
foreign `ret` may be below, equal to and above what a buffer holds.
Nine bytes hold a message of the largest kind after another one, or one that needs the buffer to
grow twice.  A file of 3 units takes a full and a partial fragment, one of 0 none; two files are one
each way at once or one after the other, and six calls are an offer, an answer, and a pause, a resume
or a cancel from both ends.  Two texts fall on both sides of the barrier, or one each way; one blocked
write makes the write that is repeated after the barrier was set.  Two nodes let one login
succeed while the other is pending, two joins a reconnection, three messages one before and one
behind a message that cannot be sent.  Two connections of two nodes are one each way, and the name is
the case in which the address does not tell that they are the same; A's two refreshes come before and
after B's.  Two calls are crossing ones or a call and its repetition; five log-ins let both clients
move and one come back, which is what a late N2NNOTFOUND that meets a call of the other direction
takes.  All invariants but that of the client tree are also proved for every size.

Fairness.  `FairSpec` of NodeCalls: weak fairness of the clock and of the timer callback (libevent's
persistent one-second timer), nothing of the peers, who may stop at any point.  A call waits until
its age is over the limit, and then nothing can lower it, so weak fairness is enough.
`FairSpec` of C2CRelay: the event loop serves a source that can be read, and a socket reported writable
accepts something in the end.  `Spec` of DirectSwitch: each end's event loop, which the application's
timer runs ten times a second, serves a socket that select() reports, and a connection attempt
gets an answer; nothing of the users.  `FairSpec` of NodeMesh: name look-ups and `connect` return, as
the resolver and the kernel have time-outs of their own; `SSL_connect`, which has none, returns while the
other node runs (its event loop answers, or its timer closes the newconn after 10 s) or when the kernel
has reported its end, and nothing is assumed of it when the other node has gone without a word (HUNG);
the timer runs, a link with something to read, or that has ended, is read.  `FairSpec` of N2NCalls: links
and new connections are read.

Deadlock is checked in the runs of NodeCalls, ClientTree, C2CRelay and MsgStream.  In the others the
system may stop: the users have made the calls the bounds allow them, a channel is closed on both
sides, or all nodes are down.

## What is proved

Every safety invariant and every refinement that a passing run checks is a theorem, except the one of
`ClientTree`.  Eight modules hold the proofs.

`NodeCalls_proofs` proves, for any number of ids, addresses and slots and any timeouts with NEWCONN_TIMEOUT <= KEEPALIVE_TIMEOUT (10 and 60 in the
code), every safety invariant the runs `setup`, `multilogin` and `progress` check of NodeCalls:
`TypeOK`, `NewconnOwnsItsClient`, `TreeIsPrimaries`, `LinkEndsArePrimaries`, `UniquePair`,
`JoinedFromTheRightAddress`, `JoiningLinkHasOneNewconn` and `FoundOnlyWhenCalleeJoined`.  With three
ids or more they are about the node until a client with two children has been removed from its tree:
what the code does afterwards is beyond the model, which stops (`undefined`).

The inductive invariant has three layers, each proved with the ones before it.

1. `StructsOK`: the types of all tables.
2. `ControlInv`: a newconn has at most one pointer and only in the states in which it may
   (`PointersSet`), its client is in WAITANONTLSSHUTDOWN and has no other newconn (`Owned`), the
   tree is the map of the primaries, and `OwnerIsOlder`: a client owned by a newconn
   waits for no reply and is not older than the newconn unless that has expired.  The last is what
   makes ownership inductive.  The timer could free a client under its newconn in two ways: as
   `NoReply`, which needs `ticking`, and that is set only when the client is idle or
   called; it is not called before it has logged in, and idle it is only after
   KEEPALIVE_TIMEOUT, when its newconn, at least as old, is over NEWCONN_TIMEOUT and has been closed
   earlier in the same sweep together with the client.  Both the relation of the two
   timeouts and the order of `process_timeouts` are used.
3. `LinkInv`: ends are live primaries, one call per pair, addresses, and each joining call has one
   newconn.  A deletion needs the tree of layer 2: a promoted secondary has no calls.

`FoundOnlyWhenCalleeJoined` and the types of `sent` are then facts about one step from a state of
the invariant.  The proof follows the code: one lemma per callback, and `Delete` has lemmas of its
own (`DeleteType`, `DeleteControl`, `DeleteLinks`) since most callbacks end in it.

`CallServiceImplemented`, in the same module, is the refinement: seen through `NodeCallsImpl`, every
callback is a login, a ring, an advance, an end with its hand-overs, or a stutter.  It rests on
`LinkInv` before and after the step: with one call per pair the phase of a pair is that of one
cclink; a joining call has one newconn and is in the state that newconn left it in, so the phases
keep their order; and since both ends are primaries and a promoted secondary has no calls, a
hand-over ends every call of the id.

`C2CRelay_proofs` proves `TypeOK`, `RoomToRead` and `NeverStalls` of the relay for every buffer size,
any amount of data and any value in the uninitialized `ret`, with positions that wrap; the invariant is
their conjunction, kept direction by direction (`LaneOK`), and a block of `process_c2c_write` is one
lemma (`BlockOK`).  `IntactUntilCrossed` needs `CrossInv`: as long as no block has run with bytes and a
foreign `ret`, the other block of each call found its buffer empty and changed nothing, so in both
directions what was sent followed by what waits is what was read, and `bufpos` is its length.

`SkyNet_proofs` proves all four invariants of the client application for any number of nodes, joins,
messages and channels.  `LoginInv`: a connecting c2n is in a stage of its login and belongs to a Join
already made, so that a new Join's c2ns are fresh and no freed one is pointed to but by `left`; the
`active_nodelink` of a self-aware client is connected, and so is one that still has its turn.  `ChannelInv`: without `active_nodelink` there are no
channels, and `MarksBacked`, that marks and MSGOKs under way together are no more than the messages
received.  The last is counting: each MSGOK is a pair (channel, number), and marking one message takes
one pair away.  `Listing` proves that the undelivered messages can be listed in order, which is what
makes the step that reloads the queue possible at all.

`FileDialogs_proofs` proves `WholeFile`, `StreamsMatch`, `EverySendHasItsDialog` and `EndsAgree` for files
and fragments of any size, and applications that call anything at any time.  The core is `Direction`, about
one sender, one receiver and the two queues between them: nothing of a file travels behind a request
for the next one; at most one of request, waiting receiver and answer exists; the fragments under way
continue the received file without a gap, and the sender stands where the last of them ends.  With `Local`
(what is stored is the start of the file) the last fragment completes the file.  Each library function
and handler has one lemma, which says that it is a `SenderMove` and a `ReceiverMove`; that such
moves keep `Direction` is proved once.  `DialogOK` ties the channel to the dialog: its number is that of
the file, and its buttons go off only in the step that ends the send.

`EndsAgree` is about the moment when both queues are empty, so its invariant, `Agreement`, has to say
how the commands under way explain every difference between the two states.

- While the file is sent (`Paired`): a receiver that has stopped has its CANCEL or IOERROR on the way
  back; one that has not is in the same state as the sender exactly if the pauses and resumes under
  way, both ways together, are even in number (`Balanced`).  A handler refuses a command that does not
  change its state, so each one that is obeyed or sent turns the parity over, and crossing pauses
  cannot be missed: they close the channel.  The parity is a function along the queue (`Counts`) rather
  than a sum, so that adding at one end and removing at the other are two lemmas without induction.
- While the sender waits for the answer (`Asked`): the receiver waits for its user, or the answer is
  on its way and says what it did; whatever it did since is behind the answer in the queue.  A command
  that is before the answer in the queue (`Early`) is for a transfer that no longer exists: the
  sender refuses it and closes the channel.
- After the sender has finished, or asks for the next file: a receiver still at work has the end of its
  file on the way, a last fragment or a command that stops it (`Ending`).  That the last fragment for
  the sender is the last one for the receiver takes the sizes of both (`Announces`) and `Direction`.

`DirectSwitch_proofs` proves the refinement of `FifoChannel`, `SameConnection` and `DirectIsThere`, for
any number of texts, blocked writes and broken connections.  The invariant has three parts.

1. `Basic`, of one end: the positions of the write buffer are inside it, SWITCH is the last message
   before the barrier (`MarkOK`), the relayed connection is written to its end before the direct one
   is begun and read to its end before that is (`PathOK`).  What is under way is then the relayed
   connection, the direct one and the buffer, in this order, and each write moves a prefix of the buffer to
   the end of what is before it; this is the refinement, `FlattenSeq` and all.
2. `Story`, of both ends: nothing happens before the version is agreed on; the caller's address
   reaches the called end before the request to use it; and the called end connects only if the caller
   does not and never will (`DialingOK`), which makes `SameConnection` inductive.
3. `Faultless`: as long as no connection breaks and no end leaves, a connection that one end has
   accepted is one that the other keeps, so that an end that reads from it has it (`DirectIsThere`).

`MsgStream_proofs` proves `Framed`, `NothingWaits` and `RoomToRead` for every table of messages, every
cutting of the stream into reads and any buffer size.  The loop of `PICA_processdatastream` is `Pass`
repeated as often as there are bytes.  What n passes leave is proved without induction: were there a
first one that breaks the invariant of the loop, the one before it would not, and one pass keeps it.
Each pass that changes the buffer shortens it, so the last one changes nothing.  `RoomToRead` is
where the sizes matter: a buffer that grows is enlarged when full, and one that does not holds the
largest message of its table, so a full one always had a complete message in it.

`N2NCalls_proofs` proves `PointersValid` and `FoundAfterJoin` for any number of nodes, ids, calls and
moves.  `N2NInv` adds to them the types, that a node has no link with itself (LinkBreaks changes both
ends), that the positions in a list are bounded (so that a new call gets one of its own), and that
every N2NALLOW on a wire, as every FOUND in an inbox, is for a pair that has joined: `joined` only
grows, so a late one is still right.

`NodeMesh_proofs` proves `OneLinkPerPair`, `KnowsItsPeers` and `RequesterKnown` for any number of
nodes, names, connections, refreshes and crashes.  `MeshInv` has five parts.

1. `TablesOK` and `ConnsOK`: types, which ends go together, and what may be in a queue in each state,
   among it that NODELISTREQ is behind NEWNODE until NEWNODE has been taken (`Announced`).  A connection
   that is closed cuts a queue anywhere, which keeps this.
2. `PairsOK`: of two accepted links with the same ends there is one, and two in opposite directions
   are not both known by address at both ends.  Only `procmsg_NEWNODE` can add to it, and
   `nodelink_search_by_ipv4addr` sees both.
3. `RowsOK`: a linked node is in the database with an inactive count of at most 1, and of 0 while an
   attempt to reach it is under way.  A refresh begins no attempt for a node with a link, so only one that
   began before the link can still count against it, and `clean_treshold` is never below 1.
4. `ThreadsOK`: the connection of a thread that has connected is there, so that the event loop
   takes over the right one.

Assumptions on the constants are those the modules name: null pointers are no members of the tables,
sizes are not 0, bounds are numbers; NEWCONN_TIMEOUT <= KEEPALIVE_TIMEOUT; a file transfer has two
ends; in NodeMesh a node's own address is at that node and no name is a node.  In MsgStream a message
and a buffer are smaller than UINT_MAX, the size that means "not known yet", and a buffer that does not
grow holds the largest message of its table.  New connections meet this exactly (NEWCONN_BUFSIZE is the
size of CONNID).  The client library's 65536 bytes are 3 less than a length field of two octets can
ask for, so for it the theorems are about the messages a library of this version sends, which are
shorter; a peer that sends a longer one has its connection closed.

Only model-checked: the liveness properties `CallSetupEnds`, `HandshakeEnds`,
`DeliveredUnlessCrossed`, `Arrives`, `HalfOpenEnds` and `AttemptsEnd`, since fairness is outside the proof system (`NeverStalls` is
the safety part of `DeliveredUnlessCrossed`); and `OneStepIsRight` of `ClientTree`.  Its walks along the pointers
(search, leftmost client, end of a chain) are recursive operators, which the provers cannot use; a proof
would first have to restate them as paths.

## Findings

- `n2n_data`: the data a node receives for its client in an N2NMSG is put into the buffer of the
  call and no write event is added for the client's socket, so it is never sent.  TLC finds it with
  one call and one read, all reads being fair.

### Known departures

Behaviour met while modelling that the models contain, and that a reader of the properties should
know of.  The properties are stated so that they say what holds nonetheless.

Node.

- A call that times out (`PICA_node.c:2464`) or whose client goes (1372) while a data connection of it is
  in its TLS shutdown is freed, and the newconn goes on to use it (2821) or frees it again.  The
  models stop there (`undefined`).
- An answer to a call that has just gone gets the client that sent it disconnected (555).
- Repeated calls to a client that does not answer restart its timer for ever (515), though the
  comment on 516 says it is disconnected.
- Removing a client with two children leaves wrong `up` pointers (2026); a later removal then writes
  to the wrong parent.  `OneStepIsRight` is about trees whose pointers are right, and `NodeCalls` goes
  on after such a removal only as long as the map still is what the pointers say.
- With data in both buffers of a call, writing one takes its `ret` from the other's `bufpos` too (3182,
  3247): bytes are dropped, or the unsigned position wraps and later calls of `recv`, `send` and
  `memmove` are outside the buffer.  `IntactUntilCrossed` is about calls on which this has not happened.
- Of several INITREQs in one read of a new connection, all but the last leave a client that no newconn
  points to.  It has the socket of the connection that goes on, and is removed by the ping timer
  alone, which closes that socket.
- A blocked write of INITRESPOK is retried only when the peer sends something (2836).

Between nodes.

- Two nodes that connect to each other at the same moment refuse each other's NEWNODE, and both
  links end; the next refresh tries again.  A node that finds its own DNS name in its database
  connects to itself at each refresh and refuses itself.
- A connect thread that returns because `SSL_new` failed, or a thread that could not be started,
  leaves its entry for ever, and the node never refreshes again (`LOST` in NodeMesh).  So does
  `SSL_connect` (`PICA_nodewait.c:172`), on a blocking socket without a time-out, when the peer falls
  silent in the handshake (`HUNG`).
- `nodewait` is unsynchronised: where the address written by the thread is not yet visible, a pair
  of nodes may get two links (`OneLinkPerPair` excludes this case).
- SEARCH on a link whose handshake is unfinished makes the other node close the connection.
- The other node is not told when a call ends, so half of an active call may stay; an unanswered
  SEARCH is not reported to the caller.  An N2NNOTFOUND that answers data of the callee names the pair the
  other way round and deletes a crossing call, or nothing.  A late N2NALLOW gives FOUND for a call that is
  still searching.  A second N2NCONNREQOUTG of a pair is not refused.
- N2NALLOW and N2NNOTFOUND use `p1` of the first call of the pair (1162, 1187), which is null where the
  caller is at another node.  A late answer for a call that is over meets such a call when the
  callee has moved to the caller's node, the caller to another one, and the caller has called again;
  the node then dies.  An N2NNOTFOUND that answers data does it with two nodes (the run `n2n` reaches
  it); N2NALLOW takes a third, since on one link it comes before the new request.  N2NCalls lets the
  node stop there, and states nothing about it.

Client library.

- When both ends allow incoming connections, the called end may adopt the direct connection before
  it has read the caller's address list, which is then refused and closes the channel.  When a direct
  connection breaks between the reading of SWITCH and the end of the handshake, `chn->direct` is used
  while null, or the channel stays half switched and loses a message: `DirectIsThere` and `Arrives`
  are about channels on which this has not happened.  A caller with another version makes the called
  library call `exit`.  `process_directc2c` goes on with `d` after closing it when no channel matches.
- FOUND and NOTFOUND are for the last channel with that peer, whichever side called; without one, the
  control connection is closed.
- A fragment that arrives after the receiver cancelled, pauses that cross, and a pause of the last
  fragment make a handler return 0, which closes the channel: hence `EndsAgree` is about open channels.
  A write that fails on the last fragment closes a null stream.  The result of
  `PICA_send_file_fragment` is overwritten by that of the write.  The result of `fclose` is ignored
  (1128): the models take a fragment that `fwrite` took to be stored.
- A file that is opened and cannot be measured (3604) is neither closed nor forgotten; the next
  `PICA_send_file` overwrites the stream ("unseekable" in FileTransfer).

Graphical client.

- `nodelink_failed` clears `self_aware` when the last pending login fails, also while another node
  link is active.  When that one closes in the same pass, `nodelink_closed` does not clear
  `active_nodelink`, and the user's next message or a queued MULTILOGIN goes through a freed pointer; when
  it stays, a channel established in that pass is not flushed (`flush_queues` tests `self_aware`), and
  the next Join replaces the pointer without closing the c2n.  `LinksAreAlive` and `NothingOvertakes` say what
  holds nonetheless.  A Join at which no connection can be started leaves no timer (`stranded`).  Going
  offline does not stop the reconnect timer.  A MULTILOGIN answered when `active_nodelink` is null ends the
  client, and a signature that fails after the link was reported as established closes it twice.
- A message that is too long is never sent and blocks its queue.  MSGOK marks the first unmarked message
  of the history, so one lost with a channel is marked by the receipt of the next; `MarksAreReceipts`
  counts.  `Nodes::MakeClean` may delete all nodes when there are more than 32.
- Cancelling a file before the peer has answered is ignored by the library, and the answer then uses
  the dialog that is no longer there, or that of a later file (`forgotten`).  The dialog of an empty file
  is made with both buttons off.  A dialog whose file the library refused to take, or the peer denied,
  stays in the map and blocks `send_file` until it is cancelled or the channel ends.  Slots are connected again for each transfer, so a second
  cancelled transfer runs its slot twice and meets the same null.  A dialog may go while the
  user chooses a file name.  The count of active
  transfers, a `quint32`, goes below zero when a paused receiver cancels, and the fast timer then
  keeps running; `Q_ASSERT(active_filetransfers >= 0)` cannot fail.

## Not modelled

Running out of memory; write buffers of control connections (a push always succeeds and arrives or the
connection dies); NODELISTREQ of a client and MULTILOGIN_node,
which read and pass on but change no table of the node; the contents of TLS, certificates and
signatures; address lists with more than one address; IPv6; dialogs that have left the controller's map and are
still on the screen; in SkyNet, the two stages of the anonymous TLS layer as steps of their own; in
NodeMesh, the newconn slot of a connection whose TLS handshake is unfinished; accounts, contacts, windows and the
certificate dialogs of the graphical client, each of which shows or edits one row; logging and
configuration; ids, signatures and local addresses, which are single calls into OpenSSL and the
operating system; iniparser, which is vendored.

## Plan

The models cover the components that have state of their own, and all safety invariants but that of the
client tree are proved.  What is left:

1. `OneStepIsRight` for trees of any size, on a definition of reachability by paths instead of
   recursion.
2. Properties for the two hazards that have none (`PROJECT.json`).
3. One module for what several proofs use about natural numbers and sequences (least elements,
   prefixes, tails), in place of the copies in `SkyNet_proofs`, `N2NCalls_proofs`,
   `NodeMesh_proofs`, `DirectSwitch_proofs` and `MsgStream_proofs`.
