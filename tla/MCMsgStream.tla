---- MODULE MCMsgStream ----
(* Two kinds of connections for TLC: a control connection, with a message of every
   kind and a buffer that grows, and a new connection, whose fixed buffer the largest
   request fills exactly and one of whose requests is refused. *)
EXTENDS MsgStream

ControlMsgs == [id \in 0 .. 2 |-> CASE id = 0 -> [fixedsz |-> TRUE, sz |-> 2]
                                    [] id = 1 -> [fixedsz |-> FALSE, sz |-> 1]
                                    [] id = 2 -> [fixedsz |-> FALSE, sz |-> 2]]

NewconnMsgs == [id \in 0 .. 2 |-> [fixedsz |-> TRUE, sz |-> CASE id = 0 -> 2 [] id = 1 -> 5
                                                              [] id = 2 -> 3]]

ControlAndNewconn ==
    {[msgs |-> ControlMsgs, refused |-> {}, bufsize |-> 4, grows |-> TRUE],
     [msgs |-> NewconnMsgs, refused |-> {2}, bufsize |-> 5, grows |-> FALSE]}
====
