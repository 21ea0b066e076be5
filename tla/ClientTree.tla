----------------------------- MODULE ClientTree -----------------------------
(****************************************************************************)
(* The client_tree of PICA_node.c: an unbalanced binary search tree over     *)
(* the ids of the logged-in clients, threaded through struct client (left,   *)
(* right, up), with the further connections of an id in a list that starts   *)
(* at its primary (next_multi).  NodeCalls uses the map from ids to          *)
(* primaries that this structure is meant to be.                             *)
(*                                                                          *)
(* A pointer to a freed client is Freed; reading or writing through it, or   *)
(* going round a cycle of the tree for ever, makes the rest undefined.       *)
(****************************************************************************)
EXTENDS Integers, FiniteSets

CONSTANTS
    MaxId,          \* ids are 1 .. MaxId, compared as memcmp compares them
    Clients,        \* bound on simultaneous clients (malloc'ed in the code)
    None, Freed

ASSUME TreeAssumption == MaxId \in Nat /\ None \notin Clients /\ Freed \notin Clients \cup {None}

VARIABLES client_tree_root, client, undefined

tvars == <<client_tree_root, client, undefined>>

Ids == 1 .. MaxId

Pointer == Clients \cup {None, Freed}

ClientNode == [state : {"FREE", "CONNECTED", "MULTILOGIN_SECONDARY"}, id : Ids \cup {0},
               up : Pointer, left : Pointer, right : Pointer, next_multi : Pointer]

\* calloc: no id, no pointers.
FreeNode == [state |-> "FREE", id |-> 0, up |-> None, left |-> None, right |-> None,
             next_multi |-> None]

Init ==
    /\ client_tree_root = None
    /\ client = [c \in Clients |-> FreeNode]
    /\ undefined = FALSE

-----------------------------------------------------------------------------
(* Searching.  A search visits each client at most once, or never ends.      *)

RECURSIVE SearchFrom(_, _, _)
SearchFrom(i, id, steps) ==
    IF i = None THEN None
    ELSE IF i = Freed \/ steps = 0 THEN Freed
    ELSE IF client[i].id = id THEN i
    ELSE SearchFrom(IF id < client[i].id THEN client[i].left ELSE client[i].right,
                    id, steps - 1)

client_tree_search(id) == SearchFrom(client_tree_root, id, Cardinality(Clients))

\* The client the new one is hung below: the last one on the search path.
RECURSIVE LastFrom(_, _)
LastFrom(i, id) ==
    LET next == IF id < client[i].id THEN client[i].left ELSE client[i].right
    IN  IF next = None THEN i ELSE LastFrom(next, id)

RECURSIVE LeftmostFrom(_, _)
LeftmostFrom(i, steps) ==
    IF i = Freed \/ steps = 0 THEN Freed
    ELSE IF client[i].left = None THEN i
    ELSE LeftmostFrom(client[i].left, steps - 1)

\* The client of the chain that starts at s whose next_multi is c.
RECURSIVE PredecessorFrom(_, _, _)
PredecessorFrom(s, c, steps) ==
    IF s = None THEN None
    ELSE IF s = Freed \/ steps = 0 THEN Freed
    ELSE IF client[s].next_multi = c THEN s
    ELSE PredecessorFrom(client[s].next_multi, c, steps - 1)

-----------------------------------------------------------------------------
(* Logging in *)

client_tree_add(c, id) ==
    LET new == [FreeNode EXCEPT !.state = "CONNECTED", !.id = id]
    IN  IF client_tree_root = None
        THEN /\ client_tree_root' = c
             /\ client' = [client EXCEPT ![c] = new]
        ELSE LET i == LastFrom(client_tree_root, id)
             IN  /\ client' = IF id < client[i].id
                              THEN [client EXCEPT ![c] = [new EXCEPT !.up = i], ![i].left = c]
                              ELSE [client EXCEPT ![c] = [new EXCEPT !.up = i], ![i].right = c]
                 /\ UNCHANGED client_tree_root

client_attach_multi_secondary(primary, c, id) ==
    /\ client' = [client EXCEPT
                    ![c] = [FreeNode EXCEPT !.state = "MULTILOGIN_SECONDARY", !.id = id,
                                            !.next_multi = client[primary].next_multi],
                    ![primary].next_multi = c]
    /\ UNCHANGED client_tree_root

UseFreed == undefined' = TRUE /\ UNCHANGED <<client_tree_root, client>>

\* The end of the authenticated handshake in process_c2n_write.
login(c, id) ==
    LET primary == client_tree_search(id)
    IN  /\ ~undefined
        /\ client[c].state = "FREE"
        /\ IF primary = Freed THEN UseFreed
           ELSE /\ IF primary = None THEN client_tree_add(c, id)
                                     ELSE client_attach_multi_secondary(primary, c, id)
                /\ UNCHANGED undefined

-----------------------------------------------------------------------------
(* Deleting.  A table and a root go in, a table and a root come out.         *)

\* *p_link = v, where p_link is the root or a child link of c's parent.
SetLink(t, c, v) ==
    IF client[c].up = None
    THEN [t EXCEPT !.root = v]
    ELSE IF client[client[c].up].left = c
         THEN [t EXCEPT !.client[client[c].up].left = v]
         ELSE [t EXCEPT !.client[client[c].up].right = v]

Now == [root |-> client_tree_root, client |-> client]

OnlyChild(c) == IF client[c].left = None THEN client[c].right ELSE client[c].left

RemoveOneChild(c) ==
    SetLink([Now EXCEPT !.client[OnlyChild(c)].up = client[c].up], c, OnlyChild(c))

\* Mutant of RemoveTwoChildren: the right subtree of the leftmost client is forgotten.
RemoveTwoChildren_DropRight(c, lm) ==
    LET t == IF lm = client[c].right THEN Now
             ELSE [Now EXCEPT !.client[client[lm].up].left = None,
                              !.client[lm].right = client[c].right]
    IN  SetLink([t EXCEPT !.client[lm].left = client[c].left,
                          !.client[lm].up = client[c].up], c, lm)

\* The leftmost client lm of the right subtree takes the place of c.  The up pointers
\* of c's children, and of the subtree that lm leaves behind, stay as they were.
RemoveTwoChildren(c, lm) ==
    LET t == IF lm = client[c].right THEN Now
             ELSE [Now EXCEPT !.client[client[lm].up].left = client[lm].right,
                              !.client[lm].right = client[c].right]
    IN  SetLink([t EXCEPT !.client[lm].left = client[c].left,
                          !.client[lm].up = client[c].up], c, lm)

client_tree_remove(c) ==
    IF client[c].left = None /\ client[c].right = None THEN SetLink(Now, c, None)
    ELSE IF client[c].left = None \/ client[c].right = None THEN RemoveOneChild(c)
    ELSE RemoveTwoChildren(c, LeftmostFrom(client[c].right, Cardinality(Clients)))

\* The pointers client_tree_remove goes through.  NULL is as good as freed memory where
\* the code does not test for it.
RemoveUses(c) ==
    LET lm == LeftmostFrom(client[c].right, Cardinality(Clients))
        parent == IF client[lm].up = None THEN Freed ELSE client[lm].up
    IN  {client[c].up} \cup
        (IF client[c].left = None \/ client[c].right = None THEN {OnlyChild(c)}
         ELSE IF lm = Freed THEN {Freed}
         ELSE IF lm = client[c].right THEN {} ELSE {parent})

\* The next connection of c's id, in the place of c.
Promoted(c) ==
    [client[client[c].next_multi] EXCEPT !.state = client[c].state, !.up = client[c].up,
                                         !.left = client[c].left, !.right = client[c].right]

client_tree_replace_multi(c) ==
    LET s == client[c].next_multi
        t == SetLink([Now EXCEPT !.client[s] = Promoted(c)], c, s)
    IN  [t EXCEPT !.client = [d \in Clients |->
            IF d \in {client[c].left, client[c].right} THEN [@[d] EXCEPT !.up = s] ELSE @[d]]]

ReplaceUses(c) == {client[c].up, client[c].left, client[c].right, client[c].next_multi}

UnlinkSecondary(s, c) == [Now EXCEPT !.client[s].next_multi = client[c].next_multi]

\* free(ci): whoever still points to c points to freed memory.
Dangling(c, p) == IF p = c THEN Freed ELSE p

Free(t, c) ==
    [d \in Clients |->
        IF d = c THEN FreeNode
        ELSE [t.client[d] EXCEPT !.up = Dangling(c, @), !.left = Dangling(c, @),
                                 !.right = Dangling(c, @), !.next_multi = Dangling(c, @)]]

Deleted(t, c) ==
    /\ client_tree_root' = Dangling(c, t.root)
    /\ client' = Free(t, c)
    /\ UNCHANGED undefined

\* The part of client_list_delete about the tree.
client_list_delete(c) ==
    LET s == client_tree_search(client[c].id)
        pred == PredecessorFrom(s, c, Cardinality(Clients))
    IN  /\ ~undefined
        /\ client[c].state # "FREE"
        /\ IF s = Freed THEN UseFreed
           ELSE IF s = c
           THEN IF client[c].next_multi # None
                THEN IF Freed \in ReplaceUses(c) THEN UseFreed
                     ELSE Deleted(client_tree_replace_multi(c), c)
                ELSE IF Freed \in RemoveUses(c) THEN UseFreed
                     ELSE Deleted(client_tree_remove(c), c)
           ELSE IF pred = Freed THEN UseFreed
           ELSE Deleted(IF pred = None THEN Now ELSE UnlinkSecondary(pred, c), c)

Undefined == undefined /\ UNCHANGED tvars

Next ==
    \/ \E c \in Clients, id \in Ids : login(c, id)
    \/ \E c \in Clients : client_list_delete(c)
    \/ Undefined

Spec == Init /\ [][Next]_tvars

-----------------------------------------------------------------------------
(* Properties *)

\* c is on the chain of the primary the tree holds for its id.
RECURSIVE OnChain(_, _, _)
OnChain(s, c, steps) ==
    s \in Clients /\ steps > 0 /\ (s = c \/ OnChain(client[s].next_multi, c, steps - 1))

\* client_tree_search finds the primary of every id that has one, every secondary is on
\* the chain of its primary, and an id that nobody uses is not found.
TreeIsMap ==
    /\ \A c \in Clients : client[c].state = "CONNECTED" => client_tree_search(client[c].id) = c
    /\ \A c \in Clients : client[c].state = "MULTILOGIN_SECONDARY" =>
          OnChain(client_tree_search(client[c].id), c, Cardinality(Clients))
    /\ \A id \in Ids : (\A c \in Clients : client[c].id # id) => client_tree_search(id) = None

\* The comment on line 1980 says of p_link, which client_tree_remove finds through up,
\* that it points "to left or right in the parent node": up is the parent.
UpPointsToParent ==
    \A c \in Clients : client[c].state = "CONNECTED" =>
        /\ client_tree_root = c => client[c].up = None
        /\ \A d \in {client[c].left, client[c].right} \cap Clients : client[d].up = c

PointersRight ==
    /\ UpPointsToParent
    /\ \A c \in Clients : Freed \notin {client[c].left, client[c].right, client[c].next_multi}

TwoChildren(c) == client[c].next_multi = None /\ {client[c].left, client[c].right} \subseteq Clients

\* A login or a deletion, with any number of children and secondaries, done on a tree
\* whose pointers are right leaves a tree in which every id is found, and leaves the
\* pointers right for the next one, unless it removes a client with two children that no
\* other connection of its id replaces (client_tree_remove, which does not set the up
\* pointers of the children).
OneStepIsRight ==
    [][PointersRight /\ TreeIsMap =>
          /\ TreeIsMap' /\ ~undefined'
          /\ PointersRight' \/ \E c \in Clients : TwoChildren(c) /\ client'[c].state = "FREE"]_tvars
=============================================================================
