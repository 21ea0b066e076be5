---------------------------- MODULE FileDialogs -----------------------------
(***************************************************************************)
(* The graphical client's part in a file transfer: SkyNet's callbacks and  *)
(* its count of running transfers (src/pica-client/skynet.cpp), the        *)
(* controller that keeps one dialog per peer and direction                 *)
(* (filetransfercontroller.cpp) and the buttons of the dialog              *)
(* (dialogs/filetransferdialog.cpp).                                       *)
(*                                                                         *)
(* Each end of the channel runs the graphical client ("gui") or some other *)
(* application of the library that calls it whenever it likes ("bot").     *)
(* A callback runs inside the step of the library that makes it, and so    *)
(* does every slot it is connected to.  A modal dialog (where to save a    *)
(* file, whether to cancel one) keeps the user from every other button     *)
(* while the event loop goes on reading.                                   *)
(***************************************************************************)
EXTENDS FileTransfer

CONSTANTS
    Apps,   \* what may run at an end: a subset of {"gui", "bot"}
    None    \* no dialog

VARIABLES
    app,    \* what runs at each end
    gui     \* the state of the graphical client at each end

vars == <<fileVars, app, gui>>

\* A dialog: the file's size, the text of the left button, whether the two
\* buttons are enabled.  The right button denies while the left one accepts
\* and cancels otherwise.  file is the number the library gave the file it was
\* made for, 0 when the library refused to send it (only the properties use it).
\* The constructor's update(0) finds an empty file finished.
Terminal(d) == [d EXCEPT !.lefton = FALSE, !.righton = FALSE]

Dialog(file, size, left, lefton) ==
    LET d == [file |-> file, size |-> size, left |-> left, lefton |-> lefton, righton |-> TRUE]
    IN  IF size = 0 THEN Terminal(d) ELSE d

Dialogs == [file : Nat, size : Nat, left : {"Accept", "Pause", "Resume"}, lefton : BOOLEAN, righton : BOOLEAN]

ASSUME DialogsAssumption == Apps \subseteq {"gui", "bot"} /\ Apps # {} /\ None \notin Dialogs

\* wired_out: how many times the signals about outgoing files have been
\* connected to the controller's slots; each connection makes one call.
\* modal: the modal dialog that is open: "save" asks where to save a file, "in"
\* and "out" whether to cancel the incoming or outgoing one.
\* forgotten: the last file whose dialog the user cancelled before the peer had
\* answered the request (only the properties use it).
NewGui ==
    [active_filetransfers |-> 0, alive |-> TRUE, modal |-> "none", forgotten |-> 0,
     ftdialogs_in |-> None, ftdialogs_out |-> None, wired_in |-> 0, wired_out |-> 0]

\* A method called through the null pointer that QMap's operator[] returns
\* for a key it does not have.
NullDialog(g) == [g EXCEPT !.alive = FALSE]

\* A quint32: -1 stands for 2^32 - 1.
active_filetransfers_up(g) == [g EXCEPT !.active_filetransfers = @ + 1]
active_filetransfers_down(g) == [g EXCEPT !.active_filetransfers = @ - 1]

-----------------------------------------------------------------------------
(* Slots of the controller.                                                *)

file_request(g, size) == [g EXCEPT !.ftdialogs_in = Dialog(0, size, "Accept", TRUE)]

file_accepted_by_peer(g) ==
    LET w == [g EXCEPT !.wired_out = @ + 1]
    IN  IF g.ftdialogs_out = None THEN NullDialog(w)
        ELSE [w EXCEPT !.ftdialogs_out.lefton = TRUE]

file_denied_by_peer(g) ==
    IF g.ftdialogs_out = None THEN NullDialog(g)
    ELSE [g EXCEPT !.ftdialogs_out = Terminal(@)]

file_progress(g, sending, pos) ==
    IF sending
    THEN IF g.ftdialogs_out # None /\ g.ftdialogs_out.size = pos
         THEN [g EXCEPT !.ftdialogs_out = Terminal(@)] ELSE g
    ELSE IF g.ftdialogs_in # None /\ g.ftdialogs_in.size = pos
         THEN [g EXCEPT !.ftdialogs_in = Terminal(@)] ELSE g

file_finished(g, sending) ==
    LET d == active_filetransfers_down(g)
    IN  IF sending THEN IF d.wired_out > 0 THEN [d EXCEPT !.ftdialogs_out = None] ELSE d
        ELSE IF d.wired_in > 0 THEN [d EXCEPT !.ftdialogs_in = None] ELSE d

\* file_paused_..., file_resumed_..., file_cancelled_..., file_ioerror_...:
\* the slot runs once per connection, and a cancelled dialog is taken out of
\* the map by the first run.
Notify(g, dialog, wired, cmd) ==
    IF wired = 0 THEN [dead |-> FALSE, dialog |-> dialog]
    ELSE IF dialog = None \/ (cmd \in {"CANCEL", "IOERROR"} /\ wired > 1)
    THEN [dead |-> TRUE, dialog |-> None]
    ELSE [dead |-> FALSE,
          dialog |-> IF cmd \in {"CANCEL", "IOERROR"} THEN None
                     ELSE [dialog EXCEPT !.lefton = (cmd = "RESUME")]]

file_control(g, snd, rcv) ==
    LET cmd == IF rcv = "VOID" THEN snd ELSE rcv
        c == IF cmd = "RESUME" THEN active_filetransfers_up(g)
                               ELSE active_filetransfers_down(g)
        in == Notify(c, c.ftdialogs_in, c.wired_in, cmd)
        out == Notify(c, c.ftdialogs_out, c.wired_out, cmd)
    IN  IF rcv = "VOID"
        THEN [c EXCEPT !.ftdialogs_in = in.dialog, !.alive = ~in.dead]
        ELSE [c EXCEPT !.ftdialogs_out = out.dialog, !.alive = ~out.dead]

file_peer_disconnected(g) == [g EXCEPT !.ftdialogs_in = None, !.ftdialogs_out = None]

\* SkyNet's callback for an event of the library.
Callback(g, e) ==
    CASE e.ev = "request"  -> file_request(g, e.size)
      [] e.ev = "accepted" -> file_accepted_by_peer(active_filetransfers_up(g))
      [] e.ev = "denied"   -> file_denied_by_peer(g)
      [] e.ev = "progress" -> file_progress(g, e.sending, e.pos)
      [] e.ev = "finished" -> file_finished(g, e.sending)
      [] e.ev = "control"  -> file_control(g, e.snd, e.rcv)

\* No call of the library makes more than two callbacks.
Callbacks(g, cb) ==
    CASE Len(cb) = 0 -> g
      [] Len(cb) = 1 -> Callback(g, cb[1])
      [] Len(cb) = 2 -> Callback(Callback(g, cb[1]), cb[2])

-----------------------------------------------------------------------------
(* Steps of the library, with the callbacks they make.  An end whose       *)
(* client dies in a callback loses its channel.                            *)

Settle(p, g) ==
    /\ gui' = [gui EXCEPT ![p] = IF g.alive THEN g ELSE [NewGui EXCEPT !.alive = FALSE]]
    /\ UNCHANGED app

GuiRead(p) ==
    /\ app[p] = "gui"
    /\ \E works \in BOOLEAN :
          LET r == Handle(chan[p], Head(wire[Other(p)]), 2, works)
              g == IF r.ok THEN Callbacks(gui[p], r.cb) ELSE file_peer_disconnected(gui[p])
          IN  /\ Read(p, 2, works)
              /\ chan'[p].state # "CRASHED"
              /\ g.alive
              /\ Settle(p, g)

\* The client dies: in the library, or in a slot that finds no dialog.
GuiDies(p) ==
    /\ app[p] = "gui"
    /\ chan[p].state = "ACTIVE" /\ wire[Other(p)] # <<>>
    /\ \E works \in BOOLEAN :
          LET r == Handle(chan[p], Head(wire[Other(p)]), 2, works)
          IN  /\ works \/ (Head(wire[Other(p)]).type = "FILEFRAGMENT" /\ faults < MaxFaults)
              /\ r.ok /\ (r.chan.state = "CRASHED" \/ ~Callbacks(gui[p], r.cb).alive)
              /\ faults' = IF works THEN faults ELSE faults + 1
    /\ chan' = [chan EXCEPT ![p] = Dead([@ EXCEPT !.state = "CRASHED"])]
    /\ Settle(p, NullDialog(gui[p]))
    /\ UNCHANGED <<wire, done, clicks>>

GuiSendFragment(p) ==
    /\ app[p] = "gui"
    /\ SendFragment(p)
    /\ Settle(p, Callbacks(gui[p], PICA_send_file_fragment(chan[p]).cb))

GuiDisconnected(p) ==
    /\ app[p] = "gui"
    /\ Disconnected(p)
    /\ Settle(p, file_peer_disconnected(gui[p]))

BotStep(p) ==
    /\ app[p] = "bot"
    /\ \/ \E answer \in 0..2, works \in BOOLEAN : Read(p, answer, works)
       \/ SendFragment(p)
       \/ Disconnected(p)
    /\ UNCHANGED <<app, gui>>

BotCalls(p) ==
    /\ app[p] = "bot"
    /\ AppSends(p) \/ AppAnswers(p) \/ AppControls(p)
    /\ UNCHANGED <<app, gui>>

-----------------------------------------------------------------------------
(* What the user of the graphical client does.  SkyNet ignores the error   *)
(* of a library call, but for the count of transfers.                      *)

Clicks(p, r, g) ==
    /\ app[p] = "gui" /\ chan[p].state = "ACTIVE" /\ clicks < MaxClicks
    /\ gui[p].modal = "none"
    /\ Apply(p, r)
    /\ clicks' = clicks + 1
    /\ Settle(p, g)
    /\ UNCHANGED done

\* send_file: an empty file is announced as impossible to send, and sent.  The
\* dialog is made whether or not the library took the file.
send_file(p) ==
    /\ gui[p].ftdialogs_out = None /\ MoreFiles
    /\ \E size \in Sizes, name \in Names, stream \in Streams :
          LET r == PICA_send_file(chan[p], size, name, stream)
              file == IF r.ok THEN r.chan.sendfile.id ELSE 0
          IN  /\ Clicks(p, r, [gui[p] EXCEPT !.ftdialogs_out = Dialog(file, size, "Pause", FALSE)])
              /\ OpenFault(stream)

\* The accept button opens the modal dialog that asks where to save the file.
ClickAccept(p) ==
    LET d == gui[p].ftdialogs_in
    IN  /\ d # None
        /\ d.left = "Accept" /\ d.lefton
        /\ Clicks(p, Failed(chan[p]),
                  [gui[p] EXCEPT !.ftdialogs_in.left = "Pause", !.modal = "save"])
        /\ UNCHANGED faults

\* ... the event loop runs meanwhile, and the dialog may be gone when the user
\* has chosen.  opens is FALSE when the file cannot be opened, or none was
\* chosen.
file_accepted_by_me(p) ==
    /\ app[p] = "gui" /\ gui[p].modal = "save"
    /\ \E opens \in BOOLEAN :
          LET r == PICA_accept_file(chan[p], opens)
              taken == r.ok /\ chan[p].state = "ACTIVE"
              g == [gui[p] EXCEPT !.modal = "none", !.wired_in = @ + 1]
          IN  /\ IF gui[p].ftdialogs_in = None
                 THEN /\ chan' = [chan EXCEPT ![p] = Dead([@ EXCEPT !.state = "CRASHED"])]
                      /\ Settle(p, NullDialog(g))
                      /\ UNCHANGED wire
                 ELSE /\ Apply(p, IF taken THEN r ELSE Failed(chan[p]))
                      /\ Settle(p, IF taken THEN active_filetransfers_up(g) ELSE g)
    /\ UNCHANGED <<done, clicks, faults>>

ClickDeny(p) ==
    LET d == gui[p].ftdialogs_in
    IN  /\ d # None
        /\ d.left = "Accept" /\ d.righton
        /\ Clicks(p, PICA_deny_file(chan[p]), [gui[p] EXCEPT !.ftdialogs_in = None])
        /\ UNCHANGED faults

ClickPause(p, sending) ==
    LET d == IF sending THEN gui[p].ftdialogs_out ELSE gui[p].ftdialogs_in
        g == IF sending THEN [gui[p] EXCEPT !.ftdialogs_out.left = "Resume"]
                        ELSE [gui[p] EXCEPT !.ftdialogs_in.left = "Resume"]
    IN  /\ d # None
        /\ d.left = "Pause" /\ d.lefton
        /\ Clicks(p, PICA_pause_file(chan[p], sending), g)
        /\ UNCHANGED faults

ClickResume(p, sending) ==
    LET d == IF sending THEN gui[p].ftdialogs_out ELSE gui[p].ftdialogs_in
        g == IF sending THEN [gui[p] EXCEPT !.ftdialogs_out.left = "Pause"]
                        ELSE [gui[p] EXCEPT !.ftdialogs_in.left = "Pause"]
    IN  /\ d # None
        /\ d.left = "Resume" /\ d.lefton
        /\ Clicks(p, PICA_resume_file(chan[p], sending), g)
        /\ UNCHANGED faults

\* The cancel button asks whether the user is sure.
ClickCancel(p, sending) ==
    LET d == IF sending THEN gui[p].ftdialogs_out ELSE gui[p].ftdialogs_in
    IN  /\ d # None
        /\ d.left # "Accept" /\ d.righton
        /\ Clicks(p, Failed(chan[p]), [gui[p] EXCEPT !.modal = IF sending THEN "out" ELSE "in"])
        /\ UNCHANGED faults

\* ... and the answer is applied to whatever the map and the channel hold by
\* then: the transfer may be over, another one may have been requested.
file_cancelled_by_me(p) ==
    LET sending == gui[p].modal = "out"
        closed == [gui[p] EXCEPT !.modal = "none"]
        forgotten == IF chan[p].sendfilestate = "SENTREQ" THEN chan[p].sendfile.id
                                                          ELSE gui[p].forgotten
        r == IF chan[p].state = "ACTIVE" THEN PICA_cancel_file(chan[p], sending)
                                         ELSE Failed(chan[p])
    IN  /\ app[p] = "gui" /\ gui[p].modal \in {"in", "out"}
        /\ \/ Apply(p, Failed(chan[p])) /\ Settle(p, closed)
           \/ /\ Apply(p, r)
              /\ Settle(p, IF sending
                           THEN [closed EXCEPT !.ftdialogs_out = None, !.forgotten = forgotten]
                           ELSE [closed EXCEPT !.ftdialogs_in = None])
        /\ UNCHANGED <<done, clicks, faults>>

UserClicks(p) ==
    \/ send_file(p) \/ ClickAccept(p) \/ ClickDeny(p)
    \/ \E sending \in BOOLEAN :
          ClickPause(p, sending) \/ ClickResume(p, sending) \/ ClickCancel(p, sending)

Init ==
    /\ FileInit
    /\ app \in [Peers -> Apps]
    /\ gui = [p \in Peers |-> NewGui]

Next ==
    \E p \in Peers :
        \/ GuiRead(p) \/ GuiDies(p) \/ GuiSendFragment(p) \/ GuiDisconnected(p)
        \/ BotStep(p) \/ BotCalls(p)
        \/ UserClicks(p) \/ file_accepted_by_me(p) \/ file_cancelled_by_me(p)
        \/ FileChanges(p) /\ UNCHANGED <<app, gui>>

Spec == Init /\ [][Next]_vars

-----------------------------------------------------------------------------
(* Properties.                                                             *)

\* From the request to the last fragment, the controller knows the file it sends
\* by the dialog that was made for it, and the user can cancel the transfer there
\* (unless the file is empty: the dialog is made with its buttons off): whatever
\* the peer answers, pauses, resumes or breaks off meanwhile, and however long
\* the user takes to answer a modal dialog.  Only a file whose dialog the user
\* cancelled before the peer's answer loses it: the library goes on with that
\* file, and the controller then acts on another file's dialog or on none.
EverySendHasItsDialog ==
    \A p \in Peers :
        LET f == chan[p].sendfile
            d == gui[p].ftdialogs_out
        IN  app[p] = "gui" /\ chan[p].sendfilestate # "IDLE" /\ f.id # gui[p].forgotten
            => d # None /\ d.file = f.id /\ (f.size > 0 => d.righton)
=============================================================================
