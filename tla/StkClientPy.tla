---------------------------- MODULE StkClientPy ----------------------------
(***************************************************************************)
(* The Python client (stkclient/python): the Tkinter thread with its idle   *)
(* callbacks, the socket thread running stk_sock_run(), and the receive     *)
(* thread that stk_create_tree() starts.  They share stk_running, the lists,*)
(* and two queues, each announced by an event: sendqueue from the windows   *)
(* to the socket, uiqueue from the socket to the receive thread.  That      *)
(* thread has the Tkinter thread create a chat window and waits for         *)
(* syncevent.                                                               *)
(*                                                                          *)
(* A packet is <<command, body>>; the client looks at neither command nor   *)
(* uid of an answer.  An exception that nobody catches ends its thread.     *)
(***************************************************************************)
EXTENDS Naturals, Sequences, FiniteSets

CONSTANTS
  Buddies,   \* the uids the server answers GET_USER with, in order
  Groups,    \* the gids it answers GET_GROUP with, in order
  None,      \* an absent value
  Forms,     \* bound: what the server may say to each form: "ok", "uid", "pass"
  MaxPush,   \* bound: messages that arrive in each conversation
  Chats,     \* bound: conversations whose window the user opens and closes
  MaxSend,   \* bound: messages the user sends
  MaxExit    \* bound: ends of the server

Uids == {Buddies[i] : i \in DOMAIN Buddies}
Gids == {Groups[i] : i \in DOMAIN Groups}
Conv == Uids \cup Gids

ASSUME NamesAssumption ==
  /\ Buddies \in Seq(Uids) /\ Groups \in Seq(Gids)
  /\ Uids \cap Gids = {} /\ None \notin Conv /\ "waiting" \notin Conv
  /\ \A i, j \in DOMAIN Buddies : Buddies[i] = Buddies[j] => i = j
  /\ \A i, j \in DOMAIN Groups : Groups[i] = Groups[j] => i = j
ASSUME BoundsAssumption ==
  /\ Forms \in Seq(SUBSET {"ok", "uid", "pass"}) /\ Chats \subseteq Conv
  /\ {MaxSend, MaxExit} \subseteq Nat /\ MaxPush \in [Conv -> Nat]

VARIABLES
  running,    \* stk_running
  config,     \* the submitted form
  buddylist, grouplist,
  sendevent, sendqueue, uievent, uiqueue, syncevent,
  spc,        \* where the socket thread is
  cred,       \* the form it has taken
  todo,       \* its requests that remain, the present one first
  res,        \* what it is about to set stk_running to
  got,        \* the message it is about to put into uiqueue
  tpc,        \* where the receive thread is
  msg,        \* the message it shows
  view,       \* the main window: form, "wait" or the lists, or "gone"
  put,        \* a message the Tkinter thread is about to put into sendqueue
  flush,      \* update_idletasks() of stk_cancelbtn_pressed() is under way
  idle,       \* idle callbacks: "waiting", or a conversation to create a window for
  win,        \* the chat windows
  link,       \* the socket: "none", "up", or "closed" by the server
  toSrv, toCli,  \* packets on their way
  online,     \* the user is online at the server
  eof,        \* the server has yet to notice that a socket was closed
  asks, pushed, shown, sent, exits, \* history and bounds
  early,      \* history: a message has arrived during a login
  cancelled,  \* history: a login was cancelled after the socket thread had seen it
  missed      \* history: a callback found the window that was asked for

listVars  == <<buddylist, grouplist>>
queueVars == <<sendevent, sendqueue, uievent, uiqueue, syncevent>>
sockVars  == <<spc, cred, todo, res, got>>
recvVars  == <<tpc, msg>>
uiVars    == <<view, put, flush, idle, win>>
wireVars  == <<link, toSrv, toCli, online, eof>>
histVars  == <<asks, pushed, shown, sent, exits, early, cancelled, missed>>
vars == <<running, config, listVars, queueVars, sockVars, recvVars, uiVars, wireVars, histVars>>

Failures == {"CONNECTE_ERR", "SOCKET_ERR", "USERID_ERR", "PASSWORD_ERR", "ALREADY_LOGGIN"}
States == Failures \cup {"UNINITIALIZED", "INITIALIZED", "CONNECTE_REQ", "CONNECTING",
                         "CONNECTED", "RUNNING", "EXITING", "SERVER_EXIT"}
Msgs == Conv \X (Nat \ {0})
MsgOrNone == Msgs \cup {None}

TypeOK ==
  /\ running \in States /\ {config, cred} \subseteq {"ok", "uid", "pass", None}
  /\ buddylist \in Seq(Uids) /\ grouplist \in Seq(Gids)
  /\ sendevent \in BOOLEAN /\ uievent \in BOOLEAN /\ syncevent \in BOOLEAN
  /\ sendqueue \in Seq(Conv) /\ uiqueue \in Seq(Msgs)
  /\ spc \in {"top", "connect", "refused", "made", "ask", "answer", "report",
              "top2", "drain", "recv", "put", "lost", "ended", "dead"}
  /\ todo \in Seq({"req", "login", "self", "users", "info", "groups", "ginfo"} \X (Conv \cup {None}))
  /\ res \in States \cup {None} /\ got \in MsgOrNone /\ msg \in MsgOrNone
  /\ tpc \in {"none", "idle", "drain", "show", "wait", "woken", "insert", "focus", "ended", "dead"}
  /\ view \in {"form", "wait", "main", "gone"} /\ put \in Conv \cup {None}
  /\ idle \in Seq(Conv \cup {"waiting"}) /\ win \subseteq Conv
  /\ link \in {"none", "up", "closed"} /\ online \in BOOLEAN /\ eof \in BOOLEAN
  /\ asks \in 0 .. Len(Forms) /\ sent \in 0 .. MaxSend /\ exits \in 0 .. MaxExit
  /\ \A c \in Conv : pushed[c] \in 0 .. MaxPush[c]
  /\ {flush, early, cancelled, missed} \subseteq BOOLEAN

Init ==
  /\ running = "UNINITIALIZED" /\ config = None /\ buddylist = <<>> /\ grouplist = <<>>
  /\ sendevent = FALSE /\ sendqueue = <<>> /\ uievent = FALSE /\ uiqueue = <<>> /\ syncevent = FALSE
  /\ spc = "top" /\ cred = None /\ todo = <<>> /\ res = None /\ got = None
  /\ tpc = "none" /\ msg = None
  /\ view = "form" /\ put = None /\ flush = FALSE /\ idle = <<>> /\ win = {}
  /\ link = "none" /\ toSrv = <<>> /\ toCli = <<>> /\ online = FALSE /\ eof = FALSE
  /\ asks = 0 /\ sent = 0 /\ exits = 0 /\ early = FALSE /\ cancelled = FALSE /\ missed = FALSE
  /\ pushed = [c \in Conv |-> 0] /\ shown = [c \in Conv |-> <<>>]

-----------------------------------------------------------------------------
(* The Tkinter thread: login and exit                                      *)

\* The main loop is between events and callbacks.
Loops == view # "gone" /\ put = None /\ ~flush

InGroup(g) == \E i \in DOMAIN grouplist : grouplist[i] = g

\* stk_loginbtn_pressed() with a form that is filled in.
Submit(form) ==
  /\ Loops /\ view = "form" /\ asks < Len(Forms) /\ form \in Forms[asks + 1]
  /\ config' = form
  /\ running' = "CONNECTE_REQ"
  /\ view' = "wait"
  /\ idle' = Append(idle, "waiting")
  /\ asks' = asks + 1
  /\ UNCHANGED <<listVars, queueVars, sockVars, recvVars, put, flush, win, wireVars,
                 pushed, shown, sent, exits, early, cancelled, missed>>

\* stk_cancelbtn_pressed(): its update_idletasks() runs stk_waiting() until that
\* is not queued any more.
Cancel ==
  /\ Loops /\ view = "wait"
  /\ running' = "INITIALIZED"
  /\ view' = "form"
  /\ flush' = (idle # <<>>)
  /\ cancelled' = (cancelled \/ spc # "top")
  /\ UNCHANGED <<config, listVars, queueVars, sockVars, recvVars, put, idle, win, wireVars,
                 asks, pushed, shown, sent, exits, early, missed>>

\* stk_waiting(): the lists and the receive thread, another round, or the form.
Waiting ==
  /\ Loops \/ flush
  /\ idle # <<>> /\ Head(idle) = "waiting"
  /\ \/ /\ running = "CONNECTED"
        /\ running' = "RUNNING" /\ view' = "main" /\ idle' = Tail(idle) /\ tpc' = "idle"
     \/ /\ running \in {"CONNECTING", "CONNECTE_REQ"}
        /\ idle' = Append(Tail(idle), "waiting")
        /\ UNCHANGED <<running, view, tpc>>
     \/ /\ running \notin {"CONNECTED", "CONNECTING", "CONNECTE_REQ"}
        /\ running' = "INITIALIZED" /\ view' = "form" /\ idle' = Tail(idle)
        /\ UNCHANGED tpc
  /\ flush' = (flush /\ idle' # <<>>)
  /\ UNCHANGED <<config, listVars, queueVars, sockVars, msg, put, win, wireVars, histVars>>

\* stk_quit(): the windows are destroyed with the callbacks.
Quit ==
  /\ Loops
  /\ running' = "EXITING"
  /\ view' = "gone" /\ idle' = <<>> /\ win' = {}
  /\ UNCHANGED <<config, listVars, queueVars, sockVars, recvVars, put, flush, wireVars, histVars>>

-----------------------------------------------------------------------------
(* The Tkinter thread: chat windows                                        *)

\* stk_buddy_chat(), stk_group_chat(): a row of the lists is double-clicked.
OpenChat(c) ==
  /\ Loops /\ view = "main" /\ c \in Chats \ win /\ (c \in Gids => InGroup(c))
  /\ win' = win \cup {c}
  /\ UNCHANGED <<running, config, listVars, queueVars, sockVars, recvVars, view, put, flush, idle, wireVars, histVars>>

CloseChat(c) ==
  /\ Loops /\ c \in Chats \cap win
  /\ win' = win \ {c}
  /\ UNCHANGED <<running, config, listVars, queueVars, sockVars, recvVars, view, put, flush, idle, wireVars, histVars>>

\* Mutant: the window of a group does not set syncevent.
CreateWinBuddy(c) ==
  /\ Loops /\ idle # <<>> /\ Head(idle) = c
  /\ idle' = Tail(idle)
  /\ win' = win \cup {c}
  /\ syncevent' = (syncevent \/ (c \notin win /\ c \in Uids))
  /\ missed' = (missed \/ c \in win)
  /\ UNCHANGED <<running, config, listVars, sendevent, sendqueue, uievent, uiqueue, sockVars, recvVars,
                 view, put, flush, wireVars, asks, pushed, shown, sent, exits, early, cancelled>>

\* stk_create_chatwin(uid, True): a window that exists by now is only raised.
CreateWin(c) ==
  /\ Loops /\ idle # <<>> /\ Head(idle) = c
  /\ idle' = Tail(idle)
  /\ win' = win \cup {c}
  /\ syncevent' = (syncevent \/ c \notin win)
  /\ missed' = (missed \/ c \in win)
  /\ UNCHANGED <<running, config, listVars, sendevent, sendqueue, uievent, uiqueue, sockVars, recvVars,
                 view, put, flush, wireVars, asks, pushed, shown, sent, exits, early, cancelled>>

\* stk_send_msg(), stk_send_gmsg(): the event is set first,
SendMsg(c) ==
  /\ Loops /\ c \in Chats \cap win /\ sent < MaxSend
  /\ sendevent' = TRUE
  /\ put' = c
  /\ sent' = sent + 1
  /\ UNCHANGED <<running, config, listVars, sendqueue, uievent, uiqueue, syncevent, sockVars, recvVars,
                 view, flush, idle, win, wireVars, asks, pushed, shown, exits, early, cancelled, missed>>

\* then the message is queued.
SendPut ==
  /\ put # None
  /\ sendqueue' = Append(sendqueue, put)
  /\ put' = None
  /\ UNCHANGED <<running, config, listVars, sendevent, uievent, uiqueue, syncevent, sockVars, recvVars,
                 view, flush, idle, win, wireVars, histVars>>

-----------------------------------------------------------------------------
(* The socket thread: connecting                                           *)

IsAt(here, there) == spc = here /\ spc' = there

\* sock.close() on a connection the server knows.
CloseSock ==
  /\ link' = "none" /\ toSrv' = <<>> /\ toCli' = <<>>
  /\ eof' = (eof \/ link = "up")

\* The first loop: the end, a request, or another look.
SeeRequest ==
  /\ spc = "top"
  /\ \/ running = "EXITING" /\ spc' = "ended"
     \/ running = "CONNECTE_REQ" /\ spc' = "connect"
  /\ UNCHANGED <<running, config, listVars, queueVars, cred, todo, res, got, recvVars, uiVars, wireVars, histVars>>

\* CONNECTING is set whatever stk_running has become, and stk_connect() reads
\* the form; the old socket is forgotten.
Connect(ok) ==
  /\ IsAt("connect", IF ok THEN "made" ELSE "refused")
  /\ running' = "CONNECTING"
  /\ cred' = config
  /\ link' = IF ok THEN "up" ELSE "none"
  /\ toSrv' = <<>> /\ toCli' = <<>> /\ eof' = (eof \/ link = "up")
  /\ UNCHANGED <<config, listVars, queueVars, todo, res, got, recvVars, uiVars, online, histVars>>

\* "User cancel the login Action": the socket is closed.
ConnectCancelled ==
  /\ spc \in {"made", "refused"} /\ running # "CONNECTING"
  /\ spc' = "top"
  /\ CloseSock
  /\ UNCHANGED <<running, config, listVars, queueVars, cred, todo, res, got, recvVars, uiVars, online, histVars>>

Connected ==
  /\ running = "CONNECTING"
  /\ \/ IsAt("made", "ask") /\ todo' = <<<<"req", None>>>> /\ UNCHANGED res
     \/ IsAt("refused", "report") /\ res' = "CONNECTE_ERR" /\ UNCHANGED todo
  /\ UNCHANGED <<running, config, listVars, queueVars, cred, got, recvVars, uiVars, wireVars, histVars>>

\* Mutant: a wrong password leaves stk_running as it is.
ReportMostly ==
  /\ IsAt("report", IF res = "CONNECTED" THEN "top2" ELSE "top")
  /\ running' = IF res = "PASSWORD_ERR" THEN running ELSE res
  /\ IF res = "CONNECTED" THEN UNCHANGED <<link, toSrv, toCli, eof>> ELSE CloseSock
  /\ UNCHANGED <<config, listVars, queueVars, cred, todo, res, got, recvVars, uiVars, online, histVars>>

\* The outcome is set, whatever stk_running has become, and the socket of a
\* login that failed is closed.
Report ==
  /\ IsAt("report", IF res = "CONNECTED" THEN "top2" ELSE "top")
  /\ running' = res
  /\ IF res = "CONNECTED" THEN UNCHANGED <<link, toSrv, toCli, eof>> ELSE CloseSock
  /\ UNCHANGED <<config, listVars, queueVars, cred, todo, res, got, recvVars, uiVars, online, histVars>>

-----------------------------------------------------------------------------
(* The socket thread: the login's requests                                 *)

Cmd == Head(todo)[1]

Ask ==
  /\ IsAt("ask", "answer")
  /\ toSrv' = IF link = "up" THEN Append(toSrv, Head(todo)) ELSE toSrv
  /\ UNCHANGED <<running, config, listVars, queueVars, cred, todo, res, got, recvVars, uiVars,
                 link, toCli, online, eof, histVars>>

\* recv() returns n packets as one, or '' at the end of the stream.
Receives(n) == toCli' = SubSeq(toCli, n + 1, Len(toCli))
AtEnd == link # "up" /\ toCli = <<>>

\* An exception ends the thread.
Raises == spc' = "dead" /\ UNCHANGED <<todo, res, listVars>>

GoOn(rest) ==
  /\ todo' = rest
  /\ IF rest = <<>> THEN spc' = "report" /\ res' = "CONNECTED"
     ELSE spc' = "ask" /\ UNCHANGED res

Ends(result) == spc' = "report" /\ res' = result /\ UNCHANGED todo

\* A timeout after five seconds, or the end of the stream; only the members of a group are passed over.
Fails == (IF Cmd = "ginfo" THEN GoOn(Tail(todo)) ELSE Ends("SOCKET_ERR")) /\ UNCHANGED listVars

Decide(code) ==
  CASE code = "ok"    -> GoOn(<<<<"self", None>>>>)
    [] code = "uid"   -> Ends("USERID_ERR")
    [] code = "pass"  -> Ends("PASSWORD_ERR")
    [] code = "again" -> Ends("ALREADY_LOGGIN")

\* Mutant: the last uid is not asked about.
ProfilesShort(uids) == [i \in 1 .. Len(uids) - 1 |-> <<"info", uids[i]>>]

\* stk_get_profile() for each uid.
Profiles(uids) == [i \in DOMAIN uids |-> <<"info", uids[i]>>]

\* The answer to the request, alone or, where extra bytes do no harm, before others.
Accept(body) ==
  CASE Cmd = "req"   -> GoOn(<<<<"login", None>>>>) /\ UNCHANGED listVars
    [] Cmd = "login" -> Decide(body) /\ UNCHANGED listVars
    [] Cmd = "self"  -> GoOn(<<<<"users", None>>>>) /\ UNCHANGED listVars
    [] Cmd = "users" -> GoOn(Profiles(body) \o <<<<"groups", None>>>>) /\ UNCHANGED listVars
    [] Cmd = "info"  -> /\ buddylist' = Append(buddylist, body)
                        /\ GoOn(Tail(todo)) /\ UNCHANGED grouplist
    [] Cmd = "groups" -> GoOn([i \in DOMAIN body |-> <<"ginfo", body[i]>>]) /\ UNCHANGED listVars
    [] Cmd = "ginfo" -> /\ grouplist' = IF body = Head(todo)[2] THEN Append(grouplist, body) ELSE grouplist
                        /\ GoOn(Tail(todo)) /\ UNCHANGED buddylist

\* Another packet, as the first of n: a message begins with two zero bytes, which
\* makes an empty list of users or groups, users can be taken for groups, and what
\* is long enough for a group has the wrong gid; the rest raises struct.error.
Misread(n) ==
  \/ Raises
  \/ Cmd = "users" /\ Head(toCli)[1] = "msg" /\ GoOn(<<<<"groups", None>>>>) /\ UNCHANGED listVars
  \/ Cmd = "groups" /\ Head(toCli)[1] = "msg" /\ GoOn(<<>>) /\ UNCHANGED listVars
  \/ /\ Cmd = "groups" /\ Head(toCli)[1] = "users" /\ UNCHANGED listVars
     /\ LET uids == Head(toCli)[2] IN GoOn([i \in DOMAIN uids |-> <<"ginfo", uids[i]>>])
  \/ Cmd = "ginfo" /\ (n > 1 \/ Head(toCli)[1] # "groups") /\ GoOn(Tail(todo)) /\ UNCHANGED listVars

\* Unpacking asks for the exact length in these answers.
Exact == {"login", "self", "info"}

Answer ==
  /\ spc = "answer"
  /\ \/ \E n \in 1 .. Len(toCli) :
          /\ Receives(n)
          /\ IF n > 1 /\ Cmd \in Exact THEN Raises
             ELSE IF Head(toCli)[1] = Cmd THEN Accept(Head(toCli)[2]) ELSE Misread(n)
     \/ toCli = <<>> /\ Fails /\ UNCHANGED toCli
     \/ AtEnd /\ Raises /\ UNCHANGED toCli
  /\ UNCHANGED <<running, config, queueVars, cred, got, recvVars, uiVars, link, toSrv, online, eof, histVars>>

-----------------------------------------------------------------------------
(* The socket thread: chatting                                             *)

\* The second loop: sendevent is looked at before each recv().
Chatting ==
  /\ spc = "top2"
  /\ \/ running = "EXITING" /\ spc' = "ended" /\ UNCHANGED sendevent
     \/ running = "RUNNING" /\ sendevent /\ spc' = "drain" /\ sendevent' = FALSE
     \/ running = "RUNNING" /\ ~sendevent /\ spc' = "recv" /\ UNCHANGED sendevent
  /\ UNCHANGED <<running, config, listVars, sendqueue, uievent, uiqueue, syncevent,
                 cred, todo, res, got, recvVars, uiVars, wireVars, histVars>>

\* The queue is sent until it is empty; a broken connection may raise, and so
\* does a text that is not ASCII.
SendQueued ==
  /\ spc = "drain"
  /\ \/ sendqueue # <<>> /\ sendqueue' = Tail(sendqueue) /\ UNCHANGED spc
     \/ sendqueue # <<>> /\ spc' = "dead" /\ sendqueue' = Tail(sendqueue)
     \/ sendqueue = <<>> /\ spc' = "recv" /\ UNCHANGED sendqueue
  /\ UNCHANGED <<running, config, listVars, sendevent, uievent, uiqueue, syncevent, cred, todo, res, got,
                 recvVars, uiVars, wireVars, histVars>>

\* Mutant: only the first message in the queue announces itself.
ReceiveQuiet ==
  /\ spc = "recv" /\ toCli # <<>>
  /\ \E n \in 1 .. Len(toCli) : Receives(n)
  /\ IF Head(toCli)[1] # "msg" THEN spc' = "dead" /\ UNCHANGED <<got, uievent>>
     ELSE IF Head(toCli)[2][1] \in Gids /\ ~InGroup(Head(toCli)[2][1])
          THEN spc' = "top2" /\ UNCHANGED <<got, uievent>>
          ELSE spc' = "put" /\ got' = Head(toCli)[2] /\ uievent' = (uievent \/ uiqueue = <<>>)
  /\ UNCHANGED <<running, config, listVars, sendevent, sendqueue, uiqueue, syncevent, cred, todo, res,
                 recvVars, uiVars, link, toSrv, online, eof, histVars>>

\* stk_recv_msg(): a message announces itself; one of an unknown group is
\* dropped, and anything else leaves mtype unbound.
Receive ==
  /\ spc = "recv" /\ toCli # <<>>
  /\ \E n \in 1 .. Len(toCli) : Receives(n)
  /\ IF Head(toCli)[1] # "msg" THEN spc' = "dead" /\ UNCHANGED <<got, uievent>>
     ELSE IF Head(toCli)[2][1] \in Gids /\ ~InGroup(Head(toCli)[2][1])
          THEN spc' = "top2" /\ UNCHANGED <<got, uievent>>
          ELSE spc' = "put" /\ got' = Head(toCli)[2] /\ uievent' = TRUE
  /\ UNCHANGED <<running, config, listVars, sendevent, sendqueue, uiqueue, syncevent, cred, todo, res,
                 recvVars, uiVars, link, toSrv, online, eof, histVars>>

\* Mutant: the latest message is queued first.
PutFirst ==
  /\ IsAt("put", "top2")
  /\ uiqueue' = <<got>> \o uiqueue
  /\ got' = None
  /\ UNCHANGED <<running, config, listVars, sendevent, sendqueue, uievent, syncevent, cred, todo, res,
                 recvVars, uiVars, wireVars, histVars>>

\* uiqueue.put(), after the event.
Put ==
  /\ IsAt("put", "top2")
  /\ uiqueue' = Append(uiqueue, got)
  /\ got' = None
  /\ UNCHANGED <<running, config, listVars, sendevent, sendqueue, uievent, syncevent, cred, todo, res,
                 recvVars, uiVars, wireVars, histVars>>

\* Mutant: a timeout does not return to the loop.
RecvTimeoutAgain == spc = "recv" /\ toCli = <<>> /\ link = "up" /\ UNCHANGED vars

\* socket.timeout after half a second.
RecvTimeout ==
  /\ IsAt("recv", "top2") /\ toCli = <<>> /\ link = "up"
  /\ UNCHANGED <<running, config, listVars, queueVars, cred, todo, res, got, recvVars, uiVars, wireVars, histVars>>

\* recv() returns '', or raises an error that nobody catches.
RecvEnd ==
  /\ spc = "recv" /\ AtEnd
  /\ (spc' = "lost" \/ spc' = "dead")
  /\ UNCHANGED <<running, config, listVars, queueVars, cred, todo, res, got, recvVars, uiVars, wireVars, histVars>>

Lost ==
  /\ IsAt("lost", "top2")
  /\ running' = "SERVER_EXIT"
  /\ UNCHANGED <<config, listVars, queueVars, cred, todo, res, got, recvVars, uiVars, wireVars, histVars>>

-----------------------------------------------------------------------------
(* The receive thread: stk_recv_msg() and stk_show_msg() of the Ui         *)

RecvAt(here, there) == tpc = here /\ tpc' = there

\* The end, or the event, which is cleared before the queue is emptied.
Look ==
  /\ tpc = "idle"
  /\ \/ running = "EXITING" /\ tpc' = "ended" /\ UNCHANGED uievent
     \/ running # "EXITING" /\ uievent /\ tpc' = "drain" /\ uievent' = FALSE
  /\ UNCHANGED <<running, config, listVars, sendevent, sendqueue, uiqueue, syncevent, sockVars,
                 msg, uiVars, wireVars, histVars>>

Take ==
  /\ tpc = "drain"
  /\ \/ uiqueue # <<>> /\ tpc' = "show" /\ msg' = Head(uiqueue) /\ uiqueue' = Tail(uiqueue)
     \/ uiqueue = <<>> /\ tpc' = "idle" /\ UNCHANGED <<msg, uiqueue>>
  /\ UNCHANGED <<running, config, listVars, sendevent, sendqueue, uievent, syncevent, sockVars,
                 uiVars, wireVars, histVars>>

\* A conversation without a window has one created in the Tkinter thread, which
\* raises when that thread has ended.
NeedWindow ==
  /\ tpc = "show"
  /\ \/ msg[1] \in win /\ tpc' = "insert" /\ UNCHANGED idle
     \/ msg[1] \notin win /\ view # "gone" /\ tpc' = "wait" /\ idle' = Append(idle, msg[1])
     \/ msg[1] \notin win /\ view = "gone" /\ tpc' = "dead" /\ UNCHANGED idle
  /\ UNCHANGED <<running, config, listVars, queueVars, sockVars, msg, view, put, flush, win, wireVars, histVars>>

\* syncevent.wait()
Woken ==
  /\ RecvAt("wait", "woken") /\ syncevent
  /\ UNCHANGED <<running, config, listVars, queueVars, sockVars, msg, uiVars, wireVars, histVars>>

ClearSync ==
  /\ RecvAt("woken", "insert")
  /\ syncevent' = FALSE
  /\ UNCHANGED <<running, config, listVars, sendevent, sendqueue, uievent, uiqueue, sockVars, msg,
                 uiVars, wireVars, histVars>>

\* The text goes into the window, which may have been closed: that raises.
Insert ==
  /\ RecvAt("insert", IF msg[1] \in win THEN "focus" ELSE "dead")
  /\ shown' = IF msg[1] \in win THEN [shown EXCEPT ![msg[1]] = Append(@, msg[2])] ELSE shown
  /\ UNCHANGED <<running, config, listVars, queueVars, sockVars, msg, uiVars, wireVars,
                 asks, pushed, sent, exits, early, cancelled, missed>>

Focus ==
  /\ RecvAt("focus", IF msg[1] \in win THEN "drain" ELSE "dead")
  /\ msg' = None
  /\ UNCHANGED <<running, config, listVars, queueVars, sockVars, uiVars, wireVars, histVars>>

-----------------------------------------------------------------------------
(* The server, as far as the client depends on it                          *)

Body(request) ==
  CASE request[1] = "login" -> IF cred = "ok" /\ online THEN "again" ELSE cred
    [] request[1] = "users" -> Buddies
    [] request[1] = "groups" -> Groups
    [] OTHER -> request[2]

\* No server survives the question about a group that does not exist.
Serve ==
  /\ link = "up" /\ toSrv # <<>>
  /\ toSrv' = Tail(toSrv)
  /\ LET request == Head(toSrv)
     IN IF request[1] = "ginfo" /\ request[2] \notin Gids
        THEN link' = "closed" /\ online' = FALSE /\ UNCHANGED toCli
        ELSE /\ toCli' = Append(toCli, <<request[1], Body(request)>>)
             /\ online' = (online \/ (request[1] = "login" /\ cred = "ok"))
             /\ UNCHANGED link
  /\ UNCHANGED <<running, config, listVars, queueVars, sockVars, recvVars, uiVars, eof, histVars>>

\* A closed connection puts its user offline, at some time.
Offline ==
  /\ eof
  /\ eof' = FALSE /\ online' = FALSE
  /\ UNCHANGED <<running, config, listVars, queueVars, sockVars, recvVars, uiVars,
                 link, toSrv, toCli, histVars>>

\* A message for the user, from a buddy or in a group.
Push(c) ==
  /\ link = "up" /\ online /\ ~eof /\ pushed[c] < MaxPush[c] /\ spc # "ended"
  /\ pushed' = [pushed EXCEPT ![c] = @ + 1]
  /\ toCli' = Append(toCli, <<"msg", <<c, pushed'[c]>>>>)
  /\ early' = (early \/ spc \in {"ask", "answer"})
  /\ UNCHANGED <<running, config, listVars, queueVars, sockVars, recvVars, uiVars, link, toSrv, online, eof,
                 asks, shown, sent, exits, cancelled, missed>>

ServerExit ==
  /\ exits < MaxExit /\ link = "up" /\ spc # "ended"
  /\ exits' = exits + 1
  /\ link' = "closed" /\ toSrv' = <<>> /\ online' = FALSE /\ eof' = FALSE
  /\ UNCHANGED <<running, config, listVars, queueVars, sockVars, recvVars, uiVars, toCli,
                 asks, pushed, shown, sent, early, cancelled, missed>>

-----------------------------------------------------------------------------
Socket ==
  \/ SeeRequest \/ (\E ok \in BOOLEAN : Connect(ok)) \/ ConnectCancelled \/ Connected \/ Report
  \/ Ask \/ Answer \/ Chatting \/ SendQueued \/ Receive \/ Put \/ RecvTimeout \/ RecvEnd \/ Lost

Receiver == Look \/ Take \/ NeedWindow \/ Woken \/ ClearSync \/ Insert \/ Focus

Callbacks == Waiting \/ SendPut \/ \E c \in Conv : CreateWin(c)

User ==
  \/ \E form \in {"ok", "uid", "pass"} : Submit(form)
  \/ Cancel \/ Quit \/ \E c \in Conv : OpenChat(c) \/ CloseChat(c) \/ SendMsg(c)

Next ==
  \/ Socket \/ Receiver \/ Callbacks \/ User
  \/ Serve \/ Offline \/ ServerExit \/ \E c \in Conv : Push(c)

Spec == Init /\ [][Next]_vars

\* The three threads run, and the server answers.
FairSpec ==
  /\ Spec /\ WF_vars(Socket) /\ WF_vars(Receiver) /\ WF_vars(Callbacks) /\ WF_vars(Serve)

-----------------------------------------------------------------------------
(* Properties                                                              *)

\* The user list that is shown has everybody, whatever logins failed before,
\* unless a message has arrived during a login and was read as an answer.
BuddiesComplete ==
  view = "main" /\ ~early =>
    \A i \in DOMAIN Buddies : \E j \in DOMAIN buddylist : buddylist[j] = Buddies[i]

\* The messages of a conversation reach its window in the order they were sent,
\* at most once, through the queue and the windows that come and go.
Waits == (IF tpc \in {"show", "wait", "woken", "insert"} THEN <<msg>> ELSE <<>>) \o uiqueue
InOrder ==
  \A c \in Conv :
    /\ \A i, j \in DOMAIN shown[c] : i < j => shown[c][i] < shown[c][j]
    /\ \A i, j \in DOMAIN Waits : i < j /\ Waits[i][1] = c /\ Waits[j][1] = c => Waits[i][2] < Waits[j][2]
    /\ \A i \in DOMAIN shown[c], j \in DOMAIN Waits : Waits[j][1] = c => shown[c][i] < Waits[j][2]

\* Each event is set before the message is queued, so that a message can wait
\* unannounced; never more than one does, received or to be sent.
OneWaits ==
  /\ tpc = "idle" /\ ~uievent /\ spc # "put" => Len(uiqueue) <= 1
  /\ spc \in {"top2", "recv", "put"} /\ ~sendevent /\ put = None => Len(sendqueue) <= 1

\* The receive thread waits for a window that the Tkinter thread will create,
\* unless the user has opened that window first or closed the program.
ReceiverWakes ==
  tpc = "wait" =>
    syncevent \/ missed \/ view = "gone" \/ \E i \in DOMAIN idle : idle[i] = msg[1]

\* Closing the window ends both threads, unless the socket thread has overwritten
\* EXITING or the receive thread waits for a window.
ExitEnds ==
  view = "gone" ~>
    running # "EXITING" \/ (spc \in {"ended", "dead"} /\ tpc \in {"none", "ended", "dead", "wait"})

\* A submitted form is decided on the screen, unless the socket thread has ended
\* by an exception or a login was cancelled under way.
LoginTold == view = "wait" ~> view # "wait" \/ spc = "dead" \/ cancelled
=============================================================================
