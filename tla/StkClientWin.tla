---------------------------- MODULE StkClientWin ----------------------------
(***************************************************************************)
(* The Win32 client (stkclient/win32).  WinMain() runs the message loop of  *)
(* the windows; stk_socket() runs in a thread of its own, logs in when it   *)
(* is asked to and then receives.  The two share stk_running, one variable  *)
(* that both set, the lists of buddies and groups, and the message list of  *)
(* each, without a lock; the thread posts WMAPP_SOCKET when a login is      *)
(* decided and WMAPP_MSG when a message has been stored.                    *)
(*                                                                          *)
(* A request is <<command, subject>>, a packet <<command, uid, body>>.  The *)
(* profile of a user is named by his uid, the members of a group by its gid.*)
(* recv() gives up after a second, and one call may return several packets, *)
(* of which only the first is looked at.                                    *)
(***************************************************************************)
EXTENDS Naturals, Sequences, FiniteSets

CONSTANTS
  UserFile,  \* the server's users, in order
  Groups,    \* the gids it answers GET_GROUP with, in order
  NoOne,     \* a uid without an account, and an absent value
  Forms,     \* bound: the <<uid, password>> the user may type in
  MaxLogin,  \* bound: submitted forms
  MaxLate,   \* bound: requests whose answer comes after the timeout
  MaxPush,   \* bound: messages that arrive in each conversation
  Chats,     \* bound: the conversations whose window the user opens and closes
  MaxSend,   \* bound: messages the user sends
  MaxExit    \* bound: ends of the server

Users == {UserFile[i] : i \in DOMAIN UserFile}
Gids  == {Groups[i] : i \in DOMAIN Groups}
Conv  == Users \cup Gids

ASSUME NamesAssumption ==
  /\ UserFile \in Seq(Users) /\ Groups \in Seq(Gids)
  /\ Users \cap Gids = {} /\ NoOne \notin Conv
  /\ Conv \cap {"socket", "loop", "join", "ended"} = {}
  /\ \A i, j \in DOMAIN UserFile : UserFile[i] = UserFile[j] => i = j
  /\ \A i, j \in DOMAIN Groups : Groups[i] = Groups[j] => i = j
ASSUME BoundsAssumption ==
  /\ Forms \subseteq (Users \cup {NoOne}) \X (Users \cup {NoOne})
  /\ {MaxLogin, MaxLate, MaxSend, MaxExit} \subseteq Nat /\ MaxPush \in [Conv -> Nat]
  /\ Chats \subseteq Conv

VARIABLES
  running,  \* stk_running
  cuid,     \* client.uid
  cpass,    \* client.pass: the user whose password it is
  buddys,   \* stk_buddys: <<uid, profile>>
  groups,   \* client.group: <<gid, members>>
  mail,     \* chatmsg and msg_num of a conversation
  pc,       \* where the thread is in stk_socket()
  todo,     \* the requests of the login that remain, the present one first
  luid,     \* the uid parameter of the present stk_send function
  res,      \* what stk_set_running() is about to be called with
  cur,      \* the conversation and message being stored
  view,     \* the main window: login form, "connecting", or the lists
  ui,       \* what the message loop is doing
  posted,   \* the messages posted to the main window
  exist,    \* the conversations that have a window
  link,     \* the socket: "none", "up", or "closed" by the server
  toSrv, toCli,  \* packets on their way
  bound,    \* the client the server has bound this connection to
  inLink,   \* that client went online over this connection
  online,   \* the users who are online at the server
  asks,     \* history: forms submitted
  again,    \* history: a form was submitted while another was being served
  late,     \* history: timeouts of the login
  pushed,   \* history: messages sent to the user in each conversation
  shown,    \* history: messages put into its window
  sent, exits,
  dead      \* a message list has been corrupted

clientVars == <<running, cuid, cpass>>
listVars   == <<buddys, groups>>
threadVars == <<pc, todo, luid, res, cur>>
windowVars == <<view, ui, posted, exist>>
wireVars   == <<link, toSrv, toCli, bound, inLink, online>>
histVars   == <<asks, again, late, pushed, shown, sent, exits>>
vars == <<clientVars, listVars, mail, threadVars, windowVars, wireVars, histVars, dead>>

Failures == {"CONNECTE_ERR", "SOCKET_ERR", "USERID_ERR", "PASSWORD_ERR", "ALREADY_LOGGIN"}
States == Failures \cup {"INITIALIZED", "CONNECTE_REQ", "CONNECTING", "CONNECTED",
                         "RUNNING", "EXITING", "SERVER_EXIT"}
Subject == Conv \cup {NoOne}
Entry(K) == K \X (K \cup {NoOne})

TypeOK ==
  /\ running \in States /\ cuid \in Users \cup {NoOne} /\ cpass \in Users \cup {NoOne}
  /\ buddys \in Seq(Entry(Users)) /\ groups \in Seq(Entry(Gids))
  /\ \A c \in Conv : mail[c] \in Seq(1 .. MaxPush[c]) /\ shown[c] \in Seq(1 .. MaxPush[c])
  /\ pc \in {"top", "claim", "connect", "refused", "made", "ask", "answer", "report", "silent",
             "top2", "recv", "append", "post", "lost", "exit", "ended"}
  /\ todo \in Seq({"req", "login", "self", "users", "info", "groups", "ginfo"} \X Subject)
  /\ luid \in Users \cup {NoOne} /\ res \in States \cup {NoOne}
  /\ cur \in (Conv \X Nat) \cup {NoOne}
  /\ view \in {"form", "wait", "main"} /\ ui \in {"loop", "join", "ended"} \cup Conv
  /\ posted \in Seq({"socket"} \cup Conv) /\ exist \subseteq Conv
  /\ link \in {"none", "up", "closed"} /\ bound \in Users \cup {NoOne} /\ online \subseteq Users
  /\ inLink \in BOOLEAN
  /\ asks \in 0 .. MaxLogin /\ late \in 0 .. MaxLate /\ sent \in 0 .. MaxSend
  /\ exits \in 0 .. MaxExit /\ again \in BOOLEAN /\ dead \in BOOLEAN

Init ==
  /\ running = "INITIALIZED" /\ cuid = NoOne /\ cpass = NoOne
  /\ buddys = <<>> /\ groups = <<>> /\ mail = [c \in Conv |-> <<>>]
  /\ pc = "top" /\ todo = <<>> /\ luid = NoOne /\ res = NoOne /\ cur = NoOne
  /\ view = "form" /\ ui = "loop" /\ posted = <<>> /\ exist = {}
  /\ link = "none" /\ toSrv = <<>> /\ toCli = <<>> /\ bound = NoOne /\ inLink = FALSE /\ online = {}
  /\ asks = 0 /\ again = FALSE /\ late = 0 /\ sent = 0 /\ exits = 0
  /\ pushed = [c \in Conv |-> 0] /\ shown = [c \in Conv |-> <<>>]
  /\ dead = FALSE

-----------------------------------------------------------------------------
(* The login form and the main window                                      *)

\* The message loop is between messages.
Loops == ~dead /\ ui = "loop"

\* stk_loginbtn_pressed(), with the fields filled in.
Submit(u, p) ==
  /\ Loops /\ view = "form" /\ asks < MaxLogin
  /\ cuid' = u /\ cpass' = p
  /\ running' = "CONNECTE_REQ"
  /\ view' = "wait"
  /\ asks' = asks + 1
  /\ again' = (again \/ pc # "top" \/ running \in Failures)
  /\ UNCHANGED <<listVars, mail, threadVars, ui, posted, exist, wireVars,
                 late, pushed, shown, sent, exits, dead>>

\* A form with an empty field is refused, with the fields before it stored.
Incomplete(u) ==
  /\ Loops /\ view = "form" /\ asks < MaxLogin
  /\ cuid' = u /\ cpass' = NoOne
  /\ asks' = asks + 1
  /\ again' = (again \/ pc # "top" \/ running \in Failures \cup {"CONNECTE_REQ"})
  /\ UNCHANGED <<running, listVars, mail, threadVars, windowVars, wireVars,
                 late, pushed, shown, sent, exits, dead>>

\* IDM_CANCEL puts the form back, and nothing else.
Cancel ==
  /\ Loops /\ view = "wait"
  /\ view' = "form"
  /\ UNCHANGED <<clientVars, listVars, mail, threadVars, ui, posted, exist, wireVars, histVars, dead>>

\* WMAPP_SOCKET: a login that succeeded shows the lists, one that failed the form.
SocketMessage ==
  /\ Loops /\ posted # <<>> /\ Head(posted) = "socket"
  /\ posted' = Tail(posted)
  /\ \/ running = "CONNECTED" /\ running' = "RUNNING" /\ view' = "main"
     \/ running \in Failures /\ running' = "INITIALIZED" /\ view' = "form"
     \/ running \notin Failures \cup {"CONNECTED"} /\ UNCHANGED <<running, view>>
  /\ UNCHANGED <<cuid, cpass, listVars, mail, threadVars, ui, exist, wireVars, histVars, dead>>

\* The main window is destroyed: the thread is told and waited for.
Quit ==
  /\ Loops
  /\ running' = "EXITING"
  /\ ui' = "join"
  /\ UNCHANGED <<cuid, cpass, listVars, mail, threadVars, view, posted, exist, wireVars, histVars, dead>>

Joined ==
  /\ ~dead /\ ui = "join" /\ pc = "ended"
  /\ ui' = "ended"
  /\ UNCHANGED <<clientVars, listVars, mail, threadVars, view, posted, exist, wireVars, histVars, dead>>

-----------------------------------------------------------------------------
(* Chat windows                                                            *)

\* stk_chatwin_show(), stk_gchatwin_show(): a double click in the lists.
OpenChat(c) ==
  /\ Loops /\ view = "main" /\ c \in Chats \ exist
  /\ \E i \in DOMAIN (buddys \o groups) : (buddys \o groups)[i][1] = c
  /\ exist' = exist \cup {c}
  /\ UNCHANGED <<clientVars, listVars, mail, threadVars, view, ui, posted, wireVars, histVars, dead>>

CloseChat(c) ==
  /\ Loops /\ c \in Chats \cap exist
  /\ exist' = exist \ {c}
  /\ UNCHANGED <<clientVars, listVars, mail, threadVars, view, ui, posted, wireVars, histVars, dead>>

\* stk_sendbtn_pressed(), stk_gsendbtn_pressed(): the text is shown as sent,
\* whatever send() returns.
SendMsg(c) ==
  /\ Loops /\ c \in Chats \cap exist /\ sent < MaxSend
  /\ sent' = sent + 1
  /\ toSrv' = IF link = "up" THEN Append(toSrv, <<"msg", cuid, c>>) ELSE toSrv
  /\ UNCHANGED <<clientVars, listVars, mail, threadVars, windowVars, link, toCli, bound, inLink, online,
                 asks, again, late, pushed, shown, exits, dead>>

\* WMAPP_MSG: stk_chatwin_display(), which creates a window that does not exist,
MsgMessage(c) ==
  /\ Loops /\ posted # <<>> /\ Head(posted) = c
  /\ posted' = Tail(posted)
  /\ exist' = exist \cup {c}
  /\ ui' = c
  /\ UNCHANGED <<clientVars, listVars, mail, threadVars, view, wireVars, histVars, dead>>

\* takes one message after the other,
Display(c) ==
  /\ ~dead /\ ui = c /\ mail[c] # <<>>
  /\ mail' = [mail EXCEPT ![c] = Tail(@)]
  /\ shown' = [shown EXCEPT ![c] = Append(@, Head(mail[c]))]
  /\ UNCHANGED <<clientVars, listVars, threadVars, windowVars, wireVars,
                 asks, again, late, pushed, sent, exits, dead>>

\* and stops when msg_num is 0.
Displayed(c) ==
  /\ ~dead /\ ui = c /\ mail[c] = <<>>
  /\ ui' = "loop"
  /\ UNCHANGED <<clientVars, listVars, mail, threadVars, view, posted, exist, wireVars, histVars, dead>>

-----------------------------------------------------------------------------
(* The thread: connecting                                                  *)

At(where) == ~dead /\ pc = where
IsAt(where, to) == At(where) /\ pc' = to

\* The first loop, which sleeps unless there is a request or the end.
SeeRequest ==
  /\ At("top")
  /\ \/ running = "EXITING" /\ pc' = "exit"
     \/ running = "CONNECTE_REQ" /\ pc' = "claim"
  /\ UNCHANGED <<clientVars, listVars, mail, todo, luid, res, cur, windowVars, wireVars, histVars, dead>>

Claim ==
  /\ IsAt("claim", "connect")
  /\ running' = "CONNECTING"
  /\ UNCHANGED <<cuid, cpass, listVars, mail, todo, luid, res, cur, windowVars, wireVars, histVars, dead>>

\* stk_connect() with a new socket; the old one is not closed.
Connect(ok) ==
  /\ IsAt("connect", IF ok THEN "made" ELSE "refused")
  /\ link' = IF ok THEN "up" ELSE "none"
  /\ toSrv' = <<>> /\ toCli' = <<>> /\ bound' = NoOne /\ inLink' = FALSE
  /\ UNCHANGED <<clientVars, listVars, mail, todo, luid, res, cur, windowVars, online, histVars, dead>>

\* stk_running has changed: "user cancel the login".
Connected ==
  /\ At("made") \/ At("refused")
  /\ \/ /\ running # "CONNECTING"
        /\ pc' = "top" /\ link' = "none"
        /\ UNCHANGED <<todo, luid, res>>
     \/ /\ running = "CONNECTING" /\ pc = "made"
        /\ pc' = "ask" /\ todo' = <<<<"req", NoOne>>>> /\ luid' = cuid
        /\ UNCHANGED <<link, res>>
     \/ /\ running = "CONNECTING" /\ pc = "refused"
        /\ pc' = "report" /\ res' = "CONNECTE_ERR"
        /\ UNCHANGED <<link, todo, luid>>
  /\ UNCHANGED <<clientVars, listVars, mail, cur, windowVars, toSrv, toCli, bound, inLink, online, histVars, dead>>

\* Mutant: a wrong password is not reported to the window.
ReportMostly ==
  /\ IsAt("report", IF res = "CONNECTED" THEN "top2" ELSE "top")
  /\ running' = res
  /\ posted' = IF res = "PASSWORD_ERR" THEN posted ELSE Append(posted, "socket")
  /\ UNCHANGED <<cuid, cpass, listVars, mail, todo, luid, res, cur, view, ui, exist, wireVars, histVars, dead>>

\* The outcome is set, whatever stk_running has become, and posted.
Report ==
  /\ IsAt("report", IF res = "CONNECTED" THEN "top2" ELSE "top")
  /\ running' = res
  /\ posted' = Append(posted, "socket")
  /\ UNCHANGED <<cuid, cpass, listVars, mail, todo, luid, res, cur, view, ui, exist, wireVars, histVars, dead>>

\* A failure after the login reply is set and not posted.
Silent ==
  /\ IsAt("silent", "top")
  /\ running' = "SOCKET_ERR"
  /\ UNCHANGED <<cuid, cpass, listVars, mail, todo, luid, res, cur, windowVars, wireVars, histVars, dead>>

-----------------------------------------------------------------------------
(* The thread: the login's requests and their answers                      *)

Cmd == Head(todo)[1]
\* The command in the packet of a request.
Wire(cmd) == IF cmd = "self" THEN "info" ELSE cmd

\* The function's uid is client.uid at the time of its call; client.pass is
\* read when the packet is filled in.
Ask ==
  /\ IsAt("ask", "answer")
  /\ luid' = IF Cmd \in {"self", "users", "groups"} THEN cuid ELSE luid
  /\ toSrv' = IF link # "up" THEN toSrv
              ELSE Append(toSrv, <<Wire(Cmd), luid',
                     CASE Cmd = "login" -> cpass [] Cmd = "self" -> luid' [] OTHER -> Head(todo)[2]>>)
  /\ UNCHANGED <<clientVars, listVars, mail, todo, res, cur, windowVars,
                 link, toCli, bound, inLink, online, histVars, dead>>

\* recv() returns n packets, or 0 at the end of the stream.
Receives(n) == toCli' = SubSeq(toCli, n + 1, Len(toCli))
AtEnd == link # "up" /\ toCli = <<>>

\* On to the requests rest.
GoOn(rest) ==
  /\ todo' = rest
  /\ IF rest = <<>> THEN pc' = "report" /\ res' = "CONNECTED"
     ELSE pc' = "ask" /\ UNCHANGED res

Ends(where, result) == pc' = where /\ res' = result /\ UNCHANGED todo

\* No answer, or a packet that is not the answer: the login fails, but for
\* the profile of a buddy and the members of a group, which stay unknown.
Fails ==
  CASE Cmd \in {"req", "login"} -> Ends("report", "SOCKET_ERR")
    [] Cmd \in {"self", "users", "groups"} -> Ends("silent", NoOne)
    [] OTHER -> GoOn(Tail(todo))

\* The reply to the login.
Decide(code) ==
  CASE code = "ok"    -> GoOn(<<<<"self", NoOne>>>>)
    [] code = "uid"   -> Ends("report", "USERID_ERR")
    [] code = "pass"  -> Ends("report", "PASSWORD_ERR")
    [] code = "again" -> Ends("report", "ALREADY_LOGGIN")

\* stk_add_buddy() for each uid of the answer; the list is never cleared.
AddBuddies(uids) == buddys \o [i \in DOMAIN uids |-> <<uids[i], NoOne>>]

\* Mutant: the last buddy is not asked about.
ProfilesShort(list) == [i \in 1 .. Len(list) - 1 |-> <<"info", list[i][1]>>]

\* "now, get buddy profile", of every entry of the list.
Profiles(list) == [i \in DOMAIN list |-> <<"info", list[i][1]>>]

\* Mutant: the profile goes to the buddy that was asked for.
UpdateAsked(list, v) ==
  [i \in DOMAIN list |-> IF list[i][1] = Head(todo)[2] THEN <<list[i][1], v>> ELSE list[i]]

\* stk_update_buddy(): the first entry of the uid in the packet.
Update(list, v) ==
  [i \in DOMAIN list |->
     IF list[i][1] = v /\ \A j \in 1 .. i - 1 : list[j][1] # v THEN <<v, v>> ELSE list[i]]

\* An answer of the expected command and uid.
Accept(body) ==
  CASE Cmd = "req"   -> GoOn(<<<<"login", NoOne>>>>) /\ UNCHANGED listVars
    [] Cmd = "login" -> Decide(body) /\ UNCHANGED listVars
    [] Cmd = "self"  -> (IF body = NoOne THEN Fails ELSE GoOn(<<<<"users", NoOne>>>>))
                        /\ UNCHANGED listVars
    [] Cmd = "users" -> /\ buddys' = AddBuddies(body)
                        /\ GoOn((IF body = <<>> THEN <<>> ELSE Profiles(buddys'))
                                \o <<<<"groups", NoOne>>>>)
                        /\ UNCHANGED groups
    [] Cmd = "info"  -> /\ buddys' = IF body = NoOne THEN buddys ELSE Update(buddys, body)
                        /\ GoOn(Tail(todo)) /\ UNCHANGED groups
    [] Cmd = "groups" -> /\ groups' = [i \in DOMAIN body |-> <<body[i], NoOne>>]
                         /\ GoOn([i \in DOMAIN body |-> <<"ginfo", body[i]>>])
                         /\ UNCHANGED buddys
    [] Cmd = "ginfo" -> /\ groups' = IF body # Head(todo)[2] THEN groups ELSE Update(groups, body)
                        /\ GoOn(Tail(todo)) /\ UNCHANGED buddys

Answer ==
  /\ At("answer")
  /\ \/ \E n \in 1 .. Len(toCli) :
          /\ Receives(n)
          /\ IF Head(toCli)[1] = Wire(Cmd) /\ Head(toCli)[2] = luid
             THEN Accept(Head(toCli)[3])
             ELSE Fails /\ UNCHANGED listVars
     \/ AtEnd /\ Fails /\ UNCHANGED <<toCli, listVars>>
  /\ UNCHANGED <<clientVars, mail, luid, cur, windowVars, link, toSrv, bound, inLink, online, histVars, dead>>

\* SO_RCVTIMEO: the answer has not come within a second.
Timeout ==
  /\ At("answer") /\ toCli = <<>> /\ link = "up" /\ late < MaxLate
  /\ late' = late + 1
  /\ Fails
  /\ UNCHANGED <<clientVars, listVars, mail, luid, cur, windowVars, wireVars,
                 asks, again, pushed, shown, sent, exits, dead>>

-----------------------------------------------------------------------------
(* The thread: receiving, stk_recv_msg()                                   *)

\* The second loop, which sleeps until the window has shown the lists.
Listen ==
  /\ At("top2")
  /\ \/ running = "EXITING" /\ pc' = "exit"
     \/ running = "RUNNING" /\ pc' = "recv"
  /\ UNCHANGED <<clientVars, listVars, mail, todo, luid, res, cur, windowVars, wireVars, histVars, dead>>

Known(c) == \E i \in DOMAIN (buddys \o groups) : (buddys \o groups)[i][1] = c

\* A chat packet of a known buddy or group is stored, any other dropped.
Receive ==
  /\ At("recv")
  /\ \E n \in 1 .. Len(toCli) : Receives(n)
  /\ IF Head(toCli)[1] = "msg" /\ Known(Head(toCli)[2])
     THEN pc' = "append" /\ cur' = <<Head(toCli)[2], Head(toCli)[3]>>
     ELSE UNCHANGED <<pc, cur>>
  /\ UNCHANGED <<clientVars, listVars, mail, todo, luid, res, windowVars,
                 link, toSrv, bound, inLink, online, histVars, dead>>

\* Mutant: stk_recv_msg() goes on after a timeout.
RecvTimeoutGoesOn == At("recv") /\ toCli = <<>> /\ link = "up" /\ UNCHANGED vars

\* WSAETIMEDOUT: back to the loop.
RecvTimeout ==
  /\ IsAt("recv", "top2") /\ toCli = <<>> /\ link = "up"
  /\ UNCHANGED <<clientVars, listVars, mail, todo, luid, res, cur, windowVars, wireVars, histVars, dead>>

\* recv() returns 0, which the end of the program would explain, or an error.
RecvEnd ==
  /\ At("recv") /\ AtEnd
  /\ \/ running = "EXITING" /\ pc' = "top2" /\ UNCHANGED res
     \/ running # "EXITING" /\ pc' = "lost" /\ res' = "SERVER_EXIT"
     \/ pc' = "lost" /\ res' = "CONNECTE_ERR"
  /\ UNCHANGED <<clientVars, listVars, mail, todo, luid, cur, windowVars, wireVars, histVars, dead>>

Lost ==
  /\ IsAt("lost", "top2")
  /\ running' = res
  /\ UNCHANGED <<cuid, cpass, listVars, mail, todo, luid, res, cur, windowVars, wireVars, histVars, dead>>

\* Mutant: the message becomes the head of the list.
AddMsgFirst ==
  /\ IsAt("append", "post")
  /\ mail' = [mail EXCEPT ![cur[1]] = <<cur[2]>> \o @]
  /\ UNCHANGED <<clientVars, listVars, todo, luid, res, cur, windowVars, wireVars, histVars, dead>>

\* stk_add_msg(), stk_add_gmsg()
AddMsg ==
  /\ IsAt("append", "post")
  /\ mail' = [mail EXCEPT ![cur[1]] = Append(@, cur[2])]
  /\ UNCHANGED <<clientVars, listVars, todo, luid, res, cur, windowVars, wireVars, histVars, dead>>

\* Mutant: a conversation whose window is open is not notified.
MsgEventClosed ==
  /\ IsAt("post", "recv")
  /\ posted' = IF cur[1] \in exist THEN posted ELSE Append(posted, cur[1])
  /\ cur' = NoOne
  /\ UNCHANGED <<clientVars, listVars, mail, todo, luid, res, view, ui, exist, wireVars, histVars, dead>>

\* stk_msg_event()
MsgEvent ==
  /\ IsAt("post", "recv")
  /\ posted' = Append(posted, cur[1])
  /\ cur' = NoOne
  /\ UNCHANGED <<clientVars, listVars, mail, todo, luid, res, view, ui, exist, wireVars, histVars, dead>>

\* The window takes a message off the list that the thread is appending to: the
\* list or msg_num may be left wrong, and the run ends.
Corrupt ==
  /\ At("append") /\ ui = cur[1] /\ mail[cur[1]] # <<>>
  /\ dead' = TRUE
  /\ UNCHANGED <<clientVars, listVars, mail, threadVars, windowVars, wireVars, histVars>>

ThreadEnd ==
  /\ IsAt("exit", "ended")
  /\ link' = "none" /\ toSrv' = <<>> /\ toCli' = <<>>
  /\ UNCHANGED <<clientVars, listVars, mail, todo, luid, res, cur, windowVars, bound, inLink, online, histVars, dead>>

-----------------------------------------------------------------------------
(* The server, as far as the client depends on it                          *)

\* The users after u, round the list.
Others(u) ==
  LET n == Len(UserFile)
      i == CHOOSE k \in 1 .. n : UserFile[k] = u
  IN [k \in 1 .. n - 1 |-> UserFile[((i + k - 1) % n) + 1]]

LoginCode(u, p) ==
  IF u \notin Users THEN "uid" ELSE IF u \in online THEN "again" ELSE IF p = u THEN "ok" ELSE "pass"

Body(cmd, u, b) ==
  CASE cmd = "req" -> NoOne [] cmd = "login" -> LoginCode(u, b) [] cmd = "users" -> Others(bound)
    [] cmd = "groups" -> Groups [] OTHER -> b

\* The next packet is answered, a chat message passed on to others.
Serve ==
  /\ ~dead /\ link = "up" /\ toSrv # <<>>
  /\ toSrv' = Tail(toSrv)
  /\ LET cmd == toSrv[1][1]
         u   == toSrv[1][2]
         b   == toSrv[1][3]
     IN /\ bound' = IF bound = NoOne THEN u ELSE bound
        /\ toCli' = IF cmd = "msg" THEN toCli ELSE Append(toCli, <<cmd, u, Body(cmd, u, b)>>)
        /\ LET ok == cmd = "login" /\ LoginCode(u, b) = "ok"
           IN /\ online' = IF ok THEN online \cup {u} ELSE online
              /\ inLink' = (inLink \/ ok)
  /\ UNCHANGED <<clientVars, listVars, mail, threadVars, windowVars, link, histVars, dead>>

\* Somebody sends the user of this connection a message, alone or in a group.
Push(c) ==
  /\ ~dead /\ link = "up" /\ inLink /\ c # bound /\ pushed[c] < MaxPush[c]
  /\ pushed' = [pushed EXCEPT ![c] = @ + 1]
  /\ toCli' = Append(toCli, <<"msg", c, pushed'[c]>>)
  /\ UNCHANGED <<clientVars, listVars, mail, threadVars, windowVars, link, toSrv, bound, inLink, online,
                 asks, again, late, shown, sent, exits, dead>>

\* The server ends; a new one has nobody online.
ServerExit ==
  /\ ~dead /\ pc # "ended" /\ exits < MaxExit
  /\ exits' = exits + 1
  /\ link' = IF link = "up" THEN "closed" ELSE link
  /\ toSrv' = <<>> /\ online' = {}
  /\ UNCHANGED <<clientVars, listVars, mail, threadVars, windowVars, toCli, bound, inLink,
                 asks, again, late, pushed, shown, sent, dead>>

-----------------------------------------------------------------------------
Thread ==
  \/ SeeRequest \/ Claim \/ (\E ok \in BOOLEAN : Connect(ok)) \/ Connected \/ Report \/ Silent
  \/ Ask \/ Answer
  \/ Listen \/ Receive \/ RecvTimeout \/ RecvEnd \/ Lost \/ AddMsg \/ MsgEvent \/ ThreadEnd

Window == SocketMessage \/ Joined \/ \E c \in Conv : MsgMessage(c) \/ Display(c) \/ Displayed(c)

User ==
  \/ \E form \in Forms : Submit(form[1], form[2]) \/ Incomplete(form[1])
  \/ Cancel \/ Quit \/ \E c \in Conv : OpenChat(c) \/ CloseChat(c) \/ SendMsg(c)

Next ==
  \/ Thread \/ Window \/ User
  \/ Timeout \/ Corrupt \/ Serve \/ ServerExit \/ \E c \in Conv : Push(c)

Spec == Init /\ [][Next]_vars

\* The threads run, and the server answers what has reached it.
FairSpec == Spec /\ WF_vars(Thread) /\ WF_vars(Window) /\ WF_vars(Serve)

-----------------------------------------------------------------------------
(* Properties                                                              *)

\* A profile is always the buddy's own and a member list the group's own, when
\* answers come after the timeout and every later request reads the answer of
\* an earlier one.
Matching ==
  /\ \A i \in DOMAIN buddys : buddys[i][2] \in {NoOne, buddys[i][1]}
  /\ \A i \in DOMAIN groups : groups[i][2] \in {NoOne, groups[i][1]}

\* When nothing came late and nothing came in between, the lists that the
\* window shows are complete: every other user once, with his profile, and
\* every group with its members.
Calm == late = 0 /\ \A c \in Conv : pushed[c] = 0
LoginComplete ==
  view = "main" /\ ~again /\ exits = 0 /\ Calm =>
    /\ buddys = [i \in 1 .. Len(UserFile) - 1 |-> <<Others(cuid)[i], Others(cuid)[i]>>]
    /\ groups = [i \in DOMAIN Groups |-> <<Groups[i], Groups[i]>>]

\* A stored message has a notification that will find it, while the window
\* handles its messages.
NoLostWakeup ==
  \A c \in Conv : ~dead /\ mail[c] # <<>> =>
    \/ ui \in {c, "join", "ended"}
    \/ \E i \in DOMAIN posted : posted[i] = c
    \/ pc = "post" /\ cur[1] = c

\* The messages of a conversation are shown in the order they were sent, each
\* at most once.
InOrder ==
  \A c \in Conv :
    LET all == shown[c] \o mail[c] IN \A i, j \in DOMAIN all : i < j => all[i] < all[j]

\* Closing the program ends it, unless the thread has overwritten EXITING.
ExitEnds == ui = "join" ~> ui = "ended" \/ running # "EXITING" \/ dead

\* "Connecting" gives way to the lists or the form, unless the login failed
\* after its reply or the form was submitted again while it was under way.
LoginTold ==
  view = "wait" ~> view # "wait" \/ again \/ running = "SOCKET_ERR" \/ ui \in {"join", "ended"} \/ dead
=============================================================================
