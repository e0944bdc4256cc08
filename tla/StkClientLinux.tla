--------------------------- MODULE StkClientLinux ---------------------------
(***************************************************************************)
(* The Linux client (stkclient/linux), composed with the Linux server's     *)
(* directory.  One thread logs in, fetches the list of users and their      *)
(* profiles, and then waits with select() for the keyboard and the socket.  *)
(*                                                                         *)
(* Its stkprotocol.h has no group commands, so that its SEND_MSG, 0x0008,   *)
(* is the server's GET_GROUP, and the server's SEND_MSG, 0x000A, is none of *)
(* its commands: what the user says is answered with his list of groups,    *)
(* and what others say to him is dropped.                                   *)
(*                                                                         *)
(* A packet to the server is <<command, subject>>, one to the client        *)
(* <<command, body>>, with the server's names of the commands.              *)
(***************************************************************************)
EXTENDS StkDirectory

CONSTANTS
  ClientGroupFiles,  \* bound: the groups files with which a client runs
  MaxPush,           \* bound: messages others send to the user
  MaxSend,           \* bound: lines the user types in a chat
  MaxExit            \* bound: ends of the server

ASSUME ClientAssumption ==
  /\ ClientGroupFiles \subseteq GroupFiles
  /\ {MaxPush, MaxSend, MaxExit} \subseteq Nat

VARIABLES
  pc,      \* where main() is
  me,      \* client.uid
  todo,    \* the requests that remain before the prompt, the present one first
  buddys,  \* stk_buddys: <<uid, profile>>
  friend,  \* the buddy that stk_chat_buddy() talks to
  link,    \* the socket: "none", "up", or "closed" by the server
  toSrv, toCli,  \* packets on their way
  online,  \* whether the server has the user online
  pushed,  \* history: messages sent to the user
  early,   \* history: one of them came before the prompt
  sent, exits

wireVars   == <<link, toSrv, toCli, online>>
histVars   == <<pushed, early, sent, exits>>
clientVars == <<pc, me, todo, buddys, friend, wireVars, histVars>>
allVars    == <<vars, clientVars>>

ClientTypeOK ==
  /\ pc \in {"off", "ask", "answer", "select", "choose", "chat", "ended", "crashed"}
  /\ me \in Uids \cup {NoId} /\ friend \in Uids \cup {NoId}
  /\ todo \in Seq({"req", "login", "self", "users", "info"} \X (Uids \cup {NoId}))
  /\ buddys \in Seq(Uids \X (Uids \cup {NoId}))
  /\ link \in {"none", "up", "closed"} /\ online \in BOOLEAN /\ early \in BOOLEAN
  /\ pushed \in 0 .. MaxPush /\ sent \in 0 .. MaxSend /\ exits \in 0 .. MaxExit

ClientInit ==
  /\ Init
  /\ pc = "off" /\ me = NoId /\ todo = <<>> /\ buddys = <<>> /\ friend = NoId
  /\ link = "none" /\ toSrv = <<>> /\ toCli = <<>> /\ online = FALSE
  /\ pushed = 0 /\ early = FALSE /\ sent = 0 /\ exits = 0

-----------------------------------------------------------------------------
(* Connecting and fetching the list                                        *)

\* main() up to connect(), which may be refused.
Start(uid, ok) ==
  /\ pc = "off" /\ phase = "serving" /\ gfile \in ClientGroupFiles
  /\ me' = uid
  /\ IF ok THEN pc' = "ask" /\ link' = "up" /\ todo' = <<<<"req", uid>>>>
     ELSE pc' = "ended" /\ UNCHANGED <<link, todo>>
  /\ UNCHANGED <<vars, buddys, friend, toSrv, toCli, online, histVars>>

Cmd == Head(todo)[1]
\* The command in the packet of a request.
Wire(cmd) == IF cmd \in {"self", "info"} THEN "user_info" ELSE cmd

\* exit(), or the end of main(): the kernel closes the socket.
Exits(how) == pc' = how /\ link' = "none" /\ toSrv' = <<>> /\ toCli' = <<>>

\* send() of a request, which a socket the server has closed may take, and lose,
\* or answer with SIGPIPE.
Send(packet, to) ==
  \/ link = "up" /\ toSrv' = Append(toSrv, packet) /\ pc' = to /\ UNCHANGED <<link, toCli>>
  \/ link = "closed" /\ pc' = to /\ UNCHANGED <<link, toSrv, toCli>>
  \/ link = "closed" /\ Exits("ended")

SendRequest ==
  /\ pc = "ask"
  /\ Send(<<Wire(Cmd), Head(todo)[2]>>, "answer")
  /\ UNCHANGED <<vars, me, todo, buddys, friend, online, histVars>>

\* On to the requests rest, or to the prompt.
GoOn(rest) ==
  /\ todo' = rest
  /\ pc' = IF rest = <<>> THEN "select" ELSE "ask"

\* stk_add_buddy() for each uid of the answer.
AddBuddies(uids) == [i \in DOMAIN uids |-> <<uids[i], NoId>>]

\* "Now, get buddy profile", from stk_next_buddy(NULL) on.
Profiles(uids) == [i \in DOMAIN uids |-> <<"info", uids[i]>>]

\* stk_update_buddy(): the profile goes to the buddy whose uid the packet has.
Update(uid) ==
  LET p == First([i \in DOMAIN buddys |-> buddys[i][1]], uid)
  IN IF p = 0 THEN buddys ELSE [buddys EXCEPT ![p][2] = uid]

\* An answer of the expected command.  A uid of 0 is an error, and so is every
\* reply to the login but success.
Accepted(body) ==
  CASE Cmd = "req" -> GoOn(<<<<"login", me>>>>) /\ UNCHANGED buddys
    [] Cmd = "login" /\ body = "ok" -> GoOn(<<<<"self", me>>, <<"users", NoId>>>>) /\ UNCHANGED buddys
    [] Cmd = "self" /\ body # NoId -> GoOn(Tail(todo)) /\ UNCHANGED buddys
    [] Cmd = "users" -> GoOn(Profiles(body)) /\ buddys' = AddBuddies(body)
    [] Cmd = "info" -> GoOn(Tail(todo)) /\ buddys' = IF body = NoId THEN buddys ELSE Update(body)

Acceptable(packet) ==
  /\ packet[1] = Wire(Cmd)
  /\ Cmd = "login" => packet[2] = "ok"
  /\ Cmd = "self" => packet[2] # NoId

\* A buddy's profile may be missing; any other failure ends the client.
Failed ==
  \/ Cmd = "info" /\ GoOn(Tail(todo)) /\ UNCHANGED <<link, toSrv>>
  \/ Cmd # "info" /\ UNCHANGED todo /\ Exits("ended")

\* recv() returns n packets, the first of which is looked at; or 0, which
\* leaves the request in the buffer, whose flag is not a server's.
Receives(n) == toCli' = SubSeq(toCli, n + 1, Len(toCli))
Answered ==
  /\ pc = "answer"
  /\ \/ \E n \in 1 .. Len(toCli) :
          IF Acceptable(Head(toCli))
          THEN Receives(n) /\ Accepted(Head(toCli)[2]) /\ UNCHANGED <<link, toSrv>>
          ELSE Failed /\ (Cmd = "info" => Receives(n)) /\ UNCHANGED buddys
     \/ /\ toCli = <<>> /\ link = "closed"
        /\ Failed /\ toCli' = <<>> /\ UNCHANGED buddys
  /\ UNCHANGED <<vars, me, friend, online, histVars>>

-----------------------------------------------------------------------------
(* The prompt                                                              *)

\* stk_hanle_input(): "chat", "exit"; the other commands only print.
TypeChat == pc = "select" /\ pc' = "choose"
            /\ UNCHANGED <<vars, me, todo, buddys, friend, wireVars, histVars>>
TypeExit == pc = "select" /\ Exits("ended")
            /\ UNCHANGED <<vars, me, todo, buddys, friend, online, histVars>>

\* stk_chat_buddy(): asked for until it is a buddy's uid,
Choose(uid) ==
  /\ pc = "choose" /\ First([i \in DOMAIN buddys |-> buddys[i][1]], uid) # 0
  /\ friend' = uid /\ pc' = "chat"
  /\ UNCHANGED <<vars, me, todo, buddys, wireVars, histVars>>

\* a line is sent, in a packet the server takes for GET_GROUP,
TypeLine ==
  /\ pc = "chat" /\ sent < MaxSend
  /\ sent' = sent + 1
  /\ Send(<<"group", friend>>, "chat")
  /\ UNCHANGED <<vars, me, todo, buddys, friend, online, pushed, early, exits>>

\* and "quit" leaves.
TypeQuit == pc = "chat" /\ pc' = "select"
            /\ UNCHANGED <<vars, me, todo, buddys, friend, wireVars, histVars>>

\* Mutant: the length does not count the groups.
DataSizeOfNum(gids) == (2 - 4 + 65536) % 65536

\* The length, two bytes for the number of groups and four for each, from which
\* four are taken for a uid, in an unsigned short.
DataSize(gids) == (2 + 4 * Len(gids) - 4 + 65536) % 65536

\* stk_handle_msg().  A list of groups passes for a message, which nobody in
\* the list of buddies has sent; its data is first copied to an array of 4096.
HandleMsg ==
  /\ pc = "select" /\ toCli # <<>>
  /\ IF Head(toCli)[1] = "group" /\ DataSize(Head(toCli)[2]) > 4096
     THEN Exits("crashed")
     ELSE (\E n \in 1 .. Len(toCli) : Receives(n)) /\ UNCHANGED <<pc, link, toSrv>>
  /\ UNCHANGED <<vars, me, todo, buddys, friend, online, histVars>>

\* STK_SOCKET_CLOSED
ServerClosed ==
  /\ pc = "select" /\ toCli = <<>> /\ link = "closed"
  /\ Exits("ended")
  /\ UNCHANGED <<vars, me, todo, buddys, friend, online, histVars>>

-----------------------------------------------------------------------------
(* The server's side of the connection                                     *)

\* stk_login_ack(): a user may have another password than his uid, which is all
\* the client can send, or be online elsewhere.
LoginCodes == IF FindUser(me) = 0 THEN {"uid"} ELSE {"ok", "pass", "again"}

Reply(packet) == toCli' = Append(toCli, packet)

\* stk_main(): the next packet is answered, the last four from the directory.
Serve ==
  /\ link = "up" /\ toSrv # <<>>
  /\ toSrv' = Tail(toSrv)
  /\ LET cmd == toSrv[1][1]
         c   == FindUser(me)
     IN \/ /\ cmd = "req" /\ Reply(<<"req", NoId>>) /\ UNCHANGED <<vars, online>>
        \/ /\ cmd = "login" /\ UNCHANGED vars
           /\ \E code \in LoginCodes : Reply(<<"login", code>>) /\ online' = (code = "ok")
        \/ cmd = "users" /\ GetUser(c) /\ Reply(<<"users", reply'.ids>>) /\ UNCHANGED online
        \/ /\ cmd = "user_info" /\ GetUserInfo(c, toSrv[1][2])
           /\ Reply(<<"user_info", reply'.id>>) /\ UNCHANGED online
        \/ cmd = "group" /\ GetGroup(c) /\ Reply(<<"group", reply'.ids>>) /\ UNCHANGED online
  /\ UNCHANGED <<pc, me, todo, buddys, friend, link, histVars>>

\* Another user's message is delivered.
Push ==
  /\ link = "up" /\ online /\ pushed < MaxPush
  /\ pushed' = pushed + 1
  /\ early' = (early \/ pc \in {"ask", "answer"})
  /\ Reply(<<"msg", NoId>>)
  /\ UNCHANGED <<vars, pc, me, todo, buddys, friend, link, toSrv, online, sent, exits>>

ServerExit ==
  /\ link = "up" /\ exits < MaxExit
  /\ exits' = exits + 1
  /\ link' = "closed" /\ toSrv' = <<>> /\ online' = FALSE
  /\ UNCHANGED <<vars, pc, me, todo, buddys, friend, toCli, pushed, early, sent>>

-----------------------------------------------------------------------------
Client ==
  \/ \E uid \in Uids \cup {NoId}, ok \in BOOLEAN : Start(uid, ok)
  \/ SendRequest \/ Answered
  \/ TypeChat \/ TypeExit \/ (\E uid \in Uids : Choose(uid)) \/ TypeLine \/ TypeQuit
  \/ HandleMsg \/ ServerClosed

\* Bound: other users ask before the client starts, which depends on none of it.
OthersNext == pc = "off" /\ Next /\ UNCHANGED clientVars

ClientNext == OthersNext \/ Client \/ Serve \/ Push \/ ServerExit

ClientSpec == ClientInit /\ [][ClientNext]_allVars

-----------------------------------------------------------------------------
(* Properties                                                              *)

Prompt == pc \in {"select", "choose", "chat"}

\* When the client reaches its prompt, its list holds every other user of the
\* users file once, from whichever place in the file the user asks; a profile is
\* the buddy's own or missing; and when no message came in between and the server
\* stayed, none is missing.
ListComplete ==
  Prompt =>
    /\ {buddys[i][1] : i \in DOMAIN buddys} = Range(ufile) \ {me}
    /\ Len(buddys) = Len(ufile) - 1
    /\ \A i \in DOMAIN buddys :
         /\ buddys[i][2] \in {NoId, buddys[i][1]}
         /\ ~early /\ exits = 0 => buddys[i][2] = buddys[i][1]

\* What the user types in a chat ends his client only when the groups file lists
\* him in no group: the answer to anybody else is long enough.
CrashesGroupless ==
  pc = "crashed" => sent > 0 /\ \A p \in DOMAIN gfile : ~Lists(p, me)
=============================================================================
