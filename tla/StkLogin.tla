----------------------------- MODULE StkLogin -----------------------------
(***************************************************************************)
(* A user logs in with the GTK client: the login window and the socket     *)
(* thread, which share the variable stk_running, and the server, which     *)
(* answers the thread's requests, may push messages as soon as the user is *)
(* online, and may die and be started again.                               *)
(*                                                                         *)
(* TCP keeps bytes in order but not the bounds of packets: a recv() may    *)
(* return several packets, of which the client looks at the first.  What   *)
(* the server answers is taken from StkDirectory.                          *)
(***************************************************************************)
EXTENDS Naturals, Sequences, FiniteSets, Functions

CONSTANTS
  Self,       \* the user who logs in
  Others,     \* GET_USER's answer: the other users, a sequence
  Groups,     \* GET_GROUP's answer: his groups, a sequence
  NoId,       \* id 0; a profile or member list not received yet
  MaxConns,   \* bound on connections
  MaxPushes,  \* bound on messages pushed to him
  MaxRestarts, \* bound on restarts of the server
  CanCancel,  \* whether he may cancel a login
  CanBreak    \* whether a connection may fail

ASSUME DirectoryAssumption ==
  /\ Others \in Seq(Range(Others)) /\ Groups \in Seq(Range(Groups))
  /\ IsInjective(Others) /\ Self \notin Range(Others) /\ IsInjective(Groups)
ASSUME BoundsAssumption == {MaxConns, MaxPushes, MaxRestarts} \subseteq Nat

VARIABLES
  running,   \* stk_running
  win,       \* the window shown: the login form, "Logining", the buddy list
  pc,        \* where the socket thread is in stk_socket()
  cur,       \* client.fd: the last connection opened
  buddies,   \* stk_buddys: uid and profile
  mygroups,  \* client.group: gid and member list
  k,         \* the thread's place in the loop over buddies or groups
  up, down,  \* what is on its way on each connection, to and from the server
  home,      \* the user's stkc_fd while he is online, else 0
  owed,      \* whether the login reply on home has still to be sent
  pushed,    \* messages pushed to him so far
  restarts,  \* how often the server was restarted
  lost,      \* the connections it has thereby closed
  cancelled, \* history: he has cancelled the login under way
  broken     \* history: a connection has failed

client == <<running, win, pc, cur, buddies, mygroups, k, cancelled>>
server == <<home, owed, pushed, restarts, lost>>
vars == <<client, up, down, server, broken>>

Conns == 1 .. MaxConns
Failed == {"connect_err", "socket_err", "already", "invalid"}
Packets == [cmd : {"req", "login", "again", "invalid", "user_info", "user", "group", "group_info", "msg"},
            id : {NoId, Self} \cup Range(Others) \cup Range(Groups)]

TypeOK ==
  /\ running \in {"init", "req", "connecting", "connected", "running"} \cup Failed
  /\ win \in {"form", "waiting", "main"}
  /\ pc \in {"idle", "begin", "connect", "refused", "req", "login", "self", "users", "info",
             "groups", "ginfo", "loop"}
  /\ cur \in {0} \cup Conns
  /\ buddies \in Seq([uid : Range(Others), profile : {NoId, Self} \cup Range(Others)])
  /\ mygroups \in Seq([gid : Range(Groups), members : {NoId} \cup Range(Groups)])
  /\ k \in Nat
  /\ up \in [Conns -> Seq(Packets)] /\ down \in [Conns -> Seq(Packets)]
  /\ home \in {0} \cup Conns /\ owed \in BOOLEAN
  /\ pushed \in 0 .. MaxPushes /\ restarts \in 0 .. MaxRestarts
  /\ lost \subseteq Conns
  /\ cancelled \in BOOLEAN /\ broken \in BOOLEAN

Init ==
  /\ running = "init" /\ win = "form" /\ pc = "idle" /\ cur = 0
  /\ buddies = <<>> /\ mygroups = <<>> /\ k = 0
  /\ up = [c \in Conns |-> <<>>] /\ down = [c \in Conns |-> <<>>]
  /\ home = 0 /\ owed = FALSE /\ pushed = 0 /\ restarts = 0 /\ lost = {}
  /\ cancelled = FALSE /\ broken = FALSE

Packet(cmd, id) == [cmd |-> cmd, id |-> id]
Send(cmd, id) == up' = [up EXCEPT ![cur] = Append(@, Packet(cmd, id))]

-----------------------------------------------------------------------------
(* The login window                                                        *)

\* Bound: connections for this request and for one the thread is still making.
Room == cur + (IF pc \in {"begin", "connect"} THEN 1 ELSE 0) < MaxConns

Submit ==
  /\ win = "form" /\ Room
  /\ running' = "req" /\ win' = "waiting" /\ cancelled' = FALSE
  /\ UNCHANGED <<pc, cur, buddies, mygroups, k, up, down, server, broken>>

\* stk_login_cancle()
Cancel ==
  /\ CanCancel /\ win = "waiting"
  /\ running' = "init" /\ cancelled' = TRUE
  /\ UNCHANGED <<win, pc, cur, buddies, mygroups, k, up, down, server, broken>>

\* stk_waiting(), every half second while the login is under way.
Waiting ==
  /\ win = "waiting"
  /\ \/ running \in Failed \cup {"init"} /\ running' = "init" /\ win' = "form"
     \/ running = "connected" /\ running' = "running" /\ win' = "main"
  /\ UNCHANGED <<pc, cur, buddies, mygroups, k, cancelled, up, down, server, broken>>

-----------------------------------------------------------------------------
(* The socket thread: stk_socket() up to STK_CONNECTED                     *)

\* stk_running is read, then set: what the window does in between is lost.
SeeRequest ==
  /\ pc = "idle" /\ running = "req"
  /\ pc' = "begin"
  /\ UNCHANGED <<running, win, cur, buddies, mygroups, k, cancelled, up, down, server, broken>>

Begin ==
  /\ pc = "begin"
  /\ pc' = "connect" /\ running' = "connecting"
  /\ UNCHANGED <<win, cur, buddies, mygroups, k, cancelled, up, down, server, broken>>

\* A cancelled login is noticed here, and only here.
ConnectCancelled ==
  /\ pc = "connect" /\ cur < MaxConns /\ running # "connecting"
  /\ cur' = cur + 1 /\ pc' = "idle"
  /\ UNCHANGED <<running, win, buddies, mygroups, k, cancelled, up, down, server, broken>>

ConnectFails ==
  /\ CanBreak /\ pc = "connect" /\ running = "connecting"
  /\ pc' = "refused"
  /\ UNCHANGED <<running, win, cur, buddies, mygroups, k, cancelled, up, down, server, broken>>

ConnectErr ==
  /\ pc = "refused"
  /\ pc' = "idle" /\ running' = "connect_err"
  /\ UNCHANGED <<win, cur, buddies, mygroups, k, cancelled, up, down, server, broken>>

Connect ==
  /\ pc = "connect" /\ cur < MaxConns /\ running = "connecting"
  /\ cur' = cur + 1 /\ pc' = "req"
  /\ up' = [up EXCEPT ![cur + 1] = <<Packet("req", NoId)>>]
  /\ UNCHANGED <<running, win, buddies, mygroups, k, cancelled, down, server, broken>>

\* The packet a recv() returns first, and the n packets it returns in all.
First == down[cur][1]
Recv(at, n) ==
  /\ pc = at /\ n \in 1 .. Len(down[cur])
  /\ down' = [down EXCEPT ![cur] = SubSeq(@, n + 1, Len(@))]
  /\ UNCHANGED <<win, cur, cancelled, server, broken>>

\* "goto connect" without close(): the server still has the user online.
Fail(err) ==
  /\ pc' = "idle" /\ running' = err
  /\ UNCHANGED <<buddies, mygroups, k, up>>

Ready == pc' = "loop" /\ running' = "connected" /\ UNCHANGED <<k, up>>

\* A recv() or send() fails, or recv() returns 0, and so do all that follow; the
\* loops over buddies and groups do not mind.
NoAnswer ==
  /\ \/ pc \in {"req", "login", "self", "users", "info", "groups"} /\ Fail("socket_err")
     \/ pc = "ginfo" /\ Ready /\ UNCHANGED <<buddies, mygroups>>
  /\ broken' = TRUE
  /\ UNCHANGED <<win, cur, cancelled, down, server>>

SocketFails == CanBreak /\ cur \notin lost /\ NoAnswer

ServerGone == cur \in lost /\ NoAnswer

GoOn(to, cmd, id) ==
  /\ pc' = to /\ Send(cmd, id)
  /\ UNCHANGED <<running, mygroups>>

\* stk_login()
OnReq(n) ==
  /\ Recv("req", n)
  /\ \/ First.cmd = "req" /\ GoOn("login", "login", NoId) /\ UNCHANGED <<buddies, k>>
     \/ First.cmd # "req" /\ Fail("socket_err")

OnLogin(n) ==
  /\ Recv("login", n)
  /\ \/ First.cmd = "login" /\ GoOn("self", "user_info", Self) /\ UNCHANGED <<buddies, k>>
     \/ First.cmd = "again" /\ Fail("already")
     \/ First.cmd = "invalid" /\ Fail("invalid")
     \/ First.cmd \notin {"login", "again", "invalid"} /\ Fail("socket_err")

\* The user's own profile, whoever's profile the answer is.
OnSelf(n) ==
  /\ Recv("self", n)
  /\ \/ First.cmd = "user_info" /\ GoOn("users", "user", NoId) /\ UNCHANGED <<buddies, k>>
     \/ First.cmd # "user_info" /\ Fail("socket_err")

\* GET_USER's answer as the client stores it.
Answered == [i \in DOMAIN Others |-> [uid |-> Others[i], profile |-> NoId]]

\* stk_send_getbuddy(): the users join the buddies, then each profile is asked for.
OnUsers(n) ==
  /\ Recv("users", n)
  /\ \/ /\ First.cmd = "user"
        /\ buddies' = buddies \o Answered
        /\ k' = 1
        /\ IF Others = <<>> THEN GoOn("groups", "group", NoId)
                            ELSE GoOn("info", "user_info", buddies'[1].uid)
     \/ First.cmd # "user" /\ Fail("socket_err")

\* Mutant: the last buddy's profile is not asked for.
AfterInfoEarly ==
  /\ k' = k + 1
  /\ IF k < Len(buddies) - 1 THEN GoOn("info", "user_info", buddies[k + 1].uid)
                             ELSE GoOn("groups", "group", NoId)

\* The next profile, or the groups.
AfterInfo ==
  /\ k' = k + 1
  /\ IF k < Len(buddies) THEN GoOn("info", "user_info", buddies[k + 1].uid)
                         ELSE GoOn("groups", "group", NoId)

\* Mutant: the answer is taken for the one to the last request.
UpdateAsked(uid) ==
  buddies' = [buddies EXCEPT ![k].profile = uid]

\* stk_update_buddy(): the answer says whose profile it is.
Update(uid) ==
  buddies' = [i \in DOMAIN buddies |->
                IF buddies[i].uid = uid /\ \A j \in 1 .. i - 1 : buddies[j].uid # uid
                THEN [buddies[i] EXCEPT !.profile = uid] ELSE buddies[i]]

\* A packet that is no profile is skipped.
OnInfo(n) ==
  /\ Recv("info", n)
  /\ IF First.cmd = "user_info" THEN Update(First.id) ELSE UNCHANGED buddies
  /\ AfterInfo

-----------------------------------------------------------------------------
(* stk_send_getgroup(), and the end of a login                             *)

OnGroups(n) ==
  /\ Recv("groups", n)
  /\ \/ /\ First.cmd = "group"
        /\ mygroups' = [i \in DOMAIN Groups |-> [gid |-> Groups[i], members |-> NoId]]
        /\ IF Groups = <<>> THEN Ready
           ELSE /\ k' = 1 /\ pc' = "ginfo" /\ Send("group_info", Groups[1])
                /\ UNCHANGED running
        /\ UNCHANGED buddies
     \/ First.cmd # "group" /\ Fail("socket_err")

\* Mutant: the gid in the answer is not compared.
IsAskedLoosely == First.cmd = "group_info"

IsAsked == First.cmd = "group_info" /\ First.id = mygroups[k].gid

\* A packet that is not the answer asked for is skipped.
OnGinfo(n) ==
  /\ Recv("ginfo", n)
  /\ mygroups' = IF IsAsked THEN [mygroups EXCEPT ![k].members = First.id] ELSE mygroups
  /\ IF k < Len(mygroups)
     THEN k' = k + 1 /\ Send("group_info", mygroups[k + 1].gid) /\ UNCHANGED <<pc, running>>
     ELSE Ready
  /\ UNCHANGED buddies

\* From here on the thread waits for STK_RUNNING: a later request to log in,
\* after a login that was cancelled too late, is not seen.
Thread ==
  \/ SeeRequest \/ Begin \/ ConnectCancelled \/ Connect \/ ConnectErr \/ ServerGone
  \/ cur # 0 /\ \E n \in DOMAIN down[cur] :
       \/ OnReq(n) \/ OnLogin(n) \/ OnSelf(n) \/ OnUsers(n) \/ OnInfo(n)
       \/ OnGroups(n) \/ OnGinfo(n)

-----------------------------------------------------------------------------
(* The server's thread for connection c                                    *)

Asks(c, cmds) == c \notin lost /\ up[c] # <<>> /\ up[c][1].cmd \in cmds

Reply(c, to, cmd, id) ==
  /\ up' = [up EXCEPT ![c] = Tail(@)]
  /\ down' = [down EXCEPT ![to] = Append(@, Packet(cmd, id))]
  /\ UNCHANGED <<client, broken>>

ReqAck(c) ==
  /\ Asks(c, {"req"})
  /\ Reply(c, c, "req", NoId)
  /\ UNCHANGED server

\* Mutant: the refusal is not sent.
LoginAgainSilent(c) ==
  /\ Asks(c, {"login"}) /\ home # 0
  /\ up' = [up EXCEPT ![c] = Tail(@)]
  /\ UNCHANGED <<client, down, server, broken>>

LoginAgain(c) ==
  /\ Asks(c, {"login"}) /\ home # 0
  /\ Reply(c, c, "again", NoId)
  /\ UNCHANGED server

\* No such user, or not his password.
LoginInvalid(c) ==
  /\ Asks(c, {"login"}) /\ home = 0
  /\ Reply(c, c, "invalid", NoId)
  /\ UNCHANGED server

\* The user is online before he is told.
LoginOk(c) ==
  /\ Asks(c, {"login"}) /\ home = 0
  /\ up' = [up EXCEPT ![c] = Tail(@)]
  /\ home' = c /\ owed' = TRUE
  /\ UNCHANGED <<client, down, pushed, restarts, lost, broken>>

LoginReply ==
  /\ owed
  /\ down' = [down EXCEPT ![home] = Append(@, Packet("login", NoId))]
  /\ owed' = FALSE
  /\ UNCHANGED <<client, up, home, pushed, restarts, lost, broken>>

\* The answers go to the user's stkc_fd.
Directory(c) ==
  /\ Asks(c, {"user_info", "user", "group", "group_info"})
  /\ home # 0 /\ ~owed
  /\ Reply(c, home, up[c][1].cmd, up[c][1].id)
  /\ UNCHANGED server

\* stk_deliver_msg() runs in the user's thread, between any two of its steps.
Push ==
  /\ home # 0 /\ pushed < MaxPushes
  /\ down' = [down EXCEPT ![home] = Append(@, Packet("msg", NoId))]
  /\ pushed' = pushed + 1
  /\ UNCHANGED <<client, up, home, owed, restarts, lost, broken>>

\* The process dies, as StkServer shows, and is started again: its sockets are
\* closed and nobody is online.
Restart ==
  /\ restarts < MaxRestarts
  /\ restarts' = restarts + 1 /\ broken' = TRUE
  /\ lost' = 1 .. cur /\ home' = 0 /\ owed' = FALSE
  /\ UNCHANGED <<client, up, down, pushed>>

Serve(c) ==
  ReqAck(c) \/ LoginAgain(c) \/ LoginInvalid(c) \/ LoginOk(c) \/ Directory(c)

Next ==
  \/ Submit \/ Cancel \/ Waiting
  \/ Thread \/ ConnectFails \/ SocketFails
  \/ (\E c \in Conns : Serve(c)) \/ LoginReply \/ Push \/ Restart

Spec == Init /\ [][Next]_vars

\* The timer fires, and the threads of client and server are scheduled.
FairSpec ==
  /\ Spec /\ WF_vars(Waiting) /\ WF_vars(Thread)
  /\ \A c \in Conns : WF_vars(Serve(c))
  /\ WF_vars(LoginReply)

-----------------------------------------------------------------------------
(* Properties                                                              *)

\* A profile shown is the profile of that user, and a group's members are that
\* group's, although a pushed message can leave the thread one answer behind
\* its requests for the rest of the login.
Matching ==
  /\ \A i \in DOMAIN buddies : buddies[i].profile \in {NoId, buddies[i].uid}
  /\ \A i \in DOMAIN mygroups : mygroups[i].members \in {NoId, mygroups[i].gid}

\* Something the thread has asked for is not read yet.
Unread ==
  \/ up[cur] # <<>> \/ (owed /\ home = cur)
  \/ \E i \in DOMAIN down[cur] : down[cur][i].cmd # "msg"

\* Without pushed messages and failures a login ends with every other user once,
\* every profile and every member list, and nothing unread.  stk_buddys is never
\* emptied: only the refusal of a second login keeps it from being filled again.
CleanLogin ==
  running = "connected" /\ pushed = 0 /\ ~broken =>
    /\ \A u \in Range(Others) : Cardinality({i \in DOMAIN buddies : buddies[i].uid = u}) = 1
    /\ \A i \in DOMAIN buddies : buddies[i].profile = buddies[i].uid
    /\ \A i \in DOMAIN mygroups : mygroups[i].members = mygroups[i].gid
    /\ ~Unread

\* A login asked for while the thread can still see it ends: with the buddy list,
\* or with the form and its error.
LoginEnds == (win = "waiting" /\ pc # "loop") ~> (win # "waiting")

\* "There must be something wrong with socket!" (stkclient.c): a socket error is
\* reported only when a connection has failed.
SocketWrong == running = "socket_err" => broken

=============================================================================
