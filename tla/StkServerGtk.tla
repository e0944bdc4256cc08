---------------------------- MODULE StkServerGtk ----------------------------
(***************************************************************************)
(* The GTK chat server (stkserver/gtk).  The thread stk_main() loads the   *)
(* users, builds the window and runs the GTK main loop; stk_socket()       *)
(* accepts connections at the same time, each served by a thread running   *)
(* stk_socket_thread().  Those threads never touch the window or a socket  *)
(* of somebody else: they queue idle callbacks, stk_deliver_msg() and      *)
(* stk_buddytree_update(), with a pointer into the unlocked user table.    *)
(*                                                                         *)
(* A chat message is the thread that received it and its rank there.       *)
(***************************************************************************)
EXTENDS Naturals, Sequences, FiniteSets

CONSTANTS
  UserFile,   \* the uids of the users file, in order
  Unknown,    \* a uid with no account
  NoUser,     \* the NULL client pointer
  Threads,    \* connection threads; each serves one connection
  NoThread,
  Fds, NoFd,  \* descriptors of accepted connections, and -1
  Group,      \* the members of the one group, in list order
  Dialers,    \* bound: the uids that may connect to each thread
  Leavers,    \* bound: the uids that hang up
  Writers,    \* bound: the users who send chat messages
  MaxSend,    \* bound: chat messages received per connection
  Faults      \* which of "recverr", "ub", "segv", "quit" can happen in a run

Users == {UserFile[i] : i \in DOMAIN UserFile}
Uids == Users \cup {Unknown}

ASSUME UsersAssumption ==
  /\ UserFile \in Seq(Users) /\ Unknown \notin Users /\ NoUser \notin Uids
  /\ \A i, j \in DOMAIN UserFile : UserFile[i] = UserFile[j] => i = j
ASSUME NamesAssumption == NoThread \notin Threads /\ NoFd \notin Fds
ASSUME BoundsAssumption ==
  /\ Dialers \in [Threads -> SUBSET Uids] /\ Leavers \subseteq Uids /\ Writers \subseteq Users /\ MaxSend \in Nat
  /\ Group \in Seq(Uids) /\ Faults \subseteq {"recverr", "ub", "segv", "quit"}

VARIABLES
  ui,      \* how far stk_main() has come
  loaded,  \* how many users are linked into stk_users
  shown,   \* the status column of a user's row, "" before there is a row
  idle,    \* the idle callbacks queued for the main loop
  mcl,     \* the client of the stk_deliver_msg() that runs, if any
  mmsg,    \* the message it is about to send
  mfd,     \* the descriptor it is about to send it to
  pc,      \* where a thread is in stk_socket_thread()
  tfd,     \* its fd
  bound,   \* its client pointer
  work,    \* receivers its chat packet is still to be queued for
  sent,    \* chat packets it has received
  peer,    \* who is at the other end of a descriptor
  stage,   \* how far that client has come, "free" when it is closed
  ufd,     \* stkc_fd
  online,  \* stkc_state
  udata,   \* stkc_data: the thread whose packet buffer it points to
  mail,    \* chatmsg and msg_num
  sess,    \* history: the thread that last logged a user in
  got,     \* history: the messages written to a user's own connections
  failed,  \* history: the users left behind by a recv() error
  dead     \* "no" while the process runs, or what ended it

uiVars     == <<ui, loaded, shown>>
loopVars   == <<idle, mcl, mmsg, mfd>>
threadVars == <<pc, tfd, bound, work, sent>>
connVars   == <<peer, stage>>
userVars   == <<ufd, online, udata, mail>>
histVars   == <<sess, got, failed>>
vars == <<uiVars, loopVars, threadVars, connVars, userVars, histVars, dead>>

Msgs  == Threads \X (1 .. MaxSend) \X (Threads \cup {NoThread})
NoMsg == <<>>
Tasks == {"deliver", "update"} \X Users
PCs == {"none", "recv", "setfd", "setstate", "notify", "group", "work",
        "add", "append", "post", "off1", "off2", "left", "close", "done"}

TypeOK ==
  /\ ui \in {"groups", "users", "window", "loop"}
  /\ loaded \in 0 .. Len(UserFile)
  /\ shown \in [Users -> {"", "online", "offline"}]
  /\ idle \in Seq(Tasks)
  /\ mcl \in Users \cup {NoUser} /\ mmsg \in Msgs \cup {NoMsg} /\ mfd \in Fds \cup {NoFd}
  /\ pc \in [Threads -> PCs]
  /\ tfd \in [Threads -> Fds \cup {NoFd}]
  /\ bound \in [Threads -> Users \cup {NoUser}]
  /\ work \in [Threads -> Seq(Uids)] /\ sent \in [Threads -> 0 .. MaxSend]
  /\ peer \in [Fds -> Uids \cup {NoUser}]
  /\ stage \in [Fds -> {"free", "new", "asked", "in", "refused", "gone"}]
  /\ ufd \in [Users -> Fds \cup {NoFd}] /\ online \in [Users -> BOOLEAN]
  /\ udata \in [Users -> Threads \cup {NoThread}] /\ mail \in [Users -> Seq(Msgs)]
  /\ sess \in [Users -> Threads \cup {NoThread}] /\ got \in [Users -> Seq(Msgs)]
  /\ failed \subseteq Users /\ dead \in {"no", "ub", "segv", "exit"}

Init ==
  /\ ui = "groups" /\ loaded = 0 /\ shown = [u \in Users |-> ""]
  /\ idle = <<>> /\ mcl = NoUser /\ mmsg = NoMsg /\ mfd = NoFd
  /\ pc = [t \in Threads |-> "none"] /\ tfd = [t \in Threads |-> NoFd]
  /\ bound = [t \in Threads |-> NoUser]
  /\ work = [t \in Threads |-> <<>>] /\ sent = [t \in Threads |-> 0]
  /\ peer = [f \in Fds |-> NoUser] /\ stage = [f \in Fds |-> "free"]
  /\ ufd = [u \in Users |-> NoFd] /\ online = [u \in Users |-> FALSE]
  /\ udata = [u \in Users |-> NoThread] /\ mail = [u \in Users |-> <<>>]
  /\ sess = [u \in Users |-> NoThread] /\ got = [u \in Users |-> <<>>]
  /\ failed = {} /\ dead = "no"

-----------------------------------------------------------------------------
(* Startup and the window: stk_main()                                      *)

Running == dead = "no"
Dies(how) ==
  /\ dead' = how
  /\ UNCHANGED <<uiVars, loopVars, threadVars, connVars, userVars, histVars>>

Status(u) == IF online[u] THEN "online" ELSE "offline"

\* stk_find_user(): NULL for a user who is not linked into the list (yet).
Find(u) == IF \E i \in 1 .. loaded : UserFile[i] = u THEN u ELSE NoUser

InitGroup ==
  /\ Running /\ ui = "groups"
  /\ ui' = "users"
  /\ UNCHANGED <<loaded, shown, loopVars, threadVars, connVars, userVars, histVars, dead>>

\* stk_init_user() links one more user, offline, at the end of the list.
InitUser ==
  /\ Running /\ ui = "users" /\ loaded < Len(UserFile)
  /\ loaded' = loaded + 1
  /\ ui' = IF loaded' = Len(UserFile) THEN "window" ELSE ui
  /\ UNCHANGED <<shown, loopVars, threadVars, connVars, userVars, histVars, dead>>

\* stk_buddytree_fill() appends the row of the next user, whatever his state.
BuddytreeFill(u) ==
  /\ Running /\ ui = "window" /\ shown[u] = ""
  /\ \E i \in DOMAIN UserFile :
       UserFile[i] = u /\ \A j \in 1 .. i - 1 : shown[UserFile[j]] # ""
  /\ shown' = [shown EXCEPT ![u] = Status(u)]
  /\ UNCHANGED <<ui, loaded, loopVars, threadVars, connVars, userVars, histVars, dead>>

\* The lists are in the window, and gtk_main() is entered.
MainLoop ==
  /\ Running /\ ui = "window" /\ \A u \in Users : shown[u] # ""
  /\ ui' = "loop"
  /\ UNCHANGED <<loaded, shown, loopVars, threadVars, connVars, userVars, histVars, dead>>

\* The main loop is between callbacks, and fn for u is the next of them.
Runs(fn, u) == Running /\ ui = "loop" /\ mcl = NoUser /\ idle # <<>> /\ Head(idle) = <<fn, u>>

\* Mutant: the row keeps the status that was shown last.
BuddytreeUpdateOnline(u) ==
  /\ Runs("update", u)
  /\ shown' = [shown EXCEPT ![u] = "online"]
  /\ idle' = Tail(idle)
  /\ UNCHANGED <<ui, loaded, mcl, mmsg, mfd, threadVars, connVars, userVars, histVars, dead>>

\* stk_buddytree_update(): the row gets the state the user is in by now.
BuddytreeUpdate(u) ==
  /\ Runs("update", u)
  /\ shown' = [shown EXCEPT ![u] = Status(u)]
  /\ idle' = Tail(idle)
  /\ UNCHANGED <<ui, loaded, mcl, mmsg, mfd, threadVars, connVars, userVars, histVars, dead>>

\* The window is closed, gtk_main() returns, and stk_clear_user() frees every
\* stkc_data and every user under the threads that still run; then the process
\* ends.
Quit ==
  /\ Running /\ "quit" \in Faults /\ ui = "loop" /\ mcl = NoUser
  /\ Dies("exit")

-----------------------------------------------------------------------------
(* Delivery in the main loop: stk_deliver_msg()                            *)

\* The client's state is read; the callback of an offline client returns.
DeliverCheck(u) ==
  /\ Runs("deliver", u)
  /\ mcl' = IF online[u] THEN u ELSE NoUser
  /\ idle' = Tail(idle)
  /\ UNCHANGED <<mmsg, mfd, uiVars, threadVars, connVars, userVars, histVars, dead>>

Delivering(u) == Running /\ mcl = u /\ mmsg = NoMsg

\* stk_get_msg() takes the oldest message off the list, and stkc_fd is
\* evaluated for send().
DeliverTake(u) ==
  /\ Delivering(u) /\ mail[u] # <<>>
  /\ mail' = [mail EXCEPT ![u] = Tail(@)]
  /\ mmsg' = Head(mail[u])
  /\ mfd' = ufd[u]
  /\ UNCHANGED <<idle, mcl, uiVars, threadVars, connVars, ufd, online, udata, histVars, dead>>

\* send() on that descriptor, whoever it belongs to by now; a message that
\* cannot be sent is lost.
Open(f) == f # NoFd /\ stage[f] # "free"
DeliverSend(u) ==
  /\ Running /\ mcl = u /\ mmsg # NoMsg
  /\ got' = IF Open(mfd) /\ peer[mfd] = u THEN [got EXCEPT ![u] = Append(@, mmsg)] ELSE got
  /\ mmsg' = NoMsg /\ mfd' = NoFd
  /\ UNCHANGED <<idle, mcl, uiVars, threadVars, connVars, userVars, sess, failed, dead>>

\* msg_num is 0: the callback returns FALSE.
DeliverReturn(u) ==
  /\ Delivering(u) /\ mail[u] = <<>>
  /\ mcl' = NoUser
  /\ UNCHANGED <<idle, mmsg, mfd, uiVars, threadVars, connVars, userVars, histVars, dead>>

-----------------------------------------------------------------------------
(* Connections and logins: stk_socket(), stk_socket_thread()               *)

At(t, where) == Running /\ pc[t] = where
Go(t, where) == pc' = [pc EXCEPT ![t] = where]

\* t is in recv() on a connection whose client has come to stage s.
Reads(t, s) == At(t, "recv") /\ stage[tfd[t]] = s
Advance(t, s) == stage' = [stage EXCEPT ![tfd[t]] = s]

\* accept() returns f, and a thread is created that copies it from conn_fd.
\* Bound: the thread does so before accept() returns again; what the other
\* order does is in StkServer, whose PromptStart states the same.
Accept(t, f, u) ==
  /\ Running /\ u \in Dialers[t] /\ pc[t] = "none" /\ stage[f] = "free"
  /\ tfd' = [tfd EXCEPT ![t] = f]
  /\ peer' = [peer EXCEPT ![f] = u]
  /\ stage' = [stage EXCEPT ![f] = "new"]
  /\ Go(t, "recv")
  /\ UNCHANGED <<bound, work, sent, uiVars, loopVars, userVars, histVars, dead>>

PeerClose(f) ==
  /\ Running /\ peer[f] \in Leavers /\ stage[f] \notin {"free", "gone"}
  /\ stage' = [stage EXCEPT ![f] = "gone"]
  /\ UNCHANGED <<peer, uiVars, loopVars, threadVars, userVars, histVars, dead>>

\* A packet arrives: the first that names a user binds the connection to him,
\* later ones point his stkc_data at this thread's buffer.
Bind(t) ==
  /\ bound' = [bound EXCEPT ![t] = IF @ = NoUser THEN Find(peer[tfd[t]]) ELSE @]
  /\ udata' = IF bound[t] = NoUser THEN udata ELSE [udata EXCEPT ![bound[t]] = t]

\* STKP_CMD_REQ_LOGIN is answered with the token.
ReqLogin(t) ==
  /\ Reads(t, "new")
  /\ Bind(t) /\ Advance(t, "asked")
  /\ UNCHANGED <<pc, tfd, work, sent, peer, ufd, online, mail, uiVars, loopVars, histVars, dead>>

\* STKP_CMD_LOGIN of a uid that is not in the list (yet), of a user who is
\* online, or with a wrong password.
LoginRefused(t, passOk) ==
  /\ Reads(t, "asked")
  /\ LET u == Find(peer[tfd[t]]) IN u # NoUser => online[u] \/ ~passOk
  /\ Bind(t) /\ Advance(t, "refused")
  /\ UNCHANGED <<pc, tfd, work, sent, peer, ufd, online, mail, uiVars, loopVars, histVars, dead>>

\* STKP_CMD_LOGIN of an offline user: the checks are passed.
LoginChecked(t) ==
  /\ Reads(t, "asked")
  /\ LET u == Find(peer[tfd[t]]) IN u # NoUser /\ ~online[u]
  /\ Bind(t) /\ Go(t, "setfd")
  /\ UNCHANGED <<tfd, work, sent, connVars, ufd, online, mail, uiVars, loopVars, histVars, dead>>

LoginSetFd(t) ==
  /\ At(t, "setfd")
  /\ ufd' = [ufd EXCEPT ![bound[t]] = tfd[t]]
  /\ Go(t, "setstate")
  /\ UNCHANGED <<tfd, bound, work, sent, online, udata, mail,
                 connVars, uiVars, loopVars, histVars, dead>>

LoginSetState(t) ==
  /\ At(t, "setstate")
  /\ online' = [online EXCEPT ![bound[t]] = TRUE]
  /\ sess' = [sess EXCEPT ![bound[t]] = t]
  /\ Go(t, "notify")
  /\ UNCHANGED <<tfd, bound, work, sent, ufd, udata, mail, got, failed,
                 connVars, uiVars, loopVars, dead>>

IdleAdd(fn, u) == idle' = Append(idle, <<fn, u>>)

\* "ask gui to update", and STK_LOGIN_SUCCESS is sent.
LoginReply(t) ==
  /\ At(t, "notify")
  /\ IdleAdd("update", bound[t])
  /\ stage' = [stage EXCEPT ![tfd[t]] = IF @ = "asked" THEN "in" ELSE @]
  /\ Go(t, "recv")
  /\ UNCHANGED <<tfd, bound, work, sent, mcl, mmsg, mfd, peer, uiVars, userVars, histVars, dead>>

-----------------------------------------------------------------------------
(* Directory requests                                                      *)

\* GET_USER, GET_USER_INFO, GET_GROUP and GET_GROUP_INFO: the answer goes to the
\* descriptor in the user's entry.
Query(t) ==
  /\ Reads(t, "in") /\ bound[t] # NoUser
  /\ Bind(t)
  /\ UNCHANGED <<pc, tfd, work, sent, connVars, ufd, online, mail, uiVars, loopVars, histVars, dead>>

\* GET_GROUP_INFO of a group the server does not have: the NULL group's
\* member_num is read.
GetGroupInfoUnknown(t) ==
  /\ Reads(t, "in") /\ "segv" \in Faults
  /\ Dies("segv")

-----------------------------------------------------------------------------
(* Chat messages: stk_sendmsg_ack(), stk_sendgmsg_ack()                    *)

\* A chat packet that is to be queued for the users in to.
Receive(t, to, where) ==
  /\ Reads(t, "in") /\ bound[t] \in Writers /\ sent[t] < MaxSend
  /\ Bind(t)
  /\ work' = [work EXCEPT ![t] = to]
  /\ sent' = [sent EXCEPT ![t] = @ + 1]
  /\ Go(t, IF to = <<>> THEN "recv" ELSE where)
  /\ UNCHANGED <<tfd, connVars, ufd, online, mail, uiVars, loopVars, histVars, dead>>

SendMsg(t, v) == Receive(t, <<v>>, "work")
SendGmsg(t) == Receive(t, Group, "group")

\* On to the next member, or back to recv().
NextMember(t) ==
  /\ work' = [work EXCEPT ![t] = Tail(@)]
  /\ Go(t, IF Tail(work[t]) = <<>> THEN "recv" ELSE "group")

\* A member who is the sender is stepped over.
StepOver(t) ==
  /\ At(t, "group") /\ Head(work[t]) = bound[t]
  /\ NextMember(t)
  /\ UNCHANGED <<tfd, bound, sent, uiVars, loopVars, connVars, userVars, histVars, dead>>

\* An unknown or offline receiver ends the request.
CanServe(t) == Find(Head(work[t])) # NoUser /\ online[Head(work[t])]
Serve(t) ==
  /\ At(t, "work") \/ (At(t, "group") /\ Head(work[t]) # bound[t])
  /\ \/ CanServe(t) /\ Go(t, "add") /\ UNCHANGED work
     \/ ~CanServe(t) /\ Go(t, "recv") /\ work' = [work EXCEPT ![t] = <<>>]
  /\ UNCHANGED <<tfd, bound, sent, uiVars, loopVars, connVars, userVars, histVars, dead>>

\* stk_add_msg() refuses a user who has gone offline in between.
AddCheck(t) ==
  /\ At(t, "add")
  /\ \/ online[Head(work[t])] /\ Go(t, "append") /\ UNCHANGED work
     \/ ~online[Head(work[t])] /\ NextMember(t)
  /\ UNCHANGED <<tfd, bound, sent, uiVars, loopVars, connVars, userVars, histVars, dead>>

Session(u) == IF online[u] THEN sess[u] ELSE NoThread

\* Mutant: a new message goes to the head of the list.
AddMsgFirst(t) ==
  /\ At(t, "append")
  /\ LET u == Head(work[t])
     IN mail' = [mail EXCEPT ![u] = <<<<t, sent[t], Session(u)>>>> \o @]
  /\ Go(t, "post")
  /\ UNCHANGED <<tfd, bound, work, sent, ufd, online, udata,
                 uiVars, loopVars, connVars, histVars, dead>>

AddMsg(t) ==
  /\ At(t, "append")
  /\ LET u == Head(work[t])
     IN mail' = [mail EXCEPT ![u] = Append(@, <<t, sent[t], Session(u)>>)]
  /\ Go(t, "post")
  /\ UNCHANGED <<tfd, bound, work, sent, ufd, online, udata,
                 uiVars, loopVars, connVars, histVars, dead>>

\* Mutant: a second message is not announced.
PostFirst(t) ==
  /\ At(t, "post")
  /\ IF sent[t] > 1 THEN UNCHANGED idle ELSE IdleAdd("deliver", Head(work[t]))
  /\ NextMember(t)
  /\ UNCHANGED <<tfd, bound, sent, mcl, mmsg, mfd, uiVars, connVars, userVars, histVars, dead>>

\* g_idle_add(stk_deliver_msg, user)
Post(t) ==
  /\ At(t, "post")
  /\ IdleAdd("deliver", Head(work[t]))
  /\ NextMember(t)
  /\ UNCHANGED <<tfd, bound, sent, mcl, mmsg, mfd, uiVars, connVars, userVars, histVars, dead>>

-----------------------------------------------------------------------------
(* The end of a connection                                                 *)

\* Mutant: the thread ends without marking its client offline.
EofForgets(t) ==
  /\ Reads(t, "gone")
  /\ Go(t, "close")
  /\ UNCHANGED <<tfd, bound, work, sent, uiVars, loopVars, connVars, userVars, histVars, dead>>

\* recv() returns 0.
Eof(t) ==
  /\ Reads(t, "gone")
  /\ Go(t, IF bound[t] = NoUser THEN "close" ELSE "off1")
  /\ UNCHANGED <<tfd, bound, work, sent, uiVars, loopVars, connVars, userVars, histVars, dead>>

\* recv() returns -1, the client having reset the connection: the thread
\* leaves its loop and the user stays as he is.
RecvError(t) ==
  /\ "recverr" \in Faults /\ Reads(t, "gone")
  /\ Go(t, "close")
  /\ failed' = failed \cup ({bound[t]} \ {NoUser})
  /\ UNCHANGED <<tfd, bound, work, sent, sess, got, uiVars, loopVars, connVars, userVars, dead>>

\* Mutant: stkc_fd keeps the descriptor that is about to be closed.
OfflineFdKept(t) ==
  /\ At(t, "off1")
  /\ Go(t, "off2")
  /\ UNCHANGED <<tfd, bound, work, sent, userVars, uiVars, loopVars, connVars, histVars, dead>>

\* stk_user_offline(), first write.
OfflineFd(t) ==
  /\ At(t, "off1")
  /\ ufd' = [ufd EXCEPT ![bound[t]] = NoFd]
  /\ Go(t, "off2")
  /\ UNCHANGED <<tfd, bound, work, sent, online, udata, mail,
                 uiVars, loopVars, connVars, histVars, dead>>

\* Mutant: stkc_data keeps the buffer that is about to be freed.
OfflineStateOnly(t) ==
  /\ At(t, "off2")
  /\ online' = [online EXCEPT ![bound[t]] = FALSE]
  /\ Go(t, "left")
  /\ UNCHANGED <<tfd, bound, work, sent, ufd, udata, mail,
                 uiVars, loopVars, connVars, histVars, dead>>

\* Its other writes.
OfflineState(t) ==
  /\ At(t, "off2")
  /\ online' = [online EXCEPT ![bound[t]] = FALSE]
  /\ udata' = [udata EXCEPT ![bound[t]] = NoThread]
  /\ Go(t, "left")
  /\ UNCHANGED <<tfd, bound, work, sent, ufd, mail,
                 uiVars, loopVars, connVars, histVars, dead>>

\* The window is told of a client who has left, the buffer is freed, the
\* descriptor closed, and the thread ends.
Close(t) ==
  /\ At(t, "left") \/ At(t, "close")
  /\ IF pc[t] = "left" THEN IdleAdd("update", bound[t]) ELSE UNCHANGED idle
  /\ Advance(t, "free")
  /\ peer' = [peer EXCEPT ![tfd[t]] = NoUser]
  /\ tfd' = [tfd EXCEPT ![t] = NoFd]
  /\ bound' = [bound EXCEPT ![t] = NoUser]
  /\ Go(t, "done")
  /\ UNCHANGED <<work, sent, mcl, mmsg, mfd, uiVars, userVars, histVars, dead>>

\* Two activities are inside one mailbox: two senders, or a sender and the
\* main loop.  The list or msg_num may be left wrong, and the run ends.
Undefined ==
  \E u \in Users, t \in Threads :
    /\ pc[t] = "append" /\ Head(work[t]) = u
    /\ \/ Delivering(u) /\ mail[u] # <<>>
       \/ \E o \in Threads \ {t} : pc[o] = "append" /\ Head(work[o]) = u

Corrupt ==
  /\ Running /\ "ub" \in Faults /\ Undefined
  /\ Dies("ub")

-----------------------------------------------------------------------------
Step(t) ==
  \/ LoginSetFd(t) \/ LoginSetState(t) \/ LoginReply(t)
  \/ StepOver(t) \/ Serve(t) \/ AddCheck(t) \/ AddMsg(t) \/ Post(t)
  \/ Eof(t) \/ OfflineFd(t) \/ OfflineState(t) \/ Close(t)

Request(t) ==
  \/ ReqLogin(t) \/ LoginChecked(t)
  \/ \E passOk \in BOOLEAN : LoginRefused(t, passOk)
  \/ \E v \in Uids : SendMsg(t, v)
  \/ SendGmsg(t) \/ Query(t) \/ GetGroupInfoUnknown(t)

Loop ==
  \/ InitGroup \/ InitUser \/ MainLoop
  \/ \E u \in Users :
       \/ BuddytreeFill(u) \/ BuddytreeUpdate(u)
       \/ DeliverCheck(u) \/ DeliverTake(u) \/ DeliverSend(u) \/ DeliverReturn(u)

Next ==
  \/ Loop \/ Quit \/ Corrupt
  \/ \E t \in Threads : Step(t) \/ Request(t) \/ RecvError(t)
  \/ \E t \in Threads, f \in Fds, u \in Uids : Accept(t, f, u)
  \/ \E f \in Fds : PeerClose(f)

Spec == Init /\ [][Next]_vars

-----------------------------------------------------------------------------
(* Properties                                                              *)

\* A descriptor found in a user's entry is open and at his own connection,
\* unless he was left online by a recv() error.  So an answer is never misdirected,
\* and the main loop writes a message to somebody else's connection only when the
\* entry has changed since stkc_fd was evaluated: a callback that runs after its
\* client has left, or logged in again, does no harm by itself.
Own(u, f) == f = NoFd \/ (Open(f) /\ peer[f] = u)
SendsHome ==
  [][/\ \A u \in Users : DeliverSend(u) /\ ~Own(u, mfd) => mfd # ufd[u] \/ u \in failed
     /\ \A t \in Threads : Query(t) /\ ~Own(bound[t], ufd[bound[t]]) => bound[t] \in failed]_vars

\* The window shows a user's state, or will be told: across startup, which
\* the first logins may overtake, and across overlapping sessions.
WindowAgrees ==
  \A u \in Users :
    shown[u] \notin {"", Status(u)} =>
      \/ \E i \in DOMAIN idle : idle[i] = <<"update", u>>
      \/ \E t \in Threads : bound[t] = u /\ pc[t] \in {"notify", "left"}

\* A message queued in its receiver's present session has a callback that will
\* find it: the main loop never stops between the last look at msg_num and the
\* message a thread adds meanwhile.
Fresh(u) == {i \in DOMAIN mail[u] : mail[u][i][3] = sess[u]}
NoLostWakeup ==
  \A u \in Users : online[u] /\ Fresh(u) # {} =>
    \/ mcl = u
    \/ \E i \in DOMAIN idle : idle[i] = <<"deliver", u>>
    \/ \E t \in Threads : pc[t] = "post" /\ Head(work[t]) = u

\* The messages of one connection to one user stay in order and are never
\* repeated, through the mailbox, the main loop and the user's sessions.
InOrder ==
  \A u \in Users :
    LET all == got[u] \o mail[u] IN
      \A i, j \in 1 .. Len(all) : i < j /\ all[i][1] = all[j][1] => all[i][2] < all[j][2]

\* stkc_data never points to the buffer of a thread that has ended: when the
\* window is closed stk_clear_user() frees it a second time otherwise.
DataAlive ==
  \A u \in Users : udata[u] # NoThread => pc[udata[u]] # "done" \/ u \in failed

\* Somebody online is served by a thread that will mark him offline, unless a
\* recv() error left him behind.
NoZombie ==
  \A u \in Users : online[u] =>
    \/ u \in failed
    \/ \E t \in Threads : bound[t] = u /\ pc[t] \notin {"none", "left", "close", "done"}
=============================================================================
