----------------------------- MODULE StkServer -----------------------------
(***************************************************************************)
(* The Linux chat server (stkserver/linux): the accept loop of main(), one *)
(* thread per connection running stk_main(), and the SIGUSR1 handler       *)
(* stk_deliver_msg(), over the unlocked table of users they share.         *)
(*                                                                         *)
(* A step is one shared-memory access or one system call of one thread; a  *)
(* thread whose handler runs does nothing else.  Payloads are abstracted:  *)
(* a chat message is the connection thread that received it and its rank.  *)
(***************************************************************************)
EXTENDS Naturals, Sequences, FiniteSets

CONSTANTS
  Users,       \* uids with an account (stk_users)
  UnknownUid,  \* a uid with no account
  NoUser,      \* the NULL stk_client pointer
  Threads,     \* pthread ids; threads are never joined, so none is reused
  NoThread,    \* the stkc_tid of a user who never logged in
  Fds,         \* descriptors accept() may return; close() makes one reusable
  NoFd,        \* the stkc_fd -1
  Gids,        \* ids of the groups of stk_groups
  Members,     \* the members of each group, in list order
  Clients,     \* bound: the uids that connect
  Writers,     \* bound: the users who send chat messages
  Askers,      \* bound: the users who ask for users and groups
  MaxSend,     \* bound: chat messages received per connection
  PromptStart, \* a new thread copies conn_fd before the next accept() returns
  OneConn,     \* a user connects again only after close() of his last socket
  Faults       \* which process-wide failures can happen in a run

Uids == Users \cup {UnknownUid}

ASSUME UsersAssumption == UnknownUid \notin Users /\ NoUser \notin Uids
ASSUME ThreadsAssumption == NoThread \notin Threads
ASSUME FdsAssumption == NoFd \notin Fds
ASSUME GroupsAssumption == Members \in [Gids -> Seq(Uids)]
ASSUME BoundsAssumption ==
  MaxSend \in Nat /\ Clients \subseteq Uids /\ Writers \subseteq Users /\ Askers \subseteq Users
ASSUME SwitchesAssumption ==
  /\ PromptStart \in BOOLEAN
  /\ OneConn \in BOOLEAN
  /\ Faults \subseteq {"segv", "sigpipe", "ub", "nothread"}

VARIABLES
  connFd,  \* conn_fd of main(), whose address every new thread is given
  pc,      \* where a thread is in stk_main()
  tfd,     \* its local fd
  bound,   \* its local client pointer
  luid,    \* the uid of the LOGIN it is handling
  work,    \* receivers its current chat packet is still to be queued for
  sent,    \* chat packets it has received
  pend,    \* SIGUSR1 is pending for it
  hpc,     \* where it is in stk_deliver_msg()
  hcl,     \* the handler's client pointer
  hmsg,    \* the message the handler has taken from the mailbox
  peer,    \* who is at the other end of a descriptor
  stage,   \* what that client has done, "free" when the descriptor is closed
  ufd,     \* stkc_fd of a user
  utid,    \* stkc_tid
  online,  \* stkc_state = STK_CLIENT_ONLINE
  mail,    \* chatmsg and msg_num: the queued messages
  got,     \* history: the messages written to a user's own connections
  routed,  \* history: <<u, p>> when a packet for u was written to a p's socket
  dead     \* "no" while the process runs, or what ended it

threadVars  == <<pc, tfd, bound, luid, work, sent>>
handlerVars == <<pend, hpc, hcl, hmsg>>
connVars    == <<connFd, peer, stage>>
userVars    == <<ufd, utid, online, mail>>
histVars    == <<got, routed>>
vars == <<threadVars, handlerVars, connVars, userVars, histVars, dead>>

\* A message: the thread that received it, its rank there, and (a history)
\* the thread its receiver was logged in with when it was queued, if any.
Msgs  == Threads \X (1 .. MaxSend) \X (Threads \cup {NoThread})
NoMsg == <<>>

PCs == {"none", "born", "recv", "setfd", "settid", "setstate", "reply", "walk",
        "work", "add", "append", "kill", "off1", "off2", "off3", "close", "done"}
HPCs == {"off", "check", "loop", "take", "send", "ret"}
Stages == {"free", "new", "asked", "in", "refused", "gone"}

TypeOK ==
  /\ connFd \in Fds \cup {NoFd}
  /\ pc \in [Threads -> PCs]
  /\ tfd \in [Threads -> Fds \cup {NoFd}]
  /\ bound \in [Threads -> Users \cup {NoUser}]
  /\ luid \in [Threads -> Users \cup {NoUser}]
  /\ work \in [Threads -> Seq(Uids)]
  /\ sent \in [Threads -> 0 .. MaxSend]
  /\ pend \in [Threads -> BOOLEAN]
  /\ hpc \in [Threads -> HPCs]
  /\ hcl \in [Threads -> Users \cup {NoUser}]
  /\ hmsg \in [Threads -> Msgs \cup {NoMsg}]
  /\ peer \in [Fds -> Uids \cup {NoUser}]
  /\ stage \in [Fds -> Stages]
  /\ ufd \in [Users -> Fds \cup {NoFd}]
  /\ utid \in [Users -> Threads \cup {NoThread}]
  /\ online \in [Users -> BOOLEAN]
  /\ mail \in [Users -> Seq(Msgs)]
  /\ got \in [Users -> Seq(Msgs)]
  /\ routed \subseteq Users \X Uids
  /\ dead \in {"no", "segv", "sigpipe", "ub"}

Init ==
  /\ connFd = NoFd
  /\ pc = [t \in Threads |-> "none"]
  /\ tfd = [t \in Threads |-> NoFd]
  /\ bound = [t \in Threads |-> NoUser]
  /\ luid = [t \in Threads |-> NoUser]
  /\ work = [t \in Threads |-> <<>>]
  /\ sent = [t \in Threads |-> 0]
  /\ pend = [t \in Threads |-> FALSE]
  /\ hpc = [t \in Threads |-> "off"]
  /\ hcl = [t \in Threads |-> NoUser]
  /\ hmsg = [t \in Threads |-> NoMsg]
  /\ peer = [f \in Fds |-> NoUser]
  /\ stage = [f \in Fds |-> "free"]
  /\ ufd = [u \in Users |-> NoFd]
  /\ utid = [u \in Users |-> NoThread]
  /\ online = [u \in Users |-> FALSE]
  /\ mail = [u \in Users |-> <<>>]
  /\ got = [u \in Users |-> <<>>]
  /\ routed = {}
  /\ dead = "no"

-----------------------------------------------------------------------------
(* Helpers                                                                 *)

\* stk_find_user: the table entry of a uid, NULL when it has no account.
Find(u) == IF u \in Users THEN u ELSE NoUser

\* stk_get_user_by_tid: an entry whose stkc_tid is t.
UserOf(t) == IF \E u \in Users : utid[u] = t
             THEN CHOOSE u \in Users : utid[u] = t
             ELSE NoUser

\* t executes stk_main() itself: the process runs and no handler suspends t.
At(t, where) == dead = "no" /\ hpc[t] = "off" /\ pc[t] = where

Go(t, where) == pc' = [pc EXCEPT ![t] = where]

\* t waits in recv() on a connection whose client has come to stage s.
Reads(t, s) == At(t, "recv") /\ tfd[t] # NoFd /\ stage[tfd[t]] = s

Advance(t, s) == stage' = [stage EXCEPT ![tfd[t]] = s]

\* send() of a packet meant for u to the descriptor in u's table entry; it
\* fails, and the packet is lost, when that descriptor is -1 or closed.
Writable(u) == ufd[u] # NoFd /\ stage[ufd[u]] # "free"
Route(u) == routed' = IF Writable(u) THEN routed \cup {<<u, peer[ufd[u]]>>}
                                     ELSE routed

-----------------------------------------------------------------------------
(* The accept loop and the clients                                         *)

\* Mutant: the main thread does not wait for the new thread's copy.
MayAcceptAnytime(f, u) ==
  /\ dead = "no" /\ stage[f] = "free"
  /\ OneConn => \A g \in Fds : peer[g] # u

\* accept() can return f for a client who will use the uid u.
MayAccept(f, u) ==
  /\ dead = "no" /\ stage[f] = "free"
  /\ PromptStart => \A o \in Threads : pc[o] # "born"
  /\ OneConn => \A g \in Fds : peer[g] # u

NewConnection(f, u) ==
  /\ connFd' = f
  /\ peer' = [peer EXCEPT ![f] = u]
  /\ stage' = [stage EXCEPT ![f] = "new"]

\* accept() returns: conn_fd holds the new descriptor and a thread is created
\* with its address.
Accept(t, f, u) ==
  /\ MayAccept(f, u) /\ pc[t] = "none"
  /\ NewConnection(f, u)
  /\ Go(t, "born")
  /\ UNCHANGED <<tfd, bound, luid, work, sent, handlerVars, userVars, histVars, dead>>

\* pthread_create() fails: the message is printed and the descriptor stays
\* open with nobody reading it.
AcceptNoThread(f, u) ==
  /\ "nothread" \in Faults /\ MayAccept(f, u)
  /\ NewConnection(f, u)
  /\ UNCHANGED <<threadVars, handlerVars, userVars, histVars, dead>>

\* The new thread copies conn_fd, whatever it holds by then.
ThreadStart(t) ==
  /\ At(t, "born")
  /\ tfd' = [tfd EXCEPT ![t] = connFd]
  /\ Go(t, "recv")
  /\ UNCHANGED <<bound, luid, work, sent, handlerVars, connVars, userVars, histVars, dead>>

\* The client closes its end.
PeerClose(f) ==
  /\ dead = "no" /\ stage[f] \notin {"free", "gone"}
  /\ stage' = [stage EXCEPT ![f] = "gone"]
  /\ UNCHANGED <<connFd, peer, threadVars, handlerVars, userVars, histVars, dead>>

-----------------------------------------------------------------------------
(* Login                                                                   *)

\* The client pointer is set by the first packet that names an account.
Bind(t) == bound' = [bound EXCEPT ![t] = IF @ = NoUser THEN Find(peer[tfd[t]]) ELSE @]

\* STKP_CMD_REQ_LOGIN: answered with the token, on the thread's own fd.
ReqLogin(t) ==
  /\ Reads(t, "new")
  /\ Bind(t)
  /\ Advance(t, "asked")
  /\ UNCHANGED <<pc, tfd, luid, work, sent, connFd, peer, handlerVars, userVars, histVars, dead>>

\* STKP_CMD_LOGIN refused at once: STK_LOGIN_INVALID_UID, STK_LOGIN_AGAIN, or
\* STK_LOGIN_INVALID_PASS when the password is wrong.
LoginRefused(t, passOk) ==
  /\ Reads(t, "asked")
  /\ LET u == peer[tfd[t]] IN u \in Users => (online[u] \/ ~passOk)
  /\ Bind(t)
  /\ Advance(t, "refused")
  /\ UNCHANGED <<pc, tfd, luid, work, sent, connFd, peer, handlerVars, userVars, histVars, dead>>

\* STKP_CMD_LOGIN of an offline user with the right password: the checks have
\* passed, the table entry is not written yet.
LoginChecked(t) ==
  /\ Reads(t, "asked")
  /\ LET u == peer[tfd[t]] IN
       /\ u \in Users
       /\ ~online[u]
       /\ luid' = [luid EXCEPT ![t] = u]
  /\ Bind(t)
  /\ Go(t, "setfd")
  /\ UNCHANGED <<tfd, work, sent, connVars, handlerVars, userVars, histVars, dead>>

\* Mutant: stkc_fd is not written.
LoginSetFdForgot(t) ==
  /\ At(t, "setfd")
  /\ Go(t, "settid")
  /\ UNCHANGED <<tfd, bound, luid, work, sent, userVars,
                 connVars, handlerVars, histVars, dead>>

LoginSetFd(t) ==
  /\ At(t, "setfd")
  /\ ufd' = [ufd EXCEPT ![luid[t]] = tfd[t]]
  /\ Go(t, "settid")
  /\ UNCHANGED <<tfd, bound, luid, work, sent, utid, online, mail,
                 connVars, handlerVars, histVars, dead>>

LoginSetTid(t) ==
  /\ At(t, "settid")
  /\ utid' = [utid EXCEPT ![luid[t]] = t]
  /\ Go(t, "setstate")
  /\ UNCHANGED <<tfd, bound, luid, work, sent, ufd, online, mail,
                 connVars, handlerVars, histVars, dead>>

LoginSetState(t) ==
  /\ At(t, "setstate")
  /\ online' = [online EXCEPT ![luid[t]] = TRUE]
  /\ Go(t, "reply")
  /\ UNCHANGED <<tfd, bound, luid, work, sent, ufd, utid, mail,
                 connVars, handlerVars, histVars, dead>>

\* STK_LOGIN_SUCCESS is sent; a client that has hung up never reads it.
LoginReply(t) ==
  /\ At(t, "reply")
  /\ stage' = [stage EXCEPT ![tfd[t]] = IF @ = "asked" THEN "in" ELSE @]
  /\ luid' = [luid EXCEPT ![t] = NoUser]
  /\ Go(t, "recv")
  /\ UNCHANGED <<tfd, bound, work, sent, connFd, peer, handlerVars, userVars, histVars, dead>>

-----------------------------------------------------------------------------
(* Requests of a logged-in client                                          *)

\* STKP_CMD_GET_USER, GET_USER_INFO, GET_GROUP and GET_GROUP_INFO of a known
\* group: the answer goes to the descriptor in the client's table entry.
Query(t) ==
  /\ Reads(t, "in") /\ bound[t] \in Askers
  /\ Route(bound[t])
  /\ UNCHANGED <<got, threadVars, handlerVars, connVars, userVars, dead>>

\* STKP_CMD_GET_GROUP_INFO of a group the server does not have: the answer's
\* length is computed from the NULL group pointer.
GetGroupInfoUnknown(t) ==
  /\ Reads(t, "in") /\ bound[t] # NoUser
  /\ "segv" \in Faults
  /\ dead' = "segv"
  /\ UNCHANGED <<threadVars, handlerVars, connVars, userVars, histVars>>

\* STKP_CMD_SEND_MSG to the uid v.
SendMsg(t, v) ==
  /\ Reads(t, "in") /\ bound[t] \in Writers /\ sent[t] < MaxSend
  /\ work' = [work EXCEPT ![t] = <<v>>]
  /\ sent' = [sent EXCEPT ![t] = @ + 1]
  /\ Go(t, "work")
  /\ UNCHANGED <<tfd, bound, luid, handlerVars, connVars, userVars, histVars, dead>>

\* STKP_CMD_SEND_GMSG to group g.
SendGmsg(t, g) ==
  /\ Reads(t, "in") /\ bound[t] \in Writers /\ sent[t] < MaxSend
  /\ work' = [work EXCEPT ![t] = Members[g]]
  /\ sent' = [sent EXCEPT ![t] = @ + 1]
  /\ Go(t, "walk")
  /\ UNCHANGED <<tfd, bound, luid, handlerVars, connVars, userVars, histVars, dead>>

\* The head of the loop over the receivers: the sender is skipped.
Walk(t) ==
  /\ At(t, "walk")
  /\ \/ work[t] = <<>> /\ Go(t, "recv") /\ UNCHANGED work
     \/ /\ work[t] # <<>> /\ Head(work[t]) = bound[t]
        /\ work' = [work EXCEPT ![t] = Tail(@)]
        /\ UNCHANGED pc
     \/ work[t] # <<>> /\ Head(work[t]) # bound[t] /\ Go(t, "work") /\ UNCHANGED work
  /\ UNCHANGED <<tfd, bound, luid, sent, handlerVars, connVars, userVars, histVars, dead>>

\* The receiver is looked up and his state read.  An unknown or offline
\* receiver ends the request: the members after him get nothing.
CanServe(t) == Head(work[t]) \in Users /\ online[Head(work[t])]

Serve(t) ==
  /\ At(t, "work")
  /\ \/ CanServe(t) /\ Go(t, "add") /\ UNCHANGED work
     \/ /\ ~CanServe(t)
        /\ work' = [work EXCEPT ![t] = <<>>]
        /\ Go(t, "recv")
  /\ UNCHANGED <<tfd, bound, luid, sent, handlerVars, connVars, userVars, histVars, dead>>

\* stk_add_msg() is entered: it returns -1, and nobody is signalled, when the
\* receiver has gone offline in between.
AddCheck(t) ==
  /\ At(t, "add")
  /\ \/ online[Head(work[t])] /\ Go(t, "append") /\ UNCHANGED work
     \/ /\ ~online[Head(work[t])]
        /\ work' = [work EXCEPT ![t] = Tail(@)]
        /\ Go(t, "walk")
  /\ UNCHANGED <<tfd, bound, luid, sent, handlerVars, connVars, userVars, histVars, dead>>

\* The thread a user is logged in with.
Session(u) == IF online[u] THEN utid[u] ELSE NoThread

\* Mutant: the new message is put at the head of the list.
AddMsgFirst(t) ==
  /\ At(t, "append")
  /\ mail' = [mail EXCEPT ![Head(work[t])] =
                 <<<<t, sent[t], Session(Head(work[t]))>>>> \o @]
  /\ Go(t, "kill")
  /\ UNCHANGED <<tfd, bound, luid, work, sent, ufd, utid, online, handlerVars,
                 connVars, histVars, dead>>

\* stk_add_msg() returns 0: the message is at the end of the list, of a user
\* who may have gone offline.
AddMsg(t) ==
  /\ At(t, "append")
  /\ mail' = [mail EXCEPT ![Head(work[t])] =
                 Append(@, <<t, sent[t], Session(Head(work[t]))>>)]
  /\ Go(t, "kill")
  /\ UNCHANGED <<tfd, bound, luid, work, sent, ufd, utid, online, handlerVars,
                 connVars, histVars, dead>>

\* Mutant: a thread that already runs its handler is not signalled.
SignalIdle(t) ==
  /\ At(t, "kill")
  /\ LET o == utid[Head(work[t])] IN
       pend' = [p \in Threads |-> pend[p] \/ (p = o /\ pc[o] # "done" /\ hpc[o] = "off")]
  /\ work' = [work EXCEPT ![t] = Tail(@)]
  /\ Go(t, "walk")
  /\ UNCHANGED <<tfd, bound, luid, sent, hpc, hcl, hmsg, connVars, userVars, histVars, dead>>

\* pthread_kill(user->stkc_tid, SIGUSR1): the signal becomes pending, once,
\* for the thread the receiver's entry names now, unless it has exited.
Signal(t) ==
  /\ At(t, "kill")
  /\ LET o == utid[Head(work[t])] IN
       pend' = [p \in Threads |-> pend[p] \/ (p = o /\ pc[o] # "done")]
  /\ work' = [work EXCEPT ![t] = Tail(@)]
  /\ Go(t, "walk")
  /\ UNCHANGED <<tfd, bound, luid, sent, hpc, hcl, hmsg, connVars, userVars, histVars, dead>>

-----------------------------------------------------------------------------
(* The SIGUSR1 handler                                                     *)

Runs(t, where) == dead = "no" /\ hpc[t] = where

HGo(t, where) == hpc' = [hpc EXCEPT ![t] = where]

\* The pending signal interrupts t anywhere in stk_main(); the handler finds
\* its client by the thread id, or returns when there is none.
HandlerStart(t) ==
  /\ Runs(t, "off") /\ pend[t] /\ pc[t] \notin {"none", "born", "done"}
  /\ pend' = [pend EXCEPT ![t] = FALSE]
  /\ hcl' = [hcl EXCEPT ![t] = UserOf(t)]
  /\ HGo(t, IF UserOf(t) = NoUser THEN "ret" ELSE "check")
  /\ UNCHANGED <<hmsg, threadVars, connVars, userVars, histVars, dead>>

\* The client's state is read; the handler of an offline client returns.
HandlerCheck(t) ==
  /\ Runs(t, "check")
  /\ HGo(t, IF online[hcl[t]] THEN "loop" ELSE "ret")
  /\ UNCHANGED <<pend, hcl, hmsg, threadVars, connVars, userVars, histVars, dead>>

\* while (client->msg_num > 0)
HandlerLoop(t) ==
  /\ Runs(t, "loop")
  /\ HGo(t, IF mail[hcl[t]] # <<>> THEN "take" ELSE "ret")
  /\ UNCHANGED <<pend, hcl, hmsg, threadVars, connVars, userVars, histVars, dead>>

\* Mutant: the message is read but stays in the list.
HandlerTakeKeeps(t) ==
  /\ Runs(t, "take") /\ mail[hcl[t]] # <<>>
  /\ hmsg' = [hmsg EXCEPT ![t] = Head(mail[hcl[t]])]
  /\ HGo(t, "send")
  /\ UNCHANGED <<pend, hcl, userVars, threadVars, connVars, histVars, dead>>

\* stk_get_msg() returns with the oldest message.  When another handler has
\* emptied the mailbox since, chatmsg still points to the node it freed: the
\* code has no outcome of its own for that case, see Undefined.
HandlerTake(t) ==
  /\ Runs(t, "take") /\ mail[hcl[t]] # <<>>
  /\ hmsg' = [hmsg EXCEPT ![t] = Head(mail[hcl[t]])]
  /\ mail' = [mail EXCEPT ![hcl[t]] = Tail(@)]
  /\ HGo(t, "send")
  /\ UNCHANGED <<pend, hcl, ufd, utid, online, threadVars, connVars, histVars, dead>>

\* send(client->stkc_fd, ...): a message that cannot be sent is lost.
HandlerSend(t) ==
  /\ Runs(t, "send")
  /\ LET u == hcl[t] IN
       /\ Route(u)
       /\ got' = IF Writable(u) /\ peer[ufd[u]] = u
                 THEN [got EXCEPT ![u] = Append(@, hmsg[t])] ELSE got
  /\ hmsg' = [hmsg EXCEPT ![t] = NoMsg]
  /\ HGo(t, "loop")
  /\ UNCHANGED <<pend, hcl, threadVars, connVars, userVars, dead>>

\* The handler has returned: SIGUSR1 is no longer blocked.
HandlerReturn(t) ==
  /\ Runs(t, "ret")
  /\ HGo(t, "off")
  /\ hcl' = [hcl EXCEPT ![t] = NoUser]
  /\ UNCHANGED <<pend, hmsg, threadVars, connVars, userVars, histVars, dead>>

-----------------------------------------------------------------------------
(* The end of a connection                                                 *)

\* Mutant: the thread leaves without marking its client offline.
EofForgets(t) ==
  /\ Reads(t, "gone")
  /\ Go(t, "close")
  /\ UNCHANGED <<tfd, bound, luid, work, sent, handlerVars, connVars, userVars, histVars, dead>>

\* recv() returns 0.
Eof(t) ==
  /\ Reads(t, "gone")
  /\ Go(t, IF bound[t] = NoUser THEN "close" ELSE "off1")
  /\ UNCHANGED <<tfd, bound, luid, work, sent, handlerVars, connVars, userVars, histVars, dead>>

\* Mutant: stkc_fd keeps the descriptor that is about to be closed.
OfflineFdKept(t) ==
  /\ At(t, "off1")
  /\ Go(t, "off2")
  /\ UNCHANGED <<tfd, bound, luid, work, sent, userVars,
                 handlerVars, connVars, histVars, dead>>

\* stk_user_offline(client), first write.
OfflineFd(t) ==
  /\ At(t, "off1")
  /\ ufd' = [ufd EXCEPT ![bound[t]] = NoFd]
  /\ Go(t, "off2")
  /\ UNCHANGED <<tfd, bound, luid, work, sent, utid, online, mail,
                 handlerVars, connVars, histVars, dead>>

\* stk_user_offline(client), second write.
OfflineState(t) ==
  /\ At(t, "off2")
  /\ online' = [online EXCEPT ![bound[t]] = FALSE]
  /\ Go(t, "off3")
  /\ UNCHANGED <<tfd, bound, luid, work, sent, ufd, utid, mail,
                 handlerVars, connVars, histVars, dead>>

\* client->stkc_state = STK_CLIENT_OFFLINE, written once more by stk_main().
OfflineAgain(t) ==
  /\ At(t, "off3")
  /\ online' = [online EXCEPT ![bound[t]] = FALSE]
  /\ Go(t, "close")
  /\ UNCHANGED <<tfd, bound, luid, work, sent, ufd, utid, mail,
                 handlerVars, connVars, histVars, dead>>

\* close(fd), whoever is at its other end by now, and the thread exits.
Close(t) ==
  /\ At(t, "close")
  /\ Advance(t, "free")
  /\ peer' = [peer EXCEPT ![tfd[t]] = NoUser]
  /\ tfd' = [tfd EXCEPT ![t] = NoFd]
  /\ bound' = [bound EXCEPT ![t] = NoUser]
  /\ pend' = [pend EXCEPT ![t] = FALSE]
  /\ Go(t, "done")
  /\ UNCHANGED <<luid, work, sent, connFd, hpc, hcl, hmsg, userVars, histVars, dead>>

-----------------------------------------------------------------------------
(* The end of the process                                                  *)

\* t is inside stk_add_msg() or stk_get_msg() on the mailbox of u.
Adds(t, u) == pc[t] = "append" /\ Head(work[t]) = u
Takes(t, u) == hpc[t] = "take" /\ hcl[t] = u

\* Two activities are in one mailbox at once, a handler reads the node another
\* one freed, or a handler that calls free() interrupts malloc().
Undefined ==
  \/ \E u \in Users, t, o \in Threads :
       \/ t # o /\ (Adds(t, u) \/ Takes(t, u)) /\ (Adds(o, u) \/ Takes(o, u))
       \/ Takes(t, u) /\ mail[u] = <<>>
  \/ \E t \in Threads : pc[t] = "append" /\ hpc[t] = "take"

\* Undefined behaviour: what follows is not described, the run ends.  The
\* other outcome, that the activities happen to serialise, is the other actions.
Corrupt ==
  /\ dead = "no" /\ "ub" \in Faults /\ Undefined
  /\ dead' = "ub"
  /\ UNCHANGED <<threadVars, handlerVars, connVars, userVars, histVars>>

\* A send() to a client that has hung up raises SIGPIPE, which nobody handles.
Sigpipe ==
  /\ dead = "no" /\ "sigpipe" \in Faults
  /\ \E t \in Threads :
       \/ hpc[t] = "send" /\ ufd[hcl[t]] # NoFd /\ stage[ufd[hcl[t]]] = "gone"
       \/ pc[t] = "reply" /\ stage[tfd[t]] = "gone"
  /\ dead' = "sigpipe"
  /\ UNCHANGED <<threadVars, handlerVars, connVars, userVars, histVars>>

-----------------------------------------------------------------------------
\* What a thread does by itself, once a packet has been received.
Step(t) ==
  \/ ThreadStart(t)
  \/ LoginSetFd(t) \/ LoginSetTid(t) \/ LoginSetState(t) \/ LoginReply(t)
  \/ Walk(t) \/ Serve(t) \/ AddCheck(t) \/ AddMsg(t) \/ Signal(t)
  \/ Eof(t) \/ OfflineFd(t) \/ OfflineState(t) \/ OfflineAgain(t) \/ Close(t)

Handler(t) ==
  \/ HandlerStart(t) \/ HandlerCheck(t) \/ HandlerLoop(t)
  \/ HandlerTake(t) \/ HandlerSend(t) \/ HandlerReturn(t)

\* What the clients make a thread do.
Request(t) ==
  \/ ReqLogin(t)
  \/ \E passOk \in BOOLEAN : LoginRefused(t, passOk)
  \/ LoginChecked(t)
  \/ Query(t) \/ GetGroupInfoUnknown(t)
  \/ \E v \in Uids : SendMsg(t, v)
  \/ \E g \in Gids : SendGmsg(t, g)

Next ==
  \/ \E t \in Threads, f \in Fds, u \in Clients : Accept(t, f, u)
  \/ \E f \in Fds, u \in Clients : AcceptNoThread(f, u)
  \/ \E f \in Fds : PeerClose(f)
  \/ \E t \in Threads : Step(t) \/ Handler(t) \/ Request(t)
  \/ Corrupt \/ Sigpipe

Spec == Init /\ [][Next]_vars

\* The kernel schedules every runnable thread and delivers a pending signal.
Fairness == \A t \in Threads : WF_vars(Step(t)) /\ WF_vars(Handler(t))

FairSpec == Spec /\ Fairness

-----------------------------------------------------------------------------
(* Safety                                                                  *)

\* Nothing meant for one user is ever written to another user's connection,
\* through all the reuse of descriptors by accept() and close().
NoCrossDelivery == \A r \in routed : r[1] = r[2]

\* A descriptor in the table belongs to a thread that serves that user and
\* that has not begun to mark him offline: it cannot be closed, and so reused,
\* before it is taken out of the table.
BeforeOffline == {"recv", "setfd", "settid", "setstate", "reply", "walk",
                  "work", "add", "append", "kill", "off1"}
SocketOwner ==
  \A u \in Users : ufd[u] # NoFd =>
    \E t \in Threads : tfd[t] = ufd[u] /\ bound[t] = u /\ pc[t] \in BeforeOffline

\* A user is never stuck online: some thread that serves him still has to
\* mark him offline, even when two of his logins overlap.
NoZombie ==
  \A u \in Users : online[u] =>
    \E t \in Threads : bound[t] = u /\ pc[t] \in BeforeOffline \cup {"off2", "off3"}

\* A connection stays with the user its first packet named: the anomaly
\* stk_main() reports as "Oops! who's msg!" cannot occur.
WhosMsg ==
  \A t \in Threads :
    pc[t] = "recv" /\ bound[t] # NoUser /\ stage[tfd[t]] \notin {"free", "gone"}
      => bound[t] = peer[tfd[t]]

\* A message is queued or written at most once to each of its receivers.
NoDuplicates ==
  \A u \in Users :
    LET all == got[u] \o mail[u] IN
      \A i, j \in 1 .. Len(all) :
        all[i][1] = all[j][1] /\ all[i][2] = all[j][2] => i = j

\* The messages of one connection to one user keep their order, across the
\* mailbox, the handler and the user's sessions.
InOrder ==
  \A u \in Users :
    LET all == got[u] \o mail[u] IN
      \A i, j \in 1 .. Len(all) :
        i < j /\ all[i][1] = all[j][1] => all[i][2] < all[j][2]

\* Messages queued for u in his present session.  One that is queued while he
\* logs in again is not among them: the handler may then find him offline still.
Fresh(u) == {i \in DOMAIN mail[u] : mail[u][i][3] = utid[u]}

\* No wake-up is lost: while a message of his present session waits for an
\* online user, his thread is signalled, in a handler that will still look at
\* the mailbox, or about to be signalled by a sender.  A signal that is already
\* pending, or the handler running, never makes it wait for the next message.
NoLostWakeup ==
  \A u \in Users : online[u] /\ Fresh(u) # {} =>
    \/ \E t \in Threads : utid[u] = t /\ (pend[t] \/ hpc[t] \in {"check", "loop", "take", "send"})
    \/ \E t \in Threads : pc[t] = "kill" /\ Head(work[t]) = u

\* A message taken from the mailbox is lost only when its handler interrupted
\* stk_user_offline() between the writes of stkc_fd and stkc_state.
LossWindow ==
  \A t \in Threads : hpc[t] = "send" /\ ~Writable(hcl[t]) => pc[t] = "off2"

-----------------------------------------------------------------------------
(* Liveness                                                                *)

\* What is queued for a user who stays online is taken from his mailbox.
Delivered ==
  \A u \in Users :
    (online[u] /\ Fresh(u) # {}) ~> (~online[u] \/ Fresh(u) = {} \/ dead # "no")

\* A user all of whose clients have hung up goes offline, so that he can log
\* in again, unless he is back on a new connection.
UserLeaves ==
  \A u \in Users :
    (online[u] /\ \A f \in Fds : peer[f] = u => stage[f] = "gone")
      ~> (~online[u] \/ dead # "no" \/ \E f \in Fds : peer[f] = u /\ stage[f] # "gone")
=============================================================================
