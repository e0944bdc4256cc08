# sixtalk in TLA+

sixtalk is a chat system: a server with accounts and groups, and clients that log
in, list users and groups, and exchange messages.  This directory holds TLA+
models of it, the TLC runs that check them and TLAPS proofs about them.

## The system

The server exists three times (`stkserver/linux`, `stkserver/gtk`,
`stkserver/python`), the client four times (`stkclient/linux`, `gtk`, `win32`,
`python`), and all speak one TCP protocol (`doc/stkp.lua`): a header with the
command, the user's uid and a length, a payload, a tail byte.  A server loads
`users` and `groups` files at startup, accepts connections, and serves each one on
a thread.

| component | state | operations | talks to |
|---|---|---|---|
| Linux server, connections | per thread: its descriptor and client pointer; per user: `stkc_fd`, `stkc_tid`, `stkc_state`; the shared `conn_fd` of `main()` | accept, REQ_LOGIN, LOGIN, hang-up | clients over TCP; threads through the unlocked user table |
| Linux server, delivery | per user: the list `chatmsg` with `msg_num` | SEND_MSG, SEND_GMSG, `SIGUSR1` handler `stk_deliver_msg()` | the receiver's thread, by `pthread_kill` |
| Linux server, directory | `stk_users`, `stk_groups`, each user's group list | startup, GET_USER, GET_USER_INFO, GET_GROUP, GET_GROUP_INFO | connections |
| GTK server | as the Linux server; deliveries are idle callbacks of the main loop; a user list window | the same, start and stop | main loop, threads |
| Python server | class attribute `sp` shared by the threads, `socklist`, list of status updates | the same | window timer, threads |
| Linux client | one socket, buddy and group lists | log in, fetch directory, chat from a prompt | server |
| GTK client | state variable `running`, socket thread, per-buddy message lists | log in, cancel, exit, send, receive | window idle and timer callbacks, server |
| Win32 client | the same states, window messages | the same, exit handshake | window procedure, server |
| Python client | queues and events between three threads | the same | window, server |
| cJSON, dissector, sounds, layout | none of the chat system's | | |

What is hard: nothing is locked.  The user table is written by every connection
thread and read by the signal handler, descriptors are reused by the kernel as soon
as they are closed, a message passes through a mailbox, a signal and a handler
while its receiver may hang up or log in again, and in the clients a window and a
socket thread share a state variable.  `PROJECT.json` lists each of these under
"hazards" with its line and the properties that watch it.

What makes each component correct:

- connections: what is written for a user reaches only that user; a user is online
  exactly while a thread serves him; a connection stays with the user who logged in
  on it; one session per user.
- delivery: every message queued for a user who stays online is sent, at most once,
  in order.
- directory: GET_USER lists each other user once; a user's group list is the groups
  that list him.
- GTK and Python servers: as above, with their own queues.
- clients: what the user asked for last (cancel, exit) wins; exit ends; each
  received message is shown once, in order; login is answered by its own reply.

## Modules

| module | of | what |
|---|---|---|
| `StkServer` | `stkserver/linux/stkserver.c`, `stkpacket.c`, `stkuser.c` | connections, logins, hang-ups, message delivery |
| `StkServer_proofs` | | its theorems |
| `StkFifo` | | what a mailbox promises: a queue of messages per user |
| `StkMailbox` | `stkserver/linux/stkuser.c` | `stk_add_msg()` and `stk_get_msg()` node by node, implementing `StkFifo` |
| `StkMailbox_proofs` | | its theorems, the refinement among them |
| `StkDirectory` | `stkserver/linux/stkuser.c`, `stkgroup.c`, `stkpacket.c` | startup and the four directory requests |
| `StkClientLinux` | `stkclient/linux/*.c` | the Linux client, composed with `StkDirectory`: login, buddy list, prompt, chat |
| `StkClientLinux_proofs` | | its theorems, and those of `StkDirectory` |
| `StkLogin` | `stkclient/gtk/stkclient.c`, `stkpacket.c`, `stkbuddy.c`, `stkui.c`; the server's answers | a login: window, socket thread, byte stream, server |
| `StkLogin_proofs` | | its theorems |
| `StkServerGtk` | `stkserver/gtk/*.c` | the same server with its deliveries and its window in the GTK main loop |
| `StkServerGtk_proofs` | | its theorems |
| `StkServerPy` | `stkserver/python/*` | threads sharing one parsed packet, `socklist`, the window's update thread |
| `StkServerPy_proofs` | | its theorems |
| `StkClientWin` | `stkclient/win32/*.c` | message loop, socket thread, posted messages, message lists, exit |
| `StkClientWin_proofs` | | its theorems |
| `StkClientPy` | `stkclient/python/*` | Tkinter thread, socket thread, receive thread, queues and events |
| `StkClientPy_proofs` | | its theorems |
| `MCStkServer`, `MCStkMailbox`, `MCStkClientLinux`, `MCStkLogin`, `MCStkServerGtk`, `MCStkServerPy`, `MCStkClientWin`, `MCStkClientPy` | | instances for TLC |

`StkServer` takes a mailbox for a sequence of messages whose additions and removals
are atomic; `StkMailbox` shows that the linked list is one as long as a single caller
is inside a mailbox, and where `StkServer` finds two inside it says that the
behaviour is undefined.  `StkLogin` takes the server's answers from `StkDirectory` and the
order of its login steps from `StkServer`.  The two other clients carry their own server,
reduced to what it answers to one client, and the two other servers their own clients,
reduced to what they send.  Nothing is shared between the servers' modules but the habit of
naming the steps: the codes differ where it matters, in who writes to a socket and when.

### StkServer

A step is one access to shared memory or one system call of one thread.  A thread
whose handler runs does nothing else until the handler returns, and several
threads' handlers interleave.

| variables | code |
|---|---|
| `connFd` | `conn_fd` in `main()`, whose address each `pthread_create()` passes on |
| `pc`, `tfd`, `bound` | the point a thread has reached in `stk_main()`, its locals `fd` and `client` |
| `luid`, `work`, `sent` | the login or chat packet it is handling, and how many chat packets it has taken |
| `pend`, `hpc`, `hcl`, `hmsg` | `SIGUSR1` pending, the point reached in `stk_deliver_msg()`, its `client` and `msg` |
| `ufd`, `utid`, `online`, `mail` | `stkc_fd`, `stkc_tid`, `stkc_state`, `chatmsg` with `msg_num` |
| `peer`, `stage` | the client at the other end of a descriptor and how far he has come |
| `got`, `routed` | histories: messages written to their receiver's own connection; every (meant for, written to) pair |
| `dead` | whether the process still runs, and what ended it |

| actions | code |
|---|---|
| `Accept`, `AcceptNoThread`, `ThreadStart` | the loop of `main()`; `fd = *(int *)arg` |
| `ReqLogin`, `LoginRefused`, `LoginChecked`, `LoginSetFd`, `LoginSetTid`, `LoginSetState`, `LoginReply` | `stk_reqlogin_ack()`, `stk_login_ack()` with its check, its three writes and its answer apart |
| `Query`, `GetGroupInfoUnknown` | the four directory requests |
| `SendMsg`, `SendGmsg`, `Walk`, `Serve`, `AddCheck`, `AddMsg`, `Signal` | `stk_sendmsg_ack()`, `stk_sendgmsg_ack()`: per receiver the look-up, the check of `stkc_state` in `stk_add_msg()`, its effect, `pthread_kill()` |
| `HandlerStart`, `HandlerCheck`, `HandlerLoop`, `HandlerTake`, `HandlerSend`, `HandlerReturn` | `stk_deliver_msg()`; `SIGUSR1` stays blocked until it returns |
| `Eof`, `OfflineFd`, `OfflineState`, `OfflineAgain`, `Close` | `recv()` returning 0, `stk_user_offline()`, the second write of `stkc_state`, `close()` |
| `Corrupt`, `Sigpipe` | undefined behaviour in a mailbox; `SIGPIPE` |
| `PeerClose` | the client (outside this component) |

Abstractions and assumptions:

- A chat message is the thread that received it and its rank there.
- Evaluating `client->stkc_fd` and `send()` on it is one step.
- `stk_add_msg()` and `stk_get_msg()` take effect when they return.  When two activities
  are inside one mailbox at once, or a handler that frees interrupts its own
  thread's allocation, the behaviour is undefined: with `"ub" \in Faults` the
  run may end there, or the two happen to serialise.
- The client is disciplined: one uid per connection, REQ_LOGIN, LOGIN, then
  requests after STK_LOGIN_SUCCESS.  This is what all four clients do.  A refused
  GTK client leaves its socket open, so `refused` connections stay until they hang up.
- KEEPALIVE, LOGOUT and GET_ONLINE change nothing in the code and have no action,
  and neither has a chat message to an unknown group, a dropped packet, or a
  `recv()` that returns -1 (the loop comes round again).
- `PromptStart`: a new thread copies `conn_fd` before the next `accept()` returns.
  Nothing in the code makes it so; `server_whos_msg` shows what follows without it.
- `OneConn`: a user reconnects only when the server has closed his last socket.
  Without it an old thread's handler, which looked its client up before the new
  login, and the new thread's handler can serve one mailbox together, and messages
  are reordered.
- `Askers` and `Writers` bound who sends requests and messages in a run: a directory
  request only writes to the asker's descriptor, so that the runs about mailboxes
  leave them out.
- A message in `mail` carries the thread that served its receiver when it was queued
  (`Session`): the handler of an older session that finds its client offline
  returns, and the wake-up for a message queued while the next login is between
  its writes of `stkc_tid` and `stkc_state` may be lost.  `NoLostWakeup` and
  `Delivered` speak of the messages queued within the session.
- `Faults` chooses which process-wide failures a run contains.

### StkMailbox

| variables | code |
|---|---|
| `used`, `next`, `msg` | the heap of `chat_message` nodes |
| `head`, `num` | `chatmsg` and `msg_num` of each user |
| `pc`, `of`, `node`, `tmp` | a caller's place in `stk_add_msg()` or `stk_get_msg()`, its `client`, new node and walking pointer |
| `got` | the message a caller was last given |
| `chain` | history: the nodes of each mailbox |

`AddMalloc`, `AddFirst`, `AddWalk`, `AddStep`, `AddLast`, `AddCount` are
`stk_add_msg()`; `GetStart`, `GetUnlink`, `GetCount`, `GetFree` are `stk_get_msg()` with
the test of `msg_num` in its caller.  Callers are in different mailboxes (`Alone`) but
share the heap: the last `stk_get_msg()` leaves `chatmsg` pointing at the node it frees
(`chatmsg == NULL` is a comparison), and that node may next belong to
somebody else.

The refinement mapping `Mail` reads `msg` along `chain`; a message is queued when its node
is linked and leaves when its node is unlinked.

### StkDirectory

`ufile` and `gfile` are the two files; `users` and `groups` the lists built from them;
`phase` is how far `main()` has come; `reply` the last answer.  `LoadGroup`,
`LoadGroupNoKey`, `GroupsLoaded`, `LoadUser` and `UsersLoaded` are the startup;
`GetUser`, `GetUserInfo`, `GetGroup`, `GetGroupInfo` and `GetGroupInfoUnknown` the
requests.  A list is a ring with a head in it, position 0, which `NextInRing` steps over
as `stk_next_user()` and `stk_next_group()` do.  Profiles and names are left out;
a missing key, which the code dereferences as NULL, is the gid `NoId`.  The file
contents have distinct ids, which the code does not check, and at most 1024 groups: `stk_init_group()`
reads its file into 4096 bytes (`BUF_SIZE_MAX`).

### StkClientLinux

| variables | code |
|---|---|
| `pc`, `me`, `todo`, `buddys`, `friend` | where `main()` is, `client.uid`, the requests before the prompt, `stk_buddys`, the buddy talked to |
| `link`, `toSrv`, `toCli`, `online` | the connection and the server's `stkc_state` |
| `pushed`, `early`, `sent`, `exits` | histories and bounds |

It extends `StkDirectory`: `Serve` takes the client's next packet and answers it with that
module's `GetUser`, `GetUserInfo` or `GetGroup`, one step of both.  `Start` to `Answered` are
the login and the list, each request's failure ending the program but for a buddy's
profile; `TypeChat` to `TypeQuit` the prompt, which does not look at the socket while it
reads a chat; `HandleMsg` and `ServerClosed` the socket.  The client's command numbers
are those of an older protocol: its SEND_MSG is the server's GET_GROUP (`TypeLine`), and
nobody's message is ever shown.  The server's answer to a user without groups is two
bytes long, which `stk_handle_msg()` takes for a message of -2 (`DataSize`).

### StkLogin

| variables | code |
|---|---|
| `running`, `win` | `stk_running`; the window that is shown |
| `pc`, `cur`, `k` | the socket thread's place in `stk_socket()`, its connection, its loop index |
| `buddies`, `mygroups` | `stk_buddys`, `client.group` |
| `up`, `down` | packets on their way on each connection |
| `home`, `owed` | server: the connection in `stkc_fd` while online, and whether the login reply is still to be sent |
| `pushed`, `restarts`, `lost` | messages pushed, restarts of the server, the connections closed by them |
| `cancelled`, `broken` | histories |

| actions | code |
|---|---|
| `Submit`, `Cancel`, `Waiting` | `stk_loginbtn_pressed()`, `stk_login_cancle()`, the half-second timer `stk_waiting()` |
| `SeeRequest`, `Begin`, `Connect`, `ConnectCancelled`, `ConnectFails`, `ConnectErr` | the loop of `stk_socket()` up to `stk_login()`; `stk_running` is read and then written in separate steps |
| `OnReq`, `OnLogin`, `OnSelf`, `OnUsers`, `OnInfo`, `OnGroups`, `OnGinfo` | one `recv()` each: the packet it must be, what is stored, the next request |
| `SocketFails`, `ServerGone` | `recv()` or `send()` failing, `recv()` returning 0 |
| `ReqAck`, `LoginAgain`, `LoginInvalid`, `LoginOk`, `LoginReply`, `Directory`, `Push`, `Restart` | the server |

- A `recv()` returns any number of the packets that have arrived and the client looks
  at the first; the others are lost.  Packets are small and sent in one piece, so parts
  of packets are not modelled.
- A profile is the uid it belongs to, a member list its gid: enough to tell a right
  one from a wrong one.
- `stk_send_getbuddyinfo()` falls off its end without a value; what it leaves in the
  return register is an address or a gender, never the -1 its callers look for.
- `SocketFails` stands for the failing call and all later ones: in the loop over
  the profiles each fails in turn and the group request after them fails the login;
  in the loop over groups the login succeeds without their members.  A `send()` on a
  closed socket may also end the client with `SIGPIPE`; nothing follows then.
- A user has one account and one client.  The race of two overlapping logins is
  in `StkServer`; here the check and the write of `stkc_state` are one step.
- The model ends when the thread reaches its receive loop.

### StkServerGtk

| variables | code |
|---|---|
| `ui`, `loaded`, `shown` | how far `stk_main()` has come, how many users are linked, the status column of the window |
| `idle`, `mcl`, `mmsg`, `mfd` | the main loop's idle sources; the `stk_deliver_msg()` that runs, its message and the descriptor it has evaluated |
| `pc`, `tfd`, `bound`, `work`, `sent` | a connection thread: its place, `fd`, `client`, the receivers left, its count of packets |
| `ufd`, `online`, `udata`, `mail` | `stkc_fd`, `stkc_state`, `stkc_data` (whose packet buffer), `chatmsg` |
| `peer`, `stage` | who is at the other end of a descriptor, and how far |
| `sess`, `got`, `failed` | histories |

`InitGroup`, `InitUser`, `BuddytreeFill` and `MainLoop` are startup, which runs beside
`Accept`; `BuddytreeUpdate`, `DeliverCheck`, `DeliverTake`, `DeliverSend` and `DeliverReturn` are the
two idle callbacks; the rest are the threads, as in `StkServer`, with `RecvError` for the
exit that forgets `stk_user_offline()` and `Quit` for the end with `stk_clear_user()`.  A
receiver's message is added and its callback queued in two steps.  The threads queue
`stk_buddytree_update()` for a pointer, which is used when it runs.  `Faults` chooses
what else can happen: `recverr`, `ub` (two activities in one list), `segv`, `quit`.

### StkServerPy

| variables | code |
|---|---|
| `th`, `pkt`, `uid`, `self`, `state`, `to` | a thread's place in `stk_socket_thread()`, what it will read or has read from `StkPacket.sp`, its local `uid`, `client.uid`, `client.state`, the members left |
| `ready`, `socklist`, `updateinfo` | whether `stk_main()` has filled `socklist`, and the shared data |
| `shows`, `upc`, `at`, `exiting`, `running`, `accepting` | the window, its update thread and place in the list, the flags |
| `phase`, `user`, `good`, `out`, `sends` | the clients |
| `mixed`, `overlap`, `lost`, `overtaken` | histories |

`Recv` parses into the class attribute, for every thread that has parsed and not yet read;
`Take` reads.  `Login` writes the entry, `Notify` appends to `updateinfo` and answers.  `Clear` and
`Gone` are the end of a thread, for the uid of the packet read last.  An exception
(`Dies`) ends a thread before those two.  An entry of `socklist` is `never` (-1), `left` (`None`)
or a connection.  `Update` is one round of the loop that removes from the list it iterates
over.  `EntryIsOwn`, `Reachable` and `WindowAgrees` say what holds until a packet has
been read by the wrong thread (`mixed`), and for users who have not been named by two
connections at a time, which may be a stranger who only sends REQ_LOGIN.

### StkClientWin

| variables | code |
|---|---|
| `running`, `cuid`, `cpass` | `stk_running`, `client.uid`, `client.pass` |
| `buddys`, `groups`, `mail` | the lists and each conversation's `chatmsg` |
| `pc`, `todo`, `luid`, `res`, `cur` | the socket thread: its place, the requests of the login that remain, the state it is about to set, the message it stores |
| `view`, `ui`, `posted`, `exist` | the main window, the message loop, posted messages, chat windows |
| `link`, `toSrv`, `toCli`, `bound`, `inLink`, `online` | the connection and the server |

`Submit`, `Incomplete`, `Cancel`, `OpenChat`, `CloseChat`, `SendMsg`, `Quit` and `Joined` are the user and the
window procedure; `SocketMessage`, `MsgMessage`, `Display` and `Displayed` handle what the thread
posted; `SeeRequest` to `Silent` and `Ask`/`Answer` are the login, `Listen` to `ThreadEnd` the
receive loop.  `recv()` gives up after a second: `Timeout` is a login request whose answer
comes later, `RecvTimeout` the idle connection.  One `recv()` may return several
packets, of which the first is used.  `Corrupt` is the race of the two threads in one list.

### StkClientPy

| variables | code |
|---|---|
| `running`, `config`, `buddylist`, `grouplist` | the globals of `stkutil.py` |
| `sendevent`, `sendqueue`, `uievent`, `uiqueue`, `syncevent` | the queues and events |
| `spc`, `cred`, `todo`, `res`, `got` | the socket thread |
| `tpc`, `msg` | the receive thread |
| `view`, `put`, `flush`, `idle`, `win` | the Tkinter thread: its window, a message between event and queue, `update_idletasks()` of a cancel, idle callbacks, chat windows |
| `link`, `toSrv`, `toCli`, `online`, `eof` | the connection and the server |
| `early`, `cancelled`, `missed`, others | histories and bounds |

An event and its queue are two steps each (`Receive`/`Put`, `SendMsg`/`SendPut`,
`Look`/`Take`).  `Answer` takes whatever has arrived, or nothing after the half-second
timeout, as the answer to the present request; where unpacking the wrong answer
raises, the thread is dead.  `NeedWindow`, `Woken` and `ClearSync` are the wait for the Tkinter
thread to create a chat window (`CreateWin`).  A message is shown under the name of its
conversation, and a window that is closed between its creation and its use is not
distinguished from one that is open.

## Runs

Threads are used once, so their number bounds the connections of a behaviour; two
descriptors are enough for every reuse (a descriptor is taken again after each
`close()`), two users for every confusion of one with another, plus an uid with no
account.  Threads and descriptors are interchangeable, and the safety runs use
that symmetry; the liveness runs do not.

| run | bounds | checks | shows |
|---|---|---|---|
| `server_sessions` | 4 connections, 2 descriptors, overlapping logins, no messages, faults `segv`, `nothread` | `NoCrossDelivery SocketOwner NoZombie WhosMsg` | who is served on which socket, through all reuse of descriptors |
| `server_chat` | 3 connections, one writer with 2 messages, one group, `OneConn`, faults `sigpipe`, `ub` | `NoDuplicates InOrder NoLostWakeup LossWindow` | mailboxes, signals and handlers against logins and hang-ups, up to the point where the process dies |
| `server_live` | 2 connections, one writer with 2 messages, no group, `OneConn`, `FairSpec` | `Delivered UserLeaves` | queued messages leave the mailbox, users who hung up go offline |
| `server_whos_msg` | 3 connections, no `PromptStart` | `WhosMsg` | violated: two threads on one descriptor |
| `mailbox` | 2 users, 2 callers, 2 messages, 3 nodes | `MemSafe NoLeak IsFifo` | the lists are the queues; freed nodes are reused across mailboxes |
| `directory` | every users file of at most 3 users, every groups file of at most 2 groups with at most 2 members; one client with 1 message, 1 line, 1 end of the server, with no group or two of at most one member | `GroupsAgree ListComplete CrashesGroupless` | the answers say what the files say; the client's list is the users file's from every asker's place in the ring |
| `login` | 3 connections, 2 buddies, 2 groups, 1 push, 1 restart, cancels and failures, `FairSpec` | `Matching CleanLogin LoginEnds` | what is learnt is right, a calm login learns all of it, every login ends |
| `login_socket` | 2 connections, 1 push | `SocketWrong` | violated: "socket error" without one |
| `gtk_server` | 3 connections, 2 descriptors, 2 users and a stranger, 2 messages, every fault | `WindowAgrees NoLostWakeup InOrder DataAlive NoZombie SendsHome` | deliveries and the window keep up with threads that have moved on |
| `win_client` | 2 forms, 1 late answer, 2 messages of a buddy, 1 of the user, 1 end of the server, `FairSpec` | `Matching LoginComplete NoLostWakeup InOrder ExitEnds LoginTold` | lists, windows and exit against the thread |
| `py_client` | a wrong and a right form, 2 messages in the group, 2 of the user, 1 end of the server, `FairSpec` | `BuddiesComplete InOrder OneWaits ReceiverWakes ExitEnds LoginTold` | queues, events and exit of three threads |
| `py_server` | 2 connections, one of which may be the other's user, 1 packet each after the login | `EntryIsOwn Reachable WindowAgrees` | `socklist` and the window against threads that overlap |

Three nodes let a freed node move to another mailbox while a third holds the list
together.  Three users are the smallest ring in which an asker has a user before and
one after him.  In `login` three connections are an attempt that fails after the buddies are
stored, one after a restart, and one that is refused; one push is enough to put the
client a packet behind.  In `gtk_server` one connection is the
writer's and the two others are the receiver's, one after the other, or a stranger's, which is what
a delayed delivery can meet; only the receiver hangs up.  Those two threads are interchangeable,
the writer's is not.  Two messages are the fewest that can be reordered, merged or
left behind; two logins the fewest in which something is left over from the first;
one late answer puts the client one behind for the rest of the login.

`NoLostWakeup` is checked under `OneConn` in `server_chat`.  Without it the code's
"What happened, it's impossible..." (`stkpacket.c:137`) is reached: a signal pending for
a thread is handled after the user's next login has overwritten `stkc_tid`.  So is
"Oops, stkclient not online, hope not go here..." (`stkpacket.c:142`), with or without:
the client hangs up between the queueing of a message and the handler.

The type invariants (`TypeOK`) state what the variables range over.  All are proved,
`StkMailbox`'s as a part of `Inv`, and no run spends time on them.

Deadlock is checked in the mailbox run only.  Elsewhere the process can die, a behaviour
ends when its threads or connections are used up, or the modelled part is over.

Fairness in `FairSpec` is weak fairness of each thread's own steps and of each
thread's handler: the kernel schedules runnable threads and delivers pending
signals.  Clients are not assumed to do anything.  In `StkLogin` the timer fires, the socket
thread and the server's threads run; a connection is never assumed to fail, so that a
thread left without an answer would wait for ever, and a lost one returns from `recv()`.
`LoginEnds` is about logins asked for while the thread is not past its loop: after a cancel
that came too late it is, and the next login waits for ever.  In `StkClientWin` and
`StkClientPy` the threads, the message loop with its callbacks and the server run; no user
is assumed to do anything, and no connection to fail.  `ExitEnds` and `LoginTold` name
the cases in which the code does not keep what it promises, a state that the
thread has overwritten or an exception.

What the code does and no run of its own states:

- two overlapping logins of one user at the Linux server both pass the test of
  `stkc_state` (`stkpacket.c:206`) and are both answered STK_LOGIN_SUCCESS;
- the shipped groups file of the Linux server has an entry with other keys than
  `stk_init_group()` looks up, and startup ends there (`LoadGroupNoKey`);
- a login of the GTK client that is cancelled after the connection is made ends
  connected;
- the Linux client and the servers do not understand each other's chat messages
  (`stkclient/linux/stkprotocol.h:22`): what one says reaches nobody, what others say is
  dropped;
- `running` of the Python server's threads is never set to `False`: they outlive the window
  as long as their clients stay.

## Proofs

A proof module has the theorems of one component, for every value of its constants, type
correctness among them.  `TypeOK` alone is never inductive: what a step
takes from a list, or writes the entry of, has to be there.  `TypeInv` is `TypeOK` with
what each point of a thread knows, and all later invariants assume it.  TLC has checked every
inductive invariant below on the run of its component.

| module | theorems | hypotheses |
|---|---|---|
| `StkServer_proofs` | `TypeCorrect` | |
| | `SocketOwnerCorrect`, `NoCrossDeliveryCorrect`, `NoZombieCorrect`, `WhosMsgCorrect` | `PromptStart` |
| | `NoLostWakeupCorrect`, `LossWindowCorrect` | `PromptStart`, `OneConn` |
| | `InOrderCorrect`, `NoDuplicatesCorrect` | `PromptStart`, `OneConn`, `DistinctMembers` |
| `StkMailbox_proofs` | `LinkedCorrect`, `NoLeakCorrect`, `MemSafeCorrect`, `FifoCorrect` | |
| `StkClientLinux_proofs` | `DirectoryCorrect`, of `StkDirectory` alone | |
| | `TypeCorrect`, `ServesDirectory`, `GroupsAgreeCorrect`, `ListCompleteCorrect`, `CrashesGrouplessCorrect` | |
| `StkServerGtk_proofs` | `TypeCorrect`, `NoZombieCorrect`, `DataAliveCorrect`, `SendsHomeCorrect`, `WindowAgreesCorrect`, `NoLostWakeupCorrect` | |
| | `InOrderCorrect` | `DistinctMembers` |
| `StkServerPy_proofs` | `TypeCorrect`, `EntryIsOwnCorrect`, `ReachableCorrect`, `WindowAgreesCorrect` | |
| `StkLogin_proofs` | `TypeCorrect`, `MatchingCorrect`, `CleanLoginCorrect` | |
| `StkClientWin_proofs` | `TypeCorrect`, `MatchingCorrect`, `LoginCompleteCorrect`, `NoLostWakeupCorrect`, `InOrderCorrect` | |
| `StkClientPy_proofs` | `TypeCorrect`, `OneWaitsCorrect`, `ReceiverWakesCorrect`, `InOrderCorrect`, `BuddiesCompleteCorrect` | |

`PromptStart` and `OneConn` are the constants described under `StkServer`.
`DistinctMembers` says that no group lists a member twice: the servers take the
members of their groups file as they come, and send such a member two copies.

### StkServer

What is routed to a user is his (`OwnInv`):

- `OneThreadPerFd`: no two threads hold the same open descriptor (this needs
  `PromptStart`; the `born` thread will copy `connFd`, which nobody else holds);
- `ServesPeer`: a thread's client pointer and login are those of the peer of its
  descriptor;
- `SocketOwner`, `NoZombie`, `NoCrossDelivery` themselves.

A descriptor is freed only by `Close`, whose thread is past `off1` and so owns no
table entry; a new connection gets a free descriptor, which no entry names; so an
entry always names the socket of its own user, and everything routed through it is
his.  One lemma per conjunct takes it through every action.

What is queued is sent (`DeliveryInv`): `SessionInv` says which thread's `stkc_tid` and
descriptor are in a user's entry at each write of a login and of a hang-up, `HandlerInv` that a
handler works for the user of its own thread and has found a message before it takes one, `Tagged`
that a message queued for a session is in the mailbox of a user who is still in it.  A
message that nobody is about to take would have been left by a handler that saw an
empty mailbox, or signalled to a thread that is not the user's; both are excluded.

What is sent is in order (`OrderInv`): what was written to a user, what his handler
holds and what is queued follow one another (`Ordered`); no message has a rank that its sender has
not reached, and the latest one has not come to a receiver who is still in `work`
(`Ranked`, `OnceEach`).

### StkMailbox

The invariant is `Inv`: `TypeOK`, `Linked`, `NoLeak`, and `Inside`, which says what a
caller in a mailbox knows at each point: it is alone there (`Exclusive`), its new node
points to itself and is in no list (`NewNode`), its walk is on a node of the list
(`Walking`), what it takes is the list's first node (`Taking`, `Taken`).  `NoLeak` carries
the argument that a stale `chatmsg` does no harm: a mailbox with `num` 0 has an
empty `chain`, so `AddFirst` is taken and the pointer is overwritten unread; and a
pointer that is followed is on a list or in a hand, so it is allocated.  One lemma
takes `Inv` through each action.  For the refinement, `LinkFifo` and `UnlinkFifo` map the
linking and unlinking steps to `Add` and `Get`, and all others stutter, because the
message of a node on a list is never written.

### StkDirectory and StkClientLinux

A reader of these two wants to know what loops compute: the walk of `stk_next_user()`, the
search of `stk_find_user()`, the collection of a user's groups.  Induction with an operator for
its predicate is beyond the prover, so `Induction` is stated for a *set* of naturals and proved
from the library's well-founded order of finite sets; each loop's claim is then the set of the
numbers it holds for.  `WalkVisits` says which entries a walk visits, `FirstFinds` what a search
returns, `OthersAll` that GET_USER's answer is every user but the asker, once, and `MyGroupsMine`
that the groups collected are those that list the user.

`DirectoryInv` says that the lists are the parts of the files that have been read (`GroupsRead`,
`UsersRead`, the second with each user's groups, which are computed when all groups are there) and
that nothing is answered before (`AfterStartup`).  `GroupsAgree` is about the last answer and
follows from these.

`ServesDirectory` is the composition: a step of the client with its server is a step of the
directory or leaves it alone, so the client's behaviours have `Spec`'s theorems.

`ClientInv` adds the wire: requests come from a user there is (`Requests`), answers are the
directory's (`Truthful`).  `Progress` says, for each list of requests that can remain, what the
client has by then (`BuddyList`), and which buddies are still to be asked about (`Remain`).
While no message has come in and the server stays (`Calm`), the wire holds the present request or
its answer (`Wired`), and the profiles up to there are filled in (`Filled`).  `ListComplete` follows.
`CrashesGroupless` is inductive with these: the answer to GET_GROUP is the user's own groups, and
there are no more of them than a file can hold.

### StkServerGtk

`OwnInv` is one table of who still has to mark a user offline: each thread has a descriptor of its
own (`OneThreadPerFd`) and serves its peer (`ServesPeer`); a descriptor, a `stkc_data` or
an `online` in the user table is that of a thread with all of `stk_user_offline()` before it
(`FdOwner`, `DataOwner`, `NoZombie`), unless `recv()` failed (`failed`).  `SendsHome` follows.
`WindowAgrees` is inductive with the callbacks that are queued (`Queued`) and the threads about to
queue one (`Tells`): whoever changes a state tells the window after it, and the idle
sources run in their order.  `NoLostWakeup` needs to know in which session a message was queued
(`Tagged`) and that a session begins once (`PastLogin`, `Progress`).  `InOrder` is
`StkServer`'s argument with the main loop in the place of the handler.

### StkServerPy

A packet tells the truth about the client it comes from (`PacketInv`), and until packets
are mixed up a thread reads its own client's only (`OwnPackets`): so an entry of
`socklist` is its user's.  `Reachable` needs that two live connections of one user have been
noted (`OverlapInv`), so that neither takes the other's entry away.  `WindowInv` says what
the window *will* show of a user: the last update about him that is in the list, or what it
shows if there is none, is right, unless a thread has yet to append one.  That holds
however many entries the update thread skips in the list it removes from.

### StkLogin

`Matching` is inductive by itself, given `TypeInv`: whatever is read as an answer, the entry that is
written is the one the packet names.  `CleanLogin` needs `Inv`: while nothing has been pushed and no
connection has failed (`Clean`), `Wire` says that a waiting thread has exactly one thing
outstanding, its request, the server's permission to answer it, or the answer, and `Lists` that the
lists are the server's and complete up to the entry that is asked about.

### StkClientWin

`Matching` is inductive given `TypeInv`, whose part `LoggedIn` says that whoever asks for the list of users
is logged in.  `NoLostWakeup` is inductive as `Told`.  For `InOrder`, `Ascending` says that what
was shown, what is stored, what is being stored and what is on the wire come in this order, each
ascending, and that nothing is numbered beyond what was sent.  `LoginComplete` rests on
`LoginInv`: while nothing comes late or in between, the wire holds the present request or its
answer (`LoginWire`), the entries before the one that is asked about are complete and the requests
that remain are about the others (`Half`, `Remain`), and nothing shows the lists before the last
answer (`ShownFilled`, `NoChats`).  `OthersDistinct` shows that the server's walk round its ring names
nobody twice.

### StkClientPy

`OneWaits` is inductive with `Before` (until the receive thread is started nothing is queued),
and `Received` and `ToSend`: a queue whose event is clear is empty when a message is about to be put
into it.  `ReceiverWakes` is inductive.  `InOrder` is the Win32 client's argument with two threads and a
queue between the wire and the window.  `BuddiesComplete`, where answers may be missing after
the half-second timeout, follows from what the thread still has to ask: a buddy who is not in the
list has a request that remains (`ToAsk`), and as long as the lists are not complete an answer that
arrives is the one to the present request (`Synced`).

### What the proofs found

- The `CASE` expressions of `StkClientWin` and `StkClientPy` that had overlapping guards: TLC takes the
  first, the semantics any.  They are `IF` chains or have disjoint guards now.
- `StkServerGtk` took the sender out of a group's receivers before it began, with a library
  filter; the code's loop steps over him when it comes to him, and so does `StepOver`.
- `NamesAssumption` and `BoundsAssumption`: what the uids, the names of the program's own
  states and the bounds must not be.
- `CrashesGroupless` holds because a groups file is read into 4096 bytes: an answer with more
  than 1024 groups would pass the client's buffer too.  `FilesAssumption` says it now.
- `MyGroups` of `StkDirectory` was a library filter; it is the code's loop now, as a recursive
  function, and what it returns is a lemma instead of something taken from a library.

### Only model-checked

Liveness (`Delivered`, `UserLeaves`, `LoginEnds`, `ExitEnds`, `LoginTold`), which is beyond the
prover, and the two violations.

## Not modelled

- The GTK client's receive loop and chat windows: the code the Win32 client shares.
- The replies to queries of the GTK server, which `StkDirectory` has for the same code of
  the Linux server.
- Parts of packets: a packet is small and sent in one piece.
- cJSON (vendored), the Wireshark dissector, widget layout, sounds, images.
