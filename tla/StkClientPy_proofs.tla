------------------------- MODULE StkClientPy_proofs -------------------------
(***************************************************************************)
(* The Python client for any buddies, groups, forms and bounds: its types, *)
(* the announcements of its two queues, the window the receive thread waits *)
(* for, and the order in which messages are shown.                         *)
(***************************************************************************)
EXTENDS StkClientPy, TLAPS

-----------------------------------------------------------------------------
(* Sequences                                                               *)

\* What is left after the first n elements.
LEMMA RestElements ==
  ASSUME NEW S, NEW s \in Seq(S), NEW n \in 1 .. Len(s)
  PROVE  /\ SubSeq(s, n + 1, Len(s)) \in Seq(S)
         /\ \A i \in DOMAIN SubSeq(s, n + 1, Len(s)) :
              i + n \in DOMAIN s /\ SubSeq(s, n + 1, Len(s))[i] = s[i + n]
OBVIOUS

LEMMA TailElements ==
  ASSUME NEW S, NEW s \in Seq(S), s # <<>>
  PROVE  /\ Tail(s) \in Seq(S) /\ Head(s) \in S /\ 1 \in DOMAIN s /\ Head(s) = s[1]
         /\ \A i \in DOMAIN Tail(s) : i + 1 \in DOMAIN s /\ i \in Nat /\ Tail(s)[i] = s[i + 1]
OBVIOUS

LEMMA AppendElements ==
  ASSUME NEW S, NEW s \in Seq(S), NEW e \in S
  PROVE  /\ Append(s, e) \in Seq(S)
         /\ \A i \in DOMAIN Append(s, e) : \/ i \in DOMAIN s /\ Append(s, e)[i] = s[i]
                                           \/ i = Len(s) + 1 /\ Append(s, e)[i] = e
         /\ \A i \in DOMAIN s : i \in DOMAIN Append(s, e) /\ Append(s, e)[i] = s[i] /\ i < Len(s) + 1
         /\ Len(s) + 1 \in DOMAIN Append(s, e) /\ Append(s, e)[Len(s) + 1] = e
OBVIOUS

\* An element of a concatenation is one of either sequence.
LEMMA ConcatElements ==
  ASSUME NEW S, NEW s \in Seq(S), NEW r \in Seq(S)
  PROVE  /\ s \o r \in Seq(S)
         /\ \A k \in DOMAIN (s \o r) :
              \/ k \in DOMAIN s /\ k <= Len(s) /\ (s \o r)[k] = s[k]
              \/ k > Len(s) /\ k - Len(s) \in DOMAIN r /\ (s \o r)[k] = r[k - Len(s)]
OBVIOUS

-----------------------------------------------------------------------------
(* Who writes what                                                         *)

\* Only an answer changes the lists of buddies and groups.
LEMMA ListFrame ==
  ASSUME [Next]_vars
  PROVE  UNCHANGED <<buddylist, grouplist>> \/ Answer
<1>1. ASSUME SeeRequest \/ ConnectCancelled \/ Connected \/ Report \/ Ask
             \/ (\E ok \in BOOLEAN : Connect(ok))
      PROVE  UNCHANGED <<buddylist, grouplist>>
  BY <1>1 DEF SeeRequest, Connect, ConnectCancelled, Connected, Report, Ask, CloseSock,
     listVars, queueVars, sockVars, recvVars, uiVars, wireVars, histVars
<1>2. ASSUME Chatting \/ SendQueued \/ Receive \/ Put \/ RecvTimeout \/ RecvEnd \/ Lost
      PROVE  UNCHANGED <<buddylist, grouplist>>
  BY <1>2 DEF Chatting, SendQueued, Receive, Put, RecvTimeout, RecvEnd, Lost, listVars,
     queueVars, sockVars, recvVars, uiVars, wireVars, histVars
<1>3. ASSUME Look \/ Take \/ NeedWindow \/ Woken \/ ClearSync \/ Insert \/ Focus
      PROVE  UNCHANGED <<buddylist, grouplist>>
  BY <1>3 DEF Look, Take, NeedWindow, Woken, ClearSync, Insert, Focus, listVars, queueVars,
     sockVars, recvVars, uiVars, wireVars, histVars
<1>4. ASSUME Waiting \/ SendPut \/ (\E c \in Conv : CreateWin(c))
      PROVE  UNCHANGED <<buddylist, grouplist>>
  BY <1>4 DEF Waiting, SendPut, CreateWin, listVars, queueVars, sockVars, recvVars, uiVars,
     wireVars, histVars
<1>5. ASSUME Cancel \/ Quit \/ (\E c \in Conv : OpenChat(c) \/ CloseChat(c) \/ SendMsg(c))
             \/ (\E form \in {"ok", "uid", "pass"} : Submit(form))
      PROVE  UNCHANGED <<buddylist, grouplist>>
  BY <1>5 DEF Submit, Cancel, Quit, OpenChat, CloseChat, SendMsg, listVars, queueVars,
     sockVars, recvVars, uiVars, wireVars, histVars
<1>6. ASSUME Serve \/ Offline \/ ServerExit \/ (\E c \in Conv : Push(c))
      PROVE  UNCHANGED <<buddylist, grouplist>>
  BY <1>6 DEF Serve, Offline, ServerExit, Push, listVars, queueVars, sockVars, recvVars,
     uiVars, wireVars, histVars
<1>7. ASSUME UNCHANGED vars
      PROVE  UNCHANGED <<buddylist, grouplist>>
  BY <1>7 DEF listVars, queueVars, sockVars, recvVars, uiVars, wireVars, histVars, vars
<1> QED
  BY <1>1, <1>2, <1>3, <1>4, <1>5, <1>6, <1>7 DEF Next, Socket, Receiver, Callbacks, User

\* Two actions count or show messages.
LEMMA MailFrame ==
  ASSUME [Next]_vars
  PROVE  UNCHANGED <<pushed, shown>> \/ Insert \/ (\E c \in Conv : Push(c))
<1>1. ASSUME SeeRequest \/ ConnectCancelled \/ Connected \/ Report \/ Ask \/ Answer
             \/ (\E ok \in BOOLEAN : Connect(ok))
      PROVE  UNCHANGED <<pushed, shown>>
  BY <1>1 DEF SeeRequest, Connect, ConnectCancelled, Connected, Report, Ask, Answer, CloseSock,
     listVars, queueVars, sockVars, recvVars, uiVars, wireVars, histVars
<1>2. ASSUME Chatting \/ SendQueued \/ Receive \/ Put \/ RecvTimeout \/ RecvEnd \/ Lost
      PROVE  UNCHANGED <<pushed, shown>>
  BY <1>2 DEF Chatting, SendQueued, Receive, Put, RecvTimeout, RecvEnd, Lost, listVars,
     queueVars, sockVars, recvVars, uiVars, wireVars, histVars
<1>3. ASSUME Look \/ Take \/ NeedWindow \/ Woken \/ ClearSync \/ Focus
      PROVE  UNCHANGED <<pushed, shown>>
  BY <1>3 DEF Look, Take, NeedWindow, Woken, ClearSync, Focus, listVars, queueVars, sockVars,
     recvVars, uiVars, wireVars, histVars
<1>4. ASSUME Waiting \/ SendPut \/ (\E c \in Conv : CreateWin(c))
      PROVE  UNCHANGED <<pushed, shown>>
  BY <1>4 DEF Waiting, SendPut, CreateWin, listVars, queueVars, sockVars, recvVars, uiVars,
     wireVars, histVars
<1>5. ASSUME Cancel \/ Quit \/ (\E c \in Conv : OpenChat(c) \/ CloseChat(c) \/ SendMsg(c))
             \/ (\E form \in {"ok", "uid", "pass"} : Submit(form))
      PROVE  UNCHANGED <<pushed, shown>>
  BY <1>5 DEF Submit, Cancel, Quit, OpenChat, CloseChat, SendMsg, listVars, queueVars,
     sockVars, recvVars, uiVars, wireVars, histVars
<1>6. ASSUME Serve \/ Offline \/ ServerExit
      PROVE  UNCHANGED <<pushed, shown>>
  BY <1>6 DEF Serve, Offline, ServerExit, listVars, queueVars, sockVars, recvVars, uiVars,
     wireVars, histVars
<1>7. ASSUME UNCHANGED vars
      PROVE  UNCHANGED <<pushed, shown>>
  BY <1>7 DEF listVars, queueVars, sockVars, recvVars, uiVars, wireVars, histVars, vars
<1> QED
  BY <1>1, <1>2, <1>3, <1>4, <1>5, <1>6, <1>7 DEF Next, Socket, Receiver, Callbacks, User

\* Both the window and the socket thread set stk_running.
LEMMA RunFrame ==
  ASSUME [Next]_vars
  PROVE  UNCHANGED <<running, config>> \/ Cancel \/ Waiting \/ Quit \/ Report \/ Lost
         \/ (\E ok \in BOOLEAN : Connect(ok))
         \/ (\E form \in {"ok", "uid", "pass"} : Submit(form))
<1>1. ASSUME SeeRequest \/ ConnectCancelled \/ Connected \/ Ask \/ Answer
      PROVE  UNCHANGED <<running, config>>
  BY <1>1 DEF SeeRequest, ConnectCancelled, Connected, Ask, Answer, CloseSock, listVars,
     queueVars, sockVars, recvVars, uiVars, wireVars, histVars
<1>2. ASSUME Chatting \/ SendQueued \/ Receive \/ Put \/ RecvTimeout \/ RecvEnd
      PROVE  UNCHANGED <<running, config>>
  BY <1>2 DEF Chatting, SendQueued, Receive, Put, RecvTimeout, RecvEnd, listVars, queueVars,
     sockVars, recvVars, uiVars, wireVars, histVars
<1>3. ASSUME Look \/ Take \/ NeedWindow \/ Woken \/ ClearSync \/ Insert \/ Focus
      PROVE  UNCHANGED <<running, config>>
  BY <1>3 DEF Look, Take, NeedWindow, Woken, ClearSync, Insert, Focus, listVars, queueVars,
     sockVars, recvVars, uiVars, wireVars, histVars
<1>4. ASSUME SendPut \/ (\E c \in Conv : CreateWin(c))
      PROVE  UNCHANGED <<running, config>>
  BY <1>4 DEF SendPut, CreateWin, listVars, queueVars, sockVars, recvVars, uiVars, wireVars,
     histVars
<1>5. ASSUME (\E c \in Conv : OpenChat(c) \/ CloseChat(c) \/ SendMsg(c))
      PROVE  UNCHANGED <<running, config>>
  BY <1>5 DEF OpenChat, CloseChat, SendMsg, listVars, queueVars, sockVars, recvVars, uiVars,
     wireVars, histVars
<1>6. ASSUME Serve \/ Offline \/ ServerExit \/ (\E c \in Conv : Push(c))
      PROVE  UNCHANGED <<running, config>>
  BY <1>6 DEF Serve, Offline, ServerExit, Push, listVars, queueVars, sockVars, recvVars,
     uiVars, wireVars, histVars
<1>7. ASSUME UNCHANGED vars
      PROVE  UNCHANGED <<running, config>>
  BY <1>7 DEF listVars, queueVars, sockVars, recvVars, uiVars, wireVars, histVars, vars
<1> QED
  BY <1>1, <1>2, <1>3, <1>4, <1>5, <1>6, <1>7 DEF Next, Socket, Receiver, Callbacks, User

\* The connection is left alone by all actions but these.
LEMMA WireFrame ==
  ASSUME [Next]_vars
  PROVE  UNCHANGED <<link, toSrv, toCli, online, eof>> \/ ConnectCancelled \/ Report \/ Ask
         \/ Answer \/ Receive \/ Serve \/ Offline \/ ServerExit
         \/ (\E ok \in BOOLEAN : Connect(ok)) \/ (\E c \in Conv : Push(c))
<1>1. ASSUME SeeRequest \/ Connected
      PROVE  UNCHANGED <<link, toSrv, toCli, online, eof>>
  BY <1>1 DEF SeeRequest, Connected, listVars, queueVars, sockVars, recvVars, uiVars, wireVars,
     histVars
<1>2. ASSUME Chatting \/ SendQueued \/ Put \/ RecvTimeout \/ RecvEnd \/ Lost
      PROVE  UNCHANGED <<link, toSrv, toCli, online, eof>>
  BY <1>2 DEF Chatting, SendQueued, Put, RecvTimeout, RecvEnd, Lost, listVars, queueVars,
     sockVars, recvVars, uiVars, wireVars, histVars
<1>3. ASSUME Look \/ Take \/ NeedWindow \/ Woken \/ ClearSync \/ Insert \/ Focus
      PROVE  UNCHANGED <<link, toSrv, toCli, online, eof>>
  BY <1>3 DEF Look, Take, NeedWindow, Woken, ClearSync, Insert, Focus, listVars, queueVars,
     sockVars, recvVars, uiVars, wireVars, histVars
<1>4. ASSUME Waiting \/ SendPut \/ (\E c \in Conv : CreateWin(c))
      PROVE  UNCHANGED <<link, toSrv, toCli, online, eof>>
  BY <1>4 DEF Waiting, SendPut, CreateWin, listVars, queueVars, sockVars, recvVars, uiVars,
     wireVars, histVars
<1>5. ASSUME Cancel \/ Quit \/ (\E c \in Conv : OpenChat(c) \/ CloseChat(c) \/ SendMsg(c))
             \/ (\E form \in {"ok", "uid", "pass"} : Submit(form))
      PROVE  UNCHANGED <<link, toSrv, toCli, online, eof>>
  BY <1>5 DEF Submit, Cancel, Quit, OpenChat, CloseChat, SendMsg, listVars, queueVars,
     sockVars, recvVars, uiVars, wireVars, histVars
<1>6. ASSUME UNCHANGED vars
      PROVE  UNCHANGED <<link, toSrv, toCli, online, eof>>
  BY <1>6 DEF listVars, queueVars, sockVars, recvVars, uiVars, wireVars, histVars, vars
<1> QED
  BY <1>1, <1>2, <1>3, <1>4, <1>5, <1>6 DEF Next, Socket, Receiver, Callbacks, User

\* What the socket thread holds is its own.
LEMMA SockFrame ==
  ASSUME [Next]_vars
  PROVE  UNCHANGED <<spc, cred, todo, res, got>> \/ SeeRequest \/ ConnectCancelled \/ Connected
         \/ Report \/ Ask \/ Answer \/ Chatting \/ SendQueued \/ Receive \/ Put \/ RecvTimeout
         \/ RecvEnd \/ Lost \/ (\E ok \in BOOLEAN : Connect(ok))
<1>1. ASSUME Look \/ Take \/ NeedWindow \/ Woken \/ ClearSync \/ Insert \/ Focus
      PROVE  UNCHANGED <<spc, cred, todo, res, got>>
  BY <1>1 DEF Look, Take, NeedWindow, Woken, ClearSync, Insert, Focus, listVars, queueVars,
     sockVars, recvVars, uiVars, wireVars, histVars
<1>2. ASSUME Waiting \/ SendPut \/ (\E c \in Conv : CreateWin(c))
      PROVE  UNCHANGED <<spc, cred, todo, res, got>>
  BY <1>2 DEF Waiting, SendPut, CreateWin, listVars, queueVars, sockVars, recvVars, uiVars,
     wireVars, histVars
<1>3. ASSUME Cancel \/ Quit \/ (\E c \in Conv : OpenChat(c) \/ CloseChat(c) \/ SendMsg(c))
             \/ (\E form \in {"ok", "uid", "pass"} : Submit(form))
      PROVE  UNCHANGED <<spc, cred, todo, res, got>>
  BY <1>3 DEF Submit, Cancel, Quit, OpenChat, CloseChat, SendMsg, listVars, queueVars,
     sockVars, recvVars, uiVars, wireVars, histVars
<1>4. ASSUME Serve \/ Offline \/ ServerExit \/ (\E c \in Conv : Push(c))
      PROVE  UNCHANGED <<spc, cred, todo, res, got>>
  BY <1>4 DEF Serve, Offline, ServerExit, Push, listVars, queueVars, sockVars, recvVars,
     uiVars, wireVars, histVars
<1>5. ASSUME UNCHANGED vars
      PROVE  UNCHANGED <<spc, cred, todo, res, got>>
  BY <1>5 DEF listVars, queueVars, sockVars, recvVars, uiVars, wireVars, histVars, vars
<1> QED
  BY <1>1, <1>2, <1>3, <1>4, <1>5 DEF Next, Socket, Receiver, Callbacks, User

\* The receive thread is started by stk_waiting().
LEMMA RecvFrame ==
  ASSUME [Next]_vars
  PROVE  UNCHANGED <<tpc, msg>> \/ Waiting \/ Look \/ Take \/ NeedWindow \/ Woken \/ ClearSync
         \/ Insert \/ Focus
<1>1. ASSUME SeeRequest \/ ConnectCancelled \/ Connected \/ Report \/ Ask \/ Answer
             \/ (\E ok \in BOOLEAN : Connect(ok))
      PROVE  UNCHANGED <<tpc, msg>>
  BY <1>1 DEF SeeRequest, Connect, ConnectCancelled, Connected, Report, Ask, Answer, CloseSock,
     listVars, queueVars, sockVars, recvVars, uiVars, wireVars, histVars
<1>2. ASSUME Chatting \/ SendQueued \/ Receive \/ Put \/ RecvTimeout \/ RecvEnd \/ Lost
      PROVE  UNCHANGED <<tpc, msg>>
  BY <1>2 DEF Chatting, SendQueued, Receive, Put, RecvTimeout, RecvEnd, Lost, listVars,
     queueVars, sockVars, recvVars, uiVars, wireVars, histVars
<1>3. ASSUME SendPut \/ (\E c \in Conv : CreateWin(c))
      PROVE  UNCHANGED <<tpc, msg>>
  BY <1>3 DEF SendPut, CreateWin, listVars, queueVars, sockVars, recvVars, uiVars, wireVars,
     histVars
<1>4. ASSUME Cancel \/ Quit \/ (\E c \in Conv : OpenChat(c) \/ CloseChat(c) \/ SendMsg(c))
             \/ (\E form \in {"ok", "uid", "pass"} : Submit(form))
      PROVE  UNCHANGED <<tpc, msg>>
  BY <1>4 DEF Submit, Cancel, Quit, OpenChat, CloseChat, SendMsg, listVars, queueVars,
     sockVars, recvVars, uiVars, wireVars, histVars
<1>5. ASSUME Serve \/ Offline \/ ServerExit \/ (\E c \in Conv : Push(c))
      PROVE  UNCHANGED <<tpc, msg>>
  BY <1>5 DEF Serve, Offline, ServerExit, Push, listVars, queueVars, sockVars, recvVars,
     uiVars, wireVars, histVars
<1>6. ASSUME UNCHANGED vars
      PROVE  UNCHANGED <<tpc, msg>>
  BY <1>6 DEF listVars, queueVars, sockVars, recvVars, uiVars, wireVars, histVars, vars
<1> QED
  BY <1>1, <1>2, <1>3, <1>4, <1>5, <1>6 DEF Next, Socket, Receiver, Callbacks, User

\* The queues and their events are shared by all three threads.
LEMMA QueueFrame ==
  ASSUME [Next]_vars
  PROVE  UNCHANGED <<sendevent, sendqueue, uievent, uiqueue, syncevent>> \/ Chatting
         \/ SendQueued \/ Receive \/ Put \/ Look \/ Take \/ ClearSync \/ SendPut
         \/ (\E c \in Conv : CreateWin(c) \/ SendMsg(c))
<1>1. ASSUME SeeRequest \/ ConnectCancelled \/ Connected \/ Report \/ Ask \/ Answer
             \/ (\E ok \in BOOLEAN : Connect(ok))
      PROVE  UNCHANGED <<sendevent, sendqueue, uievent, uiqueue, syncevent>>
  BY <1>1 DEF SeeRequest, Connect, ConnectCancelled, Connected, Report, Ask, Answer, CloseSock,
     listVars, queueVars, sockVars, recvVars, uiVars, wireVars, histVars
<1>2. ASSUME RecvTimeout \/ RecvEnd \/ Lost
      PROVE  UNCHANGED <<sendevent, sendqueue, uievent, uiqueue, syncevent>>
  BY <1>2 DEF RecvTimeout, RecvEnd, Lost, listVars, queueVars, sockVars, recvVars, uiVars,
     wireVars, histVars
<1>3. ASSUME NeedWindow \/ Woken \/ Insert \/ Focus
      PROVE  UNCHANGED <<sendevent, sendqueue, uievent, uiqueue, syncevent>>
  BY <1>3 DEF NeedWindow, Woken, Insert, Focus, listVars, queueVars, sockVars, recvVars,
     uiVars, wireVars, histVars
<1>4. ASSUME Waiting
      PROVE  UNCHANGED <<sendevent, sendqueue, uievent, uiqueue, syncevent>>
  BY <1>4 DEF Waiting, listVars, queueVars, sockVars, recvVars, uiVars, wireVars, histVars
<1>5. ASSUME Cancel \/ Quit \/ (\E c \in Conv : OpenChat(c) \/ CloseChat(c))
             \/ (\E form \in {"ok", "uid", "pass"} : Submit(form))
      PROVE  UNCHANGED <<sendevent, sendqueue, uievent, uiqueue, syncevent>>
  BY <1>5 DEF Submit, Cancel, Quit, OpenChat, CloseChat, listVars, queueVars, sockVars,
     recvVars, uiVars, wireVars, histVars
<1>6. ASSUME Serve \/ Offline \/ ServerExit \/ (\E c \in Conv : Push(c))
      PROVE  UNCHANGED <<sendevent, sendqueue, uievent, uiqueue, syncevent>>
  BY <1>6 DEF Serve, Offline, ServerExit, Push, listVars, queueVars, sockVars, recvVars,
     uiVars, wireVars, histVars
<1>7. ASSUME UNCHANGED vars
      PROVE  UNCHANGED <<sendevent, sendqueue, uievent, uiqueue, syncevent>>
  BY <1>7 DEF listVars, queueVars, sockVars, recvVars, uiVars, wireVars, histVars, vars
<1> QED
  BY <1>1, <1>2, <1>3, <1>4, <1>5, <1>6, <1>7 DEF Next, Socket, Receiver, Callbacks, User

\* The windows belong to the Tkinter thread, but for the callback that the
\* receive thread asks for.
LEMMA UiFrame ==
  ASSUME [Next]_vars
  PROVE  UNCHANGED <<view, put, flush, idle, win>> \/ NeedWindow \/ Waiting \/ SendPut
         \/ Cancel \/ Quit
         \/ (\E c \in Conv : CreateWin(c) \/ OpenChat(c) \/ CloseChat(c) \/ SendMsg(c))
         \/ (\E form \in {"ok", "uid", "pass"} : Submit(form))
<1>1. ASSUME SeeRequest \/ ConnectCancelled \/ Connected \/ Report \/ Ask \/ Answer
             \/ (\E ok \in BOOLEAN : Connect(ok))
      PROVE  UNCHANGED <<view, put, flush, idle, win>>
  BY <1>1 DEF SeeRequest, Connect, ConnectCancelled, Connected, Report, Ask, Answer, CloseSock,
     listVars, queueVars, sockVars, recvVars, uiVars, wireVars, histVars
<1>2. ASSUME Chatting \/ SendQueued \/ Receive \/ Put \/ RecvTimeout \/ RecvEnd \/ Lost
      PROVE  UNCHANGED <<view, put, flush, idle, win>>
  BY <1>2 DEF Chatting, SendQueued, Receive, Put, RecvTimeout, RecvEnd, Lost, listVars,
     queueVars, sockVars, recvVars, uiVars, wireVars, histVars
<1>3. ASSUME Look \/ Take \/ Woken \/ ClearSync \/ Insert \/ Focus
      PROVE  UNCHANGED <<view, put, flush, idle, win>>
  BY <1>3 DEF Look, Take, Woken, ClearSync, Insert, Focus, listVars, queueVars, sockVars,
     recvVars, uiVars, wireVars, histVars
<1>4. ASSUME Serve \/ Offline \/ ServerExit \/ (\E c \in Conv : Push(c))
      PROVE  UNCHANGED <<view, put, flush, idle, win>>
  BY <1>4 DEF Serve, Offline, ServerExit, Push, listVars, queueVars, sockVars, recvVars,
     uiVars, wireVars, histVars
<1>5. ASSUME UNCHANGED vars
      PROVE  UNCHANGED <<view, put, flush, idle, win>>
  BY <1>5 DEF listVars, queueVars, sockVars, recvVars, uiVars, wireVars, histVars, vars
<1> QED
  BY <1>1, <1>2, <1>3, <1>4, <1>5 DEF Next, Socket, Receiver, Callbacks, User

\* The counters of the bounds, and the histories.
LEMMA CountFrame ==
  ASSUME [Next]_vars
  PROVE  UNCHANGED <<asks, sent, exits, early, cancelled, missed>> \/ Cancel \/ ServerExit
         \/ (\E c \in Conv : CreateWin(c) \/ SendMsg(c) \/ Push(c))
         \/ (\E form \in {"ok", "uid", "pass"} : Submit(form))
<1>1. ASSUME SeeRequest \/ ConnectCancelled \/ Connected \/ Report \/ Ask \/ Answer
             \/ (\E ok \in BOOLEAN : Connect(ok))
      PROVE  UNCHANGED <<asks, sent, exits, early, cancelled, missed>>
  BY <1>1 DEF SeeRequest, Connect, ConnectCancelled, Connected, Report, Ask, Answer, CloseSock,
     listVars, queueVars, sockVars, recvVars, uiVars, wireVars, histVars
<1>2. ASSUME Chatting \/ SendQueued \/ Receive \/ Put \/ RecvTimeout \/ RecvEnd \/ Lost
      PROVE  UNCHANGED <<asks, sent, exits, early, cancelled, missed>>
  BY <1>2 DEF Chatting, SendQueued, Receive, Put, RecvTimeout, RecvEnd, Lost, listVars,
     queueVars, sockVars, recvVars, uiVars, wireVars, histVars
<1>3. ASSUME Look \/ Take \/ NeedWindow \/ Woken \/ ClearSync \/ Insert \/ Focus
      PROVE  UNCHANGED <<asks, sent, exits, early, cancelled, missed>>
  BY <1>3 DEF Look, Take, NeedWindow, Woken, ClearSync, Insert, Focus, listVars, queueVars,
     sockVars, recvVars, uiVars, wireVars, histVars
<1>4. ASSUME Waiting \/ SendPut
      PROVE  UNCHANGED <<asks, sent, exits, early, cancelled, missed>>
  BY <1>4 DEF Waiting, SendPut, listVars, queueVars, sockVars, recvVars, uiVars, wireVars,
     histVars
<1>5. ASSUME Quit \/ (\E c \in Conv : OpenChat(c) \/ CloseChat(c))
      PROVE  UNCHANGED <<asks, sent, exits, early, cancelled, missed>>
  BY <1>5 DEF Quit, OpenChat, CloseChat, listVars, queueVars, sockVars, recvVars, uiVars,
     wireVars, histVars
<1>6. ASSUME Serve \/ Offline
      PROVE  UNCHANGED <<asks, sent, exits, early, cancelled, missed>>
  BY <1>6 DEF Serve, Offline, listVars, queueVars, sockVars, recvVars, uiVars, wireVars,
     histVars
<1>7. ASSUME UNCHANGED vars
      PROVE  UNCHANGED <<asks, sent, exits, early, cancelled, missed>>
  BY <1>7 DEF listVars, queueVars, sockVars, recvVars, uiVars, wireVars, histVars, vars
<1> QED
  BY <1>1, <1>2, <1>3, <1>4, <1>5, <1>6, <1>7 DEF Next, Socket, Receiver, Callbacks, User

-----------------------------------------------------------------------------
(* Type correctness                                                        *)

Codes == {"ok", "uid", "pass"}
Results == Failures \cup {"CONNECTED"}

\* The requests of a login, a message, and the packets that may arrive.  A list
\* of users that is read as one of groups makes requests about users as groups.
Requests ==
  ({"req", "login", "self", "users", "groups"} \X {None}) \cup ({"info"} \X Uids) \cup ({"ginfo"} \X Conv)
Messages == {m \in Conv \X Nat : m[2] \in 1 .. MaxPush[m[1]]}
ToClient ==
  ({"req", "self"} \X {None}) \cup ({"login"} \X (Codes \cup {"again"})) \cup ({"info"} \X Uids)
    \cup ({"users"} \X Seq(Uids)) \cup ({"groups"} \X Seq(Gids)) \cup ({"ginfo"} \X Gids)
    \cup ({"msg"} \X Messages)

\* TypeOK in parts, with what they need to be inductive.
ListTypes == buddylist \in Seq(Uids) /\ grouplist \in Seq(Gids)
QueueTypes ==
  /\ sendevent \in BOOLEAN /\ uievent \in BOOLEAN /\ syncevent \in BOOLEAN
  /\ sendqueue \in Seq(Conv) /\ uiqueue \in Seq(Messages)

PCs == {"top", "connect", "refused", "made", "ask", "answer", "report",
        "top2", "drain", "recv", "put", "lost", "ended", "dead"}
SockTypes ==
  /\ spc \in PCs /\ todo \in Seq(Requests)
  /\ res \in Results \cup {None} /\ got \in Messages \cup {None}
  /\ spc \in {"ask", "answer"} => todo # <<>>
  /\ spc = "report" => res \in Results
  /\ spc = "put" => got \in Messages

Shows == {"show", "wait", "woken", "insert"}
RecvTypes ==
  /\ tpc \in {"none", "idle", "drain", "focus", "ended", "dead"} \cup Shows
  /\ msg \in Messages \cup {None} /\ (tpc \in Shows \cup {"focus"} => msg \in Messages)
UiTypes ==
  /\ view \in {"form", "wait", "main", "gone"} /\ put \in Conv \cup {None} /\ flush \in BOOLEAN
  /\ idle \in Seq(Conv \cup {"waiting"}) /\ win \subseteq Conv
  /\ flush => view # "gone"
WireTypes ==
  /\ link \in {"none", "up", "closed"} /\ online \in BOOLEAN /\ eof \in BOOLEAN
  /\ toSrv \in Seq(Requests) /\ toCli \in Seq(ToClient)
CountTypes ==
  /\ asks \in 0 .. Len(Forms) /\ sent \in 0 .. MaxSend /\ exits \in 0 .. MaxExit
  /\ early \in BOOLEAN /\ cancelled \in BOOLEAN /\ missed \in BOOLEAN
MailTypes ==
  /\ pushed \in [Conv -> Nat] /\ shown \in [Conv -> Seq(Nat)]
  /\ \A c \in Conv : pushed[c] \in 0 .. MaxPush[c]

\* The form has been submitted before it is read, and read before the socket is
\* opened.
Taken ==
  /\ running \in States /\ config \in Codes \cup {None} /\ cred \in Codes \cup {None}
  /\ running = "CONNECTE_REQ" \/ spc = "connect" => config \in Codes
  /\ link = "up" => cred \in Codes

TypeInv ==
  /\ ListTypes /\ QueueTypes /\ SockTypes /\ RecvTypes /\ UiTypes /\ WireTypes /\ CountTypes
  /\ MailTypes /\ Taken

LEMMA InitTypeInv == Init => TypeInv
<1> SUFFICES ASSUME Init
             PROVE  TypeInv
  OBVIOUS
<1>1. /\ \A S : <<>> \in Seq(S)
      /\ \A n \in Nat : 0 \in 0 .. n
      /\ Len(Forms) \in Nat /\ MaxSend \in Nat /\ MaxExit \in Nat
      /\ \A c \in Conv : MaxPush[c] \in Nat
  BY BoundsAssumption
<1>2. ListTypes /\ QueueTypes
  BY <1>1 DEF Init, ListTypes, QueueTypes
<1>3. SockTypes
  <2>1. todo \in Seq(Requests)
    BY <1>1 DEF Init
  <2> QED
    BY <2>1 DEF Init, SockTypes, PCs
<1>4. RecvTypes /\ UiTypes
  <2>1. idle \in Seq(Conv \cup {"waiting"})
    BY <1>1 DEF Init
  <2> QED
    BY <2>1 DEF Init, RecvTypes, UiTypes, Shows
<1>5. WireTypes
  <2>1. toSrv \in Seq(Requests) /\ toCli \in Seq(ToClient)
    BY <1>1 DEF Init
  <2> QED
    BY <2>1 DEF Init, WireTypes
<1>6. CountTypes /\ MailTypes
  BY <1>1 DEF Init, CountTypes, MailTypes
<1>7. Taken
  BY DEF Init, Taken, States
<1> QED
  BY <1>2, <1>3, <1>4, <1>5, <1>6, <1>7 DEF TypeInv

\* What a request, and what a packet holds.
LEMMA RequestType ==
  ASSUME NEW r \in Requests
  PROVE  /\ r[1] \in {"req", "login", "self", "users", "groups", "info", "ginfo"}
         /\ r[1] = "info" => r[2] \in Uids
         /\ r[1] = "ginfo" => r[2] \in Conv
         /\ r[1] \notin {"info", "ginfo"} => r[2] = None
         /\ r = <<r[1], r[2]>>
BY DEF Requests

LEMMA PacketType ==
  ASSUME NEW p \in ToClient
  PROVE  /\ p[1] = "login" => p[2] \in Codes \cup {"again"}
         /\ p[1] = "info" => p[2] \in Uids
         /\ p[1] = "users" => p[2] \in Seq(Uids)
         /\ p[1] = "groups" => p[2] \in Seq(Gids)
         /\ p[1] = "ginfo" => p[2] \in Gids
         /\ p[1] = "msg" => p[2] \in Messages
BY DEF ToClient

LEMMA MessageType ==
  ASSUME NEW m \in Messages
  PROVE  m[1] \in Conv /\ m[2] \in Nat \ {0} /\ m[2] \in 1 .. MaxPush[m[1]]
<1>1. \A c \in Conv : MaxPush[c] \in Nat
  BY BoundsAssumption
<1> QED
  BY <1>1 DEF Messages

LEMMA StepCountTypes ==
  ASSUME CountTypes, [Next]_vars
  PROVE  CountTypes'
<1>0. Len(Forms) \in Nat /\ MaxSend \in Nat /\ MaxExit \in Nat
  BY BoundsAssumption
<1>1. CASE UNCHANGED <<asks, sent, exits, early, cancelled, missed>>
  BY <1>1 DEF CountTypes
<1>2. ASSUME NEW form \in {"ok", "uid", "pass"}, Submit(form)
      PROVE  CountTypes'
  BY <1>0, <1>2 DEF Submit, CountTypes
<1>3. CASE Cancel
  <2>1. cancelled' \in BOOLEAN
    BY <1>3 DEF Cancel, CountTypes
  <2> QED
    BY <1>3, <2>1 DEF Cancel, CountTypes
<1>4. ASSUME NEW c \in Conv, CreateWin(c) \/ SendMsg(c) \/ Push(c)
      PROVE  CountTypes'
  <2>1. early' \in BOOLEAN /\ missed' \in BOOLEAN
    BY <1>4 DEF CreateWin, SendMsg, Push, CountTypes
  <2> QED
    BY <1>0, <1>4, <2>1 DEF CreateWin, SendMsg, Push, CountTypes
<1>5. CASE ServerExit
  BY <1>0, <1>5 DEF ServerExit, CountTypes
<1> QED
  BY <1>1, <1>2, <1>3, <1>4, <1>5, CountFrame

\* The packet that recv() returns first, and those that remain.
LEMMA ReceivesType ==
  ASSUME WireTypes, NEW n \in 1 .. Len(toCli), Receives(n)
  PROVE  /\ toCli # <<>> /\ Head(toCli) \in ToClient /\ 1 \in DOMAIN toCli /\ Head(toCli) = toCli[1]
         /\ toCli' \in Seq(ToClient)
         /\ \A i \in DOMAIN toCli' : i + n \in DOMAIN toCli /\ i \in Nat /\ toCli'[i] = toCli[i + n]
<1>1. toCli \in Seq(ToClient) /\ toCli' = SubSeq(toCli, n + 1, Len(toCli))
  BY DEF WireTypes, Receives
<1>2. toCli # <<>> /\ Head(toCli) \in ToClient /\ 1 \in DOMAIN toCli /\ Head(toCli) = toCli[1]
  BY <1>1
<1>3. toCli' \in Seq(ToClient) /\ \A i \in DOMAIN toCli' : i + n \in DOMAIN toCli /\ toCli'[i] = toCli[i + n]
  BY <1>1, RestElements
<1>4. \A i \in DOMAIN toCli' : i \in Nat
  BY <1>3
<1> QED
  BY <1>2, <1>3, <1>4

\* What the socket thread holds after an answer: the requests that remain, a
\* result, or nothing any more.
Goes ==
  /\ todo' \in Seq(Requests) /\ res' \in Results \cup {None}
  /\ spc' \in {"ask", "report", "dead"}
  /\ spc' = "ask" => todo' # <<>>
  /\ spc' = "report" => res' \in Results

LEMMA GoOnType ==
  ASSUME NEW rest \in Seq(Requests), GoOn(rest), res \in Results \cup {None}
  PROVE  Goes
BY DEF GoOn, Goes, Results

LEMMA RaisesType ==
  ASSUME SockTypes, Raises
  PROVE  Goes /\ UNCHANGED listVars
BY DEF SockTypes, Raises, Goes, listVars

\* The requests that answers lead to.
LEMMA RequestLists ==
  /\ \A cmd \in {"req", "login", "self", "users", "groups"} : <<<<cmd, None>>>> \in Seq(Requests)
  /\ \A list \in Seq(Uids) : Profiles(list) \o <<<<"groups", None>>>> \in Seq(Requests)
  /\ \A list \in Seq(Conv) : [i \in DOMAIN list |-> <<"ginfo", list[i]>>] \in Seq(Requests)
<1>1. ASSUME NEW cmd \in {"req", "login", "self", "users", "groups"}
      PROVE  <<<<cmd, None>>>> \in Seq(Requests)
  <2>1. <<cmd, None>> \in Requests
    BY DEF Requests
  <2> QED
    BY <2>1
<1>2. ASSUME NEW list \in Seq(Uids)
      PROVE  Profiles(list) \o <<<<"groups", None>>>> \in Seq(Requests)
  <2> DEFINE p == Profiles(list)
             g == <<<<"groups", None>>>>
  <2>1. p = [i \in 1 .. Len(list) |-> <<"info", list[i]>>] /\ Len(list) \in Nat
    BY DEF Profiles
  <2>2. \A i \in 1 .. Len(list) : <<"info", list[i]>> \in Requests
    BY DEF Requests
  <2>3. p \in Seq(Requests)
    BY <2>1, <2>2
  <2>4. g \in Seq(Requests)
    BY <1>1
  <2> HIDE DEF p, g
  <2>5. p \o g \in Seq(Requests)
    BY <2>3, <2>4, ConcatElements
  <2> QED
    BY <2>5 DEF p, g
<1>3. ASSUME NEW list \in Seq(Conv)
      PROVE  [i \in DOMAIN list |-> <<"ginfo", list[i]>>] \in Seq(Requests)
  <2>1. DOMAIN list = 1 .. Len(list) /\ Len(list) \in Nat
    OBVIOUS
  <2>2. \A i \in DOMAIN list : <<"ginfo", list[i]>> \in Requests
    BY DEF Requests
  <2> QED
    BY <2>1, <2>2
<1> QED
  BY <1>1, <1>2, <1>3

LEMMA ConvLists ==
  /\ \A list \in Seq(Uids) : list \in Seq(Conv)
  /\ \A list \in Seq(Gids) : list \in Seq(Conv)
BY DEF Conv

\* No answer: the login fails, but for the members of a group.
LEMMA FailsType ==
  ASSUME SockTypes, todo # <<>>, Fails
  PROVE  Goes /\ UNCHANGED listVars
<1>1. todo \in Seq(Requests) /\ Tail(todo) \in Seq(Requests) /\ res \in Results \cup {None}
  BY DEF SockTypes
<1>2. CASE Cmd = "ginfo"
  BY <1>1, <1>2, GoOnType DEF Fails
<1>3. CASE Cmd # "ginfo"
  BY <1>1, <1>3 DEF Fails, Ends, Goes, Results, Failures
<1> QED
  BY <1>2, <1>3

\* A packet that is not the answer.
LEMMA MisreadType ==
  ASSUME SockTypes, todo # <<>>, Head(toCli) \in ToClient, NEW n, Misread(n)
  PROVE  Goes /\ UNCHANGED listVars
<1>1. todo \in Seq(Requests) /\ Tail(todo) \in Seq(Requests) /\ res \in Results \cup {None}
  BY DEF SockTypes
<1>2. <<>> \in Seq(Requests)
  OBVIOUS
<1>3. CASE Raises
  BY <1>3, RaisesType
<1>4. CASE GoOn(<<<<"groups", None>>>>) /\ UNCHANGED listVars
  BY <1>1, <1>4, RequestLists, GoOnType
<1>5. CASE GoOn(<<>>) /\ UNCHANGED listVars
  BY <1>1, <1>2, <1>5, GoOnType
<1>6. CASE GoOn(Tail(todo)) /\ UNCHANGED listVars
  BY <1>1, <1>6, GoOnType
<1>7. ASSUME Head(toCli)[1] = "users", NEW uids, uids = Head(toCli)[2],
             GoOn([i \in DOMAIN uids |-> <<"ginfo", uids[i]>>])
      PROVE  Goes
  <2>1. uids \in Seq(Conv)
    BY <1>7, PacketType, ConvLists
  <2>2. [i \in DOMAIN uids |-> <<"ginfo", uids[i]>>] \in Seq(Requests)
    BY <2>1, RequestLists
  <2> QED
    BY <1>1, <1>7, <2>2, GoOnType
<1> QED
  BY <1>3, <1>4, <1>5, <1>6, <1>7 DEF Misread

\* The answer to the present request.
LEMMA AcceptType ==
  ASSUME SockTypes, ListTypes, todo # <<>>, NEW p \in ToClient, p[1] = Cmd, Accept(p[2])
  PROVE  Goes /\ ListTypes'
<1> DEFINE body == p[2]
           Same == UNCHANGED listVars
<1>0. /\ todo \in Seq(Requests) /\ Head(todo) \in Requests /\ Tail(todo) \in Seq(Requests)
      /\ res \in Results \cup {None}
  BY DEF SockTypes
<1>1. Cmd \in {"req", "login", "self", "users", "groups", "info", "ginfo"}
  BY <1>0, RequestType DEF Cmd
<1>2. ASSUME Same
      PROVE  ListTypes'
  BY <1>2 DEF listVars, ListTypes
<1>3. CASE Cmd = "req"
  <2>1. GoOn(<<<<"login", None>>>>) /\ Same
    BY <1>3 DEF Accept
  <2> QED
    BY <1>0, <1>2, <2>1, RequestLists, GoOnType
<1>4. CASE Cmd = "login"
  <2>1. Decide(body) /\ Same /\ body \in Codes \cup {"again"}
    BY <1>4, PacketType DEF Accept
  <2>2. CASE body = "ok"
    <3>1. GoOn(<<<<"self", None>>>>)
      BY <2>1, <2>2 DEF Decide
    <3> QED
      BY <1>0, <1>2, <2>1, <3>1, RequestLists, GoOnType
  <2>3. CASE body # "ok"
    <3>1. spc' = "report" /\ res' \in Results /\ todo' = todo
      BY <2>1, <2>3 DEF Decide, Ends, Codes, Results, Failures
    <3> QED
      BY <1>0, <1>2, <2>1, <3>1 DEF Goes
  <2> QED
    BY <2>2, <2>3
<1>5. CASE Cmd = "self"
  <2>1. GoOn(<<<<"users", None>>>>) /\ Same
    BY <1>5 DEF Accept
  <2> QED
    BY <1>0, <1>2, <2>1, RequestLists, GoOnType
<1>6. CASE Cmd = "users"
  <2>1. GoOn(Profiles(body) \o <<<<"groups", None>>>>) /\ Same /\ body \in Seq(Uids)
    BY <1>6, PacketType DEF Accept
  <2>2. Profiles(body) \o <<<<"groups", None>>>> \in Seq(Requests)
    BY <2>1, RequestLists
  <2> QED
    BY <1>0, <1>2, <2>1, <2>2, GoOnType
<1>7. CASE Cmd = "info"
  <2>1. buddylist' = Append(buddylist, body) /\ GoOn(Tail(todo)) /\ grouplist' = grouplist /\ body \in Uids
    BY <1>7, PacketType DEF Accept
  <2>2. ListTypes'
    BY <2>1 DEF ListTypes
  <2> QED
    BY <1>0, <2>1, <2>2, GoOnType
<1>8. CASE Cmd = "groups"
  <2>1. GoOn([i \in DOMAIN body |-> <<"ginfo", body[i]>>]) /\ Same /\ body \in Seq(Gids)
    BY <1>8, PacketType DEF Accept
  <2>2. [i \in DOMAIN body |-> <<"ginfo", body[i]>>] \in Seq(Requests)
    BY <2>1, ConvLists, RequestLists
  <2> QED
    BY <1>0, <1>2, <2>1, <2>2, GoOnType
<1>9. CASE Cmd = "ginfo"
  <2>1. /\ grouplist' = (IF body = Head(todo)[2] THEN Append(grouplist, body) ELSE grouplist)
        /\ GoOn(Tail(todo)) /\ buddylist' = buddylist /\ body \in Gids
    BY <1>9, PacketType DEF Accept
  <2>2. ListTypes'
    BY <2>1 DEF ListTypes
  <2> QED
    BY <1>0, <2>1, <2>2, GoOnType
<1> QED
  BY <1>1, <1>3, <1>4, <1>5, <1>6, <1>7, <1>8, <1>9

\* What is left on the wire is what was there, less the first packets.
Shorter == \E n \in Nat : \A i \in DOMAIN toCli' :
             i \in Nat /\ i + n \in DOMAIN toCli /\ toCli'[i] = toCli[i + n]

LEMMA ShorterSame ==
  ASSUME WireTypes, toCli' = toCli
  PROVE  Shorter
<1>1. 0 \in Nat /\ \A i \in DOMAIN toCli' : i \in Nat /\ i + 0 \in DOMAIN toCli /\ toCli'[i] = toCli[i + 0]
  BY DEF WireTypes
<1> QED
  BY <1>1 DEF Shorter

\* An answer, a timeout, or the end of the connection.
LEMMA AnswerStep ==
  ASSUME TypeInv, Answer
  PROVE  /\ Goes /\ ListTypes' /\ toCli' \in Seq(ToClient) /\ Shorter
         /\ spc = "answer" /\ UNCHANGED <<got, running, config, cred, link, toSrv, online, eof>>
<1>1. /\ SockTypes /\ ListTypes /\ WireTypes /\ todo # <<>>
      /\ spc = "answer" /\ UNCHANGED <<got, running, config, cred, link, toSrv, online, eof>>
  BY DEF TypeInv, SockTypes, Answer
<1>2. ASSUME UNCHANGED listVars
      PROVE  ListTypes'
  BY <1>1, <1>2 DEF listVars, ListTypes
<1>3. CASE toCli = <<>> /\ Fails /\ UNCHANGED toCli
  BY <1>1, <1>2, <1>3, FailsType, ShorterSame DEF WireTypes
<1>4. CASE AtEnd /\ Raises /\ UNCHANGED toCli
  BY <1>1, <1>2, <1>4, RaisesType, ShorterSame DEF WireTypes
<1>5. ASSUME NEW n \in 1 .. Len(toCli), Receives(n),
             IF n > 1 /\ Cmd \in Exact THEN Raises
             ELSE IF Head(toCli)[1] = Cmd THEN Accept(Head(toCli)[2]) ELSE Misread(n)
      PROVE  Goes /\ ListTypes' /\ toCli' \in Seq(ToClient) /\ Shorter
  <2>1. /\ Head(toCli) \in ToClient /\ toCli' \in Seq(ToClient) /\ n \in Nat
        /\ \A i \in DOMAIN toCli' : i + n \in DOMAIN toCli /\ i \in Nat /\ toCli'[i] = toCli[i + n]
    BY <1>1, <1>5, ReceivesType
  <2>2. Shorter
    BY <2>1 DEF Shorter
  <2>3. CASE Raises
    BY <1>1, <1>2, <2>1, <2>2, <2>3, RaisesType
  <2>4. CASE Head(toCli)[1] = Cmd /\ Accept(Head(toCli)[2])
    BY <1>1, <2>1, <2>2, <2>4, AcceptType
  <2>5. CASE Misread(n)
    BY <1>1, <1>2, <2>1, <2>2, <2>5, MisreadType
  <2> QED
    BY <1>5, <2>3, <2>4, <2>5
<1> QED
  BY <1>1, <1>3, <1>4, <1>5 DEF Answer

LEMMA StepListTypes ==
  ASSUME TypeInv, [Next]_vars
  PROVE  ListTypes'
<1>1. CASE UNCHANGED <<buddylist, grouplist>>
  BY <1>1 DEF TypeInv, ListTypes
<1> QED
  BY <1>1, AnswerStep, ListFrame

LEMMA StepSockTypes ==
  ASSUME TypeInv, [Next]_vars
  PROVE  SockTypes'
<1>0. SockTypes /\ WireTypes
  BY DEF TypeInv
<1>1. CASE UNCHANGED <<spc, cred, todo, res, got>>
  BY <1>0, <1>1 DEF SockTypes
<1>2. CASE SeeRequest \/ ConnectCancelled \/ Report \/ Chatting \/ SendQueued \/ RecvTimeout
           \/ RecvEnd \/ Lost \/ (\E ok \in BOOLEAN : Connect(ok))
  <2>1. /\ spc' \in PCs \ {"ask", "answer", "report", "put"} /\ UNCHANGED <<todo, res, got>>
        \/ UNCHANGED <<spc, todo, res, got>>
    BY <1>2 DEF SeeRequest, ConnectCancelled, Report, Chatting, SendQueued, RecvTimeout, RecvEnd,
       Lost, Connect, IsAt, PCs
  <2> QED
    BY <1>0, <2>1 DEF SockTypes, PCs
<1>3. CASE Ask \/ Put
  BY <1>0, <1>3 DEF Ask, Put, IsAt, SockTypes, PCs
<1>4. CASE Connected
  <2>1. /\ got' = got /\ spc' \in {"ask", "report"}
        /\ (todo' = todo /\ spc' # "ask") \/ todo' = <<<<"req", None>>>>
        /\ (res' = res /\ spc' # "report") \/ res' = "CONNECTE_ERR"
    BY <1>4 DEF Connected, IsAt
  <2>2. <<<<"req", None>>>> \in Seq(Requests) /\ <<<<"req", None>>>> # <<>>
    BY RequestLists
  <2> QED
    BY <1>0, <2>1, <2>2 DEF SockTypes, PCs, Results, Failures
<1>5. CASE Answer
  BY <1>0, <1>5, AnswerStep DEF SockTypes, Goes, PCs
<1>6. CASE Receive
  <2>1. PICK n \in 1 .. Len(toCli) : Receives(n)
    BY <1>6 DEF Receive
  <2>2. Head(toCli) \in ToClient
    BY <1>0, <2>1, ReceivesType
  <2>3. /\ UNCHANGED <<todo, res>> /\ spc' \in {"dead", "top2", "put"}
        /\ \/ spc' # "put" /\ got' = got
           \/ Head(toCli)[1] = "msg" /\ got' = Head(toCli)[2]
    BY <1>6 DEF Receive
  <2> QED
    BY <1>0, <2>2, <2>3, PacketType DEF SockTypes, PCs
<1> QED
  BY <1>1, <1>2, <1>3, <1>4, <1>5, <1>6, SockFrame

LEMMA StepQueueTypes ==
  ASSUME TypeInv, [Next]_vars
  PROVE  QueueTypes'
<1>0. QueueTypes /\ SockTypes
  BY DEF TypeInv
<1>1. CASE UNCHANGED <<sendevent, sendqueue, uievent, uiqueue, syncevent>>
  BY <1>0, <1>1 DEF QueueTypes
<1>2. CASE Chatting \/ Look \/ ClearSync
  BY <1>0, <1>2 DEF Chatting, Look, ClearSync, QueueTypes
<1>3. CASE SendQueued \/ Take
  <2>1. /\ UNCHANGED <<sendevent, uievent, syncevent>>
        /\ sendqueue' = sendqueue \/ (sendqueue # <<>> /\ sendqueue' = Tail(sendqueue))
        /\ uiqueue' = uiqueue \/ (uiqueue # <<>> /\ uiqueue' = Tail(uiqueue))
    BY <1>3 DEF SendQueued, Take
  <2> QED
    BY <1>0, <2>1, TailElements DEF QueueTypes
<1>4. CASE Receive
  BY <1>0, <1>4 DEF Receive, QueueTypes
<1>5. CASE Put
  BY <1>0, <1>5 DEF Put, IsAt, QueueTypes, SockTypes
<1>6. CASE SendPut
  <2>1. put \in Conv /\ sendqueue' = Append(sendqueue, put) /\ UNCHANGED <<sendevent, uievent, uiqueue, syncevent>>
    BY <1>6 DEF SendPut, TypeInv, UiTypes
  <2> QED
    BY <1>0, <2>1 DEF QueueTypes
<1>7. ASSUME NEW c \in Conv, CreateWin(c) \/ SendMsg(c)
      PROVE  QueueTypes'
  <2>1. syncevent' \in BOOLEAN /\ sendevent' \in BOOLEAN /\ UNCHANGED <<sendqueue, uievent, uiqueue>>
    BY <1>0, <1>7 DEF CreateWin, SendMsg, QueueTypes
  <2> QED
    BY <1>0, <2>1 DEF QueueTypes
<1> QED
  BY <1>1, <1>2, <1>3, <1>4, <1>5, <1>6, <1>7, QueueFrame

LEMMA StepRecvTypes ==
  ASSUME TypeInv, [Next]_vars
  PROVE  RecvTypes'
<1>0. RecvTypes /\ uiqueue \in Seq(Messages)
  BY DEF TypeInv, QueueTypes
<1>1. CASE UNCHANGED <<tpc, msg>>
  BY <1>0, <1>1 DEF RecvTypes
<1>2. CASE Waiting \/ Look \/ Insert
  <2>1. msg' = msg /\ (tpc' = tpc \/ tpc' \in {"idle", "ended", "drain", "dead"} \/ (tpc = "insert" /\ tpc' = "focus"))
    BY <1>2 DEF Waiting, Look, Insert, RecvAt
  <2> QED
    BY <1>0, <2>1 DEF RecvTypes, Shows
<1>3. CASE NeedWindow \/ Woken \/ ClearSync \/ Focus
  BY <1>0, <1>3 DEF NeedWindow, Woken, ClearSync, Focus, RecvAt, RecvTypes, Shows
<1>4. CASE Take
  <2>1. uiqueue # <<>> => Head(uiqueue) \in Messages
    BY <1>0
  <2> QED
    BY <1>0, <1>4, <2>1 DEF Take, RecvTypes, Shows
<1> QED
  BY <1>1, <1>2, <1>3, <1>4, RecvFrame

LEMMA StepUiTypes ==
  ASSUME TypeInv, [Next]_vars
  PROVE  UiTypes'
<1>0. UiTypes /\ RecvTypes /\ \A m \in Messages : m[1] \in Conv
  BY MessageType DEF TypeInv
<1>1. CASE UNCHANGED <<view, put, flush, idle, win>>
  BY <1>0, <1>1 DEF UiTypes
<1>2. ASSUME NEW form \in {"ok", "uid", "pass"}, Submit(form)
      PROVE  UiTypes'
  BY <1>0, <1>2 DEF Submit, UiTypes
<1>3. CASE Cancel
  <2>1. flush' \in BOOLEAN
    BY <1>3 DEF Cancel
  <2> QED
    BY <1>0, <1>3, <2>1 DEF Cancel, UiTypes
<1>4. CASE Waiting
  <2>1. /\ idle # <<>> /\ view # "gone" /\ UNCHANGED <<put, win>> /\ view' \in {view, "main", "form"}
        /\ idle' \in {Tail(idle), Append(Tail(idle), "waiting")}
    BY <1>0, <1>4 DEF Waiting, Loops, UiTypes
  <2>2. flush' \in BOOLEAN
    BY <1>4 DEF Waiting
  <2>3. idle' \in Seq(Conv \cup {"waiting"})
    <3>1. Tail(idle) \in Seq(Conv \cup {"waiting"})
      BY <1>0, <2>1 DEF UiTypes
    <3>2. "waiting" \in Conv \cup {"waiting"}
      OBVIOUS
    <3> DEFINE t == Tail(idle)
               e == "waiting"
    <3>3. idle' \in {t, Append(t, e)} /\ t \in Seq(Conv \cup {"waiting"}) /\ e \in Conv \cup {"waiting"}
      BY <2>1, <3>1, <3>2
    <3> HIDE DEF t, e
    <3> QED
      BY <3>3, AppendElements
  <2> QED
    BY <1>0, <2>1, <2>2, <2>3 DEF UiTypes
<1>5. CASE Quit
  <2>1. <<>> \in Seq(Conv \cup {"waiting"})
    OBVIOUS
  <2> QED
    BY <1>0, <1>5, <2>1 DEF Quit, Loops, UiTypes
<1>6. ASSUME NEW c \in Conv, OpenChat(c) \/ CloseChat(c) \/ SendMsg(c)
      PROVE  UiTypes'
  BY <1>0, <1>6 DEF OpenChat, CloseChat, SendMsg, UiTypes
<1>7. ASSUME NEW c \in Conv, CreateWin(c)
      PROVE  UiTypes'
  <2>1. idle # <<>> /\ idle' = Tail(idle) /\ win' = win \cup {c} /\ UNCHANGED <<view, put, flush>>
    BY <1>7 DEF CreateWin
  <2> QED
    BY <1>0, <2>1, TailElements DEF UiTypes
<1>8. CASE SendPut
  BY <1>0, <1>8 DEF SendPut, UiTypes
<1>9. CASE NeedWindow
  <2>1. /\ UNCHANGED <<view, put, flush, win>> /\ msg[1] \in Conv
        /\ idle' \in {idle, Append(idle, msg[1])}
    BY <1>0, <1>9 DEF NeedWindow, RecvTypes, Shows
  <2> DEFINE e == msg[1]
  <2>2. e \in Conv \cup {"waiting"} /\ idle' \in {idle, Append(idle, e)}
    BY <2>1
  <2> HIDE DEF e
  <2> QED
    BY <1>0, <2>1, <2>2, AppendElements DEF UiTypes
<1> QED
  BY <1>1, <1>2, <1>3, <1>4, <1>5, <1>6, <1>7, <1>8, <1>9, UiFrame

\* The server answers a request with a packet that may arrive.
LEMMA BodyType ==
  ASSUME TypeInv, NEW r \in Requests, link = "up", ~(r[1] = "ginfo" /\ r[2] \notin Gids)
  PROVE  <<r[1], Body(r)>> \in ToClient
<1> DEFINE b == Body(r)
<1>1. /\ r[1] \in {"req", "login", "self", "users", "groups", "info", "ginfo"}
      /\ r[1] = "info" => r[2] \in Uids
      /\ r[1] = "ginfo" => r[2] \in Gids
      /\ r[1] \notin {"info", "ginfo"} => r[2] = None
  BY RequestType
<1>2. cred \in Codes
  BY DEF TypeInv, Taken
<1>3. CASE r[1] = "login"
  <2>1. b \in Codes \cup {"again"}
    BY <1>2, <1>3 DEF Body
  <2> HIDE DEF b
  <2> QED
    BY <1>3, <2>1 DEF ToClient, b
<1>4. CASE r[1] = "users"
  <2>1. b \in Seq(Uids)
    BY <1>4, NamesAssumption DEF Body
  <2> HIDE DEF b
  <2> QED
    BY <1>4, <2>1 DEF ToClient, b
<1>5. CASE r[1] = "groups"
  <2>1. b \in Seq(Gids)
    BY <1>5, NamesAssumption DEF Body
  <2> HIDE DEF b
  <2> QED
    BY <1>5, <2>1 DEF ToClient, b
<1>6. CASE r[1] \in {"req", "self", "info", "ginfo"}
  <2>1. b = r[2]
    BY <1>6 DEF Body
  <2> HIDE DEF b
  <2> QED
    BY <1>1, <1>6, <2>1 DEF ToClient, b
<1> QED
  BY <1>1, <1>3, <1>4, <1>5, <1>6

LEMMA StepWireTypes ==
  ASSUME TypeInv, [Next]_vars
  PROVE  WireTypes'
<1>0. WireTypes /\ SockTypes /\ MailTypes /\ \A S : <<>> \in Seq(S)
  BY DEF TypeInv
<1>1. CASE UNCHANGED <<link, toSrv, toCli, online, eof>>
  BY <1>0, <1>1 DEF WireTypes
<1>2. CASE ConnectCancelled \/ Report \/ \E ok \in BOOLEAN : Connect(ok)
  <2>1. /\ link' \in {link, "up", "none"} /\ online' = online
        /\ (toSrv' = <<>> /\ toCli' = <<>>) \/ UNCHANGED <<toSrv, toCli>>
    BY <1>2 DEF ConnectCancelled, Report, Connect, CloseSock
  <2>2. eof' \in BOOLEAN
    BY <1>0, <1>2 DEF ConnectCancelled, Report, Connect, CloseSock, WireTypes
  <2>3. toSrv' \in Seq(Requests) /\ toCli' \in Seq(ToClient)
    BY <1>0, <2>1 DEF WireTypes
  <2> QED
    BY <1>0, <2>1, <2>2, <2>3 DEF WireTypes
<1>3. CASE Ask
  <2>1. Head(todo) \in Requests /\ toSrv' \in {toSrv, Append(toSrv, Head(todo))}
        /\ UNCHANGED <<link, toCli, online, eof>>
    BY <1>0, <1>3 DEF Ask, IsAt, SockTypes
  <2>2. toSrv' \in Seq(Requests)
    BY <1>0, <2>1, AppendElements DEF WireTypes
  <2> QED
    BY <1>0, <2>1, <2>2 DEF WireTypes
<1>4. CASE Answer
  BY <1>0, <1>4, AnswerStep DEF WireTypes
<1>5. CASE Receive
  <2>1. PICK n \in 1 .. Len(toCli) : Receives(n)
    BY <1>5 DEF Receive
  <2>2. toCli' \in Seq(ToClient) /\ UNCHANGED <<link, toSrv, online, eof>>
    BY <1>0, <1>5, <2>1, ReceivesType DEF Receive
  <2> QED
    BY <1>0, <2>2 DEF WireTypes
<1>6. CASE Serve
  <2> DEFINE r == Head(toSrv)
             dies == r[1] = "ginfo" /\ r[2] \notin Gids
             p == <<r[1], Body(r)>>
  <2>1. link = "up" /\ toSrv # <<>> /\ toSrv' = Tail(toSrv) /\ eof' = eof
    BY <1>6 DEF Serve, uiVars
  <2>2. r \in Requests /\ Tail(toSrv) \in Seq(Requests)
    BY <1>0, <2>1 DEF WireTypes
  <2>3. CASE dies
    <3>1. link' = "closed" /\ online' = FALSE /\ toCli' = toCli
      BY <1>6, <2>3 DEF Serve
    <3> QED
      BY <1>0, <2>1, <2>2, <3>1 DEF WireTypes
  <2>4. CASE ~dies
    <3>1. toCli' = Append(toCli, p) /\ link' = link /\ online' = (online \/ (r[1] = "login" /\ cred = "ok"))
      BY <1>6, <2>4 DEF Serve
    <3>2. p \in ToClient
      BY <2>1, <2>2, <2>4, BodyType
    <3>3. online' \in BOOLEAN
      BY <1>0, <3>1 DEF WireTypes
    <3> HIDE DEF p, r
    <3>4. toCli' \in Seq(ToClient)
      BY <1>0, <3>1, <3>2, AppendElements DEF WireTypes
    <3> QED
      BY <1>0, <2>1, <2>2, <3>1, <3>3, <3>4 DEF WireTypes
  <2> QED
    BY <2>3, <2>4
<1>7. CASE Offline
  BY <1>0, <1>7 DEF Offline, WireTypes
<1>8. CASE ServerExit
  BY <1>0, <1>8 DEF ServerExit, WireTypes
<1>9. ASSUME NEW c \in Conv, Push(c)
      PROVE  WireTypes'
  <2> DEFINE p == <<"msg", <<c, pushed'[c]>>>>
  <2>1. /\ toCli' = Append(toCli, p) /\ UNCHANGED <<link, toSrv, online, eof>>
        /\ pushed'[c] = pushed[c] + 1 /\ pushed[c] < MaxPush[c] /\ pushed[c] \in Nat /\ MaxPush[c] \in Nat
    BY <1>0, <1>9, BoundsAssumption DEF Push, MailTypes
  <2>2. p \in ToClient
    BY <2>1 DEF ToClient, Messages
  <2> HIDE DEF p
  <2>3. toCli' \in Seq(ToClient)
    BY <1>0, <2>1, <2>2, AppendElements DEF WireTypes
  <2> QED
    BY <1>0, <2>1, <2>3 DEF WireTypes
<1> QED
  BY <1>1, <1>2, <1>3, <1>4, <1>5, <1>6, <1>7, <1>8, <1>9, WireFrame

LEMMA StepMailTypes ==
  ASSUME TypeInv, [Next]_vars
  PROVE  MailTypes'
<1>0. MailTypes /\ RecvTypes /\ \A c \in Conv : MaxPush[c] \in Nat
  BY BoundsAssumption DEF TypeInv
<1>1. CASE UNCHANGED <<pushed, shown>>
  BY <1>0, <1>1 DEF MailTypes
<1>2. CASE Insert
  <2>1. msg[1] \in Conv /\ msg[2] \in Nat /\ pushed' = pushed
        /\ shown' \in {shown, [shown EXCEPT ![msg[1]] = Append(shown[msg[1]], msg[2])]}
    BY <1>0, <1>2, MessageType DEF Insert, RecvAt, RecvTypes, Shows
  <2>2. Append(shown[msg[1]], msg[2]) \in Seq(Nat)
    BY <1>0, <2>1, AppendElements DEF MailTypes
  <2> QED
    BY <1>0, <2>1, <2>2 DEF MailTypes
<1>3. ASSUME NEW c \in Conv, Push(c)
      PROVE  MailTypes'
  BY <1>0, <1>3 DEF Push, MailTypes
<1> QED
  BY <1>1, <1>2, <1>3, MailFrame

LEMMA StepTaken ==
  ASSUME TypeInv, [Next]_vars
  PROVE  Taken'
<1>0. Taken /\ SockTypes /\ Failures \cup {"CONNECTED"} = Results
  BY DEF TypeInv, Results
<1>1. running' \in States
  <2>1. CASE Submit("ok") \/ Submit("uid") \/ Submit("pass") \/ Cancel \/ Waiting \/ Quit \/ Lost
             \/ \E ok \in BOOLEAN : Connect(ok)
    BY <1>0, <2>1 DEF Submit, Cancel, Waiting, Quit, Lost, Connect, States, Taken
  <2>2. CASE Report
    BY <1>0, <2>2 DEF Report, IsAt, SockTypes, Results, States, Failures
  <2> QED
    BY <1>0, <2>1, <2>2, RunFrame DEF Taken
<1>2. config' \in Codes \cup {None} /\ (config \in Codes => config' \in Codes)
  <2>1. CASE Submit("ok") \/ Submit("uid") \/ Submit("pass")
    BY <2>1 DEF Submit, Codes
  <2>2. CASE Cancel \/ Waiting \/ Quit \/ Lost \/ Report \/ \E ok \in BOOLEAN : Connect(ok)
    BY <1>0, <2>2 DEF Cancel, Waiting, Quit, Lost, Connect, Report, Taken
  <2> QED
    BY <1>0, <2>1, <2>2, RunFrame DEF Taken
<1>3. running' = "CONNECTE_REQ" => config' \in Codes
  <2>1. CASE Submit("ok") \/ Submit("uid") \/ Submit("pass")
    BY <2>1 DEF Submit, Codes
  <2>2. CASE Cancel \/ Waiting \/ Quit \/ Lost \/ \E ok \in BOOLEAN : Connect(ok)
    BY <1>0, <1>2, <2>2 DEF Cancel, Waiting, Quit, Lost, Connect, Taken
  <2>3. CASE Report
    BY <1>0, <2>3 DEF Report, IsAt, SockTypes, Results, Failures
  <2> QED
    BY <1>0, <1>2, <2>1, <2>2, <2>3, RunFrame DEF Taken
<1>4. spc' = "connect" => config' \in Codes
  <2>1. CASE UNCHANGED <<spc, cred, todo, res, got>>
    BY <1>0, <1>2, <2>1 DEF Taken
  <2>2. CASE SeeRequest
    BY <1>0, <2>2 DEF SeeRequest, Taken
  <2>3. CASE Connected \/ ConnectCancelled \/ Report \/ Ask \/ Put \/ RecvTimeout \/ Lost
             \/ RecvEnd \/ Chatting \/ \E ok \in BOOLEAN : Connect(ok)
    BY <2>3 DEF Connected, ConnectCancelled, Report, Ask, Put, RecvTimeout, Lost, RecvEnd,
       Chatting, Connect, IsAt
  <2>4. CASE SendQueued \/ Receive
    BY <2>4 DEF SendQueued, Receive
  <2>5. CASE Answer
    BY <2>5, AnswerStep DEF Goes
  <2> QED
    BY <2>1, <2>2, <2>3, <2>4, <2>5, SockFrame
<1>5. cred' \in Codes \cup {None} /\ (link' = "up" => cred' \in Codes)
  <2>1. CASE \E ok \in BOOLEAN : Connect(ok)
    BY <1>0, <2>1 DEF Connect, IsAt, Taken
  <2>2. CASE UNCHANGED cred /\ ~\E ok \in BOOLEAN : Connect(ok)
    <3>1. link' = "up" => link = "up"
      <4>1. CASE ConnectCancelled \/ Report
        BY <4>1 DEF ConnectCancelled, Report, CloseSock
      <4>2. CASE Ask \/ Receive \/ Serve \/ Offline \/ ServerExit \/ \E c \in Conv : Push(c)
        BY <4>2 DEF Ask, Receive, Serve, Offline, ServerExit, Push
      <4>3. CASE Answer
        BY <4>3, AnswerStep
      <4> QED
        BY <2>2, <4>1, <4>2, <4>3, WireFrame
    <3> QED
      BY <1>0, <2>2, <3>1 DEF Taken
  <2>3. CASE SeeRequest \/ Connected \/ ConnectCancelled \/ Report \/ Ask \/ Put \/ RecvTimeout \/ Lost
             \/ RecvEnd \/ Chatting \/ SendQueued \/ Receive
    BY <2>1, <2>2, <2>3 DEF SeeRequest, Connected, ConnectCancelled, Report, Ask, Put, RecvTimeout,
       Lost, RecvEnd, Chatting, SendQueued, Receive
  <2> QED
    BY <2>1, <2>2, <2>3, AnswerStep, SockFrame
<1> QED
  BY <1>1, <1>2, <1>3, <1>4, <1>5 DEF Taken

LEMMA StepTypeInv == TypeInv /\ [Next]_vars => TypeInv'
<1> SUFFICES ASSUME TypeInv, [Next]_vars
             PROVE  TypeInv'
  OBVIOUS
<1> QED
  BY StepListTypes, StepQueueTypes, StepSockTypes, StepRecvTypes, StepUiTypes, StepWireTypes,
     StepCountTypes, StepMailTypes, StepTaken DEF TypeInv

THEOREM Typed == Spec => []TypeInv
<1>1. Init => TypeInv
  BY InitTypeInv
<1>2. TypeInv /\ [Next]_vars => TypeInv'
  BY StepTypeInv
<1> QED
  BY <1>1, <1>2, PTL DEF Spec

\* The lists, the queues, what the three threads hold and the windows keep their
\* types, for any interleaving of the threads and any packet that is read as the
\* answer to another request.
THEOREM TypeCorrect == Spec => []TypeOK
<1>1. TypeInv => TypeOK
  <2> SUFFICES ASSUME TypeInv
               PROVE  TypeOK
    OBVIOUS
  <2>1. Messages \subseteq Msgs
    BY MessageType DEF Messages, Msgs
  <2>2. uiqueue \in Seq(Msgs) /\ got \in MsgOrNone /\ msg \in MsgOrNone
    BY <2>1 DEF TypeInv, QueueTypes, SockTypes, RecvTypes, MsgOrNone
  <2>3. todo \in Seq({"req", "login", "self", "users", "info", "groups", "ginfo"} \X (Conv \cup {None}))
    <3>1. Requests \subseteq {"req", "login", "self", "users", "info", "groups", "ginfo"} \X (Conv \cup {None})
      BY DEF Requests, Conv
    <3> QED
      BY <3>1 DEF TypeInv, SockTypes
  <2>4. running \in States /\ {config, cred} \subseteq {"ok", "uid", "pass", None} /\ res \in States \cup {None}
    BY DEF TypeInv, Taken, SockTypes, Codes, Results, States, Failures
  <2>5. {flush, early, cancelled, missed} \subseteq BOOLEAN
    BY DEF TypeInv, UiTypes, CountTypes
  <2> QED
    BY <2>2, <2>3, <2>4, <2>5 DEF TypeInv, ListTypes, QueueTypes, SockTypes, RecvTypes, UiTypes,
       WireTypes, CountTypes, MailTypes, TypeOK, PCs, Shows
<1> QED
  BY <1>1, Typed, PTL

-----------------------------------------------------------------------------
(* Before and after the login                                              *)

\* The places of the socket thread after a login that succeeded, or at its end.
After == {"top2", "drain", "recv", "put", "lost", "ended", "dead"}

\* Until stk_waiting() has started the receive thread there is no chat window,
\* and nothing is queued or announced.
Quiet ==
  /\ view # "main" /\ running # "RUNNING" /\ win = {}
  /\ \A i \in DOMAIN idle : idle[i] = "waiting"
  /\ put = None /\ sendqueue = <<>> /\ uiqueue = <<>> /\ ~sendevent /\ ~uievent
  /\ spc \notin {"drain", "recv", "put", "lost"}
Before ==
  /\ tpc = "none" => Quiet
  /\ spc \notin After => tpc = "none"
  /\ running = "CONNECTED" => tpc = "none" /\ spc \in After

LEMMA InitBefore == Init => Before
<1> SUFFICES ASSUME Init
             PROVE  Before
  OBVIOUS
<1>1. idle = <<>> /\ DOMAIN <<>> = {}
  BY DEF Init
<1> QED
  BY <1>1 DEF Init, Before, Quiet, After

\* The second loop is not left for the first.
LEMMA AfterStep ==
  ASSUME [Next]_vars, spc \in After
  PROVE  spc' \in After
<1>1. CASE UNCHANGED <<spc, cred, todo, res, got>>
  BY <1>1
<1>2. CASE SeeRequest \/ ConnectCancelled \/ Connected \/ Report \/ Ask \/ Answer \/ Put
           \/ RecvTimeout \/ Lost \/ \E ok \in BOOLEAN : Connect(ok)
  BY <1>2 DEF SeeRequest, ConnectCancelled, Connected, Report, Ask, Answer, Put, RecvTimeout,
     Lost, Connect, IsAt, After
<1>3. CASE Chatting \/ SendQueued \/ Receive \/ RecvEnd
  BY <1>3 DEF Chatting, SendQueued, Receive, RecvEnd, After
<1> QED
  BY <1>1, <1>2, <1>3, SockFrame

\* The receive thread is started when a login has succeeded.
LEMMA StartStep ==
  ASSUME [Next]_vars
  PROVE  /\ tpc' = "none" => tpc = "none"
         /\ tpc = "none" => \/ tpc' = "none"
                            \/ Waiting /\ running = "CONNECTED" /\ running' = "RUNNING" /\ tpc' = "idle"
<1>1. CASE UNCHANGED <<tpc, msg>>
  BY <1>1
<1>2. CASE Look \/ Take \/ NeedWindow \/ Woken \/ ClearSync \/ Insert \/ Focus
  BY <1>2 DEF Look, Take, NeedWindow, Woken, ClearSync, Insert, Focus, RecvAt
<1>3. CASE Waiting
  BY <1>3 DEF Waiting
<1> QED
  BY <1>1, <1>2, <1>3, RecvFrame

LEMMA QuietStep ==
  ASSUME TypeInv, Before, Quiet, [Next]_vars, tpc = "none", tpc' = "none"
  PROVE  Quiet'
<1>0. /\ idle \in Seq(Conv \cup {"waiting"}) /\ SockTypes /\ None \notin Conv
      /\ \A c \in Conv : ~(idle # <<>> /\ Head(idle) = c)
  <2>1. idle \in Seq(Conv \cup {"waiting"}) /\ SockTypes
    BY DEF TypeInv, UiTypes
  <2>2. idle # <<>> => Head(idle) = "waiting"
    BY <2>1, TailElements DEF Quiet
  <2> QED
    BY <2>1, <2>2, NamesAssumption
<1>1. ~Take /\ ~Look /\ ~NeedWindow /\ ~ClearSync /\ \A c \in Conv : ~CreateWin(c) /\ ~OpenChat(c) /\ ~SendMsg(c)
  BY <1>0 DEF Take, Look, NeedWindow, ClearSync, RecvAt, CreateWin, OpenChat, SendMsg, Quiet
<1>2. ~SendPut /\ ~SendQueued /\ ~Receive /\ ~Put /\ ~RecvTimeout /\ ~RecvEnd /\ ~Lost
  BY DEF SendPut, SendQueued, Receive, Put, RecvTimeout, RecvEnd, Lost, IsAt, Quiet
<1>3. view' # "main" /\ win' = {} /\ put' = None /\ \A i \in DOMAIN idle' : idle'[i] = "waiting"
  <2>1. CASE UNCHANGED <<view, put, flush, idle, win>>
    BY <2>1 DEF Quiet
  <2>2. ASSUME NEW form \in {"ok", "uid", "pass"}, Submit(form)
        PROVE  view' # "main" /\ win' = {} /\ put' = None /\ \A i \in DOMAIN idle' : idle'[i] = "waiting"
    <3>1. view' = "wait" /\ win' = win /\ put' = put /\ idle' = Append(idle, "waiting")
      BY <2>2 DEF Submit
    <3> QED
      BY <1>0, <3>1, AppendElements DEF Quiet
  <2>3. CASE Cancel
    BY <2>3 DEF Cancel, Quiet
  <2>4. CASE Waiting
    <3>1. /\ view' \in {view, "form"} /\ win' = win /\ put' = put /\ idle # <<>>
          /\ idle' \in {Tail(idle), Append(Tail(idle), "waiting")}
      BY <2>4 DEF Waiting
    <3> DEFINE t == Tail(idle)
               e == "waiting"
    <3>2. t \in Seq(Conv \cup {e}) /\ \A i \in DOMAIN t : t[i] = e
      BY <1>0, <3>1, TailElements DEF Quiet
    <3>3. idle' \in {t, Append(t, e)} /\ e \in Conv \cup {e}
      BY <3>1
    <3> HIDE DEF t
    <3>4. \A i \in DOMAIN idle' : idle'[i] = e
      BY <3>2, <3>3, AppendElements
    <3> QED
      BY <3>1, <3>4 DEF Quiet
  <2>5. CASE Quit
    <3>1. view' = "gone" /\ win' = {} /\ put' = put /\ idle' = <<>>
      BY <2>5 DEF Quit
    <3>2. DOMAIN idle' = {}
      BY <3>1
    <3> QED
      BY <3>1, <3>2 DEF Quiet
  <2>6. ASSUME NEW c \in Conv, CloseChat(c)
        PROVE  view' # "main" /\ win' = {} /\ put' = None /\ \A i \in DOMAIN idle' : idle'[i] = "waiting"
    BY <2>6 DEF CloseChat, Quiet
  <2> QED
    BY <1>1, <1>2, <2>1, <2>2, <2>3, <2>4, <2>5, <2>6, UiFrame
<1>4. running' # "RUNNING"
  <2>1. CASE Report
    BY <1>0, <2>1 DEF Report, IsAt, SockTypes, Results, Failures
  <2>2. CASE Waiting
    BY <2>2 DEF Waiting, Quiet
  <2>3. CASE Cancel \/ Quit \/ (\E ok \in BOOLEAN : Connect(ok))
             \/ (\E form \in {"ok", "uid", "pass"} : Submit(form))
    BY <2>3 DEF Cancel, Quit, Connect, Submit
  <2> QED
    BY <1>2, <2>1, <2>2, <2>3, RunFrame DEF Quiet
<1>5. sendqueue' = <<>> /\ uiqueue' = <<>> /\ ~sendevent' /\ ~uievent'
  <2>1. CASE Chatting
    BY <2>1 DEF Chatting, Quiet
  <2> QED
    BY <1>1, <1>2, <2>1, QueueFrame DEF Quiet
<1>6. spc' \notin {"drain", "recv", "put", "lost"}
  <2>1. CASE UNCHANGED <<spc, cred, todo, res, got>>
    BY <2>1 DEF Quiet
  <2>2. CASE SeeRequest \/ ConnectCancelled \/ Connected \/ Report \/ Ask \/ Chatting
             \/ \E ok \in BOOLEAN : Connect(ok)
    BY <2>2 DEF SeeRequest, ConnectCancelled, Connected, Report, Ask, Chatting, Connect, IsAt, Quiet
  <2>3. CASE Answer
    BY <2>3, AnswerStep DEF Goes
  <2> QED
    BY <1>2, <2>1, <2>2, <2>3, SockFrame
<1> QED
  BY <1>3, <1>4, <1>5, <1>6 DEF Quiet

LEMMA StepBefore == TypeInv /\ Before /\ [Next]_vars => Before'
<1> SUFFICES ASSUME TypeInv, Before, [Next]_vars
             PROVE  Before'
  OBVIOUS
<1>1. tpc' = "none" => Quiet'
  BY StartStep, QuietStep DEF Before
<1>2. spc' \notin After => tpc' = "none"
  <2>1. spc' \notin After => spc \notin After
    BY AfterStep
  <2> QED
    BY <2>1, StartStep DEF Before
<1>3. running' = "CONNECTED" => tpc' = "none" /\ spc' \in After
  <2>1. CASE Report
    <3>1. spc = "report" /\ UNCHANGED tpc /\ running' = res /\ spc' = (IF res = "CONNECTED" THEN "top2" ELSE "top")
      BY <2>1 DEF Report, IsAt, recvVars
    <3> QED
      BY <3>1 DEF Before, After
  <2>2. CASE UNCHANGED running
    BY <2>2, AfterStep, StartStep DEF Before
  <2>3. CASE Waiting /\ running' # running
    BY <2>3 DEF Waiting
  <2>4. CASE Cancel \/ Quit \/ Lost \/ (\E ok \in BOOLEAN : Connect(ok))
             \/ (\E form \in {"ok", "uid", "pass"} : Submit(form))
    BY <2>4 DEF Cancel, Quit, Lost, Connect, Submit
  <2> QED
    BY <2>1, <2>2, <2>3, <2>4, RunFrame
<1> QED
  BY <1>1, <1>2, <1>3 DEF Before

-----------------------------------------------------------------------------
(* Announcements                                                           *)

\* The invariant: a queue whose event is clear is empty when a message is about
\* to be put into it.
Received ==
  tpc = "idle" /\ ~uievent => Len(uiqueue) <= 1 /\ (spc = "put" => uiqueue = <<>>)
ToSend ==
  spc \in {"top2", "recv", "put", "lost"} /\ ~sendevent =>
    Len(sendqueue) <= 1 /\ (put # None => sendqueue = <<>>)

LEMMA StepReceived ==
  ASSUME TypeInv, Before, Received, [Next]_vars
  PROVE  Received'
<1>0. uiqueue \in Seq(Messages) /\ Len(<<>>) = 0
  BY DEF TypeInv, QueueTypes
<1>1. CASE Receive
  <2>1. /\ UNCHANGED <<uiqueue, tpc>>
        /\ uievent' \/ (uievent' = uievent /\ spc' \in {"dead", "top2"})
    BY <1>1 DEF Receive, recvVars
  <2> QED
    BY <2>1 DEF Received
<1>2. CASE Put
  <2>1. spc = "put" /\ spc' = "top2" /\ UNCHANGED <<uievent, tpc>> /\ uiqueue' = Append(uiqueue, got)
    BY <1>2 DEF Put, IsAt, recvVars
  <2>2. uiqueue = <<>> => Len(uiqueue') = 1
    BY <2>1
  <2> QED
    BY <2>1, <2>2 DEF Received
<1>3. CASE Look
  BY <1>3 DEF Look, Received
<1>4. CASE Take
  BY <1>0, <1>4 DEF Take, Received
<1> SUFFICES ASSUME ~Receive, ~Put, ~Look, ~Take
             PROVE  Received'
  BY <1>1, <1>2, <1>3, <1>4
<1>5. UNCHANGED <<uievent, uiqueue>>
  <2>1. CASE Chatting \/ SendQueued \/ ClearSync \/ SendPut \/ (\E c \in Conv : CreateWin(c) \/ SendMsg(c))
    BY <2>1 DEF Chatting, SendQueued, ClearSync, SendPut, CreateWin, SendMsg
  <2> QED
    BY <2>1, QueueFrame
<1>6. spc' = "put" => spc = "put"
  <2>1. CASE SeeRequest \/ ConnectCancelled \/ Connected \/ Report \/ Ask \/ Chatting \/ RecvTimeout
             \/ Lost \/ (\E ok \in BOOLEAN : Connect(ok))
    BY <2>1 DEF SeeRequest, ConnectCancelled, Connected, Report, Ask, Chatting, RecvTimeout, Lost,
       Connect, IsAt
  <2>2. CASE SendQueued \/ RecvEnd
    BY <2>2 DEF SendQueued, RecvEnd
  <2>3. CASE Answer
    BY <2>3, AnswerStep DEF Goes
  <2> QED
    BY <2>1, <2>2, <2>3, SockFrame
<1>7. tpc' = "idle" => tpc = "idle" \/ uiqueue = <<>>
  <2>1. CASE Waiting
    BY <2>1 DEF Waiting, Before, Quiet
  <2>2. CASE NeedWindow \/ Woken \/ ClearSync \/ Insert \/ Focus
    BY <2>2 DEF NeedWindow, Woken, ClearSync, Insert, Focus, RecvAt
  <2> QED
    BY <2>1, <2>2, RecvFrame
<1> QED
  BY <1>0, <1>5, <1>6, <1>7 DEF Received

LEMMA StepToSend ==
  ASSUME TypeInv, Before, ToSend, [Next]_vars
  PROVE  ToSend'
<1>0. sendqueue \in Seq(Conv) /\ Len(<<>>) = 0
  BY DEF TypeInv, QueueTypes
<1>1. ASSUME NEW c \in Conv, SendMsg(c)
      PROVE  ToSend'
  BY <1>1 DEF SendMsg, ToSend
<1>2. CASE SendPut
  <2>1. put # None /\ put' = None /\ UNCHANGED <<sendevent, spc>> /\ sendqueue' = Append(sendqueue, put)
    BY <1>2 DEF SendPut, sockVars
  <2>2. sendqueue = <<>> => Len(sendqueue') = 1
    BY <2>1
  <2> QED
    BY <2>1, <2>2 DEF ToSend
<1>3. CASE Chatting
  <2>1. /\ UNCHANGED <<sendqueue, put>> /\ spc = "top2"
        /\ spc' \notin {"top2", "recv", "put", "lost"} \/ sendevent' = sendevent
    BY <1>3 DEF Chatting, uiVars
  <2> QED
    BY <2>1 DEF ToSend
<1>4. CASE SendQueued
  BY <1>0, <1>4 DEF SendQueued, ToSend
<1>5. CASE Report
  <2>1. spc \notin After /\ UNCHANGED <<sendqueue, put>>
    BY <1>5 DEF Report, IsAt, After, queueVars, uiVars
  <2>2. sendqueue = <<>>
    BY <2>1 DEF Before, Quiet
  <2> QED
    BY <1>0, <2>1, <2>2 DEF ToSend
<1> SUFFICES ASSUME ~SendPut, ~Chatting, ~SendQueued, ~Report, \A c \in Conv : ~SendMsg(c)
             PROVE  ToSend'
  BY <1>1, <1>2, <1>3, <1>4, <1>5
<1>6. UNCHANGED <<sendevent, sendqueue>>
  <2>1. CASE Receive \/ Put \/ Look \/ Take \/ ClearSync \/ (\E c \in Conv : CreateWin(c))
    BY <2>1 DEF Receive, Put, Look, Take, ClearSync, CreateWin
  <2> QED
    BY <2>1, QueueFrame
<1>7. put' = put
  <2>1. CASE NeedWindow \/ Waiting \/ Cancel \/ Quit
             \/ (\E c \in Conv : CreateWin(c) \/ OpenChat(c) \/ CloseChat(c))
             \/ (\E form \in {"ok", "uid", "pass"} : Submit(form))
    BY <2>1 DEF NeedWindow, Waiting, Cancel, Quit, CreateWin, OpenChat, CloseChat, Submit
  <2> QED
    BY <2>1, UiFrame
<1>8. spc' \in {"top2", "recv", "put", "lost"} => spc \in {"top2", "recv", "put", "lost"}
  <2>1. CASE SeeRequest \/ ConnectCancelled \/ Connected \/ Ask \/ (\E ok \in BOOLEAN : Connect(ok))
    BY <2>1 DEF SeeRequest, ConnectCancelled, Connected, Ask, Connect, IsAt
  <2>2. CASE Put \/ RecvTimeout \/ Lost \/ Receive \/ RecvEnd
    BY <2>2 DEF Put, RecvTimeout, Lost, Receive, RecvEnd, IsAt
  <2>3. CASE Answer
    BY <2>3, AnswerStep DEF Goes
  <2> QED
    BY <2>1, <2>2, <2>3, SockFrame
<1> QED
  BY <1>6, <1>7, <1>8 DEF ToSend

\* Of the messages received, and of those to be sent, at most one waits without
\* its event set: put after the other thread has cleared the event and emptied
\* the queue.
THEOREM OneWaitsCorrect == Spec => []OneWaits
<1> DEFINE Inv == Before /\ Received /\ ToSend
<1>1. Init => Inv
  <2>1. Init => Received /\ ToSend
    BY DEF Init, Received, ToSend
  <2> QED
    BY <2>1, InitBefore
<1>2. TypeInv /\ Inv /\ [Next]_vars => Inv'
  BY StepBefore, StepReceived, StepToSend
<1>3. Inv => OneWaits
  BY DEF Received, ToSend, OneWaits
<1> QED
  BY <1>1, <1>2, <1>3, Typed, PTL DEF Spec

-----------------------------------------------------------------------------
(* The window that is waited for                                           *)

\* stk_waiting() takes only itself off the idle callbacks.
LEMMA WaitingKeeps ==
  ASSUME TypeInv, Waiting, NEW c \in Conv, \E i \in DOMAIN idle : idle[i] = c
  PROVE  \E i \in DOMAIN idle' : idle'[i] = c
<1>1. /\ idle \in Seq(Conv \cup {"waiting"}) /\ idle # <<>> /\ Head(idle) = "waiting" /\ c # "waiting"
      /\ idle' = Tail(idle) \/ idle' = Append(Tail(idle), "waiting")
  BY NamesAssumption DEF Waiting, TypeInv, UiTypes
<1>2. PICK i \in DOMAIN idle : idle[i] = c
  OBVIOUS
<1>3. Tail(idle) \in Seq(Conv \cup {"waiting"}) /\ i - 1 \in DOMAIN Tail(idle) /\ Tail(idle)[i - 1] = c
  BY <1>1, <1>2
<1>4. \A j \in DOMAIN Tail(idle) : /\ j \in DOMAIN Append(Tail(idle), "waiting")
                                   /\ Append(Tail(idle), "waiting")[j] = Tail(idle)[j]
  BY <1>3, AppendElements
<1> QED
  BY <1>1, <1>3, <1>4

\* The receive thread asks for the window itself.
LEMMA NeedWindowAsks ==
  ASSUME TypeInv, NeedWindow, tpc' = "wait"
  PROVE  \E i \in DOMAIN idle' : idle'[i] = msg'[1]
<1>1. /\ idle \in Seq(Conv \cup {"waiting"}) /\ idle' = Append(idle, msg[1]) /\ msg' = msg
      /\ msg[1] \in Conv
  BY DEF NeedWindow, TypeInv, UiTypes, RecvTypes, Shows, Messages
<1> QED
  BY <1>1, AppendElements

LEMMA StepReceiverWakes == TypeInv /\ ReceiverWakes /\ [Next]_vars => ReceiverWakes'
<1> SUFFICES ASSUME TypeInv, ReceiverWakes, [Next]_vars, tpc' = "wait"
             PROVE  syncevent' \/ missed' \/ view' = "gone" \/ \E i \in DOMAIN idle' : idle'[i] = msg'[1]
  BY DEF ReceiverWakes
<1>1. CASE NeedWindow
  BY <1>1, NeedWindowAsks
<1> SUFFICES ASSUME ~NeedWindow
             PROVE  syncevent' \/ missed' \/ view' = "gone" \/ \E i \in DOMAIN idle' : idle'[i] = msg'[1]
  BY <1>1
<1>2. tpc = "wait" /\ msg' = msg /\ msg[1] \in Conv
  <2>1. ASSUME Waiting
        PROVE  tpc = "wait" /\ msg' = msg
    BY <2>1 DEF Waiting
  <2>2. ~(Look \/ Take \/ Woken \/ ClearSync \/ Insert \/ Focus)
    BY DEF Look, Take, Woken, ClearSync, Insert, Focus, RecvAt
  <2>3. tpc = "wait" /\ msg' = msg
    BY <2>1, <2>2, RecvFrame
  <2> QED
    BY <2>3 DEF TypeInv, RecvTypes, Shows, Messages
<1>3. CASE \E c \in Conv : CreateWin(c)
  BY <1>3 DEF CreateWin
<1> SUFFICES ASSUME ~\E c \in Conv : CreateWin(c)
             PROVE  syncevent' \/ missed' \/ view' = "gone" \/ \E i \in DOMAIN idle' : idle'[i] = msg'[1]
  BY <1>3
<1>4. syncevent' = syncevent
  <2>1. CASE Chatting \/ SendQueued \/ Receive \/ Put \/ Look \/ Take \/ SendPut \/ (\E c \in Conv : SendMsg(c))
    BY <2>1 DEF Chatting, SendQueued, Receive, Put, Look, Take, SendPut, SendMsg
  <2>2. ~ClearSync
    BY <1>2 DEF ClearSync, RecvAt
  <2> QED
    BY <2>1, <2>2, QueueFrame
<1>5. missed' = missed
  <2>1. CASE Cancel \/ ServerExit \/ (\E c \in Conv : SendMsg(c) \/ Push(c))
             \/ (\E form \in {"ok", "uid", "pass"} : Submit(form))
    BY <2>1 DEF Cancel, ServerExit, SendMsg, Push, Submit
  <2> QED
    BY <2>1, CountFrame
<1>6. view = "gone" => view' = "gone"
  <2>1. CASE Waiting
    BY <2>1 DEF Waiting, Loops, TypeInv, UiTypes
  <2>2. CASE SendPut \/ Cancel \/ Quit \/ (\E c \in Conv : OpenChat(c) \/ CloseChat(c) \/ SendMsg(c))
             \/ (\E form \in {"ok", "uid", "pass"} : Submit(form))
    BY <2>2 DEF SendPut, Cancel, Quit, OpenChat, CloseChat, SendMsg, Submit
  <2> QED
    BY <2>1, <2>2, UiFrame
<1>7. ASSUME NEW i \in DOMAIN idle, idle[i] = msg[1]
      PROVE  view' = "gone" \/ \E j \in DOMAIN idle' : idle'[j] = msg[1]
  <2>1. CASE Waiting
    BY <1>2, <1>7, <2>1, WaitingKeeps
  <2>2. CASE Quit
    BY <2>2 DEF Quit
  <2>3. ASSUME NEW form \in {"ok", "uid", "pass"}, Submit(form)
        PROVE  \E j \in DOMAIN idle' : idle'[j] = msg[1]
    <3>1. idle \in Seq(Conv \cup {"waiting"}) /\ idle' = Append(idle, "waiting")
      BY <2>3 DEF Submit, TypeInv, UiTypes
    <3> QED
      BY <1>7, <3>1, AppendElements
  <2>4. CASE SendPut \/ Cancel \/ (\E c \in Conv : OpenChat(c) \/ CloseChat(c) \/ SendMsg(c))
    BY <1>7, <2>4 DEF SendPut, Cancel, OpenChat, CloseChat, SendMsg
  <2> QED
    BY <1>7, <2>1, <2>2, <2>3, <2>4, UiFrame
<1> QED
  BY <1>2, <1>4, <1>5, <1>6, <1>7 DEF ReceiverWakes

\* A receive thread that waits for a window has been answered, or its callback
\* is still queued, unless a window opened by the user hid the request or the
\* program has been closed.
THEOREM ReceiverWakesCorrect == Spec => []ReceiverWakes
<1>1. Init => ReceiverWakes
  BY DEF Init, ReceiverWakes
<1> QED
  BY <1>1, StepReceiverWakes, Typed, PTL DEF Spec

-----------------------------------------------------------------------------
(* Order                                                                   *)

\* The invariant: the messages of a conversation that have been shown, the one
\* the receive thread holds, those in uiqueue, the one the socket thread holds
\* and those on the wire were sent in this order, and none has been made up.
Asc(s) == \A i, j \in DOMAIN s : i < j => s[i] < s[j]
Below(s, m) == \A i \in DOMAIN s : s[i] < m
Held(c) == tpc \in Shows /\ msg[1] = c
Got(c) == spc = "put" /\ got[1] = c
Queued(c) == {i \in DOMAIN uiqueue : uiqueue[i][1] = c}
OnWire(i, c) == toCli[i][1] = "msg" /\ toCli[i][2][1] = c
Came(c) ==
  {shown[c][i] : i \in DOMAIN shown[c]} \cup {uiqueue[i][2] : i \in Queued(c)}
    \cup (IF Held(c) THEN {msg[2]} ELSE {}) \cup (IF Got(c) THEN {got[2]} ELSE {})

Stored(c) ==
  /\ Asc(shown[c])
  /\ \A i, j \in Queued(c) : i < j => uiqueue[i][2] < uiqueue[j][2]
  /\ \A i \in Queued(c) : Below(shown[c], uiqueue[i][2])
  /\ Held(c) => Below(shown[c], msg[2]) /\ \A i \in Queued(c) : msg[2] < uiqueue[i][2]
  /\ Got(c) => /\ Below(shown[c], got[2]) /\ \A i \in Queued(c) : uiqueue[i][2] < got[2]
               /\ Held(c) => msg[2] < got[2]
Coming(c) ==
  /\ \A i \in DOMAIN toCli : OnWire(i, c) =>
       /\ toCli[i][2][2] <= pushed[c]
       /\ \A m \in Came(c) : m < toCli[i][2][2]
       /\ \A j \in DOMAIN toCli : OnWire(j, c) /\ i < j => toCli[i][2][2] < toCli[j][2][2]
  /\ \A m \in Came(c) : m <= pushed[c]
Ascending(c) == Stored(c) /\ Coming(c)

LEMMA InitAscending ==
  ASSUME Init, NEW c \in Conv
  PROVE  Ascending(c)
<1>1. shown[c] = <<>> /\ uiqueue = <<>> /\ toCli = <<>> /\ spc = "top" /\ tpc = "none"
  BY DEF Init
<1>2. ~Held(c) /\ ~Got(c)
  BY <1>1 DEF Held, Got, Shows
<1>3. DOMAIN shown[c] = {} /\ Queued(c) = {} /\ DOMAIN toCli = {}
  BY <1>1 DEF Queued
<1>4. Came(c) = {}
  BY <1>2, <1>3 DEF Came
<1>5. Stored(c)
  BY <1>2, <1>3 DEF Stored, Asc
<1>6. Coming(c)
  BY <1>3, <1>4 DEF Coming
<1> QED
  BY <1>5, <1>6 DEF Ascending

\* The messages that came are numbers.
LEMMA CameNat ==
  ASSUME TypeInv, NEW c \in Conv
  PROVE  /\ Came(c) \subseteq Nat /\ pushed[c] \in Nat /\ shown[c] \in Seq(Nat)
         /\ Held(c) => msg[2] \in Nat /\ msg[2] \in Came(c)
         /\ Got(c) => got[2] \in Nat /\ got[2] \in Came(c)
         /\ \A i \in Queued(c) : i \in Nat /\ uiqueue[i][2] \in Nat /\ uiqueue[i][2] \in Came(c)
         /\ \A i \in DOMAIN shown[c] : shown[c][i] \in Came(c)
<1>1. pushed[c] \in Nat /\ shown[c] \in Seq(Nat)
  BY DEF TypeInv, MailTypes
<1>2. \A m \in Messages : m[2] \in Nat
  BY DEF Messages
<1>3. (Held(c) => msg[2] \in Nat) /\ (Got(c) => got[2] \in Nat)
  BY <1>2 DEF TypeInv, RecvTypes, SockTypes, Held, Got
<1>4. uiqueue \in Seq(Messages)
  BY DEF TypeInv, QueueTypes
<1>5. \A i \in DOMAIN uiqueue : i \in Nat /\ uiqueue[i] \in Messages
  BY <1>4
<1>6. \A i \in Queued(c) : i \in Nat /\ uiqueue[i][2] \in Nat
  BY <1>2, <1>5 DEF Queued
<1>7. \A i \in DOMAIN shown[c] : shown[c][i] \in Nat
  BY <1>1
<1> QED
  BY <1>1, <1>3, <1>6, <1>7 DEF Came

\* The messages on the wire, the numbers of which are naturals.
LEMMA WireNat ==
  ASSUME TypeInv, NEW c \in Conv, NEW i \in DOMAIN toCli, OnWire(i, c)
  PROVE  toCli[i][2][2] \in Nat /\ i \in Nat
<1>1. toCli \in Seq(ToClient)
  BY DEF TypeInv, WireTypes
<1>2. toCli[i] \in ToClient /\ i \in Nat
  BY <1>1
<1> QED
  BY <1>2, PacketType DEF OnWire, Messages

\* The messages on the wire are those that were there, less the first n packets.
Fewer(c) == \E n \in Nat : \A i \in DOMAIN toCli' :
  OnWire(i, c)' => i \in Nat /\ i + n \in DOMAIN toCli /\ toCli'[i] = toCli[i + n]

LEMMA ComingKept ==
  ASSUME NEW c \in Conv, Coming(c), Fewer(c), Came(c)' \subseteq Came(c), pushed'[c] = pushed[c]
  PROVE  Coming(c)'
<1>1. PICK n \in Nat : \A i \in DOMAIN toCli' :
        OnWire(i, c)' => i \in Nat /\ i + n \in DOMAIN toCli /\ toCli'[i] = toCli[i + n]
  BY DEF Fewer
<1>2. \A m \in Came(c)' : m <= pushed'[c]
  BY DEF Coming
<1>3. ASSUME NEW i \in DOMAIN toCli', OnWire(i, c)'
      PROVE  /\ toCli'[i][2][2] <= pushed'[c]
             /\ \A m \in Came(c)' : m < toCli'[i][2][2]
             /\ \A j \in DOMAIN toCli' : OnWire(j, c)' /\ i < j => toCli'[i][2][2] < toCli'[j][2][2]
  <2>1. i \in Nat /\ i + n \in DOMAIN toCli /\ toCli'[i] = toCli[i + n] /\ OnWire(i + n, c)
    BY <1>1, <1>3 DEF OnWire
  <2>2. ASSUME NEW j \in DOMAIN toCli', OnWire(j, c)', i < j
        PROVE  toCli'[i][2][2] < toCli'[j][2][2]
    <3>1. j \in Nat /\ j + n \in DOMAIN toCli /\ toCli'[j] = toCli[j + n] /\ OnWire(j + n, c)
      BY <1>1, <2>2 DEF OnWire
    <3>2. i + n < j + n
      BY <2>1, <2>2, <3>1
    <3> QED
      BY <2>1, <3>1, <3>2 DEF Coming
  <2> QED
    BY <2>1, <2>2 DEF Coming
<1> QED
  BY <1>2, <1>3 DEF Coming

\* Who adds messages to the wire, and who takes them off.
LEMMA FewerFrame ==
  ASSUME TypeInv, [Next]_vars, NEW c \in Conv
  PROVE  Fewer(c) \/ Push(c)
<1>0. toCli \in Seq(ToClient) /\ 0 \in Nat
  BY DEF TypeInv, WireTypes
<1>1. CASE toCli' = toCli
  <2>1. \A i \in DOMAIN toCli' : i \in Nat /\ i + 0 \in DOMAIN toCli /\ toCli'[i] = toCli[i + 0]
    BY <1>0, <1>1
  <2> QED
    BY <1>0, <2>1 DEF Fewer
<1>2. CASE Ask \/ Offline \/ ServerExit
  BY <1>1, <1>2 DEF Ask, Offline, ServerExit
<1>3. CASE ConnectCancelled \/ Report \/ \E ok \in BOOLEAN : Connect(ok)
  <2>1. toCli' = <<>> \/ toCli' = toCli
    BY <1>3 DEF ConnectCancelled, Report, Connect, CloseSock
  <2>2. CASE toCli' = <<>>
    <3>1. DOMAIN toCli' = {}
      BY <2>2
    <3> QED
      BY <1>0, <3>1 DEF Fewer
  <2> QED
    BY <1>1, <2>1, <2>2
<1>4. CASE Answer
  BY <1>4, AnswerStep DEF Fewer, Shorter
<1>5. CASE Receive
  <2>1. PICK n \in 1 .. Len(toCli) : Receives(n)
    BY <1>5 DEF Receive
  <2>2. n \in Nat /\ \A i \in DOMAIN toCli' : i + n \in DOMAIN toCli /\ i \in Nat /\ toCli'[i] = toCli[i + n]
    BY <1>0, <2>1, ReceivesType DEF TypeInv
  <2> QED
    BY <2>2 DEF Fewer
<1>6. CASE Serve
  <2> DEFINE q == Head(toSrv)
             p == <<q[1], Body(q)>>
  <2>1. /\ link = "up" /\ toSrv # <<>>
        /\ toCli' = toCli \/ (toCli' = Append(toCli, p) /\ ~(q[1] = "ginfo" /\ q[2] \notin Gids))
    BY <1>6 DEF Serve
  <2>2. q \in Requests
    BY <2>1, TailElements DEF TypeInv, WireTypes
  <2>3. p[1] = q[1] /\ q[1] # "msg"
    BY <2>2, RequestType
  <2>4. toCli' = Append(toCli, p) => p \in ToClient
    BY <2>1, <2>2, BodyType
  <2> HIDE DEF p, q
  <2>5. CASE toCli' = Append(toCli, p)
    <3>1. \A i \in DOMAIN toCli' : \/ i \in DOMAIN toCli /\ toCli'[i] = toCli[i]
                                   \/ toCli'[i] = p
      BY <1>0, <2>4, <2>5, AppendElements
    <3>2. \A i \in DOMAIN toCli' : OnWire(i, c)' =>
            i \in Nat /\ i + 0 \in DOMAIN toCli /\ toCli'[i] = toCli[i + 0]
      BY <1>0, <2>3, <3>1 DEF OnWire
    <3> QED
      BY <1>0, <3>2 DEF Fewer
  <2> QED
    BY <1>1, <2>1, <2>5
<1>7. ASSUME NEW d \in Conv, Push(d), d # c
      PROVE  Fewer(c)
  <2> DEFINE p == <<"msg", <<d, pushed'[d]>>>>
  <2>1. toCli' = Append(toCli, p)
    BY <1>7 DEF Push
  <2>2. /\ DOMAIN toCli' = 1 .. Len(toCli) + 1 /\ p[2][1] # c
        /\ \A i \in DOMAIN toCli' : toCli'[i] = IF i = Len(toCli) + 1 THEN p ELSE toCli[i]
    BY <1>0, <1>7, <2>1
  <2> HIDE DEF p
  <2>3. \A i \in DOMAIN toCli' : OnWire(i, c)' => i \in Nat /\ i + 0 \in DOMAIN toCli /\ toCli'[i] = toCli[i + 0]
    BY <1>0, <2>2 DEF OnWire
  <2> QED
    BY <1>0, <2>3 DEF Fewer
<1> QED
  BY <1>1, <1>2, <1>3, <1>4, <1>5, <1>6, <1>7, WireFrame

\* The receive thread takes a message out of uiqueue, and the socket thread one
\* off the wire.
LEMMA HeldFrame ==
  ASSUME TypeInv, [Next]_vars
  PROVE  Take \/ (tpc' \in Shows => tpc \in Shows /\ msg' = msg)
<1>1. CASE UNCHANGED <<tpc, msg>>
  BY <1>1
<1>2. CASE Waiting \/ Look \/ NeedWindow
  BY <1>2 DEF Waiting, Look, NeedWindow, Shows
<1>3. CASE Woken \/ ClearSync \/ Insert \/ Focus
  BY <1>3 DEF Woken, ClearSync, Insert, Focus, RecvAt, Shows
<1> QED
  BY <1>1, <1>2, <1>3, RecvFrame

LEMMA GotFrame ==
  ASSUME TypeInv, [Next]_vars
  PROVE  Receive \/ (spc' = "put" => spc = "put" /\ got' = got)
<1>1. CASE UNCHANGED <<spc, cred, todo, res, got>>
  BY <1>1
<1>2. CASE SeeRequest \/ ConnectCancelled \/ Connected \/ Report \/ Ask \/ Chatting \/ Put \/ RecvTimeout
           \/ Lost \/ (\E ok \in BOOLEAN : Connect(ok))
  BY <1>2 DEF SeeRequest, ConnectCancelled, Connected, Report, Ask, Chatting, Put, RecvTimeout,
     Lost, Connect, IsAt
<1>3. CASE SendQueued \/ RecvEnd
  BY <1>3 DEF SendQueued, RecvEnd
<1>4. CASE Answer
  BY <1>4, AnswerStep DEF Goes
<1> QED
  BY <1>1, <1>2, <1>3, <1>4, SockFrame

\* A step that leaves the messages of a conversation alone, or loses one.
LEMMA StoredKept ==
  ASSUME NEW c \in Conv, Stored(c), uiqueue' = uiqueue, shown'[c] = shown[c],
         tpc' \in Shows => tpc \in Shows /\ msg' = msg,
         spc' = "put" => spc = "put" /\ got' = got
  PROVE  Stored(c)' /\ Came(c)' \subseteq Came(c)
<1>1. Held(c)' => Held(c) /\ msg' = msg
  BY DEF Held
<1>2. Got(c)' => Got(c) /\ got' = got
  BY DEF Got
<1>3. Queued(c)' = Queued(c)
  BY DEF Queued
<1>4. Stored(c)'
  BY <1>1, <1>2, <1>3 DEF Stored, Asc, Below
<1>5. Came(c)' \subseteq Came(c)
  BY <1>1, <1>2, <1>3 DEF Came
<1> QED
  BY <1>4, <1>5

\* The message that the socket thread received last is queued last.
LEMMA PutStep ==
  ASSUME TypeInv, NEW c \in Conv, Ascending(c), Put
  PROVE  Stored(c)' /\ Came(c)' \subseteq Came(c)
<1>1. /\ spc = "put" /\ spc' = "top2" /\ uiqueue' = Append(uiqueue, got) /\ UNCHANGED <<tpc, msg, shown>>
      /\ uiqueue \in Seq(Messages) /\ got \in Messages
  BY DEF Put, IsAt, recvVars, histVars, TypeInv, SockTypes, QueueTypes
<1>2. ~Got(c)' /\ (Held(c)' <=> Held(c)) /\ (Got(c) <=> got[1] = c)
  BY <1>1 DEF Got, Held
<1> DEFINE last == Len(uiqueue) + 1
<1>3. \A i \in DOMAIN uiqueue' : \/ i \in DOMAIN uiqueue /\ uiqueue'[i] = uiqueue[i] /\ i < last
                                 \/ i = last /\ uiqueue'[i] = got
  BY <1>1
<1>4. last \in Nat
  BY <1>1
<1> HIDE DEF last
<1>5. \A i \in Queued(c)' : \/ i \in Queued(c) /\ uiqueue'[i] = uiqueue[i] /\ i < last
                            \/ i = last /\ uiqueue'[i] = got /\ Got(c)
  BY <1>2, <1>3 DEF Queued
<1>6. Stored(c)
  BY DEF Ascending
<1>7. \A i, j \in Queued(c)' : i < j => uiqueue'[i][2] < uiqueue'[j][2]
  <2> SUFFICES ASSUME NEW i \in Queued(c)', NEW j \in Queued(c)', i < j
               PROVE  uiqueue'[i][2] < uiqueue'[j][2]
    OBVIOUS
  <2>1. i \in Queued(c) /\ uiqueue'[i] = uiqueue[i]
    <3>1. j \in Nat /\ j <= last /\ i \in Nat
      BY <1>4, <1>5, CameNat
    <3>2. i # last
      BY <1>4, <3>1
    <3> QED
      BY <1>5, <3>2
  <2> QED
    BY <1>5, <1>6, <2>1 DEF Stored
<1>8. \A i \in Queued(c)' : Below(shown[c], uiqueue'[i][2]) /\ (Held(c) => msg[2] < uiqueue'[i][2])
  BY <1>5, <1>6 DEF Stored
<1>9. Stored(c)'
  BY <1>1, <1>2, <1>6, <1>7, <1>8 DEF Stored, Asc, Below
<1>10. Came(c)' \subseteq Came(c)
  <2>1. {uiqueue'[i][2] : i \in Queued(c)'} \subseteq Came(c)
    BY <1>5 DEF Came
  <2> QED
    BY <1>1, <1>2, <2>1 DEF Came
<1> QED
  BY <1>9, <1>10

\* The receive thread takes the first message of the queue.
LEMMA TakeStep ==
  ASSUME TypeInv, NEW c \in Conv, Ascending(c), Take
  PROVE  Stored(c)' /\ Came(c)' \subseteq Came(c)
<1>1. /\ tpc = "drain" /\ UNCHANGED <<spc, got, shown>>
      /\ \/ uiqueue # <<>> /\ msg' = Head(uiqueue) /\ uiqueue' = Tail(uiqueue)
         \/ tpc' = "idle" /\ UNCHANGED <<msg, uiqueue>>
  BY DEF Take, sockVars, histVars
<1>2. CASE tpc' = "idle" /\ UNCHANGED <<msg, uiqueue>>
  BY <1>1, <1>2, StoredKept DEF Ascending, Shows
<1>3. CASE uiqueue # <<>> /\ msg' = Head(uiqueue) /\ uiqueue' = Tail(uiqueue)
  <2>1. uiqueue \in Seq(Messages)
    BY DEF TypeInv, QueueTypes
  <2>2. /\ msg' = uiqueue[1] /\ 1 \in DOMAIN uiqueue
        /\ \A i \in DOMAIN uiqueue' : i + 1 \in DOMAIN uiqueue /\ i \in Nat /\ 1 < i + 1 /\ uiqueue'[i] = uiqueue[i + 1]
    BY <1>3, <2>1
  <2>3. \A i \in Queued(c)' : i + 1 \in Queued(c) /\ i \in Nat /\ 1 < i + 1 /\ uiqueue'[i] = uiqueue[i + 1]
    BY <2>2 DEF Queued
  <2>4. ~Held(c) /\ (Held(c)' => 1 \in Queued(c)) /\ (Got(c)' <=> Got(c))
    BY <1>1, <2>2 DEF Held, Shows, Queued, Got
  <2>5. Stored(c)
    BY DEF Ascending
  <2>6. \A i, j \in Queued(c)' : i < j => uiqueue'[i][2] < uiqueue'[j][2]
    <3> SUFFICES ASSUME NEW i \in Queued(c)', NEW j \in Queued(c)', i < j
                 PROVE  uiqueue'[i][2] < uiqueue'[j][2]
      OBVIOUS
    <3>1. i + 1 < j + 1 /\ i + 1 \in Queued(c) /\ j + 1 \in Queued(c)
      BY <2>3
    <3>2. uiqueue[i + 1][2] < uiqueue[j + 1][2]
      BY <2>5, <3>1 DEF Stored
    <3> QED
      BY <2>3, <3>2
  <2>7. Held(c)' => Below(shown[c], msg'[2]) /\ \A i \in Queued(c)' : msg'[2] < uiqueue'[i][2]
    BY <2>2, <2>3, <2>4, <2>5 DEF Stored
  <2>8. Got(c) => /\ \A i \in Queued(c)' : uiqueue'[i][2] < got[2]
                  /\ Held(c)' => msg'[2] < got[2]
    BY <2>2, <2>3, <2>4, <2>5 DEF Stored
  <2>9. \A i \in Queued(c)' : Below(shown[c], uiqueue'[i][2])
    BY <2>3, <2>5 DEF Stored
  <2>10. Stored(c)'
    BY <1>1, <2>4, <2>5, <2>6, <2>7, <2>8, <2>9 DEF Stored, Asc, Below
  <2>11. Came(c)' \subseteq Came(c)
    <3>1. {uiqueue'[i][2] : i \in Queued(c)'} \subseteq Came(c)
      BY <2>3 DEF Came
    <3>2. Held(c)' => msg'[2] \in Came(c)
      BY <2>2, <2>4 DEF Came
    <3> QED
      BY <1>1, <2>4, <3>1, <3>2 DEF Came
  <2> QED
    BY <2>10, <2>11
<1> QED
  BY <1>1, <1>2, <1>3

\* The message held goes into its window, or is lost with the thread.
LEMMA InsertStep ==
  ASSUME TypeInv, NEW c \in Conv, Ascending(c), Insert
  PROVE  Stored(c)' /\ Came(c)' \subseteq Came(c)
<1>1. /\ tpc = "insert" /\ tpc' \in {"focus", "dead"} /\ UNCHANGED <<spc, got, uiqueue>>
      /\ \/ shown' = [shown EXCEPT ![msg[1]] = Append(shown[msg[1]], msg[2])]
         \/ shown' = shown
      /\ shown \in [Conv -> Seq(Nat)]
  BY DEF Insert, RecvAt, queueVars, sockVars, TypeInv, MailTypes
<1>2. CASE shown'[c] = shown[c]
  BY <1>1, <1>2, StoredKept DEF Ascending, Shows
<1>3. CASE shown'[c] # shown[c]
  <2> DEFINE s == shown[c]
             m == msg[2]
  <2>1. Held(c) /\ shown'[c] = Append(s, m)
    BY <1>1, <1>3 DEF Held, Shows
  <2>2. s \in Seq(Nat) /\ m \in Nat /\ m \in Came(c) /\ \A i \in DOMAIN s : s[i] \in Came(c)
    BY <2>1, CameNat
  <2>3. /\ Asc(s) /\ Below(s, m) /\ \A i \in Queued(c) : Below(s, uiqueue[i][2]) /\ m < uiqueue[i][2]
        /\ Got(c) => Below(s, got[2]) /\ m < got[2]
    BY <2>1 DEF Ascending, Stored
  <2>4. ~Held(c)' /\ (Got(c)' <=> Got(c)) /\ Queued(c)' = Queued(c) /\ UNCHANGED <<got, uiqueue>>
    BY <1>1 DEF Held, Shows, Got, Queued
  <2>5. Came(c)' = {shown'[c][i] : i \in DOMAIN shown'[c]} \cup {uiqueue[i][2] : i \in Queued(c)}
                     \cup (IF Got(c) THEN {got[2]} ELSE {})
    BY <2>4 DEF Came
  <2> HIDE DEF s, m
  <2>6. \A i \in DOMAIN Append(s, m) : \/ i \in DOMAIN s /\ Append(s, m)[i] = s[i] /\ i < Len(s) + 1
                                       \/ i = Len(s) + 1 /\ Append(s, m)[i] = m
    BY <2>2
  <2>7. (\A i \in DOMAIN s : i \in Nat /\ i < Len(s) + 1) /\ Len(s) \in Nat
    BY <2>2
  <2>8. Asc(Append(s, m))
    BY <2>3, <2>6, <2>7 DEF Asc, Below
  <2>9. /\ \A i \in Queued(c) : Below(Append(s, m), uiqueue[i][2])
        /\ Got(c) => Below(Append(s, m), got[2])
    BY <2>3, <2>6 DEF Below
  <2>10. Stored(c)'
    BY <2>1, <2>4, <2>8, <2>9 DEF Ascending, Stored, Asc, Below
  <2>11. Came(c)' \subseteq Came(c)
    <3>1. \A i \in DOMAIN Append(s, m) : Append(s, m)[i] \in Came(c)
      BY <2>2, <2>6
    <3>2. \A k \in DOMAIN shown'[c] : shown'[c][k] \in Came(c)
      BY <2>1, <3>1
    <3>3. {uiqueue[i][2] : i \in Queued(c)} \cup (IF Got(c) THEN {got[2]} ELSE {}) \subseteq Came(c)
      BY DEF Came
    <3> QED
      BY <2>5, <3>2, <3>3
  <2> QED
    BY <2>10, <2>11
<1> QED
  BY <1>2, <1>3

\* stk_recv_msg() takes the first packet, before all others of its conversation.
LEMMA ReceiveStep ==
  ASSUME TypeInv, NEW c \in Conv, Ascending(c), Receive
  PROVE  Ascending(c)'
<1>1. PICK n \in 1 .. Len(toCli) : Receives(n)
  BY DEF Receive
<1>2. /\ Head(toCli) = toCli[1] /\ 1 \in DOMAIN toCli /\ n \in Nat /\ n > 0
      /\ \A i \in DOMAIN toCli' : i + n \in DOMAIN toCli /\ i \in Nat /\ i > 0 /\ toCli'[i] = toCli[i + n]
  BY <1>1, ReceivesType DEF TypeInv, WireTypes, Receives
<1>3. spc = "recv" /\ UNCHANGED <<uiqueue, shown, pushed, tpc, msg>>
  BY DEF Receive, recvVars, histVars
<1>4. \/ spc' \in {"dead", "top2"}
      \/ Head(toCli)[1] = "msg" /\ spc' = "put" /\ got' = Head(toCli)[2]
  BY DEF Receive
<1>5. Fewer(c)
  BY <1>2 DEF Fewer
<1>6. ~Got(c) /\ (Held(c)' <=> Held(c)) /\ Queued(c)' = Queued(c)
  BY <1>3 DEF Got, Held, Queued
<1>7. CASE ~Got(c)'
  <2>1. Stored(c)' /\ Came(c)' \subseteq Came(c)
    BY <1>3, <1>6, <1>7 DEF Ascending, Stored, Asc, Below, Came
  <2> QED
    BY <1>3, <1>5, <2>1, ComingKept DEF Ascending
<1>8. CASE Got(c)'
  <2> DEFINE e == toCli[1][2][2]
  <2>1. OnWire(1, c) /\ got'[2] = e
    BY <1>2, <1>4, <1>8 DEF Got, OnWire
  <2>2. /\ e <= pushed[c] /\ (\A m \in Came(c) : m < e)
        /\ \A j \in DOMAIN toCli : OnWire(j, c) /\ 1 < j => e < toCli[j][2][2]
    BY <1>2, <2>1 DEF Ascending, Coming
  <2> HIDE DEF e
  <2>3. Below(shown[c], e) /\ (\A i \in Queued(c) : uiqueue[i][2] < e) /\ (Held(c) => msg[2] < e)
    BY <2>2, CameNat DEF Below
  <2>4. Stored(c)'
    BY <1>3, <1>6, <2>1, <2>3 DEF Ascending, Stored, Asc, Below
  <2>5. Came(c)' \subseteq Came(c) \cup {e}
    BY <1>3, <1>6, <2>1 DEF Came
  <2>6. \A m \in Came(c)' : m <= pushed'[c]
    BY <1>3, <2>2, <2>5 DEF Ascending, Coming
  <2>7. ASSUME NEW i \in DOMAIN toCli', OnWire(i, c)'
        PROVE  /\ toCli'[i][2][2] <= pushed'[c]
               /\ \A m \in Came(c)' : m < toCli'[i][2][2]
               /\ \A j \in DOMAIN toCli' : OnWire(j, c)' /\ i < j => toCli'[i][2][2] < toCli'[j][2][2]
    <3>1. i + n \in DOMAIN toCli /\ i \in Nat /\ 1 < i + n /\ toCli'[i] = toCli[i + n] /\ OnWire(i + n, c)
      BY <1>2, <2>7 DEF OnWire
    <3>2. ASSUME NEW j \in DOMAIN toCli', OnWire(j, c)', i < j
          PROVE  toCli'[i][2][2] < toCli'[j][2][2]
      <4>1. j + n \in DOMAIN toCli /\ i + n < j + n /\ toCli'[j] = toCli[j + n] /\ OnWire(j + n, c)
        BY <1>2, <3>1, <3>2 DEF OnWire
      <4> QED
        BY <3>1, <4>1 DEF Ascending, Coming
    <3>3. toCli[i + n][2][2] <= pushed[c] /\ \A m \in Came(c) : m < toCli[i + n][2][2]
      BY <3>1 DEF Ascending, Coming
    <3>4. e < toCli[i + n][2][2]
      BY <2>2, <3>1
    <3> QED
      BY <1>3, <2>5, <3>1, <3>2, <3>3, <3>4
  <2> QED
    BY <2>4, <2>6, <2>7 DEF Ascending, Coming
<1> QED
  BY <1>7, <1>8

\* A message is sent after all that were sent before.
LEMMA PushStep ==
  ASSUME TypeInv, NEW c \in Conv, Ascending(c), Push(c)
  PROVE  Ascending(c)'
<1> DEFINE p == <<"msg", <<c, pushed[c] + 1>>>>
<1>1. /\ pushed[c] \in Nat /\ toCli \in Seq(ToClient) /\ toCli' = Append(toCli, p)
      /\ pushed'[c] = pushed[c] + 1 /\ UNCHANGED <<uiqueue, shown, spc, got, tpc, msg>>
  BY DEF Push, TypeInv, MailTypes, WireTypes, queueVars, sockVars, recvVars
<1>2. Stored(c)' /\ Came(c)' = Came(c)
  BY <1>1 DEF Ascending, Stored, Asc, Below, Came, Held, Got, Queued
<1>3. p[1] = "msg" /\ p[2][1] = c /\ p[2][2] = pushed[c] + 1
  OBVIOUS
<1> HIDE DEF p
<1>4. /\ \A i \in DOMAIN toCli' : /\ i \in 1 .. Len(toCli) + 1
                                  /\ \/ i \in DOMAIN toCli /\ toCli'[i] = toCli[i]
                                     \/ i = Len(toCli) + 1 /\ toCli'[i] = p
      /\ \A i \in DOMAIN toCli : i \in Nat /\ i < Len(toCli) + 1
      /\ Len(toCli) \in Nat
  BY <1>1
<1>5. \A i \in DOMAIN toCli : OnWire(i, c) => toCli[i][2][2] \in Nat /\ toCli[i][2][2] <= pushed[c]
  BY WireNat DEF Ascending, Coming
<1>6. (\A m \in Came(c) : m \in Nat /\ m <= pushed[c]) /\ Coming(c)
  BY CameNat DEF Ascending, Coming
<1>7. \A m \in Came(c)' : m <= pushed'[c]
  BY <1>1, <1>2, <1>6
<1>8. ASSUME NEW i \in DOMAIN toCli', OnWire(i, c)'
      PROVE  /\ toCli'[i][2][2] <= pushed'[c]
             /\ \A m \in Came(c)' : m < toCli'[i][2][2]
             /\ \A j \in DOMAIN toCli' : OnWire(j, c)' /\ i < j => toCli'[i][2][2] < toCli'[j][2][2]
  <2>1. CASE i \in DOMAIN toCli /\ toCli'[i] = toCli[i]
    <3>1. OnWire(i, c)
      BY <1>8, <2>1 DEF OnWire
    <3>2. /\ toCli[i][2][2] \in Nat /\ toCli[i][2][2] <= pushed[c]
          /\ \A m \in Came(c) : m < toCli[i][2][2]
      BY <1>5, <1>6, <2>1, <3>1 DEF Coming
    <3>3. ASSUME NEW j \in DOMAIN toCli', OnWire(j, c)', i < j
          PROVE  toCli'[i][2][2] < toCli'[j][2][2]
      <4>1. CASE j \in DOMAIN toCli /\ toCli'[j] = toCli[j]
        <5>1. OnWire(j, c)
          BY <3>3, <4>1 DEF OnWire
        <5> QED
          BY <1>6, <2>1, <3>1, <3>3, <4>1, <5>1 DEF Coming
      <4>2. CASE toCli'[j] = p
        BY <1>1, <1>3, <2>1, <3>2, <4>2
      <4> QED
        BY <1>4, <4>1, <4>2
    <3> QED
      BY <1>1, <1>2, <2>1, <3>2, <3>3
  <2>2. CASE i = Len(toCli) + 1 /\ toCli'[i] = p
    <3>1. \A j \in DOMAIN toCli' : ~(i < j)
      BY <1>4, <2>2
    <3> QED
      BY <1>1, <1>2, <1>3, <1>6, <2>2, <3>1
  <2> QED
    BY <1>4, <2>1, <2>2
<1> QED
  BY <1>2, <1>7, <1>8 DEF Ascending, Coming

LEMMA StepAscending ==
  ASSUME TypeInv, [Next]_vars, NEW c \in Conv, Ascending(c)
  PROVE  Ascending(c)'
<1>1. CASE Receive
  BY <1>1, ReceiveStep
<1>2. CASE Push(c)
  BY <1>2, PushStep
<1> SUFFICES ASSUME ~Receive, ~Push(c)
             PROVE  Ascending(c)'
  BY <1>1, <1>2
<1>3. Fewer(c)
  BY FewerFrame
<1>4. pushed'[c] = pushed[c]
  <2>1. CASE Insert
    BY <2>1 DEF Insert
  <2>2. CASE \E d \in Conv \ {c} : Push(d)
    BY <2>2 DEF Push, TypeInv, MailTypes
  <2> QED
    BY <2>1, <2>2, MailFrame
<1>5. Stored(c)' /\ Came(c)' \subseteq Came(c)
  <2>1. CASE Put
    BY <2>1, PutStep
  <2>2. CASE Take
    BY <2>2, TakeStep
  <2>3. CASE Insert
    BY <2>3, InsertStep
  <2>4. CASE ~Put /\ ~Take /\ ~Insert
    <3>1. shown' = shown
      BY <2>4, MailFrame DEF Push
    <3>2. uiqueue' = uiqueue
      <4>1. CASE Chatting \/ SendQueued \/ Look \/ ClearSync \/ SendPut \/ \E d \in Conv : CreateWin(d) \/ SendMsg(d)
        BY <4>1 DEF Chatting, SendQueued, Look, ClearSync, SendPut, CreateWin, SendMsg
      <4> QED
        BY <2>4, <4>1, QueueFrame
    <3>3. (tpc' \in Shows => tpc \in Shows /\ msg' = msg) /\ (spc' = "put" => spc = "put" /\ got' = got)
      BY <2>4, HeldFrame, GotFrame
    <3> QED
      BY <3>1, <3>2, <3>3, StoredKept DEF Ascending
  <2> QED
    BY <2>1, <2>2, <2>3, <2>4
<1> QED
  BY <1>3, <1>4, <1>5, ComingKept DEF Ascending

\* The messages that wait are the one the receive thread holds and those in
\* uiqueue, in this order.
LEMMA WaitsElements ==
  ASSUME TypeInv, NEW i \in DOMAIN Waits
  PROVE  /\ i \in Nat \ {0}
         /\ \/ tpc \in Shows /\ i = 1 /\ Waits[i] = msg
            \/ \E k \in DOMAIN uiqueue : /\ k \in Nat /\ Waits[i] = uiqueue[k]
                                         /\ i = k + (IF tpc \in Shows THEN 1 ELSE 0)
<1>1. uiqueue \in Seq(Messages) /\ (tpc \in Shows => msg \in Messages)
  BY DEF TypeInv, QueueTypes, RecvTypes
<1>2. CASE tpc \in Shows
  <2>1. Waits = <<msg>> \o uiqueue /\ <<msg>> \in Seq(Messages) /\ Len(<<msg>>) = 1
    BY <1>1, <1>2 DEF Waits, Shows
  <2>2. \/ i = 1 /\ Waits[i] = msg
        \/ i > 1 /\ i - 1 \in DOMAIN uiqueue /\ Waits[i] = uiqueue[i - 1]
    BY <1>1, <2>1
  <2>3. i \in Nat \ {0} /\ (i > 1 => i - 1 \in Nat /\ i = (i - 1) + 1)
    BY <1>1, <2>1
  <2> QED
    BY <1>2, <2>2, <2>3
<1>3. CASE tpc \notin Shows
  <2>1. Waits = uiqueue
    BY <1>1, <1>3 DEF Waits, Shows
  <2>2. i \in Nat \ {0} /\ i \in DOMAIN uiqueue /\ i = i + 0
    BY <1>1, <2>1
  <2> QED
    BY <1>3, <2>1, <2>2
<1> QED
  BY <1>2, <1>3

\* The messages of a conversation get into its window in the order in which
\* they were sent, each at most once, through the two threads and the queue
\* between them.
THEOREM InOrderCorrect == Spec => []InOrder
<1> DEFINE Inv == \A c \in Conv : Ascending(c)
<1>1. Init => Inv
  BY InitAscending
<1>2. TypeInv /\ Inv /\ [Next]_vars => Inv'
  BY StepAscending
<1>3. TypeInv /\ Inv => InOrder
  <2> SUFFICES ASSUME TypeInv, Inv, NEW c \in Conv
               PROVE  /\ \A i, j \in DOMAIN shown[c] : i < j => shown[c][i] < shown[c][j]
                      /\ \A i, j \in DOMAIN Waits : i < j /\ Waits[i][1] = c /\ Waits[j][1] = c => Waits[i][2] < Waits[j][2]
                      /\ \A i \in DOMAIN shown[c], j \in DOMAIN Waits : Waits[j][1] = c => shown[c][i] < Waits[j][2]
    BY DEF InOrder
  <2>1. Stored(c)
    BY DEF Ascending
  <2>2. ASSUME NEW j \in DOMAIN Waits, Waits[j][1] = c
        PROVE  \/ Held(c) /\ j = 1 /\ Waits[j] = msg
               \/ \E k \in Queued(c) : /\ k \in Nat /\ Waits[j] = uiqueue[k]
                                       /\ j = k + (IF tpc \in Shows THEN 1 ELSE 0)
    BY <2>2, WaitsElements DEF Held, Queued
  <2>3. ASSUME NEW i \in DOMAIN shown[c], NEW j \in DOMAIN Waits, Waits[j][1] = c
        PROVE  shown[c][i] < Waits[j][2]
    BY <2>1, <2>2, <2>3 DEF Stored, Below
  <2>4. ASSUME NEW i \in DOMAIN Waits, NEW j \in DOMAIN Waits, i < j, Waits[i][1] = c, Waits[j][1] = c
        PROVE  Waits[i][2] < Waits[j][2]
    <3>1. i \in Nat /\ j \in Nat /\ j # 1
      BY <2>4, WaitsElements
    <3>2. PICK k \in Queued(c) : /\ k \in Nat /\ Waits[j] = uiqueue[k]
                                 /\ j = k + (IF tpc \in Shows THEN 1 ELSE 0)
      BY <2>2, <2>4, <3>1
    <3>3. CASE Held(c) /\ Waits[i] = msg
      BY <2>1, <3>2, <3>3 DEF Stored
    <3>4. ASSUME NEW l \in Queued(c), l \in Nat, Waits[i] = uiqueue[l], i = l + (IF tpc \in Shows THEN 1 ELSE 0)
          PROVE  Waits[i][2] < Waits[j][2]
      <4>1. l < k
        BY <2>4, <3>2, <3>4
      <4> QED
        BY <2>1, <3>2, <3>4, <4>1 DEF Stored
    <3> QED
      BY <2>2, <2>4, <3>3, <3>4
  <2> QED
    BY <2>1, <2>3, <2>4 DEF Stored, Asc
<1> QED
  BY <1>1, <1>2, <1>3, Typed, PTL DEF Spec

-----------------------------------------------------------------------------
(* The list of buddies                                                     *)

Known(u) == \E j \in DOMAIN buddylist : buddylist[j] = u
Complete == \A i \in DOMAIN Buddies : Known(Buddies[i])

\* The invariant, of a login without a message from outside: a buddy who is not
\* in the list is still to be asked about, and the groups come last.
ToAsk(rest) ==
  /\ \A j \in DOMAIN rest : rest[j][1] = "info" \/ (rest[j][1] = "groups" /\ j = Len(rest))
  /\ \A i \in DOMAIN Buddies : Known(Buddies[i]) \/ \E j \in DOMAIN rest : rest[j] = <<"info", Buddies[i]>>
AllGroups(rest) == \A j \in DOMAIN rest : rest[j][1] = "ginfo"
Asked ==
  spc \in {"ask", "answer"} =>
    \/ Cmd \in {"req", "login", "self", "users"}
    \/ Cmd \in {"info", "groups"} /\ ToAsk(todo)
    \/ Complete /\ AllGroups(todo)

\* Nothing but the request and its answer is on the wire, up to the groups.
Answers(p) == p[1] = Cmd /\ (Cmd = "users" => p[2] = Buddies) /\ (Cmd = "info" => p[2] = Head(todo)[2])
Empty == toSrv = <<>> /\ toCli = <<>>
Synced ==
  /\ spc = "made" => Empty /\ (online => eof)
  /\ spc = "ask" /\ Cmd # "ginfo" => Empty
  /\ spc = "answer" /\ Cmd # "ginfo" =>
       \/ Empty
       \/ toSrv = <<Head(todo)>> /\ toCli = <<>>
       \/ toSrv = <<>> /\ Len(toCli) = 1 /\ Answers(Head(toCli))

\* A user whose connection is gone stays online until the server notices.
Ghost == online => eof \/ link = "up"

Done ==
  /\ spc = "report" /\ res = "CONNECTED" => Complete
  /\ running = "CONNECTED" \/ view = "main" => Complete

LEMMA StepGhost == TypeInv /\ Ghost /\ [Next]_vars => Ghost'
<1> SUFFICES ASSUME TypeInv, Ghost, [Next]_vars
             PROVE  Ghost'
  OBVIOUS
<1>1. CASE UNCHANGED <<link, toSrv, toCli, online, eof>>
  BY <1>1 DEF Ghost
<1>2. CASE ConnectCancelled \/ Report \/ Ask \/ Answer \/ Receive \/ (\E ok \in BOOLEAN : Connect(ok))
  BY <1>2 DEF Ghost, ConnectCancelled, Report, Ask, Answer, Receive, Connect, CloseSock
<1>3. CASE Offline \/ ServerExit \/ \E c \in Conv : Push(c)
  BY <1>3 DEF Ghost, Offline, ServerExit, Push
<1>4. CASE Serve
  <2>1. link = "up" /\ (link' = link \/ online' = FALSE)
    BY <1>4 DEF Serve
  <2> QED
    BY <2>1 DEF Ghost
<1> QED
  BY <1>1, <1>2, <1>3, <1>4, WireFrame

\* The requests that follow the list of users.
LEMMA ProfilesAsk ==
  LET rest == Profiles(Buddies) \o <<<<"groups", None>>>>
  IN rest \in Seq(Requests) /\ ToAsk(rest)
<1> DEFINE p == Profiles(Buddies)
           g == <<"groups", None>>
           rest == p \o <<g>>
           n == Len(Buddies)
<1>1. Buddies \in Seq(Uids) /\ n \in Nat /\ DOMAIN Buddies = 1 .. n
  BY NamesAssumption
<1>2. rest \in Seq(Requests)
  BY <1>1, RequestLists
<1>3. p = [i \in 1 .. n |-> <<"info", Buddies[i]>>] /\ g[1] = "groups"
  BY <1>1 DEF Profiles
<1>4. g \in Requests /\ \A i \in 1 .. n : <<"info", Buddies[i]>> \in Requests
  BY <1>1 DEF Requests
<1> HIDE DEF g
<1>5. p \in Seq(Requests) /\ Len(p) = n /\ <<g>> \in Seq(Requests) /\ Len(<<g>>) = 1 /\ <<g>>[1] = g
  BY <1>1, <1>3, <1>4
<1>6. \A i \in 1 .. n : p[i] = <<"info", Buddies[i]>> /\ p[i][1] = "info"
  BY <1>3
<1> HIDE DEF p, n
<1>7. /\ Len(rest) = n + 1 /\ DOMAIN rest = 1 .. n + 1 /\ rest[n + 1] = g
      /\ \A i \in 1 .. n : rest[i] = p[i]
  BY <1>1, <1>5
<1> HIDE DEF rest
<1>8. \A j \in DOMAIN rest : rest[j][1] = "info" \/ (rest[j][1] = "groups" /\ j = Len(rest))
  BY <1>1, <1>3, <1>6, <1>7
<1>9. \A i \in DOMAIN Buddies : \E j \in DOMAIN rest : rest[j] = <<"info", Buddies[i]>>
  BY <1>1, <1>6, <1>7
<1>10. rest \in Seq(Requests) /\ ToAsk(rest)
  BY <1>2, <1>8, <1>9 DEF ToAsk
<1> QED
  BY <1>10 DEF rest, p, g

\* What an answer that was expected leaves to be asked.
LEMMA GoOnAsked ==
  ASSUME NEW rest \in Seq(Requests), GoOn(rest),
         \/ rest # <<>> /\ Head(rest)[1] \in {"req", "login", "self", "users"}
         \/ ToAsk(todo)'
         \/ Complete' /\ AllGroups(todo)'
  PROVE  Asked' /\ (spc' = "report" => Complete')
<1>1. CASE rest = <<>>
  <2>1. spc' = "report" /\ todo' = rest /\ DOMAIN todo' = {}
    BY <1>1 DEF GoOn
  <2>2. Complete'
    BY <1>1, <2>1 DEF ToAsk, Complete
  <2> QED
    BY <2>1, <2>2 DEF Asked
<1>2. CASE rest # <<>>
  <2>1. /\ spc' = "ask" /\ todo' = rest /\ Cmd' = todo'[1][1] /\ 1 \in DOMAIN todo'
        /\ Head(rest) = todo'[1]
    BY <1>2 DEF GoOn, Cmd
  <2>2. ToAsk(todo)' => Cmd' \in {"info", "groups"}
    BY <2>1 DEF ToAsk
  <2> QED
    BY <2>1, <2>2 DEF Asked
<1> QED
  BY <1>1, <1>2

\* The list grows.
LEMMA KnownKept ==
  ASSUME TypeInv, UNCHANGED buddylist \/ \E u \in Uids : buddylist' = Append(buddylist, u)
  PROVE  /\ \A u : Known(u) => Known(u)'
         /\ Complete => Complete'
<1>1. buddylist \in Seq(Uids)
  BY DEF TypeInv, ListTypes
<1>2. \A u : Known(u) => Known(u)'
  BY <1>1, AppendElements DEF Known
<1> QED
  BY <1>2 DEF Complete

\* The answer about a user puts him into the list, and off the requests.
LEMMA InfoAsked ==
  ASSUME TypeInv, ToAsk(todo), todo # <<>>, Head(todo)[1] = "info",
         buddylist' = Append(buddylist, Head(todo)[2]), todo' = Tail(todo)
  PROVE  ToAsk(todo)'
<1>1. /\ todo \in Seq(Requests) /\ Head(todo) \in Requests /\ Head(todo) = todo[1]
      /\ Len(todo') = Len(todo) - 1 /\ Len(todo) \in Nat
      /\ \A j \in DOMAIN todo' : j + 1 \in DOMAIN todo /\ j \in Nat /\ todo'[j] = todo[j + 1]
      /\ \A j \in DOMAIN todo : j = 1 \/ (j - 1 \in DOMAIN todo' /\ todo'[j - 1] = todo[j])
  BY DEF TypeInv, SockTypes
<1>2. PICK u \in Uids : u = Head(todo)[2] /\ todo[1] = <<"info", u>>
  BY <1>1, RequestType
<1>3. buddylist \in Seq(Uids)
  BY DEF TypeInv, ListTypes
<1>4. buddylist' = Append(buddylist, u)
  BY <1>2
<1>5. Known(u)' /\ \A v : Known(v) => Known(v)'
  <2>1. Known(u)'
    BY <1>2, <1>3, <1>4, AppendElements DEF Known
  <2> QED
    BY <1>2, <1>4, <2>1, KnownKept
<1>6. \A j \in DOMAIN todo' : todo'[j][1] = "info" \/ (todo'[j][1] = "groups" /\ j = Len(todo'))
  BY <1>1 DEF ToAsk
<1>7. ASSUME NEW i \in DOMAIN Buddies
      PROVE  Known(Buddies[i])' \/ \E j \in DOMAIN todo' : todo'[j] = <<"info", Buddies[i]>>
  <2>1. CASE Known(Buddies[i])
    BY <1>5, <2>1
  <2>2. ASSUME NEW j \in DOMAIN todo, todo[j] = <<"info", Buddies[i]>>
        PROVE  Known(Buddies[i])' \/ \E k \in DOMAIN todo' : todo'[k] = <<"info", Buddies[i]>>
    <3>1. CASE j = 1
      <4>1. u = Buddies[i]
        BY <1>2, <2>2, <3>1
      <4> QED
        BY <1>5, <4>1
    <3>2. CASE j - 1 \in DOMAIN todo' /\ todo'[j - 1] = todo[j]
      BY <2>2, <3>2
    <3> QED
      BY <1>1, <3>1, <3>2
  <2> QED
    BY <2>1, <2>2 DEF ToAsk
<1> QED
  BY <1>6, <1>7 DEF ToAsk

\* When the groups are asked about, no buddy remains to be.
LEMMA GroupsComplete ==
  ASSUME TypeInv, ToAsk(todo), todo # <<>>, Head(todo)[1] = "groups"
  PROVE  Complete
<1>1. 1 \in DOMAIN todo /\ Head(todo) = todo[1] /\ DOMAIN todo = 1 .. Len(todo)
  BY DEF TypeInv, SockTypes
<1>2. Len(todo) = 1
  BY <1>1 DEF ToAsk
<1>3. \A j \in DOMAIN todo : todo[j][1] = "groups"
  BY <1>1, <1>2
<1> QED
  BY <1>3 DEF ToAsk, Complete

LEMMA GroupRequests ==
  ASSUME NEW list
  PROVE  AllGroups([i \in DOMAIN list |-> <<"ginfo", list[i]>>])
BY DEF AllGroups

LEMMA AllGroupsTail ==
  ASSUME TypeInv, AllGroups(todo), todo # <<>>
  PROVE  AllGroups(Tail(todo)) /\ Tail(todo) \in Seq(Requests)
BY TailElements DEF TypeInv, SockTypes, AllGroups

\* Groups are asked about once the list is complete, whatever is answered.
LEMMA GinfoAnswer ==
  ASSUME TypeInv, Complete, AllGroups(todo), Answer, Cmd = "ginfo"
  PROVE  Asked' /\ (spc' = "report" => Complete') /\ buddylist' = buddylist
<1>1. todo # <<>> /\ todo \in Seq(Requests) /\ AllGroups(Tail(todo)) /\ Tail(todo) \in Seq(Requests)
  BY AllGroupsTail DEF TypeInv, SockTypes, Answer
<1>2. buddylist' = buddylist /\ (Raises \/ GoOn(Tail(todo)))
  <2>1. CASE toCli = <<>> /\ Fails
    BY <1>1, <2>1 DEF Fails, listVars
  <2>2. CASE Raises
    BY <2>2 DEF Raises, listVars
  <2>3. ASSUME NEW p, Accept(p)
        PROVE  buddylist' = buddylist /\ GoOn(Tail(todo))
    BY <2>3 DEF Accept
  <2>4. ASSUME NEW n, Misread(n)
        PROVE  buddylist' = buddylist /\ (Raises \/ GoOn(Tail(todo)))
    BY <2>4 DEF Misread, Raises, listVars
  <2> QED
    BY <2>1, <2>2, <2>3, <2>4 DEF Answer
<1>3. Complete'
  BY <1>2, KnownKept
<1>4. CASE GoOn(Tail(todo))
  <2>1. todo' = Tail(todo)
    BY <1>4 DEF GoOn
  <2>2. AllGroups(todo)'
    BY <1>1, <2>1 DEF AllGroups
  <2> QED
    BY <1>1, <1>2, <1>3, <1>4, <2>2, GoOnAsked
<1>5. CASE Raises
  BY <1>2, <1>3, <1>5 DEF Raises, Asked
<1> QED
  BY <1>2, <1>4, <1>5

\* What the answer to a request leads to.
LEMMA AcceptAsked ==
  ASSUME TypeInv, Asked, Answer, Cmd # "ginfo", NEW p \in ToClient, Answers(p), Accept(p[2])
  PROVE  /\ Asked' /\ (spc' = "report" /\ res' = "CONNECTED" => Complete')
         /\ UNCHANGED buddylist \/ \E u \in Uids : buddylist' = Append(buddylist, u)
<1>1. spc = "answer" /\ todo # <<>> /\ todo \in Seq(Requests) /\ Head(todo) \in Requests
  BY DEF TypeInv, SockTypes, Answer
<1>2. \/ Cmd \in {"req", "login", "self", "users"}
      \/ Cmd \in {"info", "groups"} /\ ToAsk(todo)
  <2>1. AllGroups(todo) => Cmd = "ginfo"
    BY <1>1 DEF AllGroups, Cmd
  <2> QED
    BY <1>1, <2>1 DEF Asked
<1>3. ASSUME NEW cmd \in {"req", "login", "self", "users"}, GoOn(<<<<cmd, None>>>>)
      PROVE  Asked' /\ (spc' = "report" => Complete')
  <2>1. <<<<cmd, None>>>> \in Seq(Requests)
    BY RequestLists
  <2>2. \A r : <<r>> # <<>> /\ Head(<<r>>) = r
    OBVIOUS
  <2>3. <<<<cmd, None>>>> # <<>> /\ Head(<<<<cmd, None>>>>)[1] = cmd
    BY <2>2
  <2> QED
    BY <1>3, <2>1, <2>3, GoOnAsked
<1>4. CASE Cmd = "req"
  <2>1. GoOn(<<<<"login", None>>>>) /\ UNCHANGED buddylist
    BY <1>4 DEF Accept, listVars
  <2> QED
    BY <1>3, <2>1
<1>5. CASE Cmd = "login"
  <2>1. Decide(p[2]) /\ UNCHANGED buddylist /\ p[2] \in Codes \cup {"again"}
    BY <1>5, PacketType DEF Accept, listVars, Answers
  <2>2. CASE p[2] = "ok"
    <3>1. GoOn(<<<<"self", None>>>>)
      BY <2>2, <2>1 DEF Decide
    <3> QED
      BY <1>3, <2>1, <3>1
  <2>3. CASE p[2] # "ok"
    <3>1. spc' = "report" /\ res' # "CONNECTED"
      BY <2>1, <2>3 DEF Decide, Ends, Codes
    <3> QED
      BY <2>1, <3>1 DEF Asked
  <2> QED
    BY <2>2, <2>3
<1>6. CASE Cmd = "self"
  <2>1. GoOn(<<<<"users", None>>>>) /\ UNCHANGED buddylist
    BY <1>6 DEF Accept, listVars
  <2> QED
    BY <1>3, <2>1
<1>7. CASE Cmd = "users"
  <2> DEFINE rest == Profiles(Buddies) \o <<<<"groups", None>>>>
  <2>1. GoOn(rest) /\ UNCHANGED buddylist
    BY <1>7 DEF Accept, listVars, Answers
  <2>2. todo' = rest
    BY <2>1 DEF GoOn
  <2>3. rest \in Seq(Requests) /\ ToAsk(rest)
    BY ProfilesAsk
  <2> HIDE DEF rest
  <2>4. ToAsk(todo)'
    BY <2>1, <2>2, <2>3 DEF ToAsk, Known
  <2> QED
    BY <2>1, <2>3, <2>4, GoOnAsked
<1>8. CASE Cmd = "info"
  <2>1. GoOn(Tail(todo)) /\ buddylist' = Append(buddylist, Head(todo)[2]) /\ Head(todo)[2] \in Uids
    BY <1>1, <1>8, RequestType DEF Accept, Answers, Cmd
  <2>2. todo' = Tail(todo) /\ Tail(todo) \in Seq(Requests)
    BY <1>1, <2>1, TailElements DEF GoOn
  <2>3. ToAsk(todo)'
    BY <1>1, <1>2, <1>8, <2>1, <2>2, InfoAsked DEF Cmd
  <2> QED
    BY <2>1, <2>2, <2>3, GoOnAsked
<1>9. CASE Cmd = "groups"
  <2> DEFINE rest == [i \in DOMAIN p[2] |-> <<"ginfo", p[2][i]>>]
  <2>1. GoOn(rest) /\ UNCHANGED buddylist
    BY <1>9 DEF Accept, listVars
  <2>2. Complete'
    BY <1>1, <1>2, <1>9, <2>1, GroupsComplete, KnownKept DEF Cmd
  <2>3. todo' = rest /\ AllGroups(rest)
    BY <2>1, GroupRequests DEF GoOn
  <2>4. p[2] \in Seq(Conv)
    BY <1>9, PacketType, ConvLists DEF Answers
  <2>5. rest \in Seq(Requests)
    BY <2>4, RequestLists
  <2> HIDE DEF rest
  <2>6. AllGroups(todo)'
    BY <2>3 DEF AllGroups
  <2> QED
    BY <2>1, <2>2, <2>5, <2>6, GoOnAsked
<1> QED
  BY <1>2, <1>4, <1>5, <1>6, <1>7, <1>8, <1>9

\* Any outcome of a request, where no message has interfered.
LEMMA AnswerAsked ==
  ASSUME TypeInv, Asked, Synced, Answer
  PROVE  /\ Asked' /\ (spc' = "report" /\ res' = "CONNECTED" => Complete')
         /\ UNCHANGED buddylist \/ \E u \in Uids : buddylist' = Append(buddylist, u)
         /\ spc' = "ask" /\ Cmd' # "ginfo" => Empty'
<1>1. /\ spc = "answer" /\ todo # <<>> /\ todo \in Seq(Requests) /\ Head(todo) \in Requests
      /\ toSrv' = toSrv
  BY DEF TypeInv, SockTypes, Answer
<1>2. CASE Cmd = "ginfo"
  <2>1. Complete /\ AllGroups(todo)
    BY <1>1, <1>2 DEF Asked
  <2>2. Asked' /\ (spc' = "report" => Complete') /\ buddylist' = buddylist
    BY <1>2, <2>1, GinfoAnswer
  <2>3. spc' = "ask" => Cmd' = "ginfo"
    <3> SUFFICES ASSUME spc' = "ask"
                 PROVE  Cmd' = "ginfo"
      OBVIOUS
    <3>1. todo' = Tail(todo) /\ todo' # <<>>
      <4>1. todo' # <<>>
        BY AnswerStep DEF Goes
      <4>2. GoOn(Tail(todo)) \/ Raises
        BY <1>2 DEF Answer, Fails, Accept, Misread
      <4> QED
        BY <4>1, <4>2 DEF GoOn, Raises
    <3>2. AllGroups(todo')
      BY <1>1, <2>1, <3>1, AllGroupsTail
    <3>3. todo' \in Seq(Requests)
      BY AnswerStep DEF Goes
    <3>4. 1 \in DOMAIN todo' /\ Head(todo') = todo'[1]
      BY <3>1, <3>3
    <3> QED
      BY <3>2, <3>4 DEF AllGroups, Cmd
  <2> QED
    BY <2>2, <2>3
<1>3. CASE Cmd # "ginfo" /\ toCli = <<>>
  <2>1. spc' = "dead" \/ (spc' = "report" /\ res' = "SOCKET_ERR")
    BY <1>3, ReceivesType DEF Answer, Fails, Ends, Raises, TypeInv
  <2>2. buddylist' = buddylist
    BY <1>3, ReceivesType DEF Answer, Fails, Ends, Raises, TypeInv, listVars
  <2> QED
    BY <2>1, <2>2 DEF Asked
<1>4. CASE Cmd # "ginfo" /\ toCli # <<>>
  <2>1. toSrv = <<>> /\ Len(toCli) = 1 /\ Answers(Head(toCli)) /\ toCli \in Seq(ToClient)
    BY <1>1, <1>4 DEF Synced, Empty, TypeInv, WireTypes
  <2>2. ~(AtEnd /\ Raises /\ UNCHANGED toCli)
    BY <1>4 DEF AtEnd
  <2>3. PICK n \in 1 .. Len(toCli) :
          /\ Receives(n)
          /\ IF n > 1 /\ Cmd \in Exact THEN Raises
             ELSE IF Head(toCli)[1] = Cmd THEN Accept(Head(toCli)[2]) ELSE Misread(n)
    BY <1>4, <2>2 DEF Answer
  <2>4. n = 1 /\ Head(toCli) \in ToClient /\ Head(toCli)[1] = Cmd
    BY <1>4, <2>1 DEF Answers
  <2>5. Accept(Head(toCli)[2])
    BY <2>3, <2>4
  <2>6. toCli' = <<>>
    BY <2>1, <2>3, <2>4 DEF Receives
  <2>7. Empty'
    BY <1>1, <2>1, <2>6 DEF Empty
  <2> QED
    BY <1>4, <2>1, <2>4, <2>5, <2>7, AcceptAsked
<1> QED
  BY <1>2, <1>3, <1>4

\* Where the socket thread is during a login changes by these actions.
LEMMA LoginFrame ==
  ASSUME [Next]_vars
  PROVE  \/ Answer \/ Connected \/ Ask \/ \E ok \in BOOLEAN : Connect(ok)
         \/ /\ spc' \in {"made", "ask", "answer", "report"} => spc' = spc /\ todo' = todo /\ res' = res
<1>1. CASE UNCHANGED <<spc, cred, todo, res, got>>
  BY <1>1
<1>2. CASE SeeRequest \/ ConnectCancelled \/ Report \/ Chatting \/ Put \/ RecvTimeout \/ Lost
  BY <1>2 DEF SeeRequest, ConnectCancelled, Report, Chatting, Put, RecvTimeout, Lost, IsAt
<1>3. CASE SendQueued \/ Receive \/ RecvEnd
  BY <1>3 DEF SendQueued, Receive, RecvEnd
<1> QED
  BY <1>1, <1>2, <1>3, SockFrame

LEMMA StepAsked ==
  ASSUME TypeInv, Asked, Synced, [Next]_vars
  PROVE  Asked'
<1>1. CASE Answer
  BY <1>1, AnswerAsked
<1>2. CASE Connected
  <2>1. spc' = "report" \/ (spc' = "ask" /\ todo' = <<<<"req", None>>>>)
    BY <1>2 DEF Connected, IsAt
  <2>2. \A r : Head(<<r>>) = r
    OBVIOUS
  <2>3. spc' = "ask" => Cmd' = "req"
    BY <2>1, <2>2 DEF Cmd
  <2> QED
    BY <2>1, <2>3 DEF Asked
<1>3. CASE \E ok \in BOOLEAN : Connect(ok)
  BY <1>3 DEF Connect, IsAt, Asked
<1> SUFFICES ASSUME ~Answer, ~Connected, ~\E ok \in BOOLEAN : Connect(ok)
             PROVE  Asked'
  BY <1>1, <1>2, <1>3
<1>4. spc' \in {"ask", "answer"} => spc \in {"ask", "answer"} /\ todo' = todo
  <2>1. CASE Ask
    BY <2>1 DEF Ask, IsAt
  <2> QED
    BY <2>1, LoginFrame
<1>5. buddylist' = buddylist
  BY ListFrame
<1> QED
  BY <1>4, <1>5 DEF Asked, Cmd, ToAsk, AllGroups, Complete, Known

\* A socket that was opened carries nothing until the login begins.
LEMMA StepMade ==
  ASSUME TypeInv, Ghost, Synced, [Next]_vars, spc' = "made"
  PROVE  Empty' /\ (online' => eof')
<1>1. ASSUME NEW ok \in BOOLEAN, Connect(ok)
      PROVE  Empty' /\ (online' => eof')
  BY <1>1 DEF Connect, Ghost, Empty
<1>2. ~Answer /\ ~Connected /\ ~Ask
  BY AnswerStep DEF Connected, Ask, IsAt, Goes
<1> SUFFICES ASSUME \A ok \in BOOLEAN : ~Connect(ok)
             PROVE  Empty' /\ (online' => eof')
  BY <1>1
<1>3. spc = "made"
  BY <1>2, LoginFrame
<1>4. Empty /\ (online => eof)
  BY <1>3 DEF Synced
<1>5. CASE UNCHANGED <<link, toSrv, toCli, online, eof>>
  BY <1>4, <1>5 DEF Empty
<1>6. CASE ConnectCancelled \/ Report \/ Receive
  BY <1>3, <1>6 DEF ConnectCancelled, Report, Receive, IsAt
<1>7. CASE Serve \/ \E c \in Conv : Push(c)
  BY <1>4, <1>7 DEF Serve, Push, Empty
<1>8. CASE Offline \/ ServerExit
  BY <1>4, <1>8 DEF Offline, ServerExit, Empty
<1> QED
  BY <1>2, <1>5, <1>6, <1>7, <1>8, WireFrame

\* A request is asked when the one before has been answered.
LEMMA StepAsking ==
  ASSUME TypeInv, Asked, Synced, [Next]_vars, ~early', spc' = "ask", Cmd' # "ginfo"
  PROVE  Empty'
<1>1. CASE Answer
  BY <1>1, AnswerAsked
<1>2. CASE Connected
  BY <1>2 DEF Connected, IsAt, Synced, Empty, wireVars
<1>3. ~Ask /\ ~\E ok \in BOOLEAN : Connect(ok)
  BY DEF Ask, Connect, IsAt
<1> SUFFICES ASSUME ~Answer, ~Connected
             PROVE  Empty'
  BY <1>1, <1>2
<1>4. spc = "ask" /\ Cmd' = Cmd
  BY <1>3, LoginFrame DEF Cmd
<1>5. Empty
  BY <1>4 DEF Synced
<1>6. CASE UNCHANGED <<link, toSrv, toCli, online, eof>>
  BY <1>5, <1>6 DEF Empty
<1>7. CASE ConnectCancelled \/ Report \/ Receive
  BY <1>4, <1>7 DEF ConnectCancelled, Report, Receive, IsAt
<1>8. CASE Serve \/ \E c \in Conv : Push(c)
  BY <1>4, <1>5, <1>8 DEF Serve, Push, Empty
<1>9. CASE Offline \/ ServerExit
  BY <1>5, <1>9 DEF Offline, ServerExit, Empty
<1> QED
  BY <1>3, <1>6, <1>7, <1>8, <1>9, WireFrame

\* The server answers what it was asked.
LEMMA ServeAnswers ==
  ASSUME TypeInv, Serve, Cmd # "ginfo", todo # <<>>,
         Empty \/ (toSrv = <<Head(todo)>> /\ toCli = <<>>) \/ toSrv = <<>>,
         todo' = todo
  PROVE  toSrv' = <<>> /\ Len(toCli') = 1 /\ Answers(Head(toCli))'
<1> DEFINE r == Head(todo)
           p == <<r[1], Body(r)>>
<1>1. toSrv = <<r>> /\ toCli = <<>> /\ r[1] # "ginfo"
  BY DEF Serve, Empty, Cmd
<1>2. \A e : Head(<<e>>) = e /\ Tail(<<e>>) = <<>> /\ Append(<<>>, e) = <<e>> /\ Len(<<e>>) = 1
  OBVIOUS
<1>3. toSrv' = <<>> /\ toCli' = <<p>>
  BY <1>1, <1>2 DEF Serve
<1>4. r \in Requests
  BY DEF TypeInv, SockTypes
<1>5. (r[1] = "users" => p[2] = Buddies) /\ (r[1] = "info" => p[2] = r[2]) /\ p[1] = r[1]
  <2>1. r[1] = "users" => Body(r) = Buddies
    BY DEF Body
  <2>2. r[1] = "info" => Body(r) = r[2]
    BY DEF Body
  <2> QED
    BY <2>1, <2>2
<1> HIDE DEF p
<1>6. Head(toCli') = p /\ Len(toCli') = 1
  BY <1>2, <1>3
<1> QED
  BY <1>3, <1>5, <1>6 DEF Answers, Cmd

\* While the socket thread waits for an answer, the request or its answer is on
\* the wire, or neither.
LEMMA StepAnswering ==
  ASSUME TypeInv, Asked, Synced, [Next]_vars, ~early', spc' = "answer", Cmd' # "ginfo"
  PROVE  \/ Empty'
         \/ toSrv' = <<Head(todo')>> /\ toCli' = <<>>
         \/ toSrv' = <<>> /\ Len(toCli') = 1 /\ Answers(Head(toCli))'
<1>1. CASE Ask
  <2>1. /\ spc = "ask" /\ todo' = todo /\ toCli' = toCli /\ Cmd' = Cmd
        /\ toSrv' = Append(toSrv, Head(todo)) \/ toSrv' = toSrv
    BY <1>1 DEF Ask, IsAt, Cmd
  <2>2. Empty
    BY <2>1 DEF Synced
  <2>3. \A e : Append(<<>>, e) = <<e>>
    OBVIOUS
  <2> QED
    BY <2>1, <2>2, <2>3 DEF Empty
<1>2. ~Answer /\ ~Connected /\ ~\E ok \in BOOLEAN : Connect(ok)
  BY AnswerStep DEF Connected, Connect, IsAt, Goes
<1> SUFFICES ASSUME ~Ask
             PROVE  \/ Empty'
                    \/ toSrv' = <<Head(todo')>> /\ toCli' = <<>>
                    \/ toSrv' = <<>> /\ Len(toCli') = 1 /\ Answers(Head(toCli))'
  BY <1>1
<1>3. spc = "answer" /\ todo' = todo /\ Cmd' = Cmd /\ todo # <<>>
  BY <1>2, LoginFrame DEF Cmd, TypeInv, SockTypes
<1>4. \/ Empty
      \/ toSrv = <<Head(todo)>> /\ toCli = <<>>
      \/ toSrv = <<>> /\ Len(toCli) = 1 /\ Answers(Head(toCli))
  BY <1>3 DEF Synced
<1>5. toCli' = toCli => Answers(Head(toCli))' = Answers(Head(toCli))
  BY <1>3 DEF Answers
<1>6. CASE UNCHANGED <<link, toSrv, toCli, online, eof>>
  BY <1>3, <1>4, <1>5, <1>6 DEF Empty
<1>7. CASE ConnectCancelled \/ Report \/ Receive
  BY <1>3, <1>7 DEF ConnectCancelled, Report, Receive, IsAt
<1>8. CASE \E c \in Conv : Push(c)
  BY <1>3, <1>8 DEF Push
<1>9. CASE Serve
  BY <1>3, <1>4, <1>9, ServeAnswers
<1>10. CASE Offline \/ ServerExit
  BY <1>3, <1>4, <1>5, <1>10 DEF Offline, ServerExit, Empty
<1> QED
  BY <1>2, <1>6, <1>7, <1>8, <1>9, <1>10, WireFrame

LEMMA StepSynced ==
  ASSUME TypeInv, Ghost, Asked, Synced, [Next]_vars, ~early'
  PROVE  Synced'
BY StepMade, StepAsking, StepAnswering DEF Synced

\* The list is complete when the login succeeds, and stays so.
LEMMA StepDone ==
  ASSUME TypeInv, Asked, Synced, Done, [Next]_vars
  PROVE  Done'
<1>1. Complete => Complete'
  <2>1. CASE Answer
    BY <2>1, AnswerAsked, KnownKept
  <2> QED
    BY <2>1, ListFrame, KnownKept
<1>2. spc' = "report" /\ res' = "CONNECTED" => Complete'
  <2>1. CASE Answer
    BY <2>1, AnswerAsked
  <2>2. CASE Connected \/ Ask \/ \E ok \in BOOLEAN : Connect(ok)
    BY <2>2 DEF Connected, Ask, Connect, IsAt
  <2> QED
    BY <1>1, <2>1, <2>2, LoginFrame DEF Done
<1>3. running' = "CONNECTED" => Complete'
  <2>1. CASE Report
    BY <1>1, <2>1 DEF Report, IsAt, Done
  <2>2. CASE UNCHANGED running
    BY <1>1, <2>2 DEF Done
  <2>3. CASE Waiting
    BY <1>1, <2>3 DEF Waiting, Done
  <2>4. CASE Cancel \/ Quit \/ Lost \/ (\E ok \in BOOLEAN : Connect(ok))
             \/ (\E form \in {"ok", "uid", "pass"} : Submit(form))
    BY <2>4 DEF Cancel, Quit, Lost, Connect, Submit
  <2> QED
    BY <2>1, <2>2, <2>3, <2>4, RunFrame
<1>4. view' = "main" => Complete'
  <2>1. CASE Waiting
    BY <1>1, <2>1 DEF Waiting, Done
  <2>2. CASE UNCHANGED view
    BY <1>1, <2>2 DEF Done
  <2>3. CASE NeedWindow \/ SendPut \/ Cancel \/ Quit
             \/ (\E c \in Conv : CreateWin(c) \/ OpenChat(c) \/ CloseChat(c) \/ SendMsg(c))
             \/ (\E form \in {"ok", "uid", "pass"} : Submit(form))
    BY <1>1, <2>3 DEF NeedWindow, SendPut, Cancel, Quit, CreateWin, OpenChat, CloseChat, SendMsg, Submit, Done
  <2> QED
    BY <2>1, <2>2, <2>3, UiFrame
<1> QED
  BY <1>2, <1>3, <1>4 DEF Done

\* A message that arrived during a login is not forgotten.
LEMMA EarlyStays ==
  ASSUME [Next]_vars, early
  PROVE  early'
<1>1. CASE Cancel \/ ServerExit \/ (\E c \in Conv : CreateWin(c) \/ SendMsg(c) \/ Push(c))
           \/ (\E form \in {"ok", "uid", "pass"} : Submit(form))
  BY <1>1 DEF Cancel, ServerExit, CreateWin, SendMsg, Push, Submit
<1> QED
  BY <1>1, CountFrame

\* The user list that is shown is complete, whatever logins failed before, unless
\* a message was read as the answer to a request.
THEOREM BuddiesCompleteCorrect == Spec => []BuddiesComplete
<1> DEFINE Inv == Ghost /\ (early \/ (Asked /\ Synced /\ Done))
<1>1. Init => Inv
  BY DEF Init, Ghost, Asked, Synced, Done
<1>2. TypeInv /\ Inv /\ [Next]_vars => Inv'
  BY StepGhost, StepAsked, StepSynced, StepDone, EarlyStays
<1>3. Inv => BuddiesComplete
  BY DEF BuddiesComplete, Done, Complete, Known
<1> QED
  BY <1>1, <1>2, <1>3, Typed, PTL DEF Spec

=============================================================================
