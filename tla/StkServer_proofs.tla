-------------------------- MODULE StkServer_proofs --------------------------
(***************************************************************************)
(* Type correctness of StkServer for every set of users, threads and       *)
(* descriptors; the ownership of sockets under PromptStart; and, when a    *)
(* user connects again only after his last connection is closed, the       *)
(* delivery of messages: none is delivered twice or out of order, no       *)
(* wake-up is lost, and the one place where a message is.                  *)
(***************************************************************************)
EXTENDS StkServer, TLAPS

-----------------------------------------------------------------------------
(* Type correctness                                                        *)

\* What TypeOK needs to be inductive: open sockets have an owner, a running
\* handler has a client, and a thread past a request has a receiver and a rank.
Shape ==
  /\ \A f \in Fds : stage[f] # "free" => peer[f] \in Uids
  /\ \A t \in Threads : hpc[t] \in {"check", "loop", "take", "send"} => hcl[t] \in Users
  /\ \A t \in Threads : hpc[t] = "send" => hmsg[t] \in Msgs
  /\ \A t \in Threads : pc[t] \in {"work", "add", "append", "kill"} => work[t] # <<>>
  /\ \A t \in Threads :
       pc[t] \in {"walk", "work", "add", "append", "kill"} => sent[t] \in 1 .. MaxSend

TypeInv == TypeOK /\ Shape

LEMMA InitTypeInv == Init => TypeInv
BY BoundsAssumption DEF Init, TypeInv, TypeOK, Shape, PCs, HPCs, Stages, NoMsg

\* What stk_get_user_by_tid returns.
LEMMA UserOfType == \A t : UserOf(t) \in Users \cup {NoUser}
BY DEF UserOf

LEMMA StepTypeInv ==
  ASSUME TypeInv, [Next]_vars
  PROVE  TypeInv'
<1> USE UsersAssumption, GroupsAssumption, BoundsAssumption
    DEF TypeInv, TypeOK, Shape, PCs, HPCs, Stages, At, Go, Reads, Advance,
        threadVars, handlerVars, connVars, userVars, histVars
<1>1. ASSUME NEW t \in Threads, NEW f \in Fds, NEW u \in Clients, Accept(t, f, u)
      PROVE  TypeInv'
  BY <1>1 DEF Accept, MayAccept, NewConnection
<1>2. ASSUME NEW f \in Fds, NEW u \in Clients, AcceptNoThread(f, u)
      PROVE  TypeInv'
  BY <1>2 DEF AcceptNoThread, MayAccept, NewConnection
<1>3. ASSUME NEW f \in Fds, PeerClose(f)
      PROVE  TypeInv'
  BY <1>3 DEF PeerClose
<1>4. ASSUME NEW t \in Threads, ThreadStart(t)
      PROVE  TypeInv'
  BY <1>4 DEF ThreadStart
<1>5. ASSUME NEW t \in Threads, ReqLogin(t)
      PROVE  TypeInv'
  BY <1>5 DEF ReqLogin, Bind, Find
<1>6. ASSUME NEW t \in Threads, NEW passOk \in BOOLEAN, LoginRefused(t, passOk)
      PROVE  TypeInv'
  BY <1>6 DEF LoginRefused, Bind, Find
<1>7. ASSUME NEW t \in Threads, LoginChecked(t)
      PROVE  TypeInv'
  BY <1>7 DEF LoginChecked, Bind, Find
<1>8. ASSUME NEW t \in Threads, LoginSetFd(t)
      PROVE  TypeInv'
  BY <1>8 DEF LoginSetFd
<1>9. ASSUME NEW t \in Threads, LoginSetTid(t)
      PROVE  TypeInv'
  BY <1>9 DEF LoginSetTid
<1>10. ASSUME NEW t \in Threads, LoginSetState(t)
       PROVE  TypeInv'
  BY <1>10 DEF LoginSetState
<1>11. ASSUME NEW t \in Threads, LoginReply(t)
       PROVE  TypeInv'
  BY <1>11 DEF LoginReply
<1>12. ASSUME NEW t \in Threads, Query(t)
       PROVE  TypeInv'
  BY <1>12 DEF Query, Route, Writable
<1>13. ASSUME NEW t \in Threads, GetGroupInfoUnknown(t)
       PROVE  TypeInv'
  BY <1>13 DEF GetGroupInfoUnknown
<1>14. ASSUME NEW t \in Threads, NEW v \in Uids, SendMsg(t, v)
       PROVE  TypeInv'
  <2>1. /\ work' = [work EXCEPT ![t] = <<v>>] /\ <<v>> \in Seq(Uids) /\ <<v>> # <<>>
        /\ sent' = [sent EXCEPT ![t] = @ + 1] /\ sent[t] + 1 \in 1 .. MaxSend
        /\ pc' = [pc EXCEPT ![t] = "work"]
    BY <1>14 DEF SendMsg
  <2>2. TypeOK'
    BY <1>14, <2>1 DEF SendMsg
  <2>3. Shape'
    BY <1>14, <2>1 DEF SendMsg
  <2> QED
    BY <2>2, <2>3
<1>15. ASSUME NEW t \in Threads, NEW g \in Gids, SendGmsg(t, g)
       PROVE  TypeInv'
  <2>1. /\ work' = [work EXCEPT ![t] = Members[g]] /\ Members[g] \in Seq(Uids)
        /\ sent' = [sent EXCEPT ![t] = @ + 1] /\ sent[t] + 1 \in 1 .. MaxSend
        /\ pc' = [pc EXCEPT ![t] = "walk"]
    BY <1>15 DEF SendGmsg
  <2>2. TypeOK'
    BY <1>15, <2>1 DEF SendGmsg
  <2>3. Shape'
    BY <1>15, <2>1 DEF SendGmsg
  <2> QED
    BY <2>2, <2>3
<1>16. ASSUME NEW t \in Threads, Walk(t)
       PROVE  TypeInv'
  <2>1. CASE work[t] = <<>> /\ Go(t, "recv") /\ UNCHANGED work
    BY <1>16, <2>1 DEF Walk
  <2>2. CASE /\ work[t] # <<>>
             /\ work' = [work EXCEPT ![t] = Tail(@)]
             /\ UNCHANGED pc
    BY <1>16, <2>2 DEF Walk
  <2>3. CASE work[t] # <<>> /\ Go(t, "work") /\ UNCHANGED work
    BY <1>16, <2>3 DEF Walk
  <2> QED
    BY <1>16, <2>1, <2>2, <2>3 DEF Walk
<1>17. ASSUME NEW t \in Threads, Serve(t)
       PROVE  TypeInv'
  <2>1. CASE Go(t, "add") /\ UNCHANGED work
    BY <1>17, <2>1 DEF Serve
  <2>2. CASE Go(t, "recv") /\ work' = [work EXCEPT ![t] = <<>>]
    BY <1>17, <2>2 DEF Serve
  <2> QED
    BY <1>17, <2>1, <2>2 DEF Serve
<1>18. ASSUME NEW t \in Threads, AddCheck(t)
       PROVE  TypeInv'
  <2>1. CASE Go(t, "append") /\ UNCHANGED work
    BY <1>18, <2>1 DEF AddCheck
  <2>2. CASE work' = [work EXCEPT ![t] = Tail(@)] /\ Go(t, "walk")
    BY <1>18, <2>2 DEF AddCheck
  <2> QED
    BY <1>18, <2>1, <2>2 DEF AddCheck
<1>19. ASSUME NEW t \in Threads, AddMsg(t)
       PROVE  TypeInv'
  <2> DEFINE u == Head(work[t])
             m == <<t, sent[t], Session(u)>>
  <2>1. u \in Users => m \in Msgs
    BY <1>19 DEF AddMsg, Msgs, Session
  <2>2. mail' \in [Users -> Seq(Msgs)]
    <3>1. CASE u \in Users
      <4>1. Append(mail[u], m) \in Seq(Msgs)
        BY <2>1, <3>1
      <4> QED
        BY <1>19, <3>1, <4>1 DEF AddMsg
    <3>2. CASE u \notin Users
      BY <1>19, <3>2 DEF AddMsg
    <3> QED
      BY <3>1, <3>2
  <2> QED
    BY <1>19, <2>2 DEF AddMsg
<1>20. ASSUME NEW t \in Threads, Signal(t)
       PROVE  TypeInv'
  BY <1>20 DEF Signal
<1>21. ASSUME NEW t \in Threads, HandlerStart(t)
       PROVE  TypeInv'
  <2>1. CASE UserOf(t) = NoUser
    BY <1>21, <2>1 DEF HandlerStart, Runs, HGo
  <2>2. CASE UserOf(t) \in Users
    <3>1. UserOf(t) # NoUser
      BY <2>2 DEF Uids
    <3>2. /\ hpc' = [hpc EXCEPT ![t] = "check"]
          /\ hcl' = [hcl EXCEPT ![t] = UserOf(t)]
          /\ pend' = [pend EXCEPT ![t] = FALSE]
      BY <1>21, <3>1 DEF HandlerStart, HGo
    <3>3. hcl' \in [Threads -> Users \cup {NoUser}] /\ pend' \in [Threads -> BOOLEAN]
      BY <2>2, <3>2
    <3> QED
      BY <1>21, <2>2, <3>2, <3>3 DEF HandlerStart
  <2> QED
    BY <2>1, <2>2, UserOfType
<1>22. ASSUME NEW t \in Threads, HandlerCheck(t)
       PROVE  TypeInv'
  BY <1>22 DEF HandlerCheck, Runs, HGo
<1>23. ASSUME NEW t \in Threads, HandlerLoop(t)
       PROVE  TypeInv'
  BY <1>23 DEF HandlerLoop, Runs, HGo
<1>24. ASSUME NEW t \in Threads, HandlerTake(t)
       PROVE  TypeInv'
  <2>1. hcl[t] \in Users /\ Head(mail[hcl[t]]) \in Msgs /\ Tail(mail[hcl[t]]) \in Seq(Msgs)
    BY <1>24 DEF HandlerTake, Runs
  <2> QED
    BY <1>24, <2>1 DEF HandlerTake, Runs, HGo
<1>25. ASSUME NEW t \in Threads, HandlerSend(t)
       PROVE  TypeInv'
  BY <1>25 DEF HandlerSend, Route, Writable, Runs, HGo
<1>26. ASSUME NEW t \in Threads, HandlerReturn(t)
       PROVE  TypeInv'
  BY <1>26 DEF HandlerReturn, Runs, HGo
<1>27. ASSUME NEW t \in Threads, Eof(t)
       PROVE  TypeInv'
  BY <1>27 DEF Eof
<1>28. ASSUME NEW t \in Threads, OfflineFd(t)
       PROVE  TypeInv'
  BY <1>28 DEF OfflineFd
<1>29. ASSUME NEW t \in Threads, OfflineState(t)
       PROVE  TypeInv'
  BY <1>29 DEF OfflineState
<1>30. ASSUME NEW t \in Threads, OfflineAgain(t)
       PROVE  TypeInv'
  BY <1>30 DEF OfflineAgain
<1>31. ASSUME NEW t \in Threads, Close(t)
       PROVE  TypeInv'
  BY <1>31 DEF Close
<1>32. CASE Corrupt
  BY <1>32 DEF Corrupt
<1>33. CASE Sigpipe
  BY <1>33 DEF Sigpipe
<1>34. CASE UNCHANGED vars
  BY <1>34 DEF vars
<1> HIDE UsersAssumption, GroupsAssumption, BoundsAssumption
    DEF TypeInv, TypeOK, Shape, PCs, HPCs, Stages, At, Go, Reads, Advance,
        threadVars, handlerVars, connVars, userVars, histVars
<1> QED
  BY <1>1, <1>2, <1>3, <1>4, <1>5, <1>6, <1>7, <1>8, <1>9, <1>10, <1>11, <1>12,
     <1>13, <1>14, <1>15, <1>16, <1>17, <1>18, <1>19, <1>20, <1>21, <1>22, <1>23, <1>24,
     <1>25, <1>26, <1>27, <1>28, <1>29, <1>30, <1>31, <1>32, <1>33, <1>34
  DEF Next, Step, Handler, Request

\* Every variable keeps its type, whatever the constants are.
THEOREM TypeCorrect == Spec => []TypeOK
<1>1. Spec => []TypeInv
  BY InitTypeInv, StepTypeInv, PTL DEF Spec
<1>2. TypeInv => TypeOK
  BY DEF TypeInv
<1> QED
  BY <1>1, <1>2, PTL

-----------------------------------------------------------------------------
(* The ownership of sockets                                                *)

\* t is executing stk_main(), past the copy of conn_fd.
Live(t) == pc[t] \notin {"none", "born", "done"}

\* A live thread has an open descriptor of its own; the one a new thread is
\* about to copy is open too, and nobody else's.
OneThreadPerFd ==
  /\ \A t \in Threads : Live(t) => tfd[t] \in Fds /\ stage[tfd[t]] # "free"
  /\ \A t \in Threads : ~Live(t) => bound[t] = NoUser
  /\ \A t, o \in Threads : Live(t) /\ Live(o) /\ tfd[t] = tfd[o] => t = o
  /\ \A t \in Threads : pc[t] = "born" => connFd \in Fds /\ stage[connFd] # "free"
  /\ \A t, o \in Threads : pc[t] = "born" /\ pc[o] = "born" => t = o
  /\ \A t, o \in Threads : pc[t] = "born" /\ Live(o) => tfd[o] # connFd

\* A thread serves the client at the other end of its descriptor, and a login
\* in progress is his.
ServesPeer ==
  /\ \A t \in Threads : bound[t] # NoUser => bound[t] = peer[tfd[t]]
  /\ \A t \in Threads : pc[t] \in {"setfd", "settid", "setstate", "reply"}
                        => luid[t] = bound[t] /\ bound[t] \in Users
  /\ \A t \in Threads : pc[t] \in {"off1", "off2", "off3"} => bound[t] \in Users

OwnInv == OneThreadPerFd /\ ServesPeer /\ SocketOwner /\ NoZombie /\ NoCrossDelivery

LEMMA InitOwnInv == Init => OwnInv
BY DEF Init, OwnInv, OneThreadPerFd, Live, ServesPeer, SocketOwner, NoZombie,
   NoCrossDelivery

LEMMA StepOneThreadPerFd ==
  ASSUME PromptStart, TypeInv, OneThreadPerFd, [Next]_vars
  PROVE  OneThreadPerFd'
<1> USE UsersAssumption, FdsAssumption
    DEF TypeInv, TypeOK, PCs, Stages, At, Go, Reads, Advance, Live, OneThreadPerFd,
        threadVars, handlerVars, connVars, userVars, histVars
<1>1. ASSUME NEW t \in Threads, NEW f \in Fds, NEW u \in Clients, Accept(t, f, u)
      PROVE  OneThreadPerFd'
  BY <1>1 DEF Accept, MayAccept, NewConnection
<1>2. ASSUME NEW f \in Fds, NEW u \in Clients, AcceptNoThread(f, u)
      PROVE  OneThreadPerFd'
  BY <1>2 DEF AcceptNoThread, MayAccept, NewConnection
<1>3. ASSUME NEW f \in Fds, PeerClose(f)
      PROVE  OneThreadPerFd'
  BY <1>3 DEF PeerClose
<1>4. ASSUME NEW t \in Threads, ThreadStart(t)
      PROVE  OneThreadPerFd'
  BY <1>4 DEF ThreadStart
<1>5. ASSUME NEW t \in Threads, ReqLogin(t)
      PROVE  OneThreadPerFd'
  BY <1>5 DEF ReqLogin, Bind, Find
<1>6. ASSUME NEW t \in Threads, NEW passOk \in BOOLEAN, LoginRefused(t, passOk)
      PROVE  OneThreadPerFd'
  BY <1>6 DEF LoginRefused, Bind, Find
<1>7. ASSUME NEW t \in Threads, LoginChecked(t)
      PROVE  OneThreadPerFd'
  BY <1>7 DEF LoginChecked, Bind, Find
<1>8. ASSUME NEW t \in Threads, LoginSetFd(t)
      PROVE  OneThreadPerFd'
  BY <1>8 DEF LoginSetFd
<1>9. ASSUME NEW t \in Threads, LoginSetTid(t)
      PROVE  OneThreadPerFd'
  BY <1>9 DEF LoginSetTid
<1>10. ASSUME NEW t \in Threads, LoginSetState(t)
      PROVE  OneThreadPerFd'
  BY <1>10 DEF LoginSetState
<1>11. ASSUME NEW t \in Threads, LoginReply(t)
      PROVE  OneThreadPerFd'
  BY <1>11 DEF LoginReply
<1>12. ASSUME NEW t \in Threads, Query(t)
      PROVE  OneThreadPerFd'
  BY <1>12 DEF Query
<1>13. ASSUME NEW t \in Threads, GetGroupInfoUnknown(t)
      PROVE  OneThreadPerFd'
  BY <1>13 DEF GetGroupInfoUnknown
<1>14. ASSUME NEW t \in Threads, NEW v \in Uids, SendMsg(t, v)
      PROVE  OneThreadPerFd'
  BY <1>14 DEF SendMsg
<1>15. ASSUME NEW t \in Threads, NEW g \in Gids, SendGmsg(t, g)
      PROVE  OneThreadPerFd'
  BY <1>15 DEF SendGmsg
<1>16. ASSUME NEW t \in Threads, Walk(t)
      PROVE  OneThreadPerFd'
  <2>1. PICK x \in {"recv", "walk", "work"} : pc' = [pc EXCEPT ![t] = x]
    BY <1>16 DEF Walk
  <2> QED
    BY <1>16, <2>1 DEF Walk
<1>17. ASSUME NEW t \in Threads, Serve(t)
      PROVE  OneThreadPerFd'
  <2>1. PICK x \in {"add", "recv"} : pc' = [pc EXCEPT ![t] = x]
    BY <1>17 DEF Serve
  <2> QED
    BY <1>17, <2>1 DEF Serve
<1>18. ASSUME NEW t \in Threads, AddCheck(t)
      PROVE  OneThreadPerFd'
  <2>1. PICK x \in {"append", "walk"} : pc' = [pc EXCEPT ![t] = x]
    BY <1>18 DEF AddCheck
  <2> QED
    BY <1>18, <2>1 DEF AddCheck
<1>19. ASSUME NEW t \in Threads, AddMsg(t)
      PROVE  OneThreadPerFd'
  BY <1>19 DEF AddMsg
<1>20. ASSUME NEW t \in Threads, Signal(t)
      PROVE  OneThreadPerFd'
  BY <1>20 DEF Signal
<1>21. ASSUME NEW t \in Threads, HandlerStart(t)
      PROVE  OneThreadPerFd'
  BY <1>21 DEF HandlerStart
<1>22. ASSUME NEW t \in Threads, HandlerCheck(t)
      PROVE  OneThreadPerFd'
  BY <1>22 DEF HandlerCheck
<1>23. ASSUME NEW t \in Threads, HandlerLoop(t)
      PROVE  OneThreadPerFd'
  BY <1>23 DEF HandlerLoop
<1>24. ASSUME NEW t \in Threads, HandlerTake(t)
      PROVE  OneThreadPerFd'
  BY <1>24 DEF HandlerTake
<1>25. ASSUME NEW t \in Threads, HandlerSend(t)
      PROVE  OneThreadPerFd'
  BY <1>25 DEF HandlerSend
<1>26. ASSUME NEW t \in Threads, HandlerReturn(t)
       PROVE  OneThreadPerFd'
  BY <1>26 DEF HandlerReturn
<1>27. ASSUME NEW t \in Threads, Eof(t)
      PROVE  OneThreadPerFd'
  BY <1>27 DEF Eof
<1>28. ASSUME NEW t \in Threads, OfflineFd(t)
      PROVE  OneThreadPerFd'
  BY <1>28 DEF OfflineFd
<1>29. ASSUME NEW t \in Threads, OfflineState(t)
      PROVE  OneThreadPerFd'
  BY <1>29 DEF OfflineState
<1>30. ASSUME NEW t \in Threads, OfflineAgain(t)
      PROVE  OneThreadPerFd'
  BY <1>30 DEF OfflineAgain
<1>31. ASSUME NEW t \in Threads, Close(t)
      PROVE  OneThreadPerFd'
  <2>1. /\ Live(t) /\ tfd[t] \in Fds
        /\ pc' = [pc EXCEPT ![t] = "done"]
        /\ tfd' = [tfd EXCEPT ![t] = NoFd]
        /\ bound' = [bound EXCEPT ![t] = NoUser]
        /\ stage' = [stage EXCEPT ![tfd[t]] = "free"]
        /\ connFd' = connFd
    BY <1>31 DEF Close
  <2>2. \A o \in Threads : Live(o)' <=> Live(o) /\ o # t
    BY <2>1
  <2>3. \A o \in Threads : Live(o)' => tfd'[o] = tfd[o] /\ tfd[o] # tfd[t]
    BY <2>1, <2>2
  <2>4. \A o \in Threads : pc'[o] = "born" => pc[o] = "born" /\ connFd # tfd[t]
    BY <2>1
  <2> QED
    BY <2>1, <2>2, <2>3, <2>4
<1>32. CASE Corrupt
  BY <1>32 DEF Corrupt
<1>33. CASE Sigpipe
  BY <1>33 DEF Sigpipe
<1>34. CASE UNCHANGED vars
  BY <1>34 DEF vars
<1> HIDE UsersAssumption, FdsAssumption
    DEF TypeInv, TypeOK, PCs, Stages, At, Go, Reads, Advance, Live, OneThreadPerFd,
        threadVars, handlerVars, connVars, userVars, histVars
<1> QED
  BY <1>1, <1>2, <1>3, <1>4, <1>5, <1>6, <1>7, <1>8, <1>9, <1>10, <1>11, <1>12,
     <1>13, <1>14, <1>15, <1>16, <1>17, <1>18, <1>19, <1>20, <1>21, <1>22, <1>23, <1>24,
     <1>25, <1>26, <1>27, <1>28, <1>29, <1>30, <1>31, <1>32, <1>33, <1>34
  DEF Next, Step, Handler, Request

LEMMA StepServesPeer ==
  ASSUME PromptStart, TypeInv, OneThreadPerFd, ServesPeer, [Next]_vars
  PROVE  ServesPeer'
<1> USE UsersAssumption, FdsAssumption
    DEF TypeInv, TypeOK, PCs, Stages, At, Go, Reads, Advance, Live, OneThreadPerFd, ServesPeer,
        threadVars, handlerVars, connVars, userVars, histVars
<1>1. ASSUME NEW t \in Threads, NEW f \in Fds, NEW u \in Clients, Accept(t, f, u)
      PROVE  ServesPeer'
  BY <1>1 DEF Accept, MayAccept, NewConnection
<1>2. ASSUME NEW f \in Fds, NEW u \in Clients, AcceptNoThread(f, u)
      PROVE  ServesPeer'
  BY <1>2 DEF AcceptNoThread, MayAccept, NewConnection
<1>3. ASSUME NEW f \in Fds, PeerClose(f)
      PROVE  ServesPeer'
  BY <1>3 DEF PeerClose
<1>4. ASSUME NEW t \in Threads, ThreadStart(t)
      PROVE  ServesPeer'
  BY <1>4 DEF ThreadStart
<1>5. ASSUME NEW t \in Threads, ReqLogin(t)
      PROVE  ServesPeer'
  BY <1>5 DEF ReqLogin, Bind, Find
<1>6. ASSUME NEW t \in Threads, NEW passOk \in BOOLEAN, LoginRefused(t, passOk)
      PROVE  ServesPeer'
  BY <1>6 DEF LoginRefused, Bind, Find
<1>7. ASSUME NEW t \in Threads, LoginChecked(t)
      PROVE  ServesPeer'
  BY <1>7 DEF LoginChecked, Bind, Find
<1>8. ASSUME NEW t \in Threads, LoginSetFd(t)
      PROVE  ServesPeer'
  BY <1>8 DEF LoginSetFd
<1>9. ASSUME NEW t \in Threads, LoginSetTid(t)
      PROVE  ServesPeer'
  BY <1>9 DEF LoginSetTid
<1>10. ASSUME NEW t \in Threads, LoginSetState(t)
      PROVE  ServesPeer'
  BY <1>10 DEF LoginSetState
<1>11. ASSUME NEW t \in Threads, LoginReply(t)
      PROVE  ServesPeer'
  BY <1>11 DEF LoginReply
<1>12. ASSUME NEW t \in Threads, Query(t)
      PROVE  ServesPeer'
  BY <1>12 DEF Query
<1>13. ASSUME NEW t \in Threads, GetGroupInfoUnknown(t)
      PROVE  ServesPeer'
  BY <1>13 DEF GetGroupInfoUnknown
<1>14. ASSUME NEW t \in Threads, NEW v \in Uids, SendMsg(t, v)
      PROVE  ServesPeer'
  BY <1>14 DEF SendMsg
<1>15. ASSUME NEW t \in Threads, NEW g \in Gids, SendGmsg(t, g)
      PROVE  ServesPeer'
  BY <1>15 DEF SendGmsg
<1>16. ASSUME NEW t \in Threads, Walk(t)
      PROVE  ServesPeer'
  BY <1>16 DEF Walk
<1>17. ASSUME NEW t \in Threads, Serve(t)
      PROVE  ServesPeer'
  BY <1>17 DEF Serve
<1>18. ASSUME NEW t \in Threads, AddCheck(t)
      PROVE  ServesPeer'
  BY <1>18 DEF AddCheck
<1>19. ASSUME NEW t \in Threads, AddMsg(t)
      PROVE  ServesPeer'
  BY <1>19 DEF AddMsg
<1>20. ASSUME NEW t \in Threads, Signal(t)
      PROVE  ServesPeer'
  BY <1>20 DEF Signal
<1>21. ASSUME NEW t \in Threads, HandlerStart(t)
      PROVE  ServesPeer'
  BY <1>21 DEF HandlerStart
<1>22. ASSUME NEW t \in Threads, HandlerCheck(t)
      PROVE  ServesPeer'
  BY <1>22 DEF HandlerCheck
<1>23. ASSUME NEW t \in Threads, HandlerLoop(t)
      PROVE  ServesPeer'
  BY <1>23 DEF HandlerLoop
<1>24. ASSUME NEW t \in Threads, HandlerTake(t)
      PROVE  ServesPeer'
  BY <1>24 DEF HandlerTake
<1>25. ASSUME NEW t \in Threads, HandlerSend(t)
      PROVE  ServesPeer'
  BY <1>25 DEF HandlerSend
<1>26. ASSUME NEW t \in Threads, HandlerReturn(t)
       PROVE  ServesPeer'
  BY <1>26 DEF HandlerReturn
<1>27. ASSUME NEW t \in Threads, Eof(t)
      PROVE  ServesPeer'
  BY <1>27 DEF Eof
<1>28. ASSUME NEW t \in Threads, OfflineFd(t)
      PROVE  ServesPeer'
  BY <1>28 DEF OfflineFd
<1>29. ASSUME NEW t \in Threads, OfflineState(t)
      PROVE  ServesPeer'
  BY <1>29 DEF OfflineState
<1>30. ASSUME NEW t \in Threads, OfflineAgain(t)
      PROVE  ServesPeer'
  BY <1>30 DEF OfflineAgain
<1>31. ASSUME NEW t \in Threads, Close(t)
      PROVE  ServesPeer'
  <2>1. /\ Live(t) /\ tfd[t] \in Fds
        /\ pc' = [pc EXCEPT ![t] = "done"]
        /\ tfd' = [tfd EXCEPT ![t] = NoFd]
        /\ bound' = [bound EXCEPT ![t] = NoUser]
        /\ peer' = [peer EXCEPT ![tfd[t]] = NoUser]
        /\ luid' = luid
    BY <1>31 DEF Close
  <2>2. ASSUME NEW o \in Threads, o # t
        PROVE  /\ pc'[o] = pc[o] /\ tfd'[o] = tfd[o] /\ bound'[o] = bound[o]
               /\ bound[o] # NoUser => peer'[tfd[o]] = peer[tfd[o]]
    <3>1. pc'[o] = pc[o] /\ tfd'[o] = tfd[o] /\ bound'[o] = bound[o]
      BY <2>1, <2>2
    <3>2. bound[o] # NoUser => tfd[o] \in Fds /\ tfd[o] # tfd[t]
      BY <2>1, <2>2
    <3> QED
      BY <2>1, <3>1, <3>2
  <2>3. pc'[t] = "done" /\ bound'[t] = NoUser
    BY <2>1
  <2> QED
    BY <2>1, <2>2, <2>3
<1>32. CASE Corrupt
  BY <1>32 DEF Corrupt
<1>33. CASE Sigpipe
  BY <1>33 DEF Sigpipe
<1>34. CASE UNCHANGED vars
  BY <1>34 DEF vars
<1> HIDE UsersAssumption, FdsAssumption
    DEF TypeInv, TypeOK, PCs, Stages, At, Go, Reads, Advance, Live, OneThreadPerFd, ServesPeer,
        threadVars, handlerVars, connVars, userVars, histVars
<1> QED
  BY <1>1, <1>2, <1>3, <1>4, <1>5, <1>6, <1>7, <1>8, <1>9, <1>10, <1>11, <1>12,
     <1>13, <1>14, <1>15, <1>16, <1>17, <1>18, <1>19, <1>20, <1>21, <1>22, <1>23, <1>24,
     <1>25, <1>26, <1>27, <1>28, <1>29, <1>30, <1>31, <1>32, <1>33, <1>34
  DEF Next, Step, Handler, Request

LEMMA StepSocketOwner ==
  ASSUME TypeInv, OneThreadPerFd, ServesPeer, SocketOwner, [Next]_vars
  PROVE  SocketOwner'
<1> USE UsersAssumption
    DEF Uids, TypeInv, TypeOK, At, Go, Reads, Advance, Live, OneThreadPerFd, ServesPeer,
        SocketOwner, BeforeOffline, threadVars, handlerVars, connVars, userVars, histVars
<1>1. ASSUME NEW t \in Threads, NEW f \in Fds, NEW u \in Clients, Accept(t, f, u)
      PROVE  SocketOwner'
  BY <1>1 DEF Accept, MayAccept, NewConnection
<1>2. ASSUME NEW f \in Fds, NEW u \in Clients, AcceptNoThread(f, u)
      PROVE  SocketOwner'
  BY <1>2 DEF AcceptNoThread, MayAccept, NewConnection
<1>3. ASSUME NEW f \in Fds, PeerClose(f)
      PROVE  SocketOwner'
  BY <1>3 DEF PeerClose
<1>4. ASSUME NEW t \in Threads, ThreadStart(t)
      PROVE  SocketOwner'
  BY <1>4 DEF ThreadStart
<1>5. ASSUME NEW t \in Threads, ReqLogin(t)
      PROVE  SocketOwner'
  <2> SUFFICES ASSUME NEW v \in Users, ufd'[v] # NoFd
               PROVE  \E o \in Threads : tfd'[o] = ufd'[v] /\ bound'[o] = v /\ pc'[o] \in BeforeOffline
    OBVIOUS
  <2>1. PICK o \in Threads : tfd[o] = ufd[v] /\ bound[o] = v /\ pc[o] \in BeforeOffline
    BY <1>5 DEF ReqLogin, Bind
  <2>3. tfd'[o] = ufd'[v] /\ bound'[o] = v /\ pc'[o] \in BeforeOffline
    BY <1>5, <2>1 DEF ReqLogin, Bind
  <2> QED
    BY <2>3
<1>6. ASSUME NEW t \in Threads, NEW passOk \in BOOLEAN, LoginRefused(t, passOk)
      PROVE  SocketOwner'
  <2> SUFFICES ASSUME NEW v \in Users, ufd'[v] # NoFd
               PROVE  \E o \in Threads : tfd'[o] = ufd'[v] /\ bound'[o] = v /\ pc'[o] \in BeforeOffline
    OBVIOUS
  <2>1. PICK o \in Threads : tfd[o] = ufd[v] /\ bound[o] = v /\ pc[o] \in BeforeOffline
    BY <1>6 DEF LoginRefused, Bind
  <2>3. tfd'[o] = ufd'[v] /\ bound'[o] = v /\ pc'[o] \in BeforeOffline
    BY <1>6, <2>1 DEF LoginRefused, Bind
  <2> QED
    BY <2>3
<1>7. ASSUME NEW t \in Threads, LoginChecked(t)
      PROVE  SocketOwner'
  <2> SUFFICES ASSUME NEW v \in Users, ufd'[v] # NoFd
               PROVE  \E o \in Threads : tfd'[o] = ufd'[v] /\ bound'[o] = v /\ pc'[o] \in BeforeOffline
    OBVIOUS
  <2>1. PICK o \in Threads : tfd[o] = ufd[v] /\ bound[o] = v /\ pc[o] \in BeforeOffline
    BY <1>7 DEF LoginChecked, Bind
  <2>3. tfd'[o] = ufd'[v] /\ bound'[o] = v /\ pc'[o] \in BeforeOffline
    BY <1>7, <2>1 DEF LoginChecked, Bind
  <2> QED
    BY <2>3
<1>8. ASSUME NEW t \in Threads, LoginSetFd(t)
      PROVE  SocketOwner'
  <2> SUFFICES ASSUME NEW v \in Users, ufd'[v] # NoFd
               PROVE  \E o \in Threads : tfd'[o] = ufd'[v] /\ bound'[o] = v /\ pc'[o] \in BeforeOffline
    OBVIOUS
  <2>1. CASE v = luid[t]
    BY <1>8, <2>1 DEF LoginSetFd
  <2>2. CASE v # luid[t]
    <3>1. PICK o \in Threads : tfd[o] = ufd[v] /\ bound[o] = v /\ pc[o] \in BeforeOffline
      BY <1>8, <2>2 DEF LoginSetFd
    <3> QED
      BY <1>8, <2>2, <3>1 DEF LoginSetFd
  <2> QED
    BY <2>1, <2>2
<1>9. ASSUME NEW t \in Threads, LoginSetTid(t)
      PROVE  SocketOwner'
  BY <1>9 DEF LoginSetTid
<1>10. ASSUME NEW t \in Threads, LoginSetState(t)
      PROVE  SocketOwner'
  BY <1>10 DEF LoginSetState
<1>11. ASSUME NEW t \in Threads, LoginReply(t)
      PROVE  SocketOwner'
  BY <1>11 DEF LoginReply
<1>12. ASSUME NEW t \in Threads, Query(t)
      PROVE  SocketOwner'
  BY <1>12 DEF Query
<1>13. ASSUME NEW t \in Threads, GetGroupInfoUnknown(t)
      PROVE  SocketOwner'
  BY <1>13 DEF GetGroupInfoUnknown
<1>14. ASSUME NEW t \in Threads, NEW v \in Uids, SendMsg(t, v)
      PROVE  SocketOwner'
  BY <1>14 DEF SendMsg
<1>15. ASSUME NEW t \in Threads, NEW g \in Gids, SendGmsg(t, g)
      PROVE  SocketOwner'
  BY <1>15 DEF SendGmsg
<1>16. ASSUME NEW t \in Threads, Walk(t)
      PROVE  SocketOwner'
  <2> SUFFICES ASSUME NEW v \in Users, ufd'[v] # NoFd
               PROVE  \E o \in Threads : tfd'[o] = ufd'[v] /\ bound'[o] = v /\ pc'[o] \in BeforeOffline
    OBVIOUS
  <2>1. PICK o \in Threads : tfd[o] = ufd[v] /\ bound[o] = v /\ pc[o] \in BeforeOffline
    BY <1>16 DEF Walk
  <2>2. PICK x \in {"recv", "walk", "work"} : pc' = [pc EXCEPT ![t] = x]
    BY <1>16 DEF Walk
  <2>3. tfd'[o] = ufd'[v] /\ bound'[o] = v /\ pc'[o] \in BeforeOffline
    BY <1>16, <2>1, <2>2 DEF Walk
  <2> QED
    BY <2>3
<1>17. ASSUME NEW t \in Threads, Serve(t)
      PROVE  SocketOwner'
  <2> SUFFICES ASSUME NEW v \in Users, ufd'[v] # NoFd
               PROVE  \E o \in Threads : tfd'[o] = ufd'[v] /\ bound'[o] = v /\ pc'[o] \in BeforeOffline
    OBVIOUS
  <2>1. PICK o \in Threads : tfd[o] = ufd[v] /\ bound[o] = v /\ pc[o] \in BeforeOffline
    BY <1>17 DEF Serve
  <2>2. PICK x \in {"add", "recv"} : pc' = [pc EXCEPT ![t] = x]
    BY <1>17 DEF Serve
  <2>3. tfd'[o] = ufd'[v] /\ bound'[o] = v /\ pc'[o] \in BeforeOffline
    BY <1>17, <2>1, <2>2 DEF Serve
  <2> QED
    BY <2>3
<1>18. ASSUME NEW t \in Threads, AddCheck(t)
      PROVE  SocketOwner'
  <2> SUFFICES ASSUME NEW v \in Users, ufd'[v] # NoFd
               PROVE  \E o \in Threads : tfd'[o] = ufd'[v] /\ bound'[o] = v /\ pc'[o] \in BeforeOffline
    OBVIOUS
  <2>1. PICK o \in Threads : tfd[o] = ufd[v] /\ bound[o] = v /\ pc[o] \in BeforeOffline
    BY <1>18 DEF AddCheck
  <2>2. PICK x \in {"append", "walk"} : pc' = [pc EXCEPT ![t] = x]
    BY <1>18 DEF AddCheck
  <2>3. tfd'[o] = ufd'[v] /\ bound'[o] = v /\ pc'[o] \in BeforeOffline
    BY <1>18, <2>1, <2>2 DEF AddCheck
  <2> QED
    BY <2>3
<1>19. ASSUME NEW t \in Threads, AddMsg(t)
      PROVE  SocketOwner'
  BY <1>19 DEF AddMsg
<1>20. ASSUME NEW t \in Threads, Signal(t)
      PROVE  SocketOwner'
  BY <1>20 DEF Signal
<1>21. ASSUME NEW t \in Threads, HandlerStart(t)
      PROVE  SocketOwner'
  BY <1>21 DEF HandlerStart
<1>22. ASSUME NEW t \in Threads, HandlerCheck(t)
      PROVE  SocketOwner'
  BY <1>22 DEF HandlerCheck
<1>23. ASSUME NEW t \in Threads, HandlerLoop(t)
      PROVE  SocketOwner'
  BY <1>23 DEF HandlerLoop
<1>24. ASSUME NEW t \in Threads, HandlerTake(t)
      PROVE  SocketOwner'
  BY <1>24 DEF HandlerTake
<1>25. ASSUME NEW t \in Threads, HandlerSend(t)
      PROVE  SocketOwner'
  BY <1>25 DEF HandlerSend
<1>26. ASSUME NEW t \in Threads, HandlerReturn(t)
       PROVE  SocketOwner'
  BY <1>26 DEF HandlerReturn
<1>27. ASSUME NEW t \in Threads, Eof(t)
      PROVE  SocketOwner'
  <2> SUFFICES ASSUME NEW v \in Users, ufd'[v] # NoFd
               PROVE  \E o \in Threads : tfd'[o] = ufd'[v] /\ bound'[o] = v /\ pc'[o] \in BeforeOffline
    OBVIOUS
  <2>1. PICK o \in Threads : tfd[o] = ufd[v] /\ bound[o] = v /\ pc[o] \in BeforeOffline
    BY <1>27 DEF Eof
  <2>3. tfd'[o] = ufd'[v] /\ bound'[o] = v /\ pc'[o] \in BeforeOffline
    BY <1>27, <2>1 DEF Eof
  <2> QED
    BY <2>3
<1>28. ASSUME NEW t \in Threads, OfflineFd(t)
      PROVE  SocketOwner'
  <2> SUFFICES ASSUME NEW v \in Users, ufd'[v] # NoFd
               PROVE  \E o \in Threads : tfd'[o] = ufd'[v] /\ bound'[o] = v /\ pc'[o] \in BeforeOffline
    OBVIOUS
  <2>1. PICK o \in Threads : tfd[o] = ufd[v] /\ bound[o] = v /\ pc[o] \in BeforeOffline
    BY <1>28 DEF OfflineFd
  <2>3. tfd'[o] = ufd'[v] /\ bound'[o] = v /\ pc'[o] \in BeforeOffline
    BY <1>28, <2>1 DEF OfflineFd
  <2> QED
    BY <2>3
<1>29. ASSUME NEW t \in Threads, OfflineState(t)
      PROVE  SocketOwner'
  BY <1>29 DEF OfflineState
<1>30. ASSUME NEW t \in Threads, OfflineAgain(t)
      PROVE  SocketOwner'
  BY <1>30 DEF OfflineAgain
<1>31. ASSUME NEW t \in Threads, Close(t)
      PROVE  SocketOwner'
  BY <1>31 DEF Close
<1>32. CASE Corrupt
  BY <1>32 DEF Corrupt
<1>33. CASE Sigpipe
  BY <1>33 DEF Sigpipe
<1>34. CASE UNCHANGED vars
  BY <1>34 DEF vars
<1> HIDE UsersAssumption
    DEF Uids, TypeInv, TypeOK, At, Go, Reads, Advance, Live, OneThreadPerFd, ServesPeer,
        SocketOwner, BeforeOffline, threadVars, handlerVars, connVars, userVars, histVars
<1> QED
  BY <1>1, <1>2, <1>3, <1>4, <1>5, <1>6, <1>7, <1>8, <1>9, <1>10, <1>11, <1>12,
     <1>13, <1>14, <1>15, <1>16, <1>17, <1>18, <1>19, <1>20, <1>21, <1>22, <1>23, <1>24,
     <1>25, <1>26, <1>27, <1>28, <1>29, <1>30, <1>31, <1>32, <1>33, <1>34
  DEF Next, Step, Handler, Request

LEMMA StepNoZombie ==
  ASSUME TypeInv, OneThreadPerFd, ServesPeer, NoZombie, [Next]_vars
  PROVE  NoZombie'
<1> USE UsersAssumption
    DEF Uids, TypeInv, TypeOK, At, Go, Reads, Advance, Live, OneThreadPerFd, ServesPeer,
        NoZombie, BeforeOffline, threadVars, handlerVars, connVars, userVars, histVars
<1>1. ASSUME NEW t \in Threads, NEW f \in Fds, NEW u \in Clients, Accept(t, f, u)
      PROVE  NoZombie'
  <2> SUFFICES ASSUME NEW v \in Users, online'[v]
               PROVE  \E o \in Threads : bound'[o] = v /\ pc'[o] \in BeforeOffline \cup {"off2", "off3"}
    OBVIOUS
  <2>1. PICK o \in Threads : bound[o] = v /\ pc[o] \in BeforeOffline \cup {"off2", "off3"}
    BY <1>1 DEF Accept
  <2>3. bound'[o] = v /\ pc'[o] \in BeforeOffline \cup {"off2", "off3"}
    BY <1>1, <2>1 DEF Accept
  <2> QED
    BY <2>3
<1>2. ASSUME NEW f \in Fds, NEW u \in Clients, AcceptNoThread(f, u)
      PROVE  NoZombie'
  BY <1>2 DEF AcceptNoThread, MayAccept, NewConnection
<1>3. ASSUME NEW f \in Fds, PeerClose(f)
      PROVE  NoZombie'
  BY <1>3 DEF PeerClose
<1>4. ASSUME NEW t \in Threads, ThreadStart(t)
      PROVE  NoZombie'
  BY <1>4 DEF ThreadStart
<1>5. ASSUME NEW t \in Threads, ReqLogin(t)
      PROVE  NoZombie'
  <2> SUFFICES ASSUME NEW v \in Users, online'[v]
               PROVE  \E o \in Threads : bound'[o] = v /\ pc'[o] \in BeforeOffline \cup {"off2", "off3"}
    OBVIOUS
  <2>1. PICK o \in Threads : bound[o] = v /\ pc[o] \in BeforeOffline \cup {"off2", "off3"}
    BY <1>5 DEF ReqLogin, Bind
  <2>3. bound'[o] = v /\ pc'[o] \in BeforeOffline \cup {"off2", "off3"}
    BY <1>5, <2>1 DEF ReqLogin, Bind
  <2> QED
    BY <2>3
<1>6. ASSUME NEW t \in Threads, NEW passOk \in BOOLEAN, LoginRefused(t, passOk)
      PROVE  NoZombie'
  <2> SUFFICES ASSUME NEW v \in Users, online'[v]
               PROVE  \E o \in Threads : bound'[o] = v /\ pc'[o] \in BeforeOffline \cup {"off2", "off3"}
    OBVIOUS
  <2>1. PICK o \in Threads : bound[o] = v /\ pc[o] \in BeforeOffline \cup {"off2", "off3"}
    BY <1>6 DEF LoginRefused, Bind
  <2>3. bound'[o] = v /\ pc'[o] \in BeforeOffline \cup {"off2", "off3"}
    BY <1>6, <2>1 DEF LoginRefused, Bind
  <2> QED
    BY <2>3
<1>7. ASSUME NEW t \in Threads, LoginChecked(t)
      PROVE  NoZombie'
  <2> SUFFICES ASSUME NEW v \in Users, online'[v]
               PROVE  \E o \in Threads : bound'[o] = v /\ pc'[o] \in BeforeOffline \cup {"off2", "off3"}
    OBVIOUS
  <2>1. PICK o \in Threads : bound[o] = v /\ pc[o] \in BeforeOffline \cup {"off2", "off3"}
    BY <1>7 DEF LoginChecked, Bind
  <2>3. bound'[o] = v /\ pc'[o] \in BeforeOffline \cup {"off2", "off3"}
    BY <1>7, <2>1 DEF LoginChecked, Bind
  <2> QED
    BY <2>3
<1>8. ASSUME NEW t \in Threads, LoginSetFd(t)
      PROVE  NoZombie'
  BY <1>8 DEF LoginSetFd
<1>9. ASSUME NEW t \in Threads, LoginSetTid(t)
      PROVE  NoZombie'
  BY <1>9 DEF LoginSetTid
<1>10. ASSUME NEW t \in Threads, LoginSetState(t)
      PROVE  NoZombie'
  BY <1>10 DEF LoginSetState
<1>11. ASSUME NEW t \in Threads, LoginReply(t)
      PROVE  NoZombie'
  BY <1>11 DEF LoginReply
<1>12. ASSUME NEW t \in Threads, Query(t)
      PROVE  NoZombie'
  BY <1>12 DEF Query
<1>13. ASSUME NEW t \in Threads, GetGroupInfoUnknown(t)
      PROVE  NoZombie'
  BY <1>13 DEF GetGroupInfoUnknown
<1>14. ASSUME NEW t \in Threads, NEW v \in Uids, SendMsg(t, v)
      PROVE  NoZombie'
  BY <1>14 DEF SendMsg
<1>15. ASSUME NEW t \in Threads, NEW g \in Gids, SendGmsg(t, g)
      PROVE  NoZombie'
  BY <1>15 DEF SendGmsg
<1>16. ASSUME NEW t \in Threads, Walk(t)
      PROVE  NoZombie'
  <2> SUFFICES ASSUME NEW v \in Users, online'[v]
               PROVE  \E o \in Threads : bound'[o] = v /\ pc'[o] \in BeforeOffline \cup {"off2", "off3"}
    OBVIOUS
  <2>1. PICK o \in Threads : bound[o] = v /\ pc[o] \in BeforeOffline \cup {"off2", "off3"}
    BY <1>16 DEF Walk
  <2>2. PICK x \in {"recv", "walk", "work"} : pc' = [pc EXCEPT ![t] = x]
    BY <1>16 DEF Walk
  <2>3. bound'[o] = v /\ pc'[o] \in BeforeOffline \cup {"off2", "off3"}
    BY <1>16, <2>1, <2>2 DEF Walk
  <2> QED
    BY <2>3
<1>17. ASSUME NEW t \in Threads, Serve(t)
      PROVE  NoZombie'
  <2> SUFFICES ASSUME NEW v \in Users, online'[v]
               PROVE  \E o \in Threads : bound'[o] = v /\ pc'[o] \in BeforeOffline \cup {"off2", "off3"}
    OBVIOUS
  <2>1. PICK o \in Threads : bound[o] = v /\ pc[o] \in BeforeOffline \cup {"off2", "off3"}
    BY <1>17 DEF Serve
  <2>2. PICK x \in {"add", "recv"} : pc' = [pc EXCEPT ![t] = x]
    BY <1>17 DEF Serve
  <2>3. bound'[o] = v /\ pc'[o] \in BeforeOffline \cup {"off2", "off3"}
    BY <1>17, <2>1, <2>2 DEF Serve
  <2> QED
    BY <2>3
<1>18. ASSUME NEW t \in Threads, AddCheck(t)
      PROVE  NoZombie'
  <2> SUFFICES ASSUME NEW v \in Users, online'[v]
               PROVE  \E o \in Threads : bound'[o] = v /\ pc'[o] \in BeforeOffline \cup {"off2", "off3"}
    OBVIOUS
  <2>1. PICK o \in Threads : bound[o] = v /\ pc[o] \in BeforeOffline \cup {"off2", "off3"}
    BY <1>18 DEF AddCheck
  <2>2. PICK x \in {"append", "walk"} : pc' = [pc EXCEPT ![t] = x]
    BY <1>18 DEF AddCheck
  <2>3. bound'[o] = v /\ pc'[o] \in BeforeOffline \cup {"off2", "off3"}
    BY <1>18, <2>1, <2>2 DEF AddCheck
  <2> QED
    BY <2>3
<1>19. ASSUME NEW t \in Threads, AddMsg(t)
      PROVE  NoZombie'
  BY <1>19 DEF AddMsg
<1>20. ASSUME NEW t \in Threads, Signal(t)
      PROVE  NoZombie'
  BY <1>20 DEF Signal
<1>21. ASSUME NEW t \in Threads, HandlerStart(t)
      PROVE  NoZombie'
  BY <1>21 DEF HandlerStart
<1>22. ASSUME NEW t \in Threads, HandlerCheck(t)
      PROVE  NoZombie'
  BY <1>22 DEF HandlerCheck
<1>23. ASSUME NEW t \in Threads, HandlerLoop(t)
      PROVE  NoZombie'
  BY <1>23 DEF HandlerLoop
<1>24. ASSUME NEW t \in Threads, HandlerTake(t)
      PROVE  NoZombie'
  BY <1>24 DEF HandlerTake
<1>25. ASSUME NEW t \in Threads, HandlerSend(t)
      PROVE  NoZombie'
  BY <1>25 DEF HandlerSend
<1>26. ASSUME NEW t \in Threads, HandlerReturn(t)
       PROVE  NoZombie'
  BY <1>26 DEF HandlerReturn
<1>27. ASSUME NEW t \in Threads, Eof(t)
      PROVE  NoZombie'
  <2> SUFFICES ASSUME NEW v \in Users, online'[v]
               PROVE  \E o \in Threads : bound'[o] = v /\ pc'[o] \in BeforeOffline \cup {"off2", "off3"}
    OBVIOUS
  <2>1. PICK o \in Threads : bound[o] = v /\ pc[o] \in BeforeOffline \cup {"off2", "off3"}
    BY <1>27 DEF Eof
  <2>3. bound'[o] = v /\ pc'[o] \in BeforeOffline \cup {"off2", "off3"}
    BY <1>27, <2>1 DEF Eof
  <2> QED
    BY <2>3
<1>28. ASSUME NEW t \in Threads, OfflineFd(t)
      PROVE  NoZombie'
  BY <1>28 DEF OfflineFd
<1>29. ASSUME NEW t \in Threads, OfflineState(t)
      PROVE  NoZombie'
  BY <1>29 DEF OfflineState
<1>30. ASSUME NEW t \in Threads, OfflineAgain(t)
      PROVE  NoZombie'
  BY <1>30 DEF OfflineAgain
<1>31. ASSUME NEW t \in Threads, Close(t)
      PROVE  NoZombie'
  <2> SUFFICES ASSUME NEW v \in Users, online'[v]
               PROVE  \E o \in Threads : bound'[o] = v /\ pc'[o] \in BeforeOffline \cup {"off2", "off3"}
    OBVIOUS
  <2>1. PICK o \in Threads : bound[o] = v /\ pc[o] \in BeforeOffline \cup {"off2", "off3"}
    BY <1>31 DEF Close
  <2>3. bound'[o] = v /\ pc'[o] \in BeforeOffline \cup {"off2", "off3"}
    BY <1>31, <2>1 DEF Close
  <2> QED
    BY <2>3
<1>32. CASE Corrupt
  BY <1>32 DEF Corrupt
<1>33. CASE Sigpipe
  BY <1>33 DEF Sigpipe
<1>34. CASE UNCHANGED vars
  BY <1>34 DEF vars
<1> HIDE UsersAssumption
    DEF Uids, TypeInv, TypeOK, At, Go, Reads, Advance, Live, OneThreadPerFd, ServesPeer,
        NoZombie, BeforeOffline, threadVars, handlerVars, connVars, userVars, histVars
<1> QED
  BY <1>1, <1>2, <1>3, <1>4, <1>5, <1>6, <1>7, <1>8, <1>9, <1>10, <1>11, <1>12,
     <1>13, <1>14, <1>15, <1>16, <1>17, <1>18, <1>19, <1>20, <1>21, <1>22, <1>23, <1>24,
     <1>25, <1>26, <1>27, <1>28, <1>29, <1>30, <1>31, <1>32, <1>33, <1>34
  DEF Next, Step, Handler, Request

\* Only an answer to a query and the handler write to the socket in a user's
\* entry, and they write what is meant for that user.
LEMMA StepRouted ==
  ASSUME TypeInv, [Next]_vars
  PROVE  \/ routed' = routed
         \/ \E u \in Users : Writable(u) /\ routed' = routed \cup {<<u, peer[ufd[u]]>>}
<1>1. ASSUME NEW t \in Threads, Query(t)
      PROVE  \/ routed' = routed
             \/ \E u \in Users : Writable(u) /\ routed' = routed \cup {<<u, peer[ufd[u]]>>}
  BY <1>1, BoundsAssumption DEF Query, Route, TypeInv, TypeOK
<1>2. ASSUME NEW t \in Threads, HandlerSend(t)
      PROVE  \/ routed' = routed
             \/ \E u \in Users : Writable(u) /\ routed' = routed \cup {<<u, peer[ufd[u]]>>}
  BY <1>2 DEF HandlerSend, Route, Runs, TypeInv, TypeOK, Shape
<1>3. ASSUME NEW t \in Threads, Step(t)
      PROVE  routed' = routed
  BY <1>3 DEF Step, ThreadStart, LoginSetFd, LoginSetTid, LoginSetState, LoginReply, Walk,
     Serve, AddCheck, AddMsg, Signal, Eof, OfflineFd, OfflineState, OfflineAgain, Close, histVars
<1>4. ASSUME NEW t \in Threads, Request(t), ~Query(t)
      PROVE  routed' = routed
  BY <1>4 DEF Request, ReqLogin, LoginRefused, LoginChecked, GetGroupInfoUnknown, SendMsg,
     SendGmsg, histVars
<1>5. ASSUME NEW t \in Threads, Handler(t), ~HandlerSend(t)
      PROVE  routed' = routed
  BY <1>5 DEF Handler, HandlerStart, HandlerCheck, HandlerLoop, HandlerTake,
     HandlerReturn, histVars
<1>6. ASSUME \/ \E t \in Threads, f \in Fds, u \in Clients : Accept(t, f, u)
             \/ \E f \in Fds, u \in Clients : AcceptNoThread(f, u)
             \/ \E f \in Fds : PeerClose(f)
             \/ Corrupt \/ Sigpipe \/ UNCHANGED vars
      PROVE  routed' = routed
  BY <1>6 DEF Accept, AcceptNoThread, PeerClose, Corrupt, Sigpipe, vars, histVars
<1> QED
  BY <1>1, <1>2, <1>3, <1>4, <1>5, <1>6 DEF Next

LEMMA StepNoCrossDelivery ==
  ASSUME TypeInv, ServesPeer, SocketOwner, NoCrossDelivery, [Next]_vars
  PROVE  NoCrossDelivery'
<1>1. ASSUME NEW u \in Users, Writable(u)
      PROVE  peer[ufd[u]] = u
  <2>1. PICK t \in Threads : tfd[t] = ufd[u] /\ bound[t] = u
    BY <1>1 DEF SocketOwner, Writable
  <2> QED
    BY <2>1, UsersAssumption DEF ServesPeer, Uids
<1> QED
  BY <1>1, StepRouted DEF NoCrossDelivery

\* Under PromptStart the ownership of sockets is an inductive invariant.
LEMMA OwnInvCorrect ==
  ASSUME PromptStart
  PROVE  Spec => [](TypeInv /\ OwnInv)
<1>1. Init => TypeInv /\ OwnInv
  BY InitTypeInv, InitOwnInv
<1>2. TypeInv /\ OwnInv /\ [Next]_vars => TypeInv' /\ OwnInv'
  BY StepTypeInv, StepOneThreadPerFd, StepServesPeer, StepSocketOwner, StepNoZombie,
     StepNoCrossDelivery DEF OwnInv
<1> QED
  BY <1>1, <1>2, PTL DEF Spec

\* A descriptor in the table belongs to a thread that serves its user and has
\* not begun to mark him offline.
THEOREM SocketOwnerCorrect ==
  ASSUME PromptStart
  PROVE  Spec => []SocketOwner
<1>1. OwnInv => SocketOwner
  BY DEF OwnInv
<1> QED
  BY <1>1, OwnInvCorrect, PTL

\* Nothing meant for one user is written to another user's connection, through
\* any sequence of accept(), close() and reuse of descriptors.
THEOREM NoCrossDeliveryCorrect ==
  ASSUME PromptStart
  PROVE  Spec => []NoCrossDelivery
<1>1. OwnInv => NoCrossDelivery
  BY DEF OwnInv
<1> QED
  BY <1>1, OwnInvCorrect, PTL

\* Nobody is online without a thread that will mark him offline.
THEOREM NoZombieCorrect ==
  ASSUME PromptStart
  PROVE  Spec => []NoZombie
<1>1. OwnInv => NoZombie
  BY DEF OwnInv
<1> QED
  BY <1>1, OwnInvCorrect, PTL

\* "Oops! who's msg!" is never printed.
THEOREM WhosMsgCorrect ==
  ASSUME PromptStart
  PROVE  Spec => []WhosMsg
<1>1. OwnInv => WhosMsg
  BY DEF OwnInv, ServesPeer, WhosMsg
<1> QED
  BY <1>1, OwnInvCorrect, PTL

-----------------------------------------------------------------------------
(* Sessions: one live connection per user                                  *)

\* No two open connections are of one user.
OnePeer == \A f, g \in Fds : peer[f] = peer[g] /\ peer[f] # NoUser => f = g

\* A user's stkc_tid is the live thread bound to him, or one that has exited.
TidOwner == \A u \in Users : utid[u] # NoThread => pc[utid[u]] = "done" \/ bound[utid[u]] = u

\* Who is logging in is offline; what his thread has written is in his entry.
LoginWrites ==
  \A t \in Threads :
    /\ pc[t] \in {"setfd", "settid", "setstate"} => ~online[bound[t]]
    /\ pc[t] \in {"settid", "setstate", "reply"} => ufd[bound[t]] = tfd[t]
    /\ pc[t] \in {"setstate", "reply"} => utid[bound[t]] = t

\* Who is online is served by the thread in his entry.
OnlineOwner ==
  \A u \in Users : online[u] =>
    utid[u] # NoThread /\ bound[utid[u]] = u /\ pc[utid[u]] \in BeforeOffline \cup {"off2"}

\* A thread keeps its descriptor in the entry it has put its id in, until it
\* marks its user offline.
FdKept ==
  \A t \in Threads :
    bound[t] # NoUser /\ utid[bound[t]] = t /\ pc[t] \in BeforeOffline
      => ufd[bound[t]] = tfd[t]

SessionInv == OnePeer /\ TidOwner /\ LoginWrites /\ OnlineOwner /\ FdKept

\* A handler that has found its client works for the user its thread is bound
\* to, who is online once he has been found so, with a message to take.
HandlerInv ==
  \A t \in Threads :
    /\ hpc[t] # "off" => Live(t)
    /\ hpc[t] \in {"check", "loop", "take", "send"} => hcl[t] = bound[t] /\ utid[hcl[t]] = t
    /\ hpc[t] \in {"loop", "take", "send"} => online[hcl[t]]
    /\ hpc[t] = "take" => mail[hcl[t]] # <<>>

\* A message queued for a session is in the mailbox of a user who is still in
\* it, or its thread has marked him offline.
Tagged ==
  \A u \in Users : \A i \in DOMAIN mail[u] : mail[u][i][3] # NoThread =>
    \/ online[u] /\ utid[u] = mail[u][i][3]
    \/ pc[mail[u][i][3]] \in {"off3", "close", "done"}


\* A user has one live thread at most.
LEMMA OneThreadPerUser ==
  ASSUME TypeInv, OneThreadPerFd, ServesPeer, OnePeer, NEW t \in Threads, NEW o \in Threads,
         bound[t] # NoUser, bound[o] = bound[t]
  PROVE  t = o
<1>1. Live(t) /\ Live(o)
  BY DEF OneThreadPerFd
<1>2. tfd[t] \in Fds /\ tfd[o] \in Fds
  BY <1>1 DEF OneThreadPerFd
<1>3. peer[tfd[t]] = peer[tfd[o]] /\ peer[tfd[t]] # NoUser
  BY DEF ServesPeer
<1>4. tfd[t] = tfd[o]
  BY <1>2, <1>3 DEF OnePeer
<1> QED
  BY <1>1, <1>4 DEF OneThreadPerFd

\* An unbound thread that has not exited is in no entry.
LEMMA UnboundTid ==
  ASSUME TidOwner, NEW t \in Threads, bound[t] = NoUser, pc[t] # "done", NEW u \in Users
  PROVE  utid[u] # t
BY UsersAssumption, ThreadsAssumption DEF TidOwner, Uids

\* A message that is queued empties no mailbox.
LEMMA AddMsgFills ==
  ASSUME TypeInv, NEW t \in Threads, AddMsg(t), NEW u \in Users, mail[u] # <<>>
  PROVE  mail'[u] # <<>>
<1> DEFINE m == <<t, sent[t], Session(Head(work[t]))>>
<1>1. mail[u] \in Seq(Msgs)
  BY DEF TypeInv, TypeOK
<1>2. mail'[u] = IF u = Head(work[t]) THEN Append(mail[u], m) ELSE mail[u]
  BY DEF AddMsg, TypeInv, TypeOK
<1> HIDE DEF m
<1>3. Append(mail[u], m) # <<>>
  BY ONLY <1>1, SMT
<1> QED
  BY <1>2, <1>3

LEMMA InitSessionInv == Init => SessionInv /\ HandlerInv /\ Tagged
BY UsersAssumption, FdsAssumption, ThreadsAssumption
   DEF Init, SessionInv, OnePeer, TidOwner, LoginWrites, OnlineOwner, FdKept, HandlerInv, Tagged

\* A connection is accepted only from a user who has none.
LEMMA StepOnePeer ==
  ASSUME OneConn, TypeInv, OneThreadPerFd, OnePeer, [Next]_vars
  PROVE  OnePeer'
<1> USE UsersAssumption, BoundsAssumption
    DEF TypeInv, TypeOK, At, Go, Reads, Advance, Live, OneThreadPerFd, OnePeer, Uids,
      threadVars, handlerVars, connVars, userVars, histVars
<1>1. ASSUME NEW t \in Threads, NEW f \in Fds, NEW u \in Clients, Accept(t, f, u)
      PROVE  OnePeer'
  BY <1>1 DEF Accept, MayAccept, NewConnection
<1>2. ASSUME NEW f \in Fds, NEW u \in Clients, AcceptNoThread(f, u)
      PROVE  OnePeer'
  BY <1>2 DEF AcceptNoThread, MayAccept, NewConnection
<1>3. ASSUME NEW f \in Fds, PeerClose(f)
      PROVE  OnePeer'
  BY <1>3 DEF PeerClose
<1>4. ASSUME NEW t \in Threads, ThreadStart(t)
      PROVE  OnePeer'
  BY <1>4 DEF ThreadStart
<1>5. ASSUME NEW t \in Threads, ReqLogin(t)
      PROVE  OnePeer'
  BY <1>5 DEF ReqLogin, Bind, Find
<1>6. ASSUME NEW t \in Threads, NEW passOk \in BOOLEAN, LoginRefused(t, passOk)
      PROVE  OnePeer'
  BY <1>6 DEF LoginRefused, Bind, Find
<1>7. ASSUME NEW t \in Threads, LoginChecked(t)
      PROVE  OnePeer'
  BY <1>7 DEF LoginChecked, Bind, Find
<1>8. ASSUME NEW t \in Threads, LoginSetFd(t)
      PROVE  OnePeer'
  BY <1>8 DEF LoginSetFd
<1>9. ASSUME NEW t \in Threads, LoginSetTid(t)
      PROVE  OnePeer'
  BY <1>9 DEF LoginSetTid
<1>10. ASSUME NEW t \in Threads, LoginSetState(t)
       PROVE  OnePeer'
  BY <1>10 DEF LoginSetState
<1>11. ASSUME NEW t \in Threads, LoginReply(t)
       PROVE  OnePeer'
  BY <1>11 DEF LoginReply
<1>12. ASSUME NEW t \in Threads, Query(t)
       PROVE  OnePeer'
  BY <1>12 DEF Query
<1>13. ASSUME NEW t \in Threads, GetGroupInfoUnknown(t)
       PROVE  OnePeer'
  BY <1>13 DEF GetGroupInfoUnknown
<1>14. ASSUME NEW t \in Threads, NEW v \in Uids, SendMsg(t, v)
       PROVE  OnePeer'
  BY <1>14 DEF SendMsg
<1>15. ASSUME NEW t \in Threads, NEW g \in Gids, SendGmsg(t, g)
       PROVE  OnePeer'
  BY <1>15 DEF SendGmsg
<1>16. ASSUME NEW t \in Threads, Walk(t)
       PROVE  OnePeer'
  <2>1. PICK x \in {"recv", "walk", "work"} : pc' = [pc EXCEPT ![t] = x]
    BY <1>16 DEF Walk
  <2> QED
    BY <1>16, <2>1 DEF Walk
<1>17. ASSUME NEW t \in Threads, Serve(t)
       PROVE  OnePeer'
  <2>1. PICK x \in {"add", "recv"} : pc' = [pc EXCEPT ![t] = x]
    BY <1>17 DEF Serve
  <2> QED
    BY <1>17, <2>1 DEF Serve
<1>18. ASSUME NEW t \in Threads, AddCheck(t)
       PROVE  OnePeer'
  <2>1. PICK x \in {"append", "walk"} : pc' = [pc EXCEPT ![t] = x]
    BY <1>18 DEF AddCheck
  <2> QED
    BY <1>18, <2>1 DEF AddCheck
<1>19. ASSUME NEW t \in Threads, AddMsg(t)
       PROVE  OnePeer'
  BY <1>19 DEF AddMsg
<1>20. ASSUME NEW t \in Threads, Signal(t)
       PROVE  OnePeer'
  BY <1>20 DEF Signal
<1>21. ASSUME NEW t \in Threads, HandlerStart(t)
       PROVE  OnePeer'
  BY <1>21 DEF HandlerStart, Runs, HGo
<1>22. ASSUME NEW t \in Threads, HandlerCheck(t)
       PROVE  OnePeer'
  BY <1>22 DEF HandlerCheck, Runs, HGo
<1>23. ASSUME NEW t \in Threads, HandlerLoop(t)
       PROVE  OnePeer'
  BY <1>23 DEF HandlerLoop, Runs, HGo
<1>24. ASSUME NEW t \in Threads, HandlerTake(t)
       PROVE  OnePeer'
  BY <1>24 DEF HandlerTake, Runs, HGo
<1>25. ASSUME NEW t \in Threads, HandlerSend(t)
       PROVE  OnePeer'
  BY <1>25 DEF HandlerSend, Runs, HGo
<1>26. ASSUME NEW t \in Threads, HandlerReturn(t)
       PROVE  OnePeer'
  BY <1>26 DEF HandlerReturn, Runs, HGo
<1>27. ASSUME NEW t \in Threads, Eof(t)
       PROVE  OnePeer'
  BY <1>27 DEF Eof
<1>28. ASSUME NEW t \in Threads, OfflineFd(t)
       PROVE  OnePeer'
  BY <1>28 DEF OfflineFd
<1>29. ASSUME NEW t \in Threads, OfflineState(t)
       PROVE  OnePeer'
  BY <1>29 DEF OfflineState
<1>30. ASSUME NEW t \in Threads, OfflineAgain(t)
       PROVE  OnePeer'
  BY <1>30 DEF OfflineAgain
<1>31. ASSUME NEW t \in Threads, Close(t)
       PROVE  OnePeer'
  BY <1>31 DEF Close
<1>32. CASE Corrupt
  BY <1>32 DEF Corrupt
<1>33. CASE Sigpipe
  BY <1>33 DEF Sigpipe
<1>34. CASE UNCHANGED vars
  BY <1>34 DEF vars
<1> HIDE UsersAssumption, BoundsAssumption
    DEF TypeInv, TypeOK, At, Go, Reads, Advance, Live, OneThreadPerFd, OnePeer, Uids,
      threadVars, handlerVars, connVars, userVars, histVars
<1> QED
  BY <1>1, <1>2, <1>3, <1>4, <1>5, <1>6, <1>7, <1>8, <1>9, <1>10, <1>11, <1>12, <1>13, <1>14,
    <1>15, <1>16, <1>17, <1>18, <1>19, <1>20, <1>21, <1>22, <1>23, <1>24, <1>25, <1>26, <1>27,
    <1>28, <1>29, <1>30, <1>31, <1>32, <1>33, <1>34
  DEF Next, Step, Handler, Request

\* A thread enters its id for the user it is bound to until it exits.
LEMMA StepTidOwner ==
  ASSUME OneConn, PromptStart, TypeInv, OneThreadPerFd, ServesPeer, SessionInv, [Next]_vars
  PROVE  TidOwner'
<1>0. \A t, o \in Threads : bound[t] # NoUser /\ bound[o] = bound[t] => t = o
  BY OneThreadPerUser DEF SessionInv
<1> USE UsersAssumption, ThreadsAssumption, FdsAssumption, BoundsAssumption, <1>0
    DEF TypeInv, TypeOK, PCs, Stages, At, Go, Reads, Advance, Live, OneThreadPerFd, ServesPeer,
      Uids, SessionInv, TidOwner, threadVars, handlerVars, connVars, userVars, histVars
<1>1. ASSUME NEW t \in Threads, NEW f \in Fds, NEW u \in Clients, Accept(t, f, u)
      PROVE  TidOwner'
  BY <1>1 DEF Accept, MayAccept, NewConnection
<1>2. ASSUME NEW f \in Fds, NEW u \in Clients, AcceptNoThread(f, u)
      PROVE  TidOwner'
  BY <1>2 DEF AcceptNoThread, MayAccept, NewConnection
<1>3. ASSUME NEW f \in Fds, PeerClose(f)
      PROVE  TidOwner'
  BY <1>3 DEF PeerClose
<1>4. ASSUME NEW t \in Threads, ThreadStart(t)
      PROVE  TidOwner'
  BY <1>4 DEF ThreadStart
<1>5. ASSUME NEW t \in Threads, ReqLogin(t)
      PROVE  TidOwner'
  BY <1>5 DEF ReqLogin, Bind, Find
<1>6. ASSUME NEW t \in Threads, NEW passOk \in BOOLEAN, LoginRefused(t, passOk)
      PROVE  TidOwner'
  BY <1>6 DEF LoginRefused, Bind, Find
<1>7. ASSUME NEW t \in Threads, LoginChecked(t)
      PROVE  TidOwner'
  BY <1>7 DEF LoginChecked, Bind, Find
<1>8. ASSUME NEW t \in Threads, LoginSetFd(t)
      PROVE  TidOwner'
  BY <1>8 DEF LoginSetFd
<1>9. ASSUME NEW t \in Threads, LoginSetTid(t)
      PROVE  TidOwner'
  BY <1>9 DEF LoginSetTid
<1>10. ASSUME NEW t \in Threads, LoginSetState(t)
       PROVE  TidOwner'
  BY <1>10 DEF LoginSetState
<1>11. ASSUME NEW t \in Threads, LoginReply(t)
       PROVE  TidOwner'
  BY <1>11 DEF LoginReply
<1>12. ASSUME NEW t \in Threads, Query(t)
       PROVE  TidOwner'
  BY <1>12 DEF Query
<1>13. ASSUME NEW t \in Threads, GetGroupInfoUnknown(t)
       PROVE  TidOwner'
  BY <1>13 DEF GetGroupInfoUnknown
<1>14. ASSUME NEW t \in Threads, NEW v \in Uids, SendMsg(t, v)
       PROVE  TidOwner'
  BY <1>14 DEF SendMsg
<1>15. ASSUME NEW t \in Threads, NEW g \in Gids, SendGmsg(t, g)
       PROVE  TidOwner'
  BY <1>15 DEF SendGmsg
<1>16. ASSUME NEW t \in Threads, Walk(t)
       PROVE  TidOwner'
  <2>1. PICK x \in {"recv", "walk", "work"} : pc' = [pc EXCEPT ![t] = x]
    BY <1>16 DEF Walk
  <2> QED
    BY <1>16, <2>1 DEF Walk
<1>17. ASSUME NEW t \in Threads, Serve(t)
       PROVE  TidOwner'
  <2>1. PICK x \in {"add", "recv"} : pc' = [pc EXCEPT ![t] = x]
    BY <1>17 DEF Serve
  <2> QED
    BY <1>17, <2>1 DEF Serve
<1>18. ASSUME NEW t \in Threads, AddCheck(t)
       PROVE  TidOwner'
  <2>1. PICK x \in {"append", "walk"} : pc' = [pc EXCEPT ![t] = x]
    BY <1>18 DEF AddCheck
  <2> QED
    BY <1>18, <2>1 DEF AddCheck
<1>19. ASSUME NEW t \in Threads, AddMsg(t)
       PROVE  TidOwner'
  BY <1>19 DEF AddMsg
<1>20. ASSUME NEW t \in Threads, Signal(t)
       PROVE  TidOwner'
  BY <1>20 DEF Signal
<1>21. ASSUME NEW t \in Threads, HandlerStart(t)
       PROVE  TidOwner'
  BY <1>21 DEF HandlerStart, Runs, HGo
<1>22. ASSUME NEW t \in Threads, HandlerCheck(t)
       PROVE  TidOwner'
  BY <1>22 DEF HandlerCheck, Runs, HGo
<1>23. ASSUME NEW t \in Threads, HandlerLoop(t)
       PROVE  TidOwner'
  BY <1>23 DEF HandlerLoop, Runs, HGo
<1>24. ASSUME NEW t \in Threads, HandlerTake(t)
       PROVE  TidOwner'
  BY <1>24 DEF HandlerTake, Runs, HGo
<1>25. ASSUME NEW t \in Threads, HandlerSend(t)
       PROVE  TidOwner'
  BY <1>25 DEF HandlerSend, Runs, HGo
<1>26. ASSUME NEW t \in Threads, HandlerReturn(t)
       PROVE  TidOwner'
  BY <1>26 DEF HandlerReturn, Runs, HGo
<1>27. ASSUME NEW t \in Threads, Eof(t)
       PROVE  TidOwner'
  BY <1>27 DEF Eof
<1>28. ASSUME NEW t \in Threads, OfflineFd(t)
       PROVE  TidOwner'
  BY <1>28 DEF OfflineFd
<1>29. ASSUME NEW t \in Threads, OfflineState(t)
       PROVE  TidOwner'
  BY <1>29 DEF OfflineState
<1>30. ASSUME NEW t \in Threads, OfflineAgain(t)
       PROVE  TidOwner'
  BY <1>30 DEF OfflineAgain
<1>31. ASSUME NEW t \in Threads, Close(t)
       PROVE  TidOwner'
  BY <1>31 DEF Close
<1>32. CASE Corrupt
  BY <1>32 DEF Corrupt
<1>33. CASE Sigpipe
  BY <1>33 DEF Sigpipe
<1>34. CASE UNCHANGED vars
  BY <1>34 DEF vars
<1> HIDE UsersAssumption, ThreadsAssumption, FdsAssumption, BoundsAssumption, <1>0
    DEF TypeInv, TypeOK, PCs, Stages, At, Go, Reads, Advance, Live, OneThreadPerFd, ServesPeer,
      Uids, SessionInv, TidOwner, threadVars, handlerVars, connVars, userVars, histVars
<1> QED
  BY <1>1, <1>2, <1>3, <1>4, <1>5, <1>6, <1>7, <1>8, <1>9, <1>10, <1>11, <1>12, <1>13, <1>14,
    <1>15, <1>16, <1>17, <1>18, <1>19, <1>20, <1>21, <1>22, <1>23, <1>24, <1>25, <1>26, <1>27,
    <1>28, <1>29, <1>30, <1>31, <1>32, <1>33, <1>34
  DEF Next, Step, Handler, Request

\* The writes of a login stay: no other thread of that user runs.
LEMMA StepLoginWrites ==
  ASSUME OneConn, PromptStart, TypeInv, OneThreadPerFd, ServesPeer, SessionInv, [Next]_vars
  PROVE  LoginWrites'
<1>0. \A t, o \in Threads : bound[t] # NoUser /\ bound[o] = bound[t] => t = o
  BY OneThreadPerUser DEF SessionInv
<1> USE UsersAssumption, ThreadsAssumption, FdsAssumption, BoundsAssumption, <1>0
    DEF TypeInv, TypeOK, PCs, Stages, At, Go, Reads, Advance, Live, OneThreadPerFd, ServesPeer,
      Uids, SessionInv, LoginWrites, threadVars, handlerVars, connVars, userVars, histVars
<1>1. ASSUME NEW t \in Threads, NEW f \in Fds, NEW u \in Clients, Accept(t, f, u)
      PROVE  LoginWrites'
  BY <1>1 DEF Accept, MayAccept, NewConnection
<1>2. ASSUME NEW f \in Fds, NEW u \in Clients, AcceptNoThread(f, u)
      PROVE  LoginWrites'
  BY <1>2 DEF AcceptNoThread, MayAccept, NewConnection
<1>3. ASSUME NEW f \in Fds, PeerClose(f)
      PROVE  LoginWrites'
  BY <1>3 DEF PeerClose
<1>4. ASSUME NEW t \in Threads, ThreadStart(t)
      PROVE  LoginWrites'
  BY <1>4 DEF ThreadStart
<1>5. ASSUME NEW t \in Threads, ReqLogin(t)
      PROVE  LoginWrites'
  BY <1>5 DEF ReqLogin, Bind, Find
<1>6. ASSUME NEW t \in Threads, NEW passOk \in BOOLEAN, LoginRefused(t, passOk)
      PROVE  LoginWrites'
  BY <1>6 DEF LoginRefused, Bind, Find
<1>7. ASSUME NEW t \in Threads, LoginChecked(t)
      PROVE  LoginWrites'
  BY <1>7 DEF LoginChecked, Bind, Find
<1>8. ASSUME NEW t \in Threads, LoginSetFd(t)
      PROVE  LoginWrites'
  BY <1>8 DEF LoginSetFd
<1>9. ASSUME NEW t \in Threads, LoginSetTid(t)
      PROVE  LoginWrites'
  BY <1>9 DEF LoginSetTid
<1>10. ASSUME NEW t \in Threads, LoginSetState(t)
       PROVE  LoginWrites'
  BY <1>10 DEF LoginSetState
<1>11. ASSUME NEW t \in Threads, LoginReply(t)
       PROVE  LoginWrites'
  BY <1>11 DEF LoginReply
<1>12. ASSUME NEW t \in Threads, Query(t)
       PROVE  LoginWrites'
  BY <1>12 DEF Query
<1>13. ASSUME NEW t \in Threads, GetGroupInfoUnknown(t)
       PROVE  LoginWrites'
  BY <1>13 DEF GetGroupInfoUnknown
<1>14. ASSUME NEW t \in Threads, NEW v \in Uids, SendMsg(t, v)
       PROVE  LoginWrites'
  BY <1>14 DEF SendMsg
<1>15. ASSUME NEW t \in Threads, NEW g \in Gids, SendGmsg(t, g)
       PROVE  LoginWrites'
  BY <1>15 DEF SendGmsg
<1>16. ASSUME NEW t \in Threads, Walk(t)
       PROVE  LoginWrites'
  <2>1. PICK x \in {"recv", "walk", "work"} : pc' = [pc EXCEPT ![t] = x]
    BY <1>16 DEF Walk
  <2> QED
    BY <1>16, <2>1 DEF Walk
<1>17. ASSUME NEW t \in Threads, Serve(t)
       PROVE  LoginWrites'
  <2>1. PICK x \in {"add", "recv"} : pc' = [pc EXCEPT ![t] = x]
    BY <1>17 DEF Serve
  <2> QED
    BY <1>17, <2>1 DEF Serve
<1>18. ASSUME NEW t \in Threads, AddCheck(t)
       PROVE  LoginWrites'
  <2>1. PICK x \in {"append", "walk"} : pc' = [pc EXCEPT ![t] = x]
    BY <1>18 DEF AddCheck
  <2> QED
    BY <1>18, <2>1 DEF AddCheck
<1>19. ASSUME NEW t \in Threads, AddMsg(t)
       PROVE  LoginWrites'
  BY <1>19 DEF AddMsg
<1>20. ASSUME NEW t \in Threads, Signal(t)
       PROVE  LoginWrites'
  BY <1>20 DEF Signal
<1>21. ASSUME NEW t \in Threads, HandlerStart(t)
       PROVE  LoginWrites'
  BY <1>21 DEF HandlerStart, Runs, HGo
<1>22. ASSUME NEW t \in Threads, HandlerCheck(t)
       PROVE  LoginWrites'
  BY <1>22 DEF HandlerCheck, Runs, HGo
<1>23. ASSUME NEW t \in Threads, HandlerLoop(t)
       PROVE  LoginWrites'
  BY <1>23 DEF HandlerLoop, Runs, HGo
<1>24. ASSUME NEW t \in Threads, HandlerTake(t)
       PROVE  LoginWrites'
  BY <1>24 DEF HandlerTake, Runs, HGo
<1>25. ASSUME NEW t \in Threads, HandlerSend(t)
       PROVE  LoginWrites'
  BY <1>25 DEF HandlerSend, Runs, HGo
<1>26. ASSUME NEW t \in Threads, HandlerReturn(t)
       PROVE  LoginWrites'
  BY <1>26 DEF HandlerReturn, Runs, HGo
<1>27. ASSUME NEW t \in Threads, Eof(t)
       PROVE  LoginWrites'
  BY <1>27 DEF Eof
<1>28. ASSUME NEW t \in Threads, OfflineFd(t)
       PROVE  LoginWrites'
  BY <1>28 DEF OfflineFd
<1>29. ASSUME NEW t \in Threads, OfflineState(t)
       PROVE  LoginWrites'
  BY <1>29 DEF OfflineState
<1>30. ASSUME NEW t \in Threads, OfflineAgain(t)
       PROVE  LoginWrites'
  BY <1>30 DEF OfflineAgain
<1>31. ASSUME NEW t \in Threads, Close(t)
       PROVE  LoginWrites'
  BY <1>31 DEF Close
<1>32. CASE Corrupt
  BY <1>32 DEF Corrupt
<1>33. CASE Sigpipe
  BY <1>33 DEF Sigpipe
<1>34. CASE UNCHANGED vars
  BY <1>34 DEF vars
<1> HIDE UsersAssumption, ThreadsAssumption, FdsAssumption, BoundsAssumption, <1>0
    DEF TypeInv, TypeOK, PCs, Stages, At, Go, Reads, Advance, Live, OneThreadPerFd, ServesPeer,
      Uids, SessionInv, LoginWrites, threadVars, handlerVars, connVars, userVars, histVars
<1> QED
  BY <1>1, <1>2, <1>3, <1>4, <1>5, <1>6, <1>7, <1>8, <1>9, <1>10, <1>11, <1>12, <1>13, <1>14,
    <1>15, <1>16, <1>17, <1>18, <1>19, <1>20, <1>21, <1>22, <1>23, <1>24, <1>25, <1>26, <1>27,
    <1>28, <1>29, <1>30, <1>31, <1>32, <1>33, <1>34
  DEF Next, Step, Handler, Request

\* Only his thread sets a user's state, after its id.
LEMMA StepOnlineOwner ==
  ASSUME OneConn, PromptStart, TypeInv, OneThreadPerFd, ServesPeer, SessionInv, [Next]_vars
  PROVE  OnlineOwner'
<1>0. \A t, o \in Threads : bound[t] # NoUser /\ bound[o] = bound[t] => t = o
  BY OneThreadPerUser DEF SessionInv
<1> USE UsersAssumption, ThreadsAssumption, FdsAssumption, BoundsAssumption, <1>0
    DEF TypeInv, TypeOK, PCs, Stages, At, Go, Reads, Advance, Live, OneThreadPerFd, ServesPeer,
      Uids, SessionInv, OnlineOwner, BeforeOffline, LoginWrites, threadVars, handlerVars,
      connVars, userVars, histVars
<1>1. ASSUME NEW t \in Threads, NEW f \in Fds, NEW u \in Clients, Accept(t, f, u)
      PROVE  OnlineOwner'
  BY <1>1 DEF Accept, MayAccept, NewConnection
<1>2. ASSUME NEW f \in Fds, NEW u \in Clients, AcceptNoThread(f, u)
      PROVE  OnlineOwner'
  BY <1>2 DEF AcceptNoThread, MayAccept, NewConnection
<1>3. ASSUME NEW f \in Fds, PeerClose(f)
      PROVE  OnlineOwner'
  BY <1>3 DEF PeerClose
<1>4. ASSUME NEW t \in Threads, ThreadStart(t)
      PROVE  OnlineOwner'
  BY <1>4 DEF ThreadStart
<1>5. ASSUME NEW t \in Threads, ReqLogin(t)
      PROVE  OnlineOwner'
  BY <1>5 DEF ReqLogin, Bind, Find
<1>6. ASSUME NEW t \in Threads, NEW passOk \in BOOLEAN, LoginRefused(t, passOk)
      PROVE  OnlineOwner'
  BY <1>6 DEF LoginRefused, Bind, Find
<1>7. ASSUME NEW t \in Threads, LoginChecked(t)
      PROVE  OnlineOwner'
  BY <1>7 DEF LoginChecked, Bind, Find
<1>8. ASSUME NEW t \in Threads, LoginSetFd(t)
      PROVE  OnlineOwner'
  BY <1>8 DEF LoginSetFd
<1>9. ASSUME NEW t \in Threads, LoginSetTid(t)
      PROVE  OnlineOwner'
  BY <1>9 DEF LoginSetTid
<1>10. ASSUME NEW t \in Threads, LoginSetState(t)
       PROVE  OnlineOwner'
  BY <1>10 DEF LoginSetState
<1>11. ASSUME NEW t \in Threads, LoginReply(t)
       PROVE  OnlineOwner'
  BY <1>11 DEF LoginReply
<1>12. ASSUME NEW t \in Threads, Query(t)
       PROVE  OnlineOwner'
  BY <1>12 DEF Query
<1>13. ASSUME NEW t \in Threads, GetGroupInfoUnknown(t)
       PROVE  OnlineOwner'
  BY <1>13 DEF GetGroupInfoUnknown
<1>14. ASSUME NEW t \in Threads, NEW v \in Uids, SendMsg(t, v)
       PROVE  OnlineOwner'
  BY <1>14 DEF SendMsg
<1>15. ASSUME NEW t \in Threads, NEW g \in Gids, SendGmsg(t, g)
       PROVE  OnlineOwner'
  BY <1>15 DEF SendGmsg
<1>16. ASSUME NEW t \in Threads, Walk(t)
       PROVE  OnlineOwner'
  <2>1. PICK x \in {"recv", "walk", "work"} : pc' = [pc EXCEPT ![t] = x]
    BY <1>16 DEF Walk
  <2> QED
    BY <1>16, <2>1 DEF Walk
<1>17. ASSUME NEW t \in Threads, Serve(t)
       PROVE  OnlineOwner'
  <2>1. PICK x \in {"add", "recv"} : pc' = [pc EXCEPT ![t] = x]
    BY <1>17 DEF Serve
  <2> QED
    BY <1>17, <2>1 DEF Serve
<1>18. ASSUME NEW t \in Threads, AddCheck(t)
       PROVE  OnlineOwner'
  <2>1. PICK x \in {"append", "walk"} : pc' = [pc EXCEPT ![t] = x]
    BY <1>18 DEF AddCheck
  <2> QED
    BY <1>18, <2>1 DEF AddCheck
<1>19. ASSUME NEW t \in Threads, AddMsg(t)
       PROVE  OnlineOwner'
  BY <1>19 DEF AddMsg
<1>20. ASSUME NEW t \in Threads, Signal(t)
       PROVE  OnlineOwner'
  BY <1>20 DEF Signal
<1>21. ASSUME NEW t \in Threads, HandlerStart(t)
       PROVE  OnlineOwner'
  BY <1>21 DEF HandlerStart, Runs, HGo
<1>22. ASSUME NEW t \in Threads, HandlerCheck(t)
       PROVE  OnlineOwner'
  BY <1>22 DEF HandlerCheck, Runs, HGo
<1>23. ASSUME NEW t \in Threads, HandlerLoop(t)
       PROVE  OnlineOwner'
  BY <1>23 DEF HandlerLoop, Runs, HGo
<1>24. ASSUME NEW t \in Threads, HandlerTake(t)
       PROVE  OnlineOwner'
  BY <1>24 DEF HandlerTake, Runs, HGo
<1>25. ASSUME NEW t \in Threads, HandlerSend(t)
       PROVE  OnlineOwner'
  BY <1>25 DEF HandlerSend, Runs, HGo
<1>26. ASSUME NEW t \in Threads, HandlerReturn(t)
       PROVE  OnlineOwner'
  BY <1>26 DEF HandlerReturn, Runs, HGo
<1>27. ASSUME NEW t \in Threads, Eof(t)
       PROVE  OnlineOwner'
  BY <1>27 DEF Eof
<1>28. ASSUME NEW t \in Threads, OfflineFd(t)
       PROVE  OnlineOwner'
  BY <1>28 DEF OfflineFd
<1>29. ASSUME NEW t \in Threads, OfflineState(t)
       PROVE  OnlineOwner'
  BY <1>29 DEF OfflineState
<1>30. ASSUME NEW t \in Threads, OfflineAgain(t)
       PROVE  OnlineOwner'
  BY <1>30 DEF OfflineAgain
<1>31. ASSUME NEW t \in Threads, Close(t)
       PROVE  OnlineOwner'
  BY <1>31 DEF Close
<1>32. CASE Corrupt
  BY <1>32 DEF Corrupt
<1>33. CASE Sigpipe
  BY <1>33 DEF Sigpipe
<1>34. CASE UNCHANGED vars
  BY <1>34 DEF vars
<1> HIDE UsersAssumption, ThreadsAssumption, FdsAssumption, BoundsAssumption, <1>0
    DEF TypeInv, TypeOK, PCs, Stages, At, Go, Reads, Advance, Live, OneThreadPerFd, ServesPeer,
      Uids, SessionInv, OnlineOwner, BeforeOffline, LoginWrites, threadVars, handlerVars,
      connVars, userVars, histVars
<1> QED
  BY <1>1, <1>2, <1>3, <1>4, <1>5, <1>6, <1>7, <1>8, <1>9, <1>10, <1>11, <1>12, <1>13, <1>14,
    <1>15, <1>16, <1>17, <1>18, <1>19, <1>20, <1>21, <1>22, <1>23, <1>24, <1>25, <1>26, <1>27,
    <1>28, <1>29, <1>30, <1>31, <1>32, <1>33, <1>34
  DEF Next, Step, Handler, Request

\* Only his thread sets a user's descriptor.
LEMMA StepFdKept ==
  ASSUME OneConn, PromptStart, TypeInv, OneThreadPerFd, ServesPeer, SessionInv, [Next]_vars
  PROVE  FdKept'
<1>0. \A t, o \in Threads : bound[t] # NoUser /\ bound[o] = bound[t] => t = o
  BY OneThreadPerUser DEF SessionInv
<1> USE UsersAssumption, ThreadsAssumption, FdsAssumption, BoundsAssumption, <1>0
    DEF TypeInv, TypeOK, PCs, Stages, At, Go, Reads, Advance, Live, OneThreadPerFd, ServesPeer,
      Uids, SessionInv, FdKept, BeforeOffline, LoginWrites, TidOwner, threadVars, handlerVars,
      connVars, userVars, histVars
<1>1. ASSUME NEW t \in Threads, NEW f \in Fds, NEW u \in Clients, Accept(t, f, u)
      PROVE  FdKept'
  BY <1>1 DEF Accept, MayAccept, NewConnection
<1>2. ASSUME NEW f \in Fds, NEW u \in Clients, AcceptNoThread(f, u)
      PROVE  FdKept'
  BY <1>2 DEF AcceptNoThread, MayAccept, NewConnection
<1>3. ASSUME NEW f \in Fds, PeerClose(f)
      PROVE  FdKept'
  BY <1>3 DEF PeerClose
<1>4. ASSUME NEW t \in Threads, ThreadStart(t)
      PROVE  FdKept'
  BY <1>4 DEF ThreadStart
<1>5. ASSUME NEW t \in Threads, ReqLogin(t)
      PROVE  FdKept'
  <2>1. \A u \in Users : bound[t] = NoUser => utid[u] # t
    BY <1>5, UnboundTid DEF ReqLogin
  <2>2. PICK x \in Users \cup {NoUser} : /\ bound' = [bound EXCEPT ![t] = x]
                                         /\ bound[t] # NoUser => x = bound[t]
    BY <1>5 DEF ReqLogin, Bind, Find
  <2> QED
    BY <1>5, <2>1, <2>2 DEF ReqLogin
<1>6. ASSUME NEW t \in Threads, NEW passOk \in BOOLEAN, LoginRefused(t, passOk)
      PROVE  FdKept'
  <2>1. \A u \in Users : bound[t] = NoUser => utid[u] # t
    BY <1>6, UnboundTid DEF LoginRefused
  <2>2. PICK x \in Users \cup {NoUser} : /\ bound' = [bound EXCEPT ![t] = x]
                                         /\ bound[t] # NoUser => x = bound[t]
    BY <1>6 DEF LoginRefused, Bind, Find
  <2> QED
    BY <1>6, <2>1, <2>2 DEF LoginRefused
<1>7. ASSUME NEW t \in Threads, LoginChecked(t)
      PROVE  FdKept'
  <2>1. \A u \in Users : bound[t] = NoUser => utid[u] # t
    BY <1>7, UnboundTid DEF LoginChecked
  <2>2. PICK x \in Users \cup {NoUser} : /\ bound' = [bound EXCEPT ![t] = x]
                                         /\ bound[t] # NoUser => x = bound[t]
    BY <1>7 DEF LoginChecked, Bind, Find
  <2> QED
    BY <1>7, <2>1, <2>2 DEF LoginChecked
<1>8. ASSUME NEW t \in Threads, LoginSetFd(t)
      PROVE  FdKept'
  BY <1>8 DEF LoginSetFd
<1>9. ASSUME NEW t \in Threads, LoginSetTid(t)
      PROVE  FdKept'
  BY <1>9 DEF LoginSetTid
<1>10. ASSUME NEW t \in Threads, LoginSetState(t)
       PROVE  FdKept'
  BY <1>10 DEF LoginSetState
<1>11. ASSUME NEW t \in Threads, LoginReply(t)
       PROVE  FdKept'
  BY <1>11 DEF LoginReply
<1>12. ASSUME NEW t \in Threads, Query(t)
       PROVE  FdKept'
  BY <1>12 DEF Query
<1>13. ASSUME NEW t \in Threads, GetGroupInfoUnknown(t)
       PROVE  FdKept'
  BY <1>13 DEF GetGroupInfoUnknown
<1>14. ASSUME NEW t \in Threads, NEW v \in Uids, SendMsg(t, v)
       PROVE  FdKept'
  BY <1>14 DEF SendMsg
<1>15. ASSUME NEW t \in Threads, NEW g \in Gids, SendGmsg(t, g)
       PROVE  FdKept'
  BY <1>15 DEF SendGmsg
<1>16. ASSUME NEW t \in Threads, Walk(t)
       PROVE  FdKept'
  <2>1. PICK x \in {"recv", "walk", "work"} : pc' = [pc EXCEPT ![t] = x]
    BY <1>16 DEF Walk
  <2> QED
    BY <1>16, <2>1 DEF Walk
<1>17. ASSUME NEW t \in Threads, Serve(t)
       PROVE  FdKept'
  <2>1. PICK x \in {"add", "recv"} : pc' = [pc EXCEPT ![t] = x]
    BY <1>17 DEF Serve
  <2> QED
    BY <1>17, <2>1 DEF Serve
<1>18. ASSUME NEW t \in Threads, AddCheck(t)
       PROVE  FdKept'
  <2>1. PICK x \in {"append", "walk"} : pc' = [pc EXCEPT ![t] = x]
    BY <1>18 DEF AddCheck
  <2> QED
    BY <1>18, <2>1 DEF AddCheck
<1>19. ASSUME NEW t \in Threads, AddMsg(t)
       PROVE  FdKept'
  BY <1>19 DEF AddMsg
<1>20. ASSUME NEW t \in Threads, Signal(t)
       PROVE  FdKept'
  BY <1>20 DEF Signal
<1>21. ASSUME NEW t \in Threads, HandlerStart(t)
       PROVE  FdKept'
  BY <1>21 DEF HandlerStart, Runs, HGo
<1>22. ASSUME NEW t \in Threads, HandlerCheck(t)
       PROVE  FdKept'
  BY <1>22 DEF HandlerCheck, Runs, HGo
<1>23. ASSUME NEW t \in Threads, HandlerLoop(t)
       PROVE  FdKept'
  BY <1>23 DEF HandlerLoop, Runs, HGo
<1>24. ASSUME NEW t \in Threads, HandlerTake(t)
       PROVE  FdKept'
  BY <1>24 DEF HandlerTake, Runs, HGo
<1>25. ASSUME NEW t \in Threads, HandlerSend(t)
       PROVE  FdKept'
  BY <1>25 DEF HandlerSend, Runs, HGo
<1>26. ASSUME NEW t \in Threads, HandlerReturn(t)
       PROVE  FdKept'
  BY <1>26 DEF HandlerReturn, Runs, HGo
<1>27. ASSUME NEW t \in Threads, Eof(t)
       PROVE  FdKept'
  BY <1>27 DEF Eof
<1>28. ASSUME NEW t \in Threads, OfflineFd(t)
       PROVE  FdKept'
  BY <1>28 DEF OfflineFd
<1>29. ASSUME NEW t \in Threads, OfflineState(t)
       PROVE  FdKept'
  BY <1>29 DEF OfflineState
<1>30. ASSUME NEW t \in Threads, OfflineAgain(t)
       PROVE  FdKept'
  BY <1>30 DEF OfflineAgain
<1>31. ASSUME NEW t \in Threads, Close(t)
       PROVE  FdKept'
  BY <1>31 DEF Close
<1>32. CASE Corrupt
  BY <1>32 DEF Corrupt
<1>33. CASE Sigpipe
  BY <1>33 DEF Sigpipe
<1>34. CASE UNCHANGED vars
  BY <1>34 DEF vars
<1> HIDE UsersAssumption, ThreadsAssumption, FdsAssumption, BoundsAssumption, <1>0
    DEF TypeInv, TypeOK, PCs, Stages, At, Go, Reads, Advance, Live, OneThreadPerFd, ServesPeer,
      Uids, SessionInv, FdKept, BeforeOffline, LoginWrites, TidOwner, threadVars, handlerVars,
      connVars, userVars, histVars
<1> QED
  BY <1>1, <1>2, <1>3, <1>4, <1>5, <1>6, <1>7, <1>8, <1>9, <1>10, <1>11, <1>12, <1>13, <1>14,
    <1>15, <1>16, <1>17, <1>18, <1>19, <1>20, <1>21, <1>22, <1>23, <1>24, <1>25, <1>26, <1>27,
    <1>28, <1>29, <1>30, <1>31, <1>32, <1>33, <1>34
  DEF Next, Step, Handler, Request

\* A handler suspends its thread, the only one that could change its client.
LEMMA StepHandlerInv ==
  ASSUME OneConn, PromptStart, TypeInv, OneThreadPerFd, ServesPeer, SessionInv, HandlerInv,
    [Next]_vars
  PROVE  HandlerInv'
<1>0. \A t, o \in Threads : bound[t] # NoUser /\ bound[o] = bound[t] => t = o
  BY OneThreadPerUser DEF SessionInv
<1> USE UsersAssumption, ThreadsAssumption, FdsAssumption, BoundsAssumption, <1>0
    DEF TypeInv, TypeOK, PCs, Stages, At, Go, Reads, Advance, Live, OneThreadPerFd, ServesPeer,
      Uids, SessionInv, TidOwner, OnlineOwner, LoginWrites, BeforeOffline, HandlerInv,
      threadVars, handlerVars, connVars, userVars, histVars
<1>1. ASSUME NEW t \in Threads, NEW f \in Fds, NEW u \in Clients, Accept(t, f, u)
      PROVE  HandlerInv'
  BY <1>1 DEF Accept, MayAccept, NewConnection
<1>2. ASSUME NEW f \in Fds, NEW u \in Clients, AcceptNoThread(f, u)
      PROVE  HandlerInv'
  BY <1>2 DEF AcceptNoThread, MayAccept, NewConnection
<1>3. ASSUME NEW f \in Fds, PeerClose(f)
      PROVE  HandlerInv'
  BY <1>3 DEF PeerClose
<1>4. ASSUME NEW t \in Threads, ThreadStart(t)
      PROVE  HandlerInv'
  BY <1>4 DEF ThreadStart
<1>5. ASSUME NEW t \in Threads, ReqLogin(t)
      PROVE  HandlerInv'
  BY <1>5 DEF ReqLogin, Bind, Find
<1>6. ASSUME NEW t \in Threads, NEW passOk \in BOOLEAN, LoginRefused(t, passOk)
      PROVE  HandlerInv'
  BY <1>6 DEF LoginRefused, Bind, Find
<1>7. ASSUME NEW t \in Threads, LoginChecked(t)
      PROVE  HandlerInv'
  BY <1>7 DEF LoginChecked, Bind, Find
<1>8. ASSUME NEW t \in Threads, LoginSetFd(t)
      PROVE  HandlerInv'
  BY <1>8 DEF LoginSetFd
<1>9. ASSUME NEW t \in Threads, LoginSetTid(t)
      PROVE  HandlerInv'
  BY <1>9 DEF LoginSetTid
<1>10. ASSUME NEW t \in Threads, LoginSetState(t)
       PROVE  HandlerInv'
  BY <1>10 DEF LoginSetState
<1>11. ASSUME NEW t \in Threads, LoginReply(t)
       PROVE  HandlerInv'
  BY <1>11 DEF LoginReply
<1>12. ASSUME NEW t \in Threads, Query(t)
       PROVE  HandlerInv'
  BY <1>12 DEF Query
<1>13. ASSUME NEW t \in Threads, GetGroupInfoUnknown(t)
       PROVE  HandlerInv'
  BY <1>13 DEF GetGroupInfoUnknown
<1>14. ASSUME NEW t \in Threads, NEW v \in Uids, SendMsg(t, v)
       PROVE  HandlerInv'
  BY <1>14 DEF SendMsg
<1>15. ASSUME NEW t \in Threads, NEW g \in Gids, SendGmsg(t, g)
       PROVE  HandlerInv'
  BY <1>15 DEF SendGmsg
<1>16. ASSUME NEW t \in Threads, Walk(t)
       PROVE  HandlerInv'
  <2>1. PICK x \in {"recv", "walk", "work"} : pc' = [pc EXCEPT ![t] = x]
    BY <1>16 DEF Walk
  <2> QED
    BY <1>16, <2>1 DEF Walk
<1>17. ASSUME NEW t \in Threads, Serve(t)
       PROVE  HandlerInv'
  <2>1. PICK x \in {"add", "recv"} : pc' = [pc EXCEPT ![t] = x]
    BY <1>17 DEF Serve
  <2> QED
    BY <1>17, <2>1 DEF Serve
<1>18. ASSUME NEW t \in Threads, AddCheck(t)
       PROVE  HandlerInv'
  <2>1. PICK x \in {"append", "walk"} : pc' = [pc EXCEPT ![t] = x]
    BY <1>18 DEF AddCheck
  <2> QED
    BY <1>18, <2>1 DEF AddCheck
<1>19. ASSUME NEW t \in Threads, AddMsg(t)
       PROVE  HandlerInv'
  <2>1. \A u \in Users : mail[u] # <<>> => mail'[u] # <<>>
    BY <1>19, AddMsgFills
  <2>2. \A o \in Threads : hpc[o] = "take" => hcl[o] \in Users
    BY DEF Shape
  <2>3. /\ UNCHANGED <<hpc, hcl, utid, online, bound>>
        /\ pc' = [pc EXCEPT ![t] = "kill"]
    BY <1>19 DEF AddMsg
  <2>4. ASSUME NEW o \in Threads, hpc[o] = "take"
        PROVE  mail'[hcl[o]] # <<>>
    BY <2>1, <2>2, <2>4
  <2> QED
    BY <2>3, <2>4
<1>20. ASSUME NEW t \in Threads, Signal(t)
       PROVE  HandlerInv'
  BY <1>20 DEF Signal
<1>21. ASSUME NEW t \in Threads, HandlerStart(t)
       PROVE  HandlerInv'
  <2>1. ASSUME UserOf(t) # NoUser
        PROVE  UserOf(t) \in Users /\ utid[UserOf(t)] = t
    BY <2>1 DEF UserOf
  <2>2. UserOf(t) # NoUser => UserOf(t) = bound[t]
    BY <1>21, <2>1 DEF HandlerStart
  <2> QED
    BY <1>21, <2>1, <2>2 DEF HandlerStart, Runs, HGo
<1>22. ASSUME NEW t \in Threads, HandlerCheck(t)
       PROVE  HandlerInv'
  BY <1>22 DEF HandlerCheck, Runs, HGo
<1>23. ASSUME NEW t \in Threads, HandlerLoop(t)
       PROVE  HandlerInv'
  BY <1>23 DEF HandlerLoop, Runs, HGo
<1>24. ASSUME NEW t \in Threads, HandlerTake(t)
       PROVE  HandlerInv'
  BY <1>24 DEF HandlerTake, Runs, HGo
<1>25. ASSUME NEW t \in Threads, HandlerSend(t)
       PROVE  HandlerInv'
  BY <1>25 DEF HandlerSend, Runs, HGo
<1>26. ASSUME NEW t \in Threads, HandlerReturn(t)
       PROVE  HandlerInv'
  BY <1>26 DEF HandlerReturn, Runs, HGo
<1>27. ASSUME NEW t \in Threads, Eof(t)
       PROVE  HandlerInv'
  BY <1>27 DEF Eof
<1>28. ASSUME NEW t \in Threads, OfflineFd(t)
       PROVE  HandlerInv'
  BY <1>28 DEF OfflineFd
<1>29. ASSUME NEW t \in Threads, OfflineState(t)
       PROVE  HandlerInv'
  BY <1>29 DEF OfflineState
<1>30. ASSUME NEW t \in Threads, OfflineAgain(t)
       PROVE  HandlerInv'
  BY <1>30 DEF OfflineAgain
<1>31. ASSUME NEW t \in Threads, Close(t)
       PROVE  HandlerInv'
  BY <1>31 DEF Close
<1>32. CASE Corrupt
  BY <1>32 DEF Corrupt
<1>33. CASE Sigpipe
  BY <1>33 DEF Sigpipe
<1>34. CASE UNCHANGED vars
  BY <1>34 DEF vars
<1> HIDE UsersAssumption, ThreadsAssumption, FdsAssumption, BoundsAssumption, <1>0
    DEF TypeInv, TypeOK, PCs, Stages, At, Go, Reads, Advance, Live, OneThreadPerFd, ServesPeer,
      Uids, SessionInv, TidOwner, OnlineOwner, LoginWrites, BeforeOffline, HandlerInv,
      threadVars, handlerVars, connVars, userVars, histVars
<1> QED
  BY <1>1, <1>2, <1>3, <1>4, <1>5, <1>6, <1>7, <1>8, <1>9, <1>10, <1>11, <1>12, <1>13, <1>14,
    <1>15, <1>16, <1>17, <1>18, <1>19, <1>20, <1>21, <1>22, <1>23, <1>24, <1>25, <1>26, <1>27,
    <1>28, <1>29, <1>30, <1>31, <1>32, <1>33, <1>34
  DEF Next, Step, Handler, Request

-----------------------------------------------------------------------------
(* Wake-ups                                                                *)

\* The elements of a sequence after its head, and with one more at its end.
LEMMA TailElements ==
  ASSUME NEW S, NEW s \in Seq(S), s # <<>>, NEW i \in DOMAIN Tail(s)
  PROVE  i + 1 \in DOMAIN s /\ Tail(s)[i] = s[i + 1]
OBVIOUS

LEMMA AppendElements ==
  ASSUME NEW S, NEW s \in Seq(S), NEW e \in S, NEW i \in DOMAIN Append(s, e)
  PROVE  \/ i \in DOMAIN s /\ Append(s, e)[i] = s[i]
         \/ i = Len(s) + 1 /\ Append(s, e)[i] = e
OBVIOUS

\* What is queued: the sender's message of this rank, at the end of the list of
\* a receiver who has an account.
LEMMA AddMsgAppends ==
  ASSUME TypeInv, NEW t \in Threads, AddMsg(t)
  PROVE  LET u == Head(work[t])
             m == <<t, sent[t], Session(u)>>
         IN /\ u \in Users => m \in Msgs
            /\ mail' = [mail EXCEPT ![u] = Append(@, m)]
            /\ pc' = [pc EXCEPT ![t] = "kill"]
            /\ UNCHANGED <<bound, work, sent, pend, hpc, hcl, hmsg, utid, online, got>>
BY DEF AddMsg, TypeInv, TypeOK, Shape, Session, Msgs, At, Go, handlerVars, histVars

\* So a mailbox after it holds what it held, and that message.
LEMMA AddMsgElements ==
  ASSUME TypeInv, NEW t \in Threads, AddMsg(t), NEW u \in Users, NEW i \in DOMAIN mail'[u]
  PROVE  \/ i \in DOMAIN mail[u] /\ mail'[u][i] = mail[u][i]
         \/ /\ u = Head(work[t]) /\ i = Len(mail[u]) + 1
            /\ mail'[u][i] = <<t, sent[t], Session(u)>>
<1> DEFINE m == <<t, sent[t], Session(u)>>
<1>1. CASE u = Head(work[t])
  <2>1. mail'[u] = Append(mail[u], m) /\ mail[u] \in Seq(Msgs) /\ m \in Msgs
    BY <1>1, AddMsgAppends DEF TypeInv, TypeOK
  <2> HIDE DEF m
  <2>2. \/ i \in DOMAIN mail[u] /\ mail'[u][i] = mail[u][i]
        \/ i = Len(mail[u]) + 1 /\ mail'[u][i] = m
    BY <2>1, AppendElements
  <2> QED
    BY <1>1, <2>2 DEF m
<1>2. CASE u # Head(work[t])
  <2>1. mail'[u] = mail[u]
    BY <1>2 DEF AddMsg, TypeInv, TypeOK
  <2> QED
    BY <2>1
<1> QED
  BY <1>1, <1>2

\* stk_get_msg() takes the oldest message of the handler's client.
LEMMA HandlerTakeElements ==
  ASSUME TypeInv, NEW t \in Threads, HandlerTake(t), NEW u \in Users, NEW i \in DOMAIN mail'[u]
  PROVE  \E j \in DOMAIN mail[u] : /\ mail'[u][i] = mail[u][j]
                                  /\ j = IF u = hcl[t] THEN i + 1 ELSE i
<1>1. CASE u = hcl[t]
  <2>1. mail'[u] = Tail(mail[u]) /\ mail[u] \in Seq(Msgs) /\ mail[u] # <<>>
    BY <1>1 DEF HandlerTake, TypeInv, TypeOK
  <2>2. i + 1 \in DOMAIN mail[u] /\ mail'[u][i] = mail[u][i + 1]
    BY <2>1, TailElements
  <2> QED
    BY <1>1, <2>2
<1>2. CASE u # hcl[t]
  <2>1. mail'[u] = mail[u]
    BY <1>2 DEF HandlerTake, TypeInv, TypeOK
  <2> QED
    BY <1>2, <2>1
<1> QED
  BY <1>1, <1>2

LEMMA AddMsgTagged ==
  ASSUME TypeInv, Tagged, NEW t \in Threads, AddMsg(t)
  PROVE  Tagged'
<1> SUFFICES ASSUME NEW u \in Users, NEW i \in DOMAIN mail'[u], mail'[u][i][3] # NoThread
             PROVE  \/ online'[u] /\ utid'[u] = mail'[u][i][3]
                    \/ pc'[mail'[u][i][3]] \in {"off3", "close", "done"}
  BY DEF Tagged
<1>0. UNCHANGED <<utid, online>> /\ pc[t] = "append" /\ pc' = [pc EXCEPT ![t] = "kill"]
  BY DEF AddMsg, At, Go
<1>1. CASE i \in DOMAIN mail[u] /\ mail'[u][i] = mail[u][i]
  <2>1. mail[u] \in Seq(Msgs)
    BY DEF TypeInv, TypeOK
  <2>2. mail[u][i] \in Msgs
    BY <1>1, <2>1
  <2>3. mail[u][i][3] \in Threads
    BY <1>1, <2>2 DEF Msgs
  <2>4. pc'[mail[u][i][3]] = IF mail[u][i][3] = t THEN "kill" ELSE pc[mail[u][i][3]]
    BY <1>0, <2>3 DEF TypeInv, TypeOK
  <2> QED
    BY <1>0, <1>1, <2>4 DEF Tagged
<1>2. CASE mail'[u][i] = <<t, sent[t], Session(u)>>
  BY <1>0, <1>2 DEF Session
<1> QED
  BY <1>1, <1>2, AddMsgElements

LEMMA HandlerTakeTagged ==
  ASSUME TypeInv, Tagged, NEW t \in Threads, HandlerTake(t)
  PROVE  Tagged'
<1>1. UNCHANGED <<pc, utid, online>>
  BY DEF HandlerTake, threadVars
<1>2. ASSUME NEW u \in Users, NEW i \in DOMAIN mail'[u]
      PROVE  \E j \in DOMAIN mail[u] : mail'[u][i] = mail[u][j]
  BY <1>2, HandlerTakeElements
<1> QED
  BY <1>1, <1>2 DEF Tagged

\* A session ends with the thread that wrote its state.
LEMMA StepTagged ==
  ASSUME OneConn, PromptStart, TypeInv, OneThreadPerFd, ServesPeer, SessionInv, HandlerInv,
    Tagged, [Next]_vars
  PROVE  Tagged'
<1>0. \A t, o \in Threads : bound[t] # NoUser /\ bound[o] = bound[t] => t = o
  BY OneThreadPerUser DEF SessionInv
<1> USE UsersAssumption, ThreadsAssumption, <1>0
    DEF TypeInv, TypeOK, PCs, At, Go, Reads, ServesPeer, Uids, SessionInv, OnlineOwner,
      LoginWrites, BeforeOffline, Tagged, threadVars, handlerVars, connVars, userVars, histVars
<1>1. ASSUME NEW t \in Threads, NEW f \in Fds, NEW u \in Clients, Accept(t, f, u)
      PROVE  Tagged'
  BY <1>1 DEF Accept, MayAccept, NewConnection
<1>2. ASSUME NEW f \in Fds, NEW u \in Clients, AcceptNoThread(f, u)
      PROVE  Tagged'
  BY <1>2 DEF AcceptNoThread, MayAccept, NewConnection
<1>3. ASSUME NEW f \in Fds, PeerClose(f)
      PROVE  Tagged'
  BY <1>3 DEF PeerClose
<1>4. ASSUME NEW t \in Threads, ThreadStart(t)
      PROVE  Tagged'
  BY <1>4 DEF ThreadStart
<1>5. ASSUME NEW t \in Threads, ReqLogin(t)
      PROVE  Tagged'
  BY <1>5 DEF ReqLogin, Bind, Find
<1>6. ASSUME NEW t \in Threads, NEW passOk \in BOOLEAN, LoginRefused(t, passOk)
      PROVE  Tagged'
  BY <1>6 DEF LoginRefused, Bind, Find
<1>7. ASSUME NEW t \in Threads, LoginChecked(t)
      PROVE  Tagged'
  BY <1>7 DEF LoginChecked, Bind, Find
<1>8. ASSUME NEW t \in Threads, LoginSetFd(t)
      PROVE  Tagged'
  BY <1>8 DEF LoginSetFd
<1>9. ASSUME NEW t \in Threads, LoginSetTid(t)
      PROVE  Tagged'
  BY <1>9 DEF LoginSetTid
<1>10. ASSUME NEW t \in Threads, LoginSetState(t)
       PROVE  Tagged'
  BY <1>10 DEF LoginSetState
<1>11. ASSUME NEW t \in Threads, LoginReply(t)
       PROVE  Tagged'
  BY <1>11 DEF LoginReply
<1>12. ASSUME NEW t \in Threads, Query(t)
       PROVE  Tagged'
  BY <1>12 DEF Query
<1>13. ASSUME NEW t \in Threads, GetGroupInfoUnknown(t)
       PROVE  Tagged'
  BY <1>13 DEF GetGroupInfoUnknown
<1>14. ASSUME NEW t \in Threads, NEW v \in Uids, SendMsg(t, v)
       PROVE  Tagged'
  BY <1>14 DEF SendMsg
<1>15. ASSUME NEW t \in Threads, NEW g \in Gids, SendGmsg(t, g)
       PROVE  Tagged'
  BY <1>15 DEF SendGmsg
<1>16. ASSUME NEW t \in Threads, Walk(t)
       PROVE  Tagged'
  <2>1. PICK x \in {"recv", "walk", "work"} : pc' = [pc EXCEPT ![t] = x]
    BY <1>16 DEF Walk
  <2> QED
    BY <1>16, <2>1 DEF Walk
<1>17. ASSUME NEW t \in Threads, Serve(t)
       PROVE  Tagged'
  <2>1. PICK x \in {"add", "recv"} : pc' = [pc EXCEPT ![t] = x]
    BY <1>17 DEF Serve
  <2> QED
    BY <1>17, <2>1 DEF Serve
<1>18. ASSUME NEW t \in Threads, AddCheck(t)
       PROVE  Tagged'
  <2>1. PICK x \in {"append", "walk"} : pc' = [pc EXCEPT ![t] = x]
    BY <1>18 DEF AddCheck
  <2> QED
    BY <1>18, <2>1 DEF AddCheck
<1>19. ASSUME NEW t \in Threads, AddMsg(t)
       PROVE  Tagged'
  BY <1>19, AddMsgTagged
<1>20. ASSUME NEW t \in Threads, Signal(t)
       PROVE  Tagged'
  BY <1>20 DEF Signal
<1>21. ASSUME NEW t \in Threads, HandlerStart(t)
       PROVE  Tagged'
  BY <1>21 DEF HandlerStart, Runs, HGo
<1>22. ASSUME NEW t \in Threads, HandlerCheck(t)
       PROVE  Tagged'
  BY <1>22 DEF HandlerCheck, Runs, HGo
<1>23. ASSUME NEW t \in Threads, HandlerLoop(t)
       PROVE  Tagged'
  BY <1>23 DEF HandlerLoop, Runs, HGo
<1>24. ASSUME NEW t \in Threads, HandlerTake(t)
       PROVE  Tagged'
  BY <1>24, HandlerTakeTagged
<1>25. ASSUME NEW t \in Threads, HandlerSend(t)
       PROVE  Tagged'
  BY <1>25 DEF HandlerSend, Runs, HGo
<1>26. ASSUME NEW t \in Threads, HandlerReturn(t)
       PROVE  Tagged'
  BY <1>26 DEF HandlerReturn, Runs, HGo
<1>27. ASSUME NEW t \in Threads, Eof(t)
       PROVE  Tagged'
  BY <1>27 DEF Eof
<1>28. ASSUME NEW t \in Threads, OfflineFd(t)
       PROVE  Tagged'
  BY <1>28 DEF OfflineFd
<1>29. ASSUME NEW t \in Threads, OfflineState(t)
       PROVE  Tagged'
  BY <1>29 DEF OfflineState
<1>30. ASSUME NEW t \in Threads, OfflineAgain(t)
       PROVE  Tagged'
  BY <1>30 DEF OfflineAgain
<1>31. ASSUME NEW t \in Threads, Close(t)
       PROVE  Tagged'
  BY <1>31 DEF Close
<1>32. CASE Corrupt
  BY <1>32 DEF Corrupt
<1>33. CASE Sigpipe
  BY <1>33 DEF Sigpipe
<1>34. CASE UNCHANGED vars
  BY <1>34 DEF vars
<1> HIDE UsersAssumption, ThreadsAssumption, <1>0
    DEF TypeInv, TypeOK, PCs, At, Go, Reads, ServesPeer, Uids, SessionInv, OnlineOwner,
      LoginWrites, BeforeOffline, Tagged, threadVars, handlerVars, connVars, userVars, histVars
<1> QED
  BY <1>1, <1>2, <1>3, <1>4, <1>5, <1>6, <1>7, <1>8, <1>9, <1>10, <1>11, <1>12, <1>13, <1>14,
    <1>15, <1>16, <1>17, <1>18, <1>19, <1>20, <1>21, <1>22, <1>23, <1>24, <1>25, <1>26, <1>27,
    <1>28, <1>29, <1>30, <1>31, <1>32, <1>33, <1>34
  DEF Next, Step, Handler, Request

\* A message of his present session waits for an online user; somebody is
\* about to take it or to have it taken.
Waiting(u) == online[u] /\ Fresh(u) # {}
Awake(u) ==
  \/ \E t \in Threads : utid[u] = t /\ (pend[t] \/ hpc[t] \in {"check", "loop", "take", "send"})
  \/ \E t \in Threads : pc[t] = "kill" /\ Head(work[t]) = u

LEMMA NoLostWakeupIsAwake == NoLostWakeup <=> \A u \in Users : Waiting(u) => Awake(u)
BY DEF NoLostWakeup, Waiting, Awake

\* What is fresh depends on the mailbox and the session only.
LEMMA WaitingFrame ==
  ASSUME UNCHANGED <<mail, utid>>, NEW u \in Users, online'[u] => online[u]
  PROVE  Waiting(u)' => Waiting(u)
BY DEF Waiting, Fresh

\* Only stk_add_msg() makes a message wait for its receiver: a login finds no
\* message of its own session.
LEMMA StepWaiting ==
  ASSUME TypeInv, ServesPeer, SessionInv, Tagged, [Next]_vars, NEW u \in Users,
         ~\E t \in Threads : AddMsg(t) /\ Head(work[t]) = u
  PROVE  Waiting(u)' => Waiting(u)
<1>1. ASSUME NEW t \in Threads, LoginSetTid(t)
      PROVE  Waiting(u)' => Waiting(u)
  <2>1. CASE u = luid[t]
    <3>1. ~online[u] /\ online' = online
      BY <1>1, <2>1 DEF LoginSetTid, At, ServesPeer, SessionInv, LoginWrites
    <3> QED
      BY <3>1 DEF Waiting
  <2>2. CASE u # luid[t]
    BY <1>1, <2>2 DEF LoginSetTid, Waiting, Fresh, TypeInv, TypeOK
  <2> QED
    BY <2>1, <2>2
<1>2. ASSUME NEW t \in Threads, LoginSetState(t)
      PROVE  Waiting(u)' => Waiting(u)
  <2>0. /\ UNCHANGED <<mail, utid>>
        /\ online' = [online EXCEPT ![luid[t]] = TRUE]
    BY <1>2 DEF LoginSetState
  <2>1. CASE u = luid[t]
    <3>1. ~online[u] /\ utid[u] = t /\ pc[t] = "setstate"
      BY <1>2, <2>1 DEF LoginSetState, At, ServesPeer, SessionInv, LoginWrites
    <3>2. \A i \in DOMAIN mail[u] : mail[u][i][3] # utid[u]
      BY <3>1, ThreadsAssumption DEF Tagged
    <3>3. Fresh(u)' = {}
      BY <2>0, <3>2 DEF Fresh
    <3> QED
      BY <3>3 DEF Waiting
  <2>2. CASE u # luid[t]
    <3>1. online'[u] = online[u]
      BY <2>0, <2>2 DEF TypeInv, TypeOK
    <3> QED
      BY <2>0, <3>1, WaitingFrame
  <2> QED
    BY <2>1, <2>2
<1>3. ASSUME NEW t \in Threads, AddMsg(t)
      PROVE  Waiting(u)' => Waiting(u)
  <2>1. Head(work[t]) # u
    BY <1>3
  <2>2. mail'[u] = mail[u] /\ utid' = utid /\ online' = online
    BY <1>3, <2>1 DEF AddMsg, TypeInv, TypeOK
  <2> QED
    BY <2>2 DEF Waiting, Fresh
<1>4. ASSUME NEW t \in Threads, HandlerTake(t)
      PROVE  Waiting(u)' => Waiting(u)
  <2>1. UNCHANGED <<utid, online>>
    BY <1>4 DEF HandlerTake
  <2>2. ASSUME NEW i \in DOMAIN mail'[u], mail'[u][i][3] = utid[u]
        PROVE  \E j \in DOMAIN mail[u] : mail[u][j][3] = utid[u]
    BY <1>4, <2>2, HandlerTakeElements
  <2> QED
    BY <2>1, <2>2 DEF Waiting, Fresh
<1>5. ASSUME NEW t \in Threads, Step(t), ~LoginSetTid(t), ~LoginSetState(t), ~AddMsg(t)
      PROVE  UNCHANGED <<mail, utid>> /\ (online'[u] => online[u])
  BY <1>5 DEF Step, ThreadStart, LoginSetFd, LoginReply, Walk, Serve, AddCheck, Signal, Eof,
     OfflineFd, OfflineState, OfflineAgain, Close, userVars, TypeInv, TypeOK
<1>6. ASSUME NEW t \in Threads, Request(t)
      PROVE  UNCHANGED <<mail, utid, online>>
  BY <1>6 DEF Request, ReqLogin, LoginRefused, LoginChecked, Query, GetGroupInfoUnknown,
     SendMsg, SendGmsg, userVars
<1>7. ASSUME NEW t \in Threads, Handler(t), ~HandlerTake(t)
      PROVE  UNCHANGED <<mail, utid, online>>
  BY <1>7 DEF Handler, HandlerStart, HandlerCheck, HandlerLoop, HandlerSend, HandlerReturn,
     userVars
<1>8. ASSUME \/ \E t \in Threads, f \in Fds, v \in Clients : Accept(t, f, v)
             \/ \E f \in Fds, v \in Clients : AcceptNoThread(f, v)
             \/ \E f \in Fds : PeerClose(f)
             \/ Corrupt \/ Sigpipe \/ UNCHANGED vars
      PROVE  UNCHANGED <<mail, utid, online>>
  BY <1>8 DEF Accept, AcceptNoThread, PeerClose, Corrupt, Sigpipe, vars, userVars
<1> QED
  BY <1>1, <1>2, <1>3, <1>4, <1>5, <1>6, <1>7, <1>8, WaitingFrame DEF Next

\* Nobody who would take a message, or have it taken, leaves before that.
LEMMA StepAwake ==
  ASSUME OneConn, PromptStart, TypeInv, OneThreadPerFd, ServesPeer, SessionInv, HandlerInv,
         [Next]_vars, NEW u \in Users, Waiting(u)', Waiting(u), Awake(u)
  PROVE  Awake(u)'
<1> DEFINE Busy == {"check", "loop", "take", "send"}
<1>0. utid[u] \in Threads /\ bound[utid[u]] = u /\ pc[utid[u]] \in BeforeOffline \cup {"off2"}
  BY DEF SessionInv, OnlineOwner, Waiting, TypeInv, TypeOK
<1>1. ASSUME /\ utid'[u] = utid[u]
             /\ pend[utid[u]] => pend'[utid[u]]
             /\ hpc[utid[u]] \in Busy => hpc'[utid[u]] \in Busy
             /\ \A t \in Threads : pc[t] = "kill" => pc'[t] = "kill" /\ work'[t] = work[t]
      PROVE  Awake(u)'
  BY <1>0, <1>1 DEF Awake
<1>2. ASSUME NEW t \in Threads, LoginSetTid(t)
      PROVE  Awake(u)'
  <2>1. u # luid[t] /\ pc[t] = "settid"
    BY <1>2 DEF LoginSetTid, At, ServesPeer, SessionInv, LoginWrites, Waiting
  <2>2. /\ utid'[u] = utid[u] /\ pc' = [pc EXCEPT ![t] = "setstate"]
        /\ UNCHANGED <<pend, hpc, work>>
    BY <1>2, <2>1 DEF LoginSetTid, Go, handlerVars, TypeInv, TypeOK
  <2> QED
    BY <1>1, <2>1, <2>2 DEF TypeInv, TypeOK
<1>3. ASSUME NEW t \in Threads, Signal(t)
      PROVE  Awake(u)'
  <2>1. /\ pc[t] = "kill" /\ hpc[t] = "off" /\ UNCHANGED <<utid, hpc>>
        /\ pend' = [p \in Threads |->
                      pend[p] \/ (p = utid[Head(work[t])] /\ pc[utid[Head(work[t])]] # "done")]
        /\ work' = [work EXCEPT ![t] = Tail(@)]
        /\ pc' = [pc EXCEPT ![t] = "walk"]
    BY <1>3 DEF Signal, At, Go, userVars
  <2>2. CASE Head(work[t]) = u
    <3>1. pend'[utid[u]]
      BY <1>0, <2>1, <2>2 DEF BeforeOffline
    <3> QED
      BY <1>0, <2>1, <3>1 DEF Awake
  <2>3. CASE Head(work[t]) # u
    <3>1. CASE pend[utid[u]] \/ hpc[utid[u]] \in Busy
      BY <1>0, <2>1, <3>1 DEF Awake
    <3>2. CASE \E o \in Threads : pc[o] = "kill" /\ Head(work[o]) = u
      <4>1. PICK o \in Threads : pc[o] = "kill" /\ Head(work[o]) = u
        BY <3>2
      <4>2. pc'[o] = "kill" /\ work'[o] = work[o]
        BY <2>1, <2>3, <4>1 DEF TypeInv, TypeOK
      <4> QED
        BY <4>1, <4>2 DEF Awake
    <3> QED
      BY <3>1, <3>2 DEF Awake
  <2> QED
    BY <2>2, <2>3
<1>4. ASSUME NEW t \in Threads, AddMsg(t)
      PROVE  Awake(u)'
  BY <1>1, <1>4 DEF AddMsg, At, Go, handlerVars, TypeInv, TypeOK
<1>5. ASSUME NEW t \in Threads, Step(t), ~LoginSetTid(t), ~Signal(t), ~AddMsg(t), ~Close(t)
      PROVE  Awake(u)'
  <2>1. /\ UNCHANGED <<utid, pend, hpc>>
        /\ \A o \in Threads : pc[o] = "kill" => pc'[o] = "kill" /\ work'[o] = work[o]
    BY <1>5 DEF Step, ThreadStart, LoginSetFd, LoginSetState, LoginReply, Walk, Serve, AddCheck,
       Eof, OfflineFd, OfflineState, OfflineAgain, userVars, handlerVars, At, Go, Reads,
       TypeInv, TypeOK
  <2> QED
    BY <1>1, <2>1
<1>6. ASSUME NEW t \in Threads, Close(t)
      PROVE  Awake(u)'
  <2>1. utid[u] # t
    BY <1>0, <1>6 DEF Close, At, BeforeOffline
  <2>2. /\ utid' = utid /\ hpc' = hpc /\ work' = work /\ pc[t] = "close"
        /\ pend' = [pend EXCEPT ![t] = FALSE]
        /\ pc' = [pc EXCEPT ![t] = "done"]
    BY <1>6 DEF Close, At, Go, userVars
  <2> QED
    BY <1>0, <1>1, <2>1, <2>2 DEF TypeInv, TypeOK
<1>7. ASSUME NEW t \in Threads, Request(t)
      PROVE  Awake(u)'
  <2>1. /\ UNCHANGED <<utid, pend, hpc>>
        /\ \A o \in Threads : pc[o] = "kill" => pc'[o] = "kill" /\ work'[o] = work[o]
    BY <1>7 DEF Request, ReqLogin, LoginRefused, LoginChecked, Query, GetGroupInfoUnknown,
       SendMsg, SendGmsg, userVars, handlerVars, threadVars, At, Go, Reads, TypeInv, TypeOK
  <2> QED
    BY <1>1, <2>1
<1>8. ASSUME NEW t \in Threads, Handler(t)
      PROVE  Awake(u)'
  <2>0. UNCHANGED <<utid, pc, work>>
    BY <1>8 DEF Handler, HandlerStart, HandlerCheck, HandlerLoop, HandlerTake, HandlerSend,
       HandlerReturn, userVars, threadVars
  <2>1. CASE t # utid[u]
    <3>1. pend'[utid[u]] = pend[utid[u]] /\ hpc'[utid[u]] = hpc[utid[u]]
      BY <1>0, <1>8, <2>1 DEF Handler, HandlerStart, HandlerCheck, HandlerLoop, HandlerTake,
         HandlerSend, HandlerReturn, HGo, TypeInv, TypeOK
    <3> QED
      BY <1>1, <2>0, <3>1
  <2>2. CASE t = utid[u]
    <3>0. hpc[t] \in Busy => hcl[t] = u
      BY <1>0, <2>2 DEF HandlerInv
    <3>1. CASE HandlerStart(t)
      <4>1. UserOf(t) \in Users
        BY <2>2 DEF UserOf
      <4>2. hpc'[t] = "check"
        BY <3>1, <4>1, UsersAssumption DEF HandlerStart, HGo, Uids, TypeInv, TypeOK
      <4> QED
        BY <2>0, <2>2, <4>2 DEF Awake
    <3>2. CASE HandlerCheck(t)
      BY <1>1, <2>0, <2>2, <3>0, <3>2 DEF HandlerCheck, Runs, HGo, Waiting, TypeInv, TypeOK
    <3>3. CASE HandlerLoop(t)
      <4>1. mail[u] # <<>>
        BY DEF Waiting, Fresh
      <4> QED
        BY <1>1, <2>0, <2>2, <3>0, <3>3, <4>1 DEF HandlerLoop, Runs, HGo, TypeInv, TypeOK
    <3>4. CASE HandlerTake(t) \/ HandlerSend(t) \/ HandlerReturn(t)
      BY <1>1, <2>0, <2>2, <3>4 DEF HandlerTake, HandlerSend, HandlerReturn, Runs, HGo,
         TypeInv, TypeOK
    <3> QED
      BY <1>8, <3>1, <3>2, <3>3, <3>4 DEF Handler
  <2> QED
    BY <2>1, <2>2
<1>9. ASSUME \/ \E t \in Threads, f \in Fds, v \in Clients : Accept(t, f, v)
             \/ \E f \in Fds, v \in Clients : AcceptNoThread(f, v)
             \/ \E f \in Fds : PeerClose(f)
             \/ Corrupt \/ Sigpipe \/ UNCHANGED vars
      PROVE  Awake(u)'
  <2>1. /\ UNCHANGED <<utid, pend, hpc>>
        /\ \A o \in Threads : pc[o] = "kill" => pc'[o] = "kill" /\ work'[o] = work[o]
    BY <1>9 DEF Accept, AcceptNoThread, PeerClose, Corrupt, Sigpipe, vars, userVars,
       handlerVars, threadVars, Go, TypeInv, TypeOK
  <2> QED
    BY <1>1, <2>1
<1> QED
  BY <1>2, <1>3, <1>4, <1>5, <1>6, <1>7, <1>8, <1>9 DEF Next

LEMMA StepNoLostWakeup ==
  ASSUME OneConn, PromptStart, TypeInv, OneThreadPerFd, ServesPeer, SessionInv, HandlerInv,
         Tagged, NoLostWakeup, [Next]_vars
  PROVE  NoLostWakeup'
<1> SUFFICES ASSUME NEW u \in Users, Waiting(u)'
             PROVE  Awake(u)'
  BY DEF NoLostWakeup, Waiting, Awake
<1>1. ASSUME NEW t \in Threads, AddMsg(t), Head(work[t]) = u
      PROVE  Awake(u)'
  BY <1>1 DEF AddMsg, Go, Awake, TypeInv, TypeOK
<1>2. CASE ~\E t \in Threads : AddMsg(t) /\ Head(work[t]) = u
  <2>1. Waiting(u)
    BY <1>2, StepWaiting
  <2>2. Awake(u)
    BY <2>1, NoLostWakeupIsAwake
  <2> QED
    BY <2>1, <2>2, StepAwake
<1> QED
  BY <1>1, <1>2

-----------------------------------------------------------------------------
(* The inductive invariant of a server with one connection per user        *)

DeliveryInv == SessionInv /\ HandlerInv /\ Tagged /\ NoLostWakeup

LEMMA DeliveryInvCorrect ==
  ASSUME PromptStart, OneConn
  PROVE  Spec => [](TypeInv /\ OwnInv /\ DeliveryInv)
<1>1. Init => DeliveryInv
  BY InitSessionInv DEF DeliveryInv, Init, NoLostWakeup, Fresh
<1>2. TypeInv /\ OwnInv /\ DeliveryInv /\ [Next]_vars => DeliveryInv'
  BY StepOnePeer, StepTidOwner, StepLoginWrites, StepOnlineOwner, StepFdKept, StepHandlerInv,
     StepTagged, StepNoLostWakeup DEF OwnInv, DeliveryInv, SessionInv
<1> QED
  BY <1>1, <1>2, OwnInvCorrect, PTL DEF Spec

\* When a user connects again only after his last socket is closed, a message
\* of his session never waits for the next one: his thread is signalled, in a
\* handler that will look at the mailbox, or about to be signalled.
THEOREM NoLostWakeupCorrect ==
  ASSUME PromptStart, OneConn
  PROVE  Spec => []NoLostWakeup
<1>1. DeliveryInv => NoLostWakeup
  BY DEF DeliveryInv
<1> QED
  BY <1>1, DeliveryInvCorrect, PTL

\* Then a message that has been taken is lost in one place only, between the
\* two writes of stk_user_offline().
THEOREM LossWindowCorrect ==
  ASSUME PromptStart, OneConn
  PROVE  Spec => []LossWindow
<1>1. TypeInv /\ OwnInv /\ DeliveryInv => LossWindow
  <2> SUFFICES ASSUME TypeInv, OwnInv, DeliveryInv, NEW t \in Threads, hpc[t] = "send",
                      pc[t] # "off2"
               PROVE  Writable(hcl[t])
    BY DEF LossWindow
  <2>1. hcl[t] \in Users /\ hcl[t] = bound[t] /\ utid[hcl[t]] = t /\ online[hcl[t]] /\ Live(t)
    BY DEF TypeInv, Shape, DeliveryInv, HandlerInv
  <2>2. pc[t] \in BeforeOffline
    BY <2>1 DEF DeliveryInv, SessionInv, OnlineOwner
  <2>3. ufd[hcl[t]] = tfd[t]
    BY <2>1, <2>2, UsersAssumption DEF DeliveryInv, SessionInv, FdKept, Uids
  <2> QED
    BY <2>1, <2>3, FdsAssumption DEF OwnInv, OneThreadPerFd, Writable
<1> QED
  BY <1>1, DeliveryInvCorrect, PTL

-----------------------------------------------------------------------------
(* The order of messages                                                   *)

\* m may come before n.
Precedes(m, n) == m[1] = n[1] => m[2] < n[2]

\* What has come to u so far: written to him, queued, or held by his handler.
Reached(u) ==
  {got[u][i] : i \in DOMAIN got[u]} \cup {mail[u][i] : i \in DOMAIN mail[u]}
    \cup {hmsg[t] : t \in {o \in Threads : hpc[o] = "send" /\ hcl[o] = u}}

\* Written before held, held before queued, each in order.
Ordered ==
  /\ \A u \in Users :
       /\ \A i, j \in DOMAIN got[u] : i < j => Precedes(got[u][i], got[u][j])
       /\ \A i, j \in DOMAIN mail[u] : i < j => Precedes(mail[u][i], mail[u][j])
       /\ \A i \in DOMAIN got[u], j \in DOMAIN mail[u] : Precedes(got[u][i], mail[u][j])
  /\ \A t \in Threads : hpc[t] = "send" =>
       /\ \A i \in DOMAIN got[hcl[t]] : Precedes(got[hcl[t]][i], hmsg[t])
       /\ \A j \in DOMAIN mail[hcl[t]] : Precedes(hmsg[t], mail[hcl[t]][j])

\* The receivers the packet t is handling has still to be queued for.
Todo(t) ==
  IF pc[t] \in {"walk", "work", "add", "append"} THEN {work[t][i] : i \in DOMAIN work[t]}
  ELSE IF pc[t] = "kill" THEN {work[t][i] : i \in DOMAIN work[t] \ {1}}
  ELSE {}

\* No message of a rank its thread has not reached; the latest one has not
\* come to a receiver who is still to be served.
Ranked ==
  \A u \in Users : \A m \in Reached(u) :
    /\ m[2] \in 1 .. sent[m[1]]
    /\ m[2] = sent[m[1]] => u \notin Todo(m[1])

\* A packet has no receiver twice, if no group has a member twice: the server
\* takes the members of its groups file as they come.
OnceEach == \A t \in Threads : \A i, j \in DOMAIN work[t] : work[t][i] = work[t][j] => i = j

DistinctMembers ==
  \A g \in Gids : \A i, j \in DOMAIN Members[g] : Members[g][i] = Members[g][j] => i = j

OrderInv == Ordered /\ Ranked /\ OnceEach

LEMMA InitOrderInv == Init => OrderInv
BY DEF Init, OrderInv, Ordered, Ranked, Reached, OnceEach

\* What a step does to a list of receivers: a new one, its tail, or none.
LEMMA StepWork ==
  ASSUME TypeInv, [Next]_vars, NEW t \in Threads
  PROVE  \/ work'[t] = work[t] /\ sent'[t] = sent[t] /\ Todo(t)' \subseteq Todo(t)
         \/ AddMsg(t)
         \/ /\ sent'[t] = sent[t] + 1
            /\ \/ \E v \in Uids : work'[t] = <<v>>
               \/ \E g \in Gids : work'[t] = Members[g]
         \/ /\ work[t] # <<>> /\ work'[t] = Tail(work[t])
            /\ sent'[t] = sent[t] /\ Todo(t)' \subseteq Todo(t)
         \/ work'[t] = <<>> /\ sent'[t] = sent[t] /\ Todo(t)' \subseteq Todo(t)
<1> DEFINE Same == work'[t] = work[t] /\ sent'[t] = sent[t]
           Short == work[t] # <<>> /\ work'[t] = Tail(work[t]) /\ sent'[t] = sent[t]
<1>0. work[t] \in Seq(Uids)
  BY DEF TypeInv, TypeOK
<1>1. ASSUME UNCHANGED <<pc, work, sent>>
      PROVE  Same /\ Todo(t)' \subseteq Todo(t)
  BY <1>1 DEF Todo
<1>2. ASSUME Same, pc'[t] = pc[t] \/ pc'[t] \notin {"walk", "work", "add", "append", "kill"}
                 \/ {pc[t], pc'[t]} \subseteq {"walk", "work", "add", "append"}
      PROVE  Todo(t)' \subseteq Todo(t)
  BY <1>2 DEF Todo
<1>3. ASSUME Short, pc[t] \in {"walk", "add", "kill"}, pc'[t] = "walk"
      PROVE  Todo(t)' \subseteq Todo(t)
  <2>1. \A i \in DOMAIN work'[t] : i + 1 \in DOMAIN work[t] \ {1} /\ work'[t][i] = work[t][i + 1]
    BY <1>0, <1>3
  <2> QED
    BY <1>3, <2>1 DEF Todo
<1>4. ASSUME NEW o \in Threads, Walk(o)
      PROVE  \/ Same /\ Todo(t)' \subseteq Todo(t)
             \/ Short /\ Todo(t)' \subseteq Todo(t)
  <2>1. CASE o # t
    BY <1>2, <1>4, <2>1 DEF Walk, Go, TypeInv, TypeOK
  <2>2. CASE o = t
    BY <1>2, <1>3, <1>4, <2>2 DEF Walk, At, Go, TypeInv, TypeOK
  <2> QED
    BY <2>1, <2>2
<1>5. ASSUME NEW o \in Threads, Serve(o)
      PROVE  \/ Same /\ Todo(t)' \subseteq Todo(t)
             \/ work'[t] = <<>> /\ sent'[t] = sent[t] /\ Todo(t)' \subseteq Todo(t)
  <2>1. CASE o # t
    BY <1>2, <1>5, <2>1 DEF Serve, Go, TypeInv, TypeOK
  <2>2. CASE o = t /\ CanServe(t)
    BY <1>2, <1>5, <2>2 DEF Serve, At, Go, TypeInv, TypeOK
  <2>3. CASE o = t /\ ~CanServe(t)
    BY <1>5, <2>3 DEF Serve, Go, Todo, TypeInv, TypeOK
  <2> QED
    BY <2>1, <2>2, <2>3
<1>6. ASSUME NEW o \in Threads, AddCheck(o)
      PROVE  \/ Same /\ Todo(t)' \subseteq Todo(t)
             \/ Short /\ Todo(t)' \subseteq Todo(t)
  <2>1. CASE o # t
    BY <1>2, <1>6, <2>1 DEF AddCheck, Go, TypeInv, TypeOK
  <2>2. CASE o = t
    BY <1>2, <1>3, <1>6, <2>2 DEF AddCheck, At, Go, TypeInv, TypeOK, Shape
  <2> QED
    BY <2>1, <2>2
<1>7. ASSUME NEW o \in Threads, Signal(o)
      PROVE  \/ Same /\ Todo(t)' \subseteq Todo(t)
             \/ Short /\ Todo(t)' \subseteq Todo(t)
  <2>1. CASE o # t
    BY <1>2, <1>7, <2>1 DEF Signal, Go, TypeInv, TypeOK
  <2>2. CASE o = t
    BY <1>3, <1>7, <2>2 DEF Signal, At, Go, TypeInv, TypeOK, Shape
  <2> QED
    BY <2>1, <2>2
<1>8. ASSUME NEW o \in Threads, NEW v \in Uids, SendMsg(o, v)
      PROVE  \/ Same /\ Todo(t)' \subseteq Todo(t)
             \/ sent'[t] = sent[t] + 1 /\ work'[t] = <<v>>
  BY <1>2, <1>8 DEF SendMsg, Go, TypeInv, TypeOK
<1>9. ASSUME NEW o \in Threads, NEW g \in Gids, SendGmsg(o, g)
      PROVE  \/ Same /\ Todo(t)' \subseteq Todo(t)
             \/ sent'[t] = sent[t] + 1 /\ work'[t] = Members[g]
  BY <1>2, <1>9 DEF SendGmsg, Go, TypeInv, TypeOK
<1>10. ASSUME NEW o \in Threads, AddMsg(o)
       PROVE  AddMsg(t) \/ (Same /\ Todo(t)' \subseteq Todo(t))
  BY <1>2, <1>10 DEF AddMsg, Go, TypeInv, TypeOK
<1>11. ASSUME NEW o \in Threads,
              \/ ThreadStart(o) \/ LoginSetFd(o) \/ LoginSetTid(o) \/ LoginSetState(o)
              \/ LoginReply(o) \/ LoginChecked(o)
              \/ Eof(o) \/ OfflineFd(o) \/ OfflineState(o) \/ OfflineAgain(o) \/ Close(o)
       PROVE  Same /\ Todo(t)' \subseteq Todo(t)
  <2>1. /\ UNCHANGED <<work, sent>>
        /\ pc'[t] = pc[t] \/ pc'[t] \notin {"walk", "work", "add", "append", "kill"}
    BY <1>11 DEF ThreadStart, LoginSetFd, LoginSetTid, LoginSetState, LoginReply, LoginChecked,
       Eof, OfflineFd, OfflineState, OfflineAgain, Close, Go, TypeInv, TypeOK
  <2> QED
    BY <1>2, <2>1
<1>12. ASSUME NEW o \in Threads,
              \/ Handler(o) \/ ReqLogin(o) \/ Query(o) \/ GetGroupInfoUnknown(o)
              \/ \E passOk \in BOOLEAN : LoginRefused(o, passOk)
       PROVE  Same /\ Todo(t)' \subseteq Todo(t)
  BY <1>1, <1>12 DEF Handler, HandlerStart, HandlerCheck, HandlerLoop, HandlerTake, HandlerSend,
     HandlerReturn, ReqLogin, LoginRefused, Query, GetGroupInfoUnknown, threadVars
<1>13. ASSUME \/ \E f \in Fds, v \in Clients : AcceptNoThread(f, v)
              \/ \E f \in Fds : PeerClose(f)
              \/ Corrupt \/ Sigpipe \/ UNCHANGED vars
       PROVE  Same /\ Todo(t)' \subseteq Todo(t)
  BY <1>1, <1>13 DEF AcceptNoThread, PeerClose, Corrupt, Sigpipe, vars, threadVars
<1>14. ASSUME NEW o \in Threads, NEW f \in Fds, NEW v \in Clients, Accept(o, f, v)
       PROVE  Same /\ Todo(t)' \subseteq Todo(t)
  BY <1>2, <1>14 DEF Accept, Go, TypeInv, TypeOK
<1> QED
  BY <1>4, <1>5, <1>6, <1>7, <1>8, <1>9, <1>10, <1>11, <1>12, <1>13, <1>14
  DEF Next, Step, Request

LEMMA StepOnceEach ==
  ASSUME DistinctMembers, TypeInv, OnceEach, [Next]_vars
  PROVE  OnceEach'
<1> SUFFICES ASSUME NEW t \in Threads, NEW i \in DOMAIN work'[t], NEW j \in DOMAIN work'[t],
                    work'[t][i] = work'[t][j]
             PROVE  i = j
  BY DEF OnceEach
<1>0. work[t] \in Seq(Uids)
  BY DEF TypeInv, TypeOK
<1>1. CASE work'[t] = work[t]
  BY <1>1 DEF OnceEach
<1>2. CASE work[t] # <<>> /\ work'[t] = Tail(work[t])
  <2>1. /\ i + 1 \in DOMAIN work[t] /\ work'[t][i] = work[t][i + 1]
        /\ j + 1 \in DOMAIN work[t] /\ work'[t][j] = work[t][j + 1]
    BY <1>0, <1>2, TailElements
  <2>2. i + 1 = j + 1
    BY <2>1 DEF OnceEach
  <2> QED
    BY <1>0, <1>2, <2>2
<1>3. CASE \/ work'[t] = <<>> \/ \E v \in Uids : work'[t] = <<v>>
           \/ \E g \in Gids : work'[t] = Members[g]
  BY <1>3 DEF DistinctMembers
<1>4. CASE AddMsg(t)
  BY <1>1, <1>4 DEF AddMsg
<1> QED
  BY <1>1, <1>2, <1>3, <1>4, StepWork

\* A step brings at most the message being queued, and only to its receiver.
LEMMA StepReached ==
  ASSUME TypeInv, [Next]_vars, NEW u \in Users, NEW m \in Reached(u)'
  PROVE  \/ m \in Reached(u)
         \/ \E t \in Threads : AddMsg(t) /\ Head(work[t]) = u /\ m = <<t, sent[t], Session(u)>>
<1>1. ASSUME NEW t \in Threads, AddMsg(t)
      PROVE  m \in Reached(u) \/ (Head(work[t]) = u /\ m = <<t, sent[t], Session(u)>>)
  <2>1. CASE \E i \in DOMAIN mail'[u] : m = mail'[u][i]
    <3>1. PICK i \in DOMAIN mail'[u] : m = mail'[u][i]
      BY <2>1
    <3>2. CASE i \in DOMAIN mail[u] /\ m = mail[u][i]
      BY <3>2 DEF Reached
    <3>3. CASE u = Head(work[t]) /\ m = <<t, sent[t], Session(u)>>
      BY <3>3
    <3> QED
      BY <1>1, <3>1, <3>2, <3>3, AddMsgElements
  <2>2. CASE ~\E i \in DOMAIN mail'[u] : m = mail'[u][i]
    BY <1>1, <2>2 DEF AddMsg, Reached, handlerVars, histVars
  <2> QED
    BY <2>1, <2>2
<1>2. ASSUME NEW t \in Threads, HandlerTake(t)
      PROVE  m \in Reached(u)
  <2>1. /\ hcl[t] \in Users /\ mail[hcl[t]] # <<>> /\ mail[hcl[t]] \in Seq(Msgs)
        /\ mail' = [mail EXCEPT ![hcl[t]] = Tail(@)]
        /\ hmsg' = [hmsg EXCEPT ![t] = Head(mail[hcl[t]])]
        /\ hpc' = [hpc EXCEPT ![t] = "send"]
        /\ UNCHANGED <<hcl, got>>
    BY <1>2 DEF HandlerTake, Runs, HGo, TypeInv, TypeOK, Shape, histVars
  <2>2. CASE \E i \in DOMAIN mail'[u] : m = mail'[u][i]
    BY <1>2, <2>2, HandlerTakeElements DEF Reached
  <2>3. CASE \E i \in DOMAIN got'[u] : m = got'[u][i]
    BY <2>1, <2>3 DEF Reached
  <2>4. CASE \E o \in Threads : hpc'[o] = "send" /\ hcl'[o] = u /\ m = hmsg'[o]
    <3>1. PICK o \in Threads : hpc'[o] = "send" /\ hcl'[o] = u /\ m = hmsg'[o]
      BY <2>4
    <3>2. CASE o = t
      <4>1. m = mail[u][1] /\ 1 \in DOMAIN mail[u]
        BY <2>1, <3>1, <3>2 DEF TypeInv, TypeOK
      <4> QED
        BY <4>1 DEF Reached
    <3>3. CASE o # t
      <4>1. hpc[o] = "send" /\ hcl[o] = u /\ m = hmsg[o]
        BY <2>1, <3>1, <3>3 DEF TypeInv, TypeOK
      <4> QED
        BY <4>1 DEF Reached
    <3> QED
      BY <3>2, <3>3
  <2> QED
    BY <2>2, <2>3, <2>4 DEF Reached
<1>3. ASSUME NEW t \in Threads, HandlerSend(t)
      PROVE  m \in Reached(u)
  <2>1. /\ hpc[t] = "send" /\ hcl[t] \in Users /\ hmsg[t] \in Msgs
        /\ got' = [got EXCEPT ![hcl[t]] = Append(@, hmsg[t])] \/ got' = got
        /\ hmsg' = [hmsg EXCEPT ![t] = NoMsg]
        /\ hpc' = [hpc EXCEPT ![t] = "loop"]
        /\ UNCHANGED <<hcl, mail>>
    BY <1>3 DEF HandlerSend, Runs, HGo, TypeInv, TypeOK, Shape, userVars
  <2>2. CASE \E i \in DOMAIN mail'[u] : m = mail'[u][i]
    BY <2>1, <2>2 DEF Reached
  <2>3. CASE \E i \in DOMAIN got'[u] : m = got'[u][i]
    <3>1. CASE got'[u] = got[u]
      BY <2>3, <3>1 DEF Reached
    <3>2. CASE got'[u] = Append(got[u], hmsg[t]) /\ u = hcl[t]
      <4>1. got[u] \in Seq(Msgs)
        BY DEF TypeInv, TypeOK
      <4>2. (\E i \in DOMAIN got[u] : m = got[u][i]) \/ m = hmsg[t]
        BY <2>1, <2>3, <3>2, <4>1, AppendElements
      <4> QED
        BY <2>1, <3>2, <4>2 DEF Reached
    <3> QED
      BY <2>1, <3>1, <3>2 DEF TypeInv, TypeOK
  <2>4. CASE \E o \in Threads : hpc'[o] = "send" /\ hcl'[o] = u /\ m = hmsg'[o]
    BY <2>1, <2>4 DEF Reached, TypeInv, TypeOK
  <2> QED
    BY <2>2, <2>3, <2>4 DEF Reached
<1>4. ASSUME NEW t \in Threads,
             HandlerStart(t) \/ HandlerCheck(t) \/ HandlerLoop(t) \/ HandlerReturn(t)
      PROVE  m \in Reached(u)
  <2>1. /\ UNCHANGED <<mail, got, hmsg>>
        /\ \A o \in Threads : hpc'[o] = "send" => hpc[o] = "send" /\ hcl'[o] = hcl[o]
    BY <1>4 DEF HandlerStart, HandlerCheck, HandlerLoop, HandlerReturn, Runs, HGo, userVars,
       histVars, TypeInv, TypeOK
  <2> QED
    BY <2>1 DEF Reached
<1>5. ASSUME UNCHANGED <<handlerVars, mail, got>>
      PROVE  m \in Reached(u)
  BY <1>5 DEF Reached, handlerVars
<1>6. ASSUME UNCHANGED <<hpc, hcl, hmsg, mail, got>>
      PROVE  m \in Reached(u)
  BY <1>6 DEF Reached
<1>7. ASSUME NEW t \in Threads, Step(t), ~AddMsg(t)
      PROVE  m \in Reached(u)
  BY <1>6, <1>7 DEF Step, ThreadStart, LoginSetFd, LoginSetTid, LoginSetState, LoginReply, Walk,
     Serve, AddCheck, Signal, Eof, OfflineFd, OfflineState, OfflineAgain, Close, userVars,
     handlerVars, histVars
<1>8. ASSUME NEW t \in Threads, Request(t)
      PROVE  m \in Reached(u)
  BY <1>5, <1>8 DEF Request, ReqLogin, LoginRefused, LoginChecked, Query, GetGroupInfoUnknown,
     SendMsg, SendGmsg, userVars, histVars
<1>9. ASSUME \/ \E t \in Threads, f \in Fds, v \in Clients : Accept(t, f, v)
             \/ \E f \in Fds, v \in Clients : AcceptNoThread(f, v)
             \/ \E f \in Fds : PeerClose(f)
             \/ Corrupt \/ Sigpipe \/ UNCHANGED vars
      PROVE  m \in Reached(u)
  BY <1>5, <1>9 DEF Accept, AcceptNoThread, PeerClose, Corrupt, Sigpipe, vars, userVars, histVars
<1> QED
  BY <1>1, <1>2, <1>3, <1>4, <1>7, <1>8, <1>9 DEF Next, Handler

LEMMA ReachedType ==
  ASSUME TypeInv, NEW u \in Users
  PROVE  Reached(u) \subseteq Msgs
<1>1. mail[u] \in Seq(Msgs) /\ got[u] \in Seq(Msgs)
  BY DEF TypeInv, TypeOK
<1>2. \A t \in Threads : hpc[t] = "send" => hmsg[t] \in Msgs
  BY DEF TypeInv, Shape
<1> QED
  BY <1>1, <1>2 DEF Reached

LEMMA StepRanked ==
  ASSUME TypeInv, Ranked, OnceEach, [Next]_vars
  PROVE  Ranked'
<1> SUFFICES ASSUME NEW u \in Users, NEW m \in Reached(u)'
             PROVE  m[2] \in 1 .. sent'[m[1]] /\ (m[2] = sent'[m[1]] => u \notin Todo(m[1])')
  BY DEF Ranked
<1>0. ASSUME m \in Reached(u)
      PROVE  m[1] \in Threads /\ m[2] \in Nat
  BY <1>0, ReachedType DEF Msgs
<1>1. ASSUME NEW t \in Threads, AddMsg(t)
      PROVE  /\ sent' = sent /\ sent[t] \in 1 .. MaxSend
             /\ \A o \in Threads \ {t} : Todo(o)' = Todo(o)
             /\ Todo(t)' \subseteq Todo(t)
             /\ Head(work[t]) \in Todo(t) /\ Head(work[t]) \notin Todo(t)'
  <2>1. /\ pc[t] = "append" /\ pc' = [pc EXCEPT ![t] = "kill"] /\ UNCHANGED <<work, sent>>
        /\ work[t] \in Seq(Uids) /\ work[t] # <<>> /\ sent[t] \in 1 .. MaxSend
    BY <1>1 DEF AddMsg, At, Go, TypeInv, TypeOK, Shape
  <2>2. /\ Todo(t) = {work[t][i] : i \in DOMAIN work[t]}
        /\ Todo(t)' = {work[t][i] : i \in DOMAIN work[t] \ {1}}
    BY <2>1 DEF Todo, TypeInv, TypeOK
  <2>3. 1 \in DOMAIN work[t] /\ Head(work[t]) = work[t][1]
    BY <2>1
  <2>4. \A i \in DOMAIN work[t] \ {1} : work[t][i] # work[t][1]
    BY <2>3 DEF OnceEach
  <2>5. \A o \in Threads \ {t} : Todo(o)' = Todo(o)
    BY <2>1 DEF Todo, TypeInv, TypeOK
  <2> QED
    BY <2>1, <2>2, <2>3, <2>4, <2>5
<1>2. CASE m \in Reached(u)
  <2>1. m[2] \in 1 .. sent[m[1]] /\ (m[2] = sent[m[1]] => u \notin Todo(m[1]))
    BY <1>2 DEF Ranked
  <2>2. sent[m[1]] \in Nat
    BY <1>0, <1>2, BoundsAssumption DEF TypeInv, TypeOK
  <2>3. \/ sent'[m[1]] = sent[m[1]] /\ Todo(m[1])' \subseteq Todo(m[1])
        \/ sent'[m[1]] = sent[m[1]] + 1
    BY <1>0, <1>1, <1>2, StepWork
  <2> QED
    BY <2>1, <2>2, <2>3
<1>3. ASSUME NEW t \in Threads, AddMsg(t), Head(work[t]) = u, m = <<t, sent[t], Session(u)>>
      PROVE  m[2] \in 1 .. sent'[m[1]] /\ (m[2] = sent'[m[1]] => u \notin Todo(m[1])')
  <2>1. m[1] = t /\ m[2] = sent[t]
    BY <1>3
  <2> QED
    BY <1>1, <1>3, <2>1, BoundsAssumption
<1> QED
  BY <1>2, <1>3, StepReached

\* The message being queued comes after everything that has reached its
\* receiver.
LEMMA QueuedLast ==
  ASSUME TypeInv, Ranked, NEW t \in Threads, AddMsg(t), NEW u \in Users, Head(work[t]) = u,
         NEW m \in Reached(u)
  PROVE  Precedes(m, <<t, sent[t], Session(u)>>)
<1>1. pc[t] = "append" /\ work[t] \in Seq(Uids) /\ work[t] # <<>> /\ sent[t] \in Nat
  BY BoundsAssumption DEF AddMsg, At, TypeInv, TypeOK, Shape
<1>2. u \in Todo(t)
  <2>1. 1 \in DOMAIN work[t] /\ work[t][1] = u
    BY <1>1
  <2> QED
    BY <1>1, <2>1 DEF Todo
<1>3. m[1] = t => m[2] \in 1 .. sent[t] /\ m[2] # sent[t]
  BY <1>2 DEF Ranked
<1> QED
  BY <1>1, <1>3 DEF Precedes

\* One handler at a time takes messages of a user.
LEMMA OneHandlerPerUser ==
  ASSUME TypeInv, OneThreadPerFd, ServesPeer, OnePeer, HandlerInv,
         NEW t \in Threads, NEW o \in Threads,
         hpc[t] \in {"take", "send"}, hpc[o] \in {"take", "send"}, hcl[t] = hcl[o]
  PROVE  t = o
<1>1. hcl[t] \in Users /\ hcl[t] = bound[t] /\ hcl[o] = bound[o]
  BY DEF TypeInv, Shape, HandlerInv
<1> QED
  BY <1>1, OneThreadPerUser, UsersAssumption DEF Uids

LEMMA StepOrdered ==
  ASSUME TypeInv, OneThreadPerFd, ServesPeer, OnePeer, HandlerInv, Ordered, Ranked, [Next]_vars
  PROVE  Ordered'
<1>1. ASSUME NEW t \in Threads, AddMsg(t)
      PROVE  Ordered'
  <2> DEFINE v == Head(work[t])
             n == <<t, sent[t], Session(v)>>
  <2>1. UNCHANGED <<hpc, hcl, hmsg, got>>
    BY <1>1, AddMsgAppends
  <2>2. ASSUME v \in Users, NEW m \in Reached(v)
        PROVE  Precedes(m, n)
    BY <1>1, <2>2, QueuedLast
  <2>3. ASSUME NEW u \in Users, NEW j \in DOMAIN mail'[u]
        PROVE  \/ j \in DOMAIN mail[u] /\ mail'[u][j] = mail[u][j]
               \/ u = v /\ j = Len(mail[u]) + 1 /\ mail'[u][j] = n
    BY <1>1, <2>3, AddMsgElements
  <2> HIDE DEF n, v
  <2>4. ASSUME NEW u \in Users
        PROVE  /\ \A i, j \in DOMAIN got'[u] : i < j => Precedes(got'[u][i], got'[u][j])
               /\ \A i \in DOMAIN got'[u], j \in DOMAIN mail'[u] : Precedes(got'[u][i], mail'[u][j])
    <3>1. got' = got
      BY <2>1
    <3>2. ASSUME NEW i \in DOMAIN got[u], NEW j \in DOMAIN mail'[u]
          PROVE  Precedes(got[u][i], mail'[u][j])
      <4>1. CASE j \in DOMAIN mail[u] /\ mail'[u][j] = mail[u][j]
        BY <3>2, <4>1 DEF Ordered
      <4>2. CASE u = v /\ mail'[u][j] = n
        BY <2>2, <3>2, <4>2 DEF Reached
      <4> QED
        BY <2>3, <3>2, <4>1, <4>2
    <3> QED
      BY <3>1, <3>2 DEF Ordered
  <2>5. ASSUME NEW u \in Users, NEW i \in DOMAIN mail'[u], NEW j \in DOMAIN mail'[u], i < j
        PROVE  Precedes(mail'[u][i], mail'[u][j])
    <3>0. mail[u] \in Seq(Msgs) /\ DOMAIN mail[u] = 1 .. Len(mail[u]) /\ Len(mail[u]) \in Nat
      BY DEF TypeInv, TypeOK
    <3>1. CASE j \in DOMAIN mail[u] /\ mail'[u][j] = mail[u][j]
      <4>1. i \in DOMAIN mail[u] /\ mail'[u][i] = mail[u][i]
        BY <2>3, <2>5, <3>0, <3>1
      <4> QED
        BY <2>5, <3>1, <4>1 DEF Ordered
    <3>2. CASE u = v /\ j = Len(mail[u]) + 1 /\ mail'[u][j] = n
      <4>1. i \in DOMAIN mail[u] /\ mail'[u][i] = mail[u][i]
        BY <2>3, <2>5, <3>0, <3>2
      <4> QED
        BY <2>2, <3>2, <4>1 DEF Reached
    <3> QED
      BY <2>3, <2>5, <3>1, <3>2
  <2>6. ASSUME NEW o \in Threads, hpc'[o] = "send"
        PROVE  /\ \A i \in DOMAIN got'[hcl'[o]] : Precedes(got'[hcl'[o]][i], hmsg'[o])
               /\ \A j \in DOMAIN mail'[hcl'[o]] : Precedes(hmsg'[o], mail'[hcl'[o]][j])
    <3>1. hpc[o] = "send" /\ hcl[o] \in Users /\ UNCHANGED <<hcl, hmsg, got>>
      BY <2>1, <2>6 DEF TypeInv, Shape
    <3>2. hmsg[o] \in Reached(hcl[o])
      BY <3>1 DEF Reached
    <3>3. ASSUME NEW j \in DOMAIN mail'[hcl[o]]
          PROVE  Precedes(hmsg[o], mail'[hcl[o]][j])
      <4>1. CASE j \in DOMAIN mail[hcl[o]] /\ mail'[hcl[o]][j] = mail[hcl[o]][j]
        BY <3>1, <3>3, <4>1 DEF Ordered
      <4>2. CASE hcl[o] = v /\ mail'[hcl[o]][j] = n
        BY <2>2, <3>1, <3>2, <4>2
      <4> QED
        BY <2>3, <3>1, <3>3, <4>1, <4>2
    <3> QED
      BY <3>1, <3>3 DEF Ordered
  <2> QED
    BY <2>4, <2>5, <2>6 DEF Ordered
<1>2. ASSUME NEW t \in Threads, HandlerTake(t)
      PROVE  Ordered'
  <2> DEFINE w == hcl[t]
  <2>1. /\ w \in Users /\ mail[w] # <<>> /\ mail[w] \in Seq(Msgs) /\ hpc[t] = "take"
        /\ mail' = [mail EXCEPT ![w] = Tail(@)]
        /\ hmsg' = [hmsg EXCEPT ![t] = Head(mail[w])]
        /\ hpc' = [hpc EXCEPT ![t] = "send"]
        /\ UNCHANGED <<hcl, got>>
    BY <1>2 DEF HandlerTake, Runs, HGo, TypeInv, TypeOK, Shape, histVars
  <2>2. ASSUME NEW u \in Users, NEW j \in DOMAIN mail'[u]
        PROVE  \E k \in DOMAIN mail[u] : /\ mail'[u][j] = mail[u][k]
                                         /\ k = IF u = w THEN j + 1 ELSE j
    BY <1>2, <2>2, HandlerTakeElements
  <2>3. ASSUME NEW u \in Users
        PROVE  \A i \in DOMAIN got'[u], j \in DOMAIN mail'[u] : Precedes(got'[u][i], mail'[u][j])
    BY <2>1, <2>2 DEF Ordered
  <2>4. ASSUME NEW u \in Users, NEW i \in DOMAIN mail'[u], NEW j \in DOMAIN mail'[u], i < j
        PROVE  Precedes(mail'[u][i], mail'[u][j])
    <3>0. mail'[u] \in Seq(Msgs)
      BY <2>1 DEF TypeInv, TypeOK
    <3>1. PICK k \in DOMAIN mail[u] : mail'[u][i] = mail[u][k] /\ k = IF u = w THEN i + 1 ELSE i
      BY <2>2, <2>4
    <3>2. PICK l \in DOMAIN mail[u] : mail'[u][j] = mail[u][l] /\ l = IF u = w THEN j + 1 ELSE j
      BY <2>2, <2>4
    <3>3. k < l
      BY <2>4, <3>0, <3>1, <3>2
    <3> QED
      BY <3>1, <3>2, <3>3 DEF Ordered
  <2>5. ASSUME NEW o \in Threads, hpc'[o] = "send"
        PROVE  /\ \A i \in DOMAIN got'[hcl'[o]] : Precedes(got'[hcl'[o]][i], hmsg'[o])
               /\ \A j \in DOMAIN mail'[hcl'[o]] : Precedes(hmsg'[o], mail'[hcl'[o]][j])
    <3>1. CASE o = t
      <4>1. hmsg'[o] = mail[w][1] /\ 1 \in DOMAIN mail[w] /\ hcl'[o] = w /\ got' = got
        BY <2>1, <3>1 DEF TypeInv, TypeOK
      <4>2. ASSUME NEW j \in DOMAIN mail'[w]
            PROVE  Precedes(mail[w][1], mail'[w][j])
        <5>1. mail'[w] \in Seq(Msgs)
          BY <2>1 DEF TypeInv, TypeOK
        <5>2. j \in Nat /\ 1 < j + 1
          BY <4>2, <5>1
        <5>3. j + 1 \in DOMAIN mail[w] /\ mail'[w][j] = mail[w][j + 1]
          BY <2>1, <2>2, <4>2
        <5> QED
          BY <2>1, <4>1, <5>2, <5>3 DEF Ordered
      <4> QED
        BY <2>1, <4>1, <4>2 DEF Ordered
    <3>2. CASE o # t
      <4>1. hpc[o] = "send" /\ hcl[o] \in Users /\ hmsg'[o] = hmsg[o]
        BY <2>1, <2>5, <3>2 DEF TypeInv, TypeOK, Shape
      <4>2. hcl[o] # w
        BY <2>1, <3>2, <4>1, OneHandlerPerUser
      <4>3. mail'[hcl[o]] = mail[hcl[o]]
        BY <2>1, <4>1, <4>2 DEF TypeInv, TypeOK
      <4> QED
        BY <2>1, <4>1, <4>3 DEF Ordered
    <3> QED
      BY <3>1, <3>2
  <2> QED
    BY <2>1, <2>3, <2>4, <2>5 DEF Ordered
<1>3. ASSUME NEW t \in Threads, HandlerSend(t)
      PROVE  Ordered'
  <2> DEFINE w == hcl[t]
  <2>1. /\ hpc[t] = "send" /\ w \in Users /\ hmsg[t] \in Msgs
        /\ got' = [got EXCEPT ![w] = Append(@, hmsg[t])] \/ got' = got
        /\ hmsg' = [hmsg EXCEPT ![t] = NoMsg]
        /\ hpc' = [hpc EXCEPT ![t] = "loop"]
        /\ UNCHANGED <<hcl, mail>>
    BY <1>3 DEF HandlerSend, Runs, HGo, TypeInv, TypeOK, Shape, userVars
  <2>2. ASSUME NEW u \in Users, NEW i \in DOMAIN got'[u]
        PROVE  \/ i \in DOMAIN got[u] /\ got'[u][i] = got[u][i]
               \/ u = w /\ i = Len(got[u]) + 1 /\ got'[u][i] = hmsg[t]
    <3>1. CASE got'[u] = got[u]
      BY <2>2, <3>1
    <3>2. CASE u = w /\ got'[u] = Append(got[u], hmsg[t])
      <4>1. got[u] \in Seq(Msgs)
        BY DEF TypeInv, TypeOK
      <4> QED
        BY <2>1, <2>2, <3>2, <4>1, AppendElements
    <3> QED
      BY <2>1, <3>1, <3>2 DEF TypeInv, TypeOK
  <2>3. ASSUME NEW u \in Users, NEW i \in DOMAIN got'[u], NEW j \in DOMAIN mail'[u]
        PROVE  Precedes(got'[u][i], mail'[u][j])
    BY <2>1, <2>2, <2>3 DEF Ordered
  <2>4. ASSUME NEW u \in Users, NEW i \in DOMAIN got'[u], NEW j \in DOMAIN got'[u], i < j
        PROVE  Precedes(got'[u][i], got'[u][j])
    <3>0. got[u] \in Seq(Msgs) /\ DOMAIN got[u] = 1 .. Len(got[u]) /\ Len(got[u]) \in Nat
      BY DEF TypeInv, TypeOK
    <3>1. CASE j \in DOMAIN got[u] /\ got'[u][j] = got[u][j]
      <4>1. i \in DOMAIN got[u] /\ got'[u][i] = got[u][i]
        BY <2>2, <2>4, <3>0, <3>1
      <4> QED
        BY <2>4, <3>1, <4>1 DEF Ordered
    <3>2. CASE u = w /\ j = Len(got[u]) + 1 /\ got'[u][j] = hmsg[t]
      <4>1. i \in DOMAIN got[u] /\ got'[u][i] = got[u][i]
        BY <2>2, <2>4, <3>0, <3>2
      <4> QED
        BY <2>1, <3>2, <4>1 DEF Ordered
    <3> QED
      BY <2>2, <2>4, <3>1, <3>2
  <2>5. ASSUME NEW o \in Threads, hpc'[o] = "send"
        PROVE  /\ \A i \in DOMAIN got'[hcl'[o]] : Precedes(got'[hcl'[o]][i], hmsg'[o])
               /\ \A j \in DOMAIN mail'[hcl'[o]] : Precedes(hmsg'[o], mail'[hcl'[o]][j])
    <3>1. o # t /\ hpc[o] = "send" /\ hcl[o] \in Users /\ hmsg'[o] = hmsg[o]
      BY <2>1, <2>5 DEF TypeInv, TypeOK, Shape
    <3>2. hcl[o] # w
      BY <2>1, <3>1, OneHandlerPerUser
    <3>3. got'[hcl[o]] = got[hcl[o]]
      BY <2>1, <3>1, <3>2 DEF TypeInv, TypeOK
    <3> QED
      BY <2>1, <3>1, <3>3 DEF Ordered
  <2>6. \A u \in Users : mail'[u] = mail[u]
    BY <2>1
  <2> QED
    BY <2>3, <2>4, <2>5, <2>6 DEF Ordered
<1>4. ASSUME UNCHANGED <<mail, got, hmsg>>,
             \A o \in Threads : hpc'[o] = "send" => hpc[o] = "send" /\ hcl'[o] = hcl[o]
      PROVE  Ordered'
  BY <1>4 DEF Ordered
<1>5. ASSUME NEW t \in Threads,
             HandlerStart(t) \/ HandlerCheck(t) \/ HandlerLoop(t) \/ HandlerReturn(t)
      PROVE  Ordered'
  <2>1. /\ UNCHANGED <<mail, got, hmsg>>
        /\ \A o \in Threads : hpc'[o] = "send" => hpc[o] = "send" /\ hcl'[o] = hcl[o]
    BY <1>5 DEF HandlerStart, HandlerCheck, HandlerLoop, HandlerReturn, Runs, HGo, userVars,
       histVars, TypeInv, TypeOK
  <2> QED
    BY <1>4, <2>1
<1>6. ASSUME NEW t \in Threads, Step(t), ~AddMsg(t)
      PROVE  Ordered'
  <2>1. UNCHANGED <<mail, got, hmsg, hpc, hcl>>
    BY <1>6 DEF Step, ThreadStart, LoginSetFd, LoginSetTid, LoginSetState, LoginReply, Walk,
       Serve, AddCheck, Signal, Eof, OfflineFd, OfflineState, OfflineAgain, Close, userVars,
       handlerVars, histVars
  <2> QED
    BY <1>4, <2>1
<1>7. ASSUME NEW t \in Threads, Request(t)
      PROVE  Ordered'
  <2>1. UNCHANGED <<mail, got, hmsg, hpc, hcl>>
    BY <1>7 DEF Request, ReqLogin, LoginRefused, LoginChecked, Query, GetGroupInfoUnknown,
       SendMsg, SendGmsg, userVars, handlerVars, histVars
  <2> QED
    BY <1>4, <2>1
<1>8. ASSUME \/ \E t \in Threads, f \in Fds, v \in Clients : Accept(t, f, v)
             \/ \E f \in Fds, v \in Clients : AcceptNoThread(f, v)
             \/ \E f \in Fds : PeerClose(f)
             \/ Corrupt \/ Sigpipe \/ UNCHANGED vars
      PROVE  Ordered'
  <2>1. UNCHANGED <<mail, got, hmsg, hpc, hcl>>
    BY <1>8 DEF Accept, AcceptNoThread, PeerClose, Corrupt, Sigpipe, vars, userVars,
       handlerVars, histVars
  <2> QED
    BY <1>4, <2>1
<1> QED
  BY <1>1, <1>2, <1>3, <1>5, <1>6, <1>7, <1>8 DEF Next, Handler

\* An element of a concatenation is one of either sequence.
LEMMA ConcatElements ==
  ASSUME NEW S, NEW s \in Seq(S), NEW r \in Seq(S), NEW k \in 1 .. Len(s \o r)
  PROVE  \/ k \in DOMAIN s /\ k <= Len(s) /\ (s \o r)[k] = s[k]
         \/ k > Len(s) /\ k - Len(s) \in DOMAIN r /\ (s \o r)[k] = r[k - Len(s)]
OBVIOUS

LEMMA OrderInvCorrect ==
  ASSUME PromptStart, OneConn, DistinctMembers
  PROVE  Spec => [](TypeInv /\ OrderInv)
<1>1. TypeInv /\ OwnInv /\ DeliveryInv /\ OrderInv /\ [Next]_vars => OrderInv'
  BY StepOrdered, StepRanked, StepOnceEach DEF OwnInv, DeliveryInv, SessionInv, OrderInv
<1> QED
  BY <1>1, InitOrderInv, DeliveryInvCorrect, PTL DEF Spec

\* All that was written to u, then all that is queued for him, in order.
LEMMA WholeStream ==
  ASSUME TypeInv, OrderInv, NEW u \in Users,
         NEW i \in 1 .. Len(got[u] \o mail[u]), NEW j \in 1 .. Len(got[u] \o mail[u]), i < j
  PROVE  Precedes((got[u] \o mail[u])[i], (got[u] \o mail[u])[j])
<1> DEFINE G == got[u]
           M == mail[u]
           all == G \o M
<1>1. G \in Seq(Msgs) /\ M \in Seq(Msgs) /\ Len(G) \in Nat
  BY DEF TypeInv, TypeOK
<1>2. ASSUME NEW k \in 1 .. Len(all)
      PROVE  \/ k \in DOMAIN G /\ k <= Len(G) /\ all[k] = G[k]
             \/ k > Len(G) /\ k - Len(G) \in DOMAIN M /\ all[k] = M[k - Len(G)]
  BY <1>1, <1>2, ConcatElements
<1>0. i \in 1 .. Len(all) /\ j \in 1 .. Len(all) /\ i < j
  OBVIOUS
<1> HIDE DEF all
<1>3. CASE j \in DOMAIN G /\ j <= Len(G) /\ all[j] = G[j]
  <2>1. i \in DOMAIN G /\ all[i] = G[i]
    BY <1>0, <1>1, <1>2, <1>3
  <2> QED
    BY <1>0, <1>3, <2>1 DEF OrderInv, Ordered
<1>4. CASE j > Len(G) /\ j - Len(G) \in DOMAIN M /\ all[j] = M[j - Len(G)]
  <2>1. CASE i \in DOMAIN G /\ all[i] = G[i]
    BY <1>4, <2>1 DEF OrderInv, Ordered
  <2>2. CASE i > Len(G) /\ i - Len(G) \in DOMAIN M /\ all[i] = M[i - Len(G)]
    <3>1. i - Len(G) < j - Len(G)
      BY <1>0, <1>1, <1>4, <2>2
    <3> QED
      BY <1>4, <2>2, <3>1 DEF OrderInv, Ordered
  <2> QED
    BY <1>0, <1>2, <2>1, <2>2
<1>5. Precedes(all[i], all[j])
  BY <1>0, <1>2, <1>3, <1>4
<1> QED
  BY <1>5 DEF all

\* With one connection per user and groups without repeated members, the
\* messages of a connection reach each user in the order they were sent in,
\* across the mailbox, the handler and the user's sessions.
THEOREM InOrderCorrect ==
  ASSUME PromptStart, OneConn, DistinctMembers
  PROVE  Spec => []InOrder
<1>1. TypeInv /\ OrderInv => InOrder
  BY WholeStream DEF InOrder, Precedes
<1> QED
  BY <1>1, OrderInvCorrect, PTL

\* Under the same conditions no message is queued or written twice.
THEOREM NoDuplicatesCorrect ==
  ASSUME PromptStart, OneConn, DistinctMembers
  PROVE  Spec => []NoDuplicates
<1>1. ASSUME TypeInv, OrderInv
      PROVE  NoDuplicates
  <2> SUFFICES ASSUME NEW u \in Users
               PROVE  LET all == got[u] \o mail[u] IN
                        \A i, j \in 1 .. Len(all) :
                          all[i][1] = all[j][1] /\ all[i][2] = all[j][2] => i = j
    BY DEF NoDuplicates
  <2> DEFINE all == got[u] \o mail[u]
  <2>1. all \in Seq(Msgs)
    BY <1>1 DEF TypeInv, TypeOK
  <2>2. ASSUME NEW i \in 1 .. Len(all), NEW j \in 1 .. Len(all), i < j
        PROVE  Precedes(all[i], all[j])
    BY <1>1, <2>2, WholeStream
  <2> HIDE DEF all
  <2>3. ASSUME NEW i \in 1 .. Len(all), NEW j \in 1 .. Len(all),
               all[i][1] = all[j][1], all[i][2] = all[j][2]
        PROVE  i = j
    <3>1. all[i] \in Msgs /\ all[j] \in Msgs
      BY <2>1
    <3>2. all[i][2] \in Nat /\ all[j][2] \in Nat
      BY <3>1 DEF Msgs
    <3>3. ~(i < j) /\ ~(j < i)
      BY <2>2, <2>3, <3>2 DEF Precedes
    <3> QED
      BY <3>3
  <2> QED
    BY <2>3 DEF all
<1> QED
  BY <1>1, OrderInvCorrect, PTL

=============================================================================
