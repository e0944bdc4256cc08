------------------------ MODULE StkServerGtk_proofs -------------------------
(***************************************************************************)
(* The GTK server for any users, threads and descriptors: what the         *)
(* connection threads leave in the user table, what the main loop finds    *)
(* there, and what the window shows.                                       *)
(***************************************************************************)
EXTENDS StkServerGtk, TLAPS

-----------------------------------------------------------------------------
(* Type correctness                                                        *)

\* TypeOK in parts.
LoopTypes ==
  /\ ui \in {"groups", "users", "window", "loop"}
  /\ loaded \in 0 .. Len(UserFile)
  /\ shown \in [Users -> {"", "online", "offline"}]
  /\ idle \in Seq(Tasks)
  /\ mcl \in Users \cup {NoUser} /\ mmsg \in Msgs \cup {NoMsg} /\ mfd \in Fds \cup {NoFd}

ThreadTypes ==
  /\ pc \in [Threads -> PCs]
  /\ tfd \in [Threads -> Fds \cup {NoFd}]
  /\ bound \in [Threads -> Users \cup {NoUser}]
  /\ work \in [Threads -> Seq(Uids)] /\ sent \in [Threads -> 0 .. MaxSend]

ConnTypes ==
  /\ peer \in [Fds -> Uids \cup {NoUser}]
  /\ stage \in [Fds -> {"free", "new", "asked", "in", "refused", "gone"}]

UserTypes ==
  /\ ufd \in [Users -> Fds \cup {NoFd}] /\ online \in [Users -> BOOLEAN]
  /\ udata \in [Users -> Threads \cup {NoThread}]
  /\ sess \in [Users -> Threads \cup {NoThread}]
  /\ failed \subseteq Users /\ dead \in {"no", "ub", "segv", "exit"}

MailTypes == mail \in [Users -> Seq(Msgs)] /\ got \in [Users -> Seq(Msgs)]

\* What they need to be inductive: an open connection has a peer, a packet
\* being handled has receivers and a rank, a login and its end have a user.
HasPeer == \A f \in Fds : stage[f] # "free" => peer[f] \in Uids

Handling(t) == pc[t] \in {"group", "work", "add", "append", "post"}
HasReceiver ==
  \A t \in Threads :
    /\ Handling(t) => work[t] # <<>> /\ sent[t] \in 1 .. MaxSend
    /\ pc[t] \in {"add", "append", "post"} => Head(work[t]) \in Users

HasClient ==
  \A t \in Threads :
    pc[t] \in {"setfd", "setstate", "notify", "off1", "off2", "left"} => bound[t] \in Users

Types == LoopTypes /\ ThreadTypes /\ ConnTypes /\ UserTypes /\ MailTypes
TypeInv == Types /\ HasPeer /\ HasReceiver /\ HasClient

LEMMA InitTypeInv == Init => TypeInv
<1> SUFFICES ASSUME Init
             PROVE  TypeInv
  OBVIOUS
<1>1. /\ <<>> \in Seq(Tasks) /\ <<>> \in Seq(Uids) /\ <<>> \in Seq(Msgs)
      /\ 0 \in 0 .. MaxSend /\ 0 \in 0 .. Len(UserFile)
  BY UsersAssumption, BoundsAssumption
<1>2. LoopTypes
  <2>1. shown \in [Users -> {"", "online", "offline"}] /\ idle \in Seq(Tasks) /\ loaded \in 0 .. Len(UserFile)
    BY <1>1 DEF Init
  <2> QED
    BY <2>1 DEF Init, LoopTypes
<1>3. ThreadTypes
  <2>1. work \in [Threads -> Seq(Uids)]
    BY <1>1 DEF Init
  <2>2. sent \in [Threads -> 0 .. MaxSend]
    BY <1>1 DEF Init
  <2> QED
    BY <2>1, <2>2 DEF Init, ThreadTypes, PCs
<1>4. ConnTypes /\ UserTypes /\ HasPeer /\ HasReceiver /\ HasClient
  BY DEF Init, ConnTypes, UserTypes, HasPeer, HasReceiver, HasClient, Handling
<1>5. MailTypes
  BY <1>1 DEF Init, MailTypes
<1> QED
  BY <1>2, <1>3, <1>4, <1>5 DEF TypeInv, Types

\* What the loop and the end of the process leave alone.
LEMMA LoopFrame ==
  ASSUME Loop \/ Quit \/ Corrupt \/ UNCHANGED vars
  PROVE  UNCHANGED <<pc, tfd, bound, work, sent, peer, stage, ufd, online, udata, sess, failed>>
BY DEF Loop, Quit, Corrupt, Dies, InitGroup, InitUser, MainLoop, BuddytreeFill, BuddytreeUpdate,
   DeliverCheck, DeliverTake, DeliverSend, DeliverReturn, threadVars, connVars, userVars,
   histVars, vars

\* stk_find_user() finds users of the users file only.
LEMMA FindType ==
  ASSUME LoopTypes, NEW x
  PROVE  Find(x) \in Users \cup {NoUser} /\ (Find(x) # NoUser => Find(x) = x /\ x \in Users)
<1>1. loaded \in 0 .. Len(UserFile) /\ UserFile \in Seq(Users)
  BY UsersAssumption DEF LoopTypes
<1>2. 1 .. loaded \subseteq DOMAIN UserFile
  BY <1>1
<1> QED
  BY <1>1, <1>2 DEF Find

\* The list of receivers after one is done with.
LEMMA NextMemberType ==
  ASSUME ThreadTypes, NEW t \in Threads, NextMember(t), work[t] # <<>>
  PROVE  /\ work' = [work EXCEPT ![t] = Tail(@)] /\ Tail(work[t]) \in Seq(Uids)
         /\ work' \in [Threads -> Seq(Uids)]
         /\ \E x \in {"recv", "group"} : pc' = [pc EXCEPT ![t] = x]
         /\ pc'[t] = "group" => Tail(work[t]) # <<>>
<1>1. work' = [work EXCEPT ![t] = Tail(@)] /\ work[t] \in Seq(Uids) /\ pc \in [Threads -> PCs]
  BY DEF NextMember, ThreadTypes
<1>2. Tail(work[t]) \in Seq(Uids)
  BY <1>1
<1>3. work' \in [Threads -> Seq(Uids)]
  BY <1>1, <1>2 DEF ThreadTypes
<1>4. CASE Tail(work[t]) = <<>>
  <2>1. pc' = [pc EXCEPT ![t] = "recv"]
    BY <1>4 DEF NextMember, Go
  <2> QED
    BY <1>1, <1>2, <1>3, <2>1
<1>5. CASE Tail(work[t]) # <<>>
  <2>1. pc' = [pc EXCEPT ![t] = "group"]
    BY <1>5 DEF NextMember, Go
  <2> QED
    BY <1>1, <1>2, <1>3, <1>5, <2>1
<1> QED
  BY <1>4, <1>5

\* The first packet with a user's uid binds the connection, for good.
LEMMA BindType ==
  ASSUME Types, NEW t \in Threads, Bind(t)
  PROVE  /\ bound' \in [Threads -> Users \cup {NoUser}]
         /\ udata' \in [Users -> Threads \cup {NoThread}]
         /\ \A o \in Threads : bound[o] # NoUser => bound'[o] = bound[o]
         /\ \A o \in Threads \ {t} : bound'[o] = bound[o]
         /\ bound[t] = NoUser => bound'[t] = Find(peer[tfd[t]])
         /\ bound'[t] = NoUser => Find(peer[tfd[t]]) = NoUser
BY FindType DEF Bind, Types, ThreadTypes, UserTypes

LEMMA GroupType == Group \in Seq(Uids)
BY BoundsAssumption

\* A chat packet is read.
LEMMA ReceiveType ==
  ASSUME Types, NEW t \in Threads, NEW to \in Seq(Uids), NEW where \in {"work", "group"},
         Receive(t, to, where)
  PROVE  /\ Bind(t) /\ pc[t] = "recv" /\ stage[tfd[t]] = "in"
         /\ work' = [work EXCEPT ![t] = to] /\ work' \in [Threads -> Seq(Uids)]
         /\ sent' = [sent EXCEPT ![t] = @ + 1] /\ sent' \in [Threads -> 0 .. MaxSend]
         /\ sent[t] \in Nat /\ sent[t] + 1 \in 1 .. MaxSend
         /\ \E x \in {"recv", where} : /\ pc' = [pc EXCEPT ![t] = x]
                                       /\ x # "recv" => to # <<>>
         /\ UNCHANGED <<tfd, peer, stage, ufd, online, mail, sess, got, failed, dead, loopVars, uiVars>>
<1>1. /\ Bind(t) /\ pc[t] = "recv" /\ stage[tfd[t]] = "in" /\ sent[t] < MaxSend
      /\ work' = [work EXCEPT ![t] = to] /\ sent' = [sent EXCEPT ![t] = @ + 1]
      /\ UNCHANGED <<tfd, peer, stage, ufd, online, mail, sess, got, failed, dead, loopVars, uiVars>>
  BY DEF Receive, Reads, At, connVars, histVars
<1>2. \E x \in {"recv", where} : pc' = [pc EXCEPT ![t] = x] /\ (x # "recv" => to # <<>>)
  BY DEF Receive, Go
<1>3. sent[t] \in Nat /\ sent[t] + 1 \in 1 .. MaxSend
  BY <1>1, BoundsAssumption DEF Types, ThreadTypes
<1>4. work' \in [Threads -> Seq(Uids)]
  BY <1>1 DEF Types, ThreadTypes
<1>5. sent' \in [Threads -> 0 .. MaxSend]
  BY <1>1, <1>3 DEF Types, ThreadTypes
<1> QED
  BY <1>1, <1>2, <1>3, <1>4, <1>5

\* The two kinds of chat packets.
LEMMA ChatReceives ==
  ASSUME Types, NEW t \in Threads, SendGmsg(t) \/ \E v \in Uids : SendMsg(t, v)
  PROVE  \E to \in Seq(Uids), where \in {"work", "group"} : Receive(t, to, where)
<1>1. \A v \in Uids : <<v>> \in Seq(Uids)
  OBVIOUS
<1> QED
  BY <1>1, GroupType DEF SendGmsg, SendMsg

\* The threads' own variables.
LEMMA StepThreadTypes ==
  ASSUME TypeInv, [Next]_vars
  PROVE  ThreadTypes'
<1>0. ThreadTypes
  BY DEF TypeInv, Types
<1> USE <1>0
    DEF ThreadTypes, PCs, At, Go, Reads, threadVars
<1>1. ASSUME NEW t \in Threads, NEW f \in Fds, NEW u \in Uids, Accept(t, f, u)
      PROVE  ThreadTypes'
  BY <1>1 DEF Accept
<1>2. ASSUME NEW f \in Fds, PeerClose(f)
      PROVE  ThreadTypes'
  BY <1>2 DEF PeerClose
<1>3. ASSUME NEW t \in Threads, ReqLogin(t)
      PROVE  ThreadTypes'
  <2>1. Bind(t) /\ UNCHANGED <<tfd, work, sent, pc>>
    BY <1>3 DEF ReqLogin
  <2> QED
    BY <1>3, <2>1, BindType DEF TypeInv
<1>4. ASSUME NEW t \in Threads, NEW passOk \in BOOLEAN, LoginRefused(t, passOk)
      PROVE  ThreadTypes'
  <2>1. Bind(t) /\ UNCHANGED <<tfd, work, sent, pc>>
    BY <1>4 DEF LoginRefused
  <2> QED
    BY <1>4, <2>1, BindType DEF TypeInv
<1>5. ASSUME NEW t \in Threads, LoginChecked(t)
      PROVE  ThreadTypes'
  <2>1. Bind(t) /\ UNCHANGED <<tfd, work, sent>>
    BY <1>5 DEF LoginChecked
  <2> QED
    BY <1>5, <2>1, BindType DEF LoginChecked, TypeInv
<1>6. ASSUME NEW t \in Threads, LoginSetFd(t)
      PROVE  ThreadTypes'
  BY <1>6 DEF LoginSetFd
<1>7. ASSUME NEW t \in Threads, LoginSetState(t)
      PROVE  ThreadTypes'
  BY <1>7 DEF LoginSetState
<1>8. ASSUME NEW t \in Threads, LoginReply(t)
      PROVE  ThreadTypes'
  BY <1>8 DEF LoginReply
<1>9. ASSUME NEW t \in Threads, Query(t)
      PROVE  ThreadTypes'
  <2>1. Bind(t) /\ UNCHANGED <<tfd, work, sent, pc>>
    BY <1>9 DEF Query
  <2> QED
    BY <1>9, <2>1, BindType DEF TypeInv
<1>10. ASSUME NEW t \in Threads, GetGroupInfoUnknown(t)
       PROVE  ThreadTypes'
  BY <1>10 DEF GetGroupInfoUnknown, Dies
<1>11. ASSUME NEW t \in Threads, NEW v \in Uids, SendMsg(t, v)
       PROVE  ThreadTypes'
  <2>0. PICK to \in Seq(Uids), where \in {"work", "group"} : Receive(t, to, where)
    BY <1>11, ChatReceives DEF TypeInv
  <2>1. /\ Bind(t) /\ work' \in [Threads -> Seq(Uids)] /\ sent' \in [Threads -> 0 .. MaxSend]
        /\ UNCHANGED tfd /\ \E x \in {"recv", "work", "group"} : pc' = [pc EXCEPT ![t] = x]
    BY <2>0, ReceiveType DEF TypeInv
  <2> QED
    BY <2>1, BindType DEF TypeInv
<1>12. ASSUME NEW t \in Threads, SendGmsg(t)
       PROVE  ThreadTypes'
  <2>0. PICK to \in Seq(Uids), where \in {"work", "group"} : Receive(t, to, where)
    BY <1>12, ChatReceives DEF TypeInv
  <2>1. /\ Bind(t) /\ work' \in [Threads -> Seq(Uids)] /\ sent' \in [Threads -> 0 .. MaxSend]
        /\ UNCHANGED tfd /\ \E x \in {"recv", "work", "group"} : pc' = [pc EXCEPT ![t] = x]
    BY <2>0, ReceiveType DEF TypeInv
  <2> QED
    BY <2>1, BindType DEF TypeInv
<1>13. ASSUME NEW t \in Threads, StepOver(t)
       PROVE  ThreadTypes'
  <2>1. work[t] # <<>> /\ NextMember(t) /\ UNCHANGED <<tfd, bound, sent>>
    BY <1>13 DEF StepOver, TypeInv, HasReceiver, Handling
  <2>2. work' \in [Threads -> Seq(Uids)] 
    BY <2>1, NextMemberType
  <2>3. PICK x \in {"recv", "group"} : pc' = [pc EXCEPT ![t] = x]
    BY <2>1, NextMemberType
  <2> QED
    BY <2>1, <2>2, <2>3
<1>14. ASSUME NEW t \in Threads, Serve(t)
       PROVE  ThreadTypes'
  <2>1. CASE Go(t, "add") /\ UNCHANGED work
    BY <1>14, <2>1 DEF Serve
  <2>2. CASE Go(t, "recv") /\ work' = [work EXCEPT ![t] = <<>>]
    <3>1. <<>> \in Seq(Uids)
      OBVIOUS
    <3> QED
      BY <1>14, <2>2, <3>1 DEF Serve
  <2> QED
    BY <1>14, <2>1, <2>2 DEF Serve
<1>15. ASSUME NEW t \in Threads, AddCheck(t)
       PROVE  ThreadTypes'
  <2>1. CASE Go(t, "append") /\ UNCHANGED work
    BY <1>15, <2>1 DEF AddCheck
  <2>2. CASE NextMember(t)
    <3>1. work[t] # <<>> /\ UNCHANGED <<tfd, bound, sent>>
      BY <1>15 DEF AddCheck, TypeInv, HasReceiver, Handling
    <3>2. work' \in [Threads -> Seq(Uids)] 
      BY <2>2, <3>1, NextMemberType
    <3>3. PICK x \in {"recv", "group"} : pc' = [pc EXCEPT ![t] = x]
      BY <2>2, <3>1, NextMemberType
    <3> QED
      BY <3>1, <3>2, <3>3
  <2> QED
    BY <1>15, <2>1, <2>2 DEF AddCheck
<1>16. ASSUME NEW t \in Threads, AddMsg(t)
       PROVE  ThreadTypes'
  BY <1>16 DEF AddMsg
<1>17. ASSUME NEW t \in Threads, Post(t)
       PROVE  ThreadTypes'
  <2>1. work[t] # <<>> /\ NextMember(t) /\ UNCHANGED <<tfd, bound, sent>>
    BY <1>17 DEF Post, TypeInv, HasReceiver, Handling
  <2>2. work' \in [Threads -> Seq(Uids)] 
    BY <2>1, NextMemberType
  <2>3. PICK x \in {"recv", "group"} : pc' = [pc EXCEPT ![t] = x]
    BY <2>1, NextMemberType
  <2> QED
    BY <2>1, <2>2, <2>3
<1>18. ASSUME NEW t \in Threads, Eof(t)
       PROVE  ThreadTypes'
  BY <1>18 DEF Eof
<1>19. ASSUME NEW t \in Threads, RecvError(t)
       PROVE  ThreadTypes'
  BY <1>19 DEF RecvError
<1>20. ASSUME NEW t \in Threads, OfflineFd(t)
       PROVE  ThreadTypes'
  BY <1>20 DEF OfflineFd
<1>21. ASSUME NEW t \in Threads, OfflineState(t)
       PROVE  ThreadTypes'
  BY <1>21 DEF OfflineState
<1>22. ASSUME NEW t \in Threads, Close(t)
       PROVE  ThreadTypes'
  BY <1>22 DEF Close
<1>23. CASE Loop \/ Quit \/ Corrupt \/ UNCHANGED vars
  BY <1>23, LoopFrame
<1> HIDE <1>0
    DEF ThreadTypes, PCs, At, Go, Reads, threadVars
<1> QED
  BY <1>1, <1>2, <1>3, <1>4, <1>5, <1>6, <1>7, <1>8, <1>9, <1>10, <1>11, <1>12, <1>13, <1>14,
    <1>15, <1>16, <1>17, <1>18, <1>19, <1>20, <1>21, <1>22, <1>23
  DEF Next, Step, Request

\* The connections.
LEMMA StepConnTypes ==
  ASSUME TypeInv, [Next]_vars
  PROVE  ConnTypes'
<1>0. ConnTypes /\ tfd \in [Threads -> Fds \cup {NoFd}]
  BY DEF TypeInv, Types, ThreadTypes
<1> USE <1>0
    DEF ConnTypes, Advance
<1>1. ASSUME NEW t \in Threads, NEW f \in Fds, NEW u \in Uids, Accept(t, f, u)
      PROVE  ConnTypes'
  <2>1. u \in Uids /\ peer' = [peer EXCEPT ![f] = u] /\ stage' = [stage EXCEPT ![f] = "new"]
    BY <1>1 DEF Accept
  <2> QED
    BY <2>1
<1>2. ASSUME NEW f \in Fds, PeerClose(f)
      PROVE  ConnTypes'
  BY <1>2 DEF PeerClose, connVars, threadVars, userVars, histVars
<1>3. ASSUME NEW t \in Threads, ReqLogin(t)
      PROVE  ConnTypes'
  <2>1. peer' = peer /\ stage' = [stage EXCEPT ![tfd[t]] = "asked"]
    BY <1>3 DEF ReqLogin
  <2> QED
    BY <2>1
<1>4. ASSUME NEW t \in Threads, NEW passOk \in BOOLEAN, LoginRefused(t, passOk)
      PROVE  ConnTypes'
  <2>1. peer' = peer /\ stage' = [stage EXCEPT ![tfd[t]] = "refused"]
    BY <1>4 DEF LoginRefused
  <2> QED
    BY <2>1
<1>5. ASSUME NEW t \in Threads, LoginReply(t)
      PROVE  ConnTypes'
  BY <1>5 DEF LoginReply
<1>6. ASSUME NEW t \in Threads, Close(t)
      PROVE  ConnTypes'
  BY <1>6 DEF Close
<1>7. ASSUME NEW t \in Threads,
             \/ LoginChecked(t) \/ LoginSetFd(t) \/ LoginSetState(t) \/ Query(t)
             \/ GetGroupInfoUnknown(t) \/ (\E v \in Uids : SendMsg(t, v))
             \/ SendGmsg(t) \/ StepOver(t) \/ Serve(t) \/ AddCheck(t) \/ AddMsg(t)
             \/ Post(t) \/ Eof(t) \/ RecvError(t) \/ OfflineFd(t) \/ OfflineState(t)
      PROVE  ConnTypes'
  <2>1. UNCHANGED <<peer, stage>>
    BY <1>7 DEF LoginChecked, Bind, LoginSetFd, LoginSetState, Query, GetGroupInfoUnknown,
      Dies, SendMsg, Receive, SendGmsg, StepOver, NextMember, Serve, AddCheck, AddMsg, Post,
      Eof, RecvError, OfflineFd, OfflineState, connVars, threadVars
  <2> QED
    BY <2>1
<1>8. CASE Loop \/ Quit \/ Corrupt \/ UNCHANGED vars
  BY <1>8, LoopFrame
<1> HIDE <1>0
    DEF ConnTypes, Advance
<1> QED
  BY <1>1, <1>2, <1>3, <1>4, <1>5, <1>6, <1>7, <1>8
  DEF Next, Step, Request

\* An open connection has a peer.
LEMMA StepHasPeer ==
  ASSUME TypeInv, [Next]_vars
  PROVE  HasPeer'
<1>0. HasPeer /\ ConnTypes /\ tfd \in [Threads -> Fds \cup {NoFd}]
  BY DEF TypeInv, Types, ThreadTypes
<1> USE <1>0
    DEF HasPeer, ConnTypes, Advance
<1>1. ASSUME NEW t \in Threads, NEW f \in Fds, NEW u \in Uids, Accept(t, f, u)
      PROVE  HasPeer'
  <2>1. u \in Uids /\ peer' = [peer EXCEPT ![f] = u] /\ stage' = [stage EXCEPT ![f] = "new"]
    BY <1>1 DEF Accept
  <2> QED
    BY <2>1
<1>2. ASSUME NEW f \in Fds, PeerClose(f)
      PROVE  HasPeer'
  BY <1>2 DEF PeerClose, connVars, threadVars, userVars, histVars
<1>3. ASSUME NEW t \in Threads, ReqLogin(t)
      PROVE  HasPeer'
  <2>1. peer' = peer /\ stage' = [stage EXCEPT ![tfd[t]] = "asked"] /\ stage[tfd[t]] = "new"
    BY <1>3 DEF ReqLogin, Reads
  <2> QED
    BY <2>1
<1>4. ASSUME NEW t \in Threads, NEW passOk \in BOOLEAN, LoginRefused(t, passOk)
      PROVE  HasPeer'
  <2>1. peer' = peer /\ stage' = [stage EXCEPT ![tfd[t]] = "refused"] /\ stage[tfd[t]] = "asked"
    BY <1>4 DEF LoginRefused, Reads
  <2> QED
    BY <2>1
<1>5. ASSUME NEW t \in Threads, LoginReply(t)
      PROVE  HasPeer'
  BY <1>5 DEF LoginReply
<1>6. ASSUME NEW t \in Threads, Close(t)
      PROVE  HasPeer'
  BY <1>6 DEF Close
<1>7. ASSUME NEW t \in Threads,
             \/ LoginChecked(t) \/ LoginSetFd(t) \/ LoginSetState(t) \/ Query(t)
             \/ GetGroupInfoUnknown(t) \/ (\E v \in Uids : SendMsg(t, v))
             \/ SendGmsg(t) \/ StepOver(t) \/ Serve(t) \/ AddCheck(t) \/ AddMsg(t)
             \/ Post(t) \/ Eof(t) \/ RecvError(t) \/ OfflineFd(t) \/ OfflineState(t)
      PROVE  HasPeer'
  <2>1. UNCHANGED <<peer, stage>>
    BY <1>7 DEF LoginChecked, Bind, LoginSetFd, LoginSetState, Query, GetGroupInfoUnknown,
      Dies, SendMsg, Receive, SendGmsg, StepOver, NextMember, Serve, AddCheck, AddMsg, Post,
      Eof, RecvError, OfflineFd, OfflineState, connVars, threadVars
  <2> QED
    BY <2>1
<1>8. CASE Loop \/ Quit \/ Corrupt \/ UNCHANGED vars
  BY <1>8, LoopFrame
<1> HIDE <1>0
    DEF HasPeer, ConnTypes, Advance
<1> QED
  BY <1>1, <1>2, <1>3, <1>4, <1>5, <1>6, <1>7, <1>8
  DEF Next, Step, Request

\* A packet being handled has receivers, and those it is queued for have an account.
LEMMA StepHasReceiver ==
  ASSUME TypeInv, [Next]_vars
  PROVE  HasReceiver'
<1>0. HasReceiver /\ ThreadTypes
  BY DEF TypeInv, Types
<1> USE <1>0
    DEF HasReceiver, ThreadTypes, Handling, At, Go, Reads
<1>1. ASSUME NEW t \in Threads, NEW f \in Fds, NEW u \in Uids, Accept(t, f, u)
      PROVE  HasReceiver'
  BY <1>1 DEF Accept
<1>2. ASSUME NEW f \in Fds, PeerClose(f)
      PROVE  HasReceiver'
  BY <1>2 DEF PeerClose, connVars, threadVars, userVars, histVars
<1>3. ASSUME NEW t \in Threads, LoginChecked(t)
      PROVE  HasReceiver'
  BY <1>3 DEF LoginChecked, Bind
<1>4. ASSUME NEW t \in Threads, LoginSetFd(t)
      PROVE  HasReceiver'
  BY <1>4 DEF LoginSetFd
<1>5. ASSUME NEW t \in Threads, LoginSetState(t)
      PROVE  HasReceiver'
  BY <1>5 DEF LoginSetState
<1>6. ASSUME NEW t \in Threads, LoginReply(t)
      PROVE  HasReceiver'
  BY <1>6 DEF LoginReply
<1>7. ASSUME NEW t \in Threads, NEW v \in Uids, SendMsg(t, v)
      PROVE  HasReceiver'
  <2>0. PICK to \in Seq(Uids), where \in {"work", "group"} : Receive(t, to, where)
    BY <1>7, ChatReceives DEF TypeInv
  <2>1. /\ work' = [work EXCEPT ![t] = to] /\ sent' = [sent EXCEPT ![t] = @ + 1]
        /\ sent[t] + 1 \in 1 .. MaxSend
    BY <2>0, ReceiveType DEF TypeInv
  <2>2. PICK x \in {"recv", where} : pc' = [pc EXCEPT ![t] = x] /\ (x # "recv" => to # <<>>)
    BY <2>0, ReceiveType DEF TypeInv
  <2> QED
    BY <2>1, <2>2
<1>8. ASSUME NEW t \in Threads, SendGmsg(t)
      PROVE  HasReceiver'
  <2>0. PICK to \in Seq(Uids), where \in {"work", "group"} : Receive(t, to, where)
    BY <1>8, ChatReceives DEF TypeInv
  <2>1. /\ work' = [work EXCEPT ![t] = to] /\ sent' = [sent EXCEPT ![t] = @ + 1]
        /\ sent[t] + 1 \in 1 .. MaxSend
    BY <2>0, ReceiveType DEF TypeInv
  <2>2. PICK x \in {"recv", where} : pc' = [pc EXCEPT ![t] = x] /\ (x # "recv" => to # <<>>)
    BY <2>0, ReceiveType DEF TypeInv
  <2> QED
    BY <2>1, <2>2
<1>9. ASSUME NEW t \in Threads, StepOver(t)
      PROVE  HasReceiver'
  <2>1. work[t] # <<>> /\ NextMember(t) /\ UNCHANGED sent /\ sent[t] \in 1 .. MaxSend
    BY <1>9 DEF StepOver
  <2>2. /\ work' = [work EXCEPT ![t] = Tail(@)] /\ pc'[t] \in {"recv", "group"}
        /\ \A o \in Threads \ {t} : pc'[o] = pc[o]
        /\ pc'[t] = "group" => Tail(work[t]) # <<>>
    BY <2>1, NextMemberType
  <2> QED
    BY <2>1, <2>2
<1>10. ASSUME NEW t \in Threads, Serve(t)
       PROVE  HasReceiver'
  <2>1. CASE CanServe(t) /\ Go(t, "add") /\ UNCHANGED work
    <3>1. Head(work[t]) \in Users
      BY <2>1, FindType DEF CanServe, TypeInv, Types
    <3> QED
      BY <1>10, <2>1, <3>1 DEF Serve
  <2>2. CASE Go(t, "recv") /\ work' = [work EXCEPT ![t] = <<>>]
    BY <1>10, <2>2 DEF Serve
  <2> QED
    BY <1>10, <2>1, <2>2 DEF Serve
<1>11. ASSUME NEW t \in Threads, AddCheck(t)
       PROVE  HasReceiver'
  <2>1. CASE Go(t, "append") /\ UNCHANGED work
    BY <1>11, <2>1 DEF AddCheck
  <2>2. CASE NextMember(t)
    <3>1. work[t] # <<>> /\ UNCHANGED sent /\ sent[t] \in 1 .. MaxSend
      BY <1>11 DEF AddCheck
    <3>2. /\ work' = [work EXCEPT ![t] = Tail(@)] /\ pc'[t] \in {"recv", "group"}
          /\ \A o \in Threads \ {t} : pc'[o] = pc[o]
          /\ pc'[t] = "group" => Tail(work[t]) # <<>>
      BY <2>2, <3>1, NextMemberType
    <3> QED
      BY <3>1, <3>2
  <2> QED
    BY <1>11, <2>1, <2>2 DEF AddCheck
<1>12. ASSUME NEW t \in Threads, AddMsg(t)
       PROVE  HasReceiver'
  BY <1>12 DEF AddMsg
<1>13. ASSUME NEW t \in Threads, Post(t)
       PROVE  HasReceiver'
  <2>1. work[t] # <<>> /\ NextMember(t) /\ UNCHANGED sent /\ sent[t] \in 1 .. MaxSend
    BY <1>13 DEF Post
  <2>2. /\ work' = [work EXCEPT ![t] = Tail(@)] /\ pc'[t] \in {"recv", "group"}
        /\ \A o \in Threads \ {t} : pc'[o] = pc[o]
        /\ pc'[t] = "group" => Tail(work[t]) # <<>>
    BY <2>1, NextMemberType
  <2> QED
    BY <2>1, <2>2
<1>14. ASSUME NEW t \in Threads, Eof(t)
       PROVE  HasReceiver'
  BY <1>14 DEF Eof
<1>15. ASSUME NEW t \in Threads, RecvError(t)
       PROVE  HasReceiver'
  BY <1>15 DEF RecvError
<1>16. ASSUME NEW t \in Threads, OfflineFd(t)
       PROVE  HasReceiver'
  BY <1>16 DEF OfflineFd
<1>17. ASSUME NEW t \in Threads, OfflineState(t)
       PROVE  HasReceiver'
  BY <1>17 DEF OfflineState
<1>18. ASSUME NEW t \in Threads, Close(t)
       PROVE  HasReceiver'
  BY <1>18 DEF Close
<1>19. ASSUME NEW t \in Threads,
              \/ ReqLogin(t) \/ (\E passOk \in BOOLEAN : LoginRefused(t, passOk))
              \/ Query(t) \/ GetGroupInfoUnknown(t)
       PROVE  HasReceiver'
  <2>1. UNCHANGED <<pc, work, sent>>
    BY <1>19 DEF ReqLogin, Bind, LoginRefused, Query, GetGroupInfoUnknown, Dies, threadVars
  <2> QED
    BY <2>1
<1>20. CASE Loop \/ Quit \/ Corrupt \/ UNCHANGED vars
  BY <1>20, LoopFrame
<1> HIDE <1>0
    DEF HasReceiver, ThreadTypes, Handling, At, Go, Reads
<1> QED
  BY <1>1, <1>2, <1>3, <1>4, <1>5, <1>6, <1>7, <1>8, <1>9, <1>10, <1>11, <1>12, <1>13, <1>14,
    <1>15, <1>16, <1>17, <1>18, <1>19, <1>20
  DEF Next, Step, Request

\* A login and the end of a session have a user.
LEMMA StepHasClient ==
  ASSUME TypeInv, [Next]_vars
  PROVE  HasClient'
<1>0. HasClient /\ ThreadTypes
  BY DEF TypeInv, Types
<1> USE UsersAssumption, <1>0
    DEF HasClient, ThreadTypes, At, Go, Reads, Uids
<1>1. ASSUME NEW t \in Threads, NEW f \in Fds, NEW u \in Uids, Accept(t, f, u)
      PROVE  HasClient'
  BY <1>1 DEF Accept
<1>2. ASSUME NEW f \in Fds, PeerClose(f)
      PROVE  HasClient'
  BY <1>2 DEF PeerClose, connVars, threadVars, userVars, histVars
<1>3. ASSUME NEW t \in Threads, ReqLogin(t)
      PROVE  HasClient'
  <2>1. Bind(t) /\ UNCHANGED pc
    BY <1>3 DEF ReqLogin
  <2> QED
    BY <2>1, BindType DEF TypeInv
<1>4. ASSUME NEW t \in Threads, NEW passOk \in BOOLEAN, LoginRefused(t, passOk)
      PROVE  HasClient'
  <2>1. Bind(t) /\ UNCHANGED pc
    BY <1>4 DEF LoginRefused
  <2> QED
    BY <2>1, BindType DEF TypeInv
<1>5. ASSUME NEW t \in Threads, LoginChecked(t)
      PROVE  HasClient'
  <2>1. Bind(t) /\ Go(t, "setfd") /\ Find(peer[tfd[t]]) # NoUser
    BY <1>5 DEF LoginChecked
  <2>2. bound'[t] \in Users
    BY <2>1, BindType DEF TypeInv
  <2> QED
    BY <2>1, <2>2, BindType DEF TypeInv
<1>6. ASSUME NEW t \in Threads, LoginSetFd(t)
      PROVE  HasClient'
  BY <1>6 DEF LoginSetFd
<1>7. ASSUME NEW t \in Threads, LoginSetState(t)
      PROVE  HasClient'
  BY <1>7 DEF LoginSetState
<1>8. ASSUME NEW t \in Threads, LoginReply(t)
      PROVE  HasClient'
  BY <1>8 DEF LoginReply
<1>9. ASSUME NEW t \in Threads, Query(t)
      PROVE  HasClient'
  <2>1. Bind(t) /\ UNCHANGED pc
    BY <1>9 DEF Query
  <2> QED
    BY <2>1, BindType DEF TypeInv
<1>10. ASSUME NEW t \in Threads, NEW v \in Uids, SendMsg(t, v)
       PROVE  HasClient'
  <2>0. PICK to \in Seq(Uids), where \in {"work", "group"} : Receive(t, to, where)
    BY <1>10, ChatReceives DEF TypeInv
  <2>1. Bind(t) /\ \E x \in {"recv", "work", "group"} : pc' = [pc EXCEPT ![t] = x]
    BY <2>0, ReceiveType DEF TypeInv
  <2> QED
    BY <2>1, BindType DEF TypeInv
<1>11. ASSUME NEW t \in Threads, SendGmsg(t)
       PROVE  HasClient'
  <2>0. PICK to \in Seq(Uids), where \in {"work", "group"} : Receive(t, to, where)
    BY <1>11, ChatReceives DEF TypeInv
  <2>1. Bind(t) /\ \E x \in {"recv", "work", "group"} : pc' = [pc EXCEPT ![t] = x]
    BY <2>0, ReceiveType DEF TypeInv
  <2> QED
    BY <2>1, BindType DEF TypeInv
<1>12. ASSUME NEW t \in Threads, StepOver(t)
       PROVE  HasClient'
  <2>1. PICK x \in {"recv", "group"} : pc' = [pc EXCEPT ![t] = x]
    BY <1>12 DEF StepOver, NextMember
  <2> QED
    BY <1>12, <2>1 DEF StepOver, NextMember
<1>13. ASSUME NEW t \in Threads, Serve(t)
       PROVE  HasClient'
  <2>1. PICK x \in {"add", "recv"} : pc' = [pc EXCEPT ![t] = x]
    BY <1>13 DEF Serve
  <2> QED
    BY <1>13, <2>1 DEF Serve
<1>14. ASSUME NEW t \in Threads, AddCheck(t)
       PROVE  HasClient'
  <2>1. PICK x \in {"append", "recv", "group"} : pc' = [pc EXCEPT ![t] = x]
    BY <1>14 DEF AddCheck, NextMember
  <2> QED
    BY <1>14, <2>1 DEF AddCheck, NextMember
<1>15. ASSUME NEW t \in Threads, AddMsg(t)
       PROVE  HasClient'
  BY <1>15 DEF AddMsg
<1>16. ASSUME NEW t \in Threads, Post(t)
       PROVE  HasClient'
  <2>1. PICK x \in {"recv", "group"} : pc' = [pc EXCEPT ![t] = x]
    BY <1>16 DEF Post, NextMember
  <2> QED
    BY <1>16, <2>1 DEF Post, NextMember
<1>17. ASSUME NEW t \in Threads, Eof(t)
       PROVE  HasClient'
  BY <1>17 DEF Eof
<1>18. ASSUME NEW t \in Threads, RecvError(t)
       PROVE  HasClient'
  BY <1>18 DEF RecvError
<1>19. ASSUME NEW t \in Threads, OfflineFd(t)
       PROVE  HasClient'
  BY <1>19 DEF OfflineFd
<1>20. ASSUME NEW t \in Threads, OfflineState(t)
       PROVE  HasClient'
  BY <1>20 DEF OfflineState
<1>21. ASSUME NEW t \in Threads, Close(t)
       PROVE  HasClient'
  BY <1>21 DEF Close
<1>22. ASSUME NEW t \in Threads,
              \/ GetGroupInfoUnknown(t)
       PROVE  HasClient'
  <2>1. UNCHANGED <<pc, bound>>
    BY <1>22 DEF GetGroupInfoUnknown, Dies, threadVars
  <2> QED
    BY <2>1
<1>23. CASE Loop \/ Quit \/ Corrupt \/ UNCHANGED vars
  BY <1>23, LoopFrame
<1> HIDE UsersAssumption, <1>0
    DEF HasClient, ThreadTypes, At, Go, Reads, Uids
<1> QED
  BY <1>1, <1>2, <1>3, <1>4, <1>5, <1>6, <1>7, <1>8, <1>9, <1>10, <1>11, <1>12, <1>13, <1>14,
    <1>15, <1>16, <1>17, <1>18, <1>19, <1>20, <1>21, <1>22, <1>23
  DEF Next, Step, Request

\* The user table.
LEMMA StepUserTypes ==
  ASSUME TypeInv, [Next]_vars
  PROVE  UserTypes'
<1>0. UserTypes /\ ThreadTypes /\ HasClient
  BY DEF TypeInv, Types
<1> USE <1>0
    DEF UserTypes, ThreadTypes, HasClient, At, Go, userVars, histVars
<1>1. ASSUME NEW f \in Fds, PeerClose(f)
      PROVE  UserTypes'
  BY <1>1 DEF PeerClose, connVars, threadVars, userVars, histVars
<1>2. ASSUME NEW t \in Threads, ReqLogin(t)
      PROVE  UserTypes'
  <2>1. Bind(t) /\ UNCHANGED <<ufd, online, sess, failed, dead>>
    BY <1>2 DEF ReqLogin, histVars
  <2> QED
    BY <2>1, BindType DEF TypeInv
<1>3. ASSUME NEW t \in Threads, NEW passOk \in BOOLEAN, LoginRefused(t, passOk)
      PROVE  UserTypes'
  <2>1. Bind(t) /\ UNCHANGED <<ufd, online, sess, failed, dead>>
    BY <1>3 DEF LoginRefused, histVars
  <2> QED
    BY <2>1, BindType DEF TypeInv
<1>4. ASSUME NEW t \in Threads, LoginChecked(t)
      PROVE  UserTypes'
  <2>1. Bind(t) /\ UNCHANGED <<ufd, online, sess, failed, dead>>
    BY <1>4 DEF LoginChecked, histVars
  <2> QED
    BY <2>1, BindType DEF TypeInv
<1>5. ASSUME NEW t \in Threads, LoginSetFd(t)
      PROVE  UserTypes'
  BY <1>5 DEF LoginSetFd
<1>6. ASSUME NEW t \in Threads, LoginSetState(t)
      PROVE  UserTypes'
  BY <1>6 DEF LoginSetState
<1>7. ASSUME NEW t \in Threads, Query(t)
      PROVE  UserTypes'
  <2>1. Bind(t) /\ UNCHANGED <<ufd, online, sess, failed, dead>>
    BY <1>7 DEF Query, histVars
  <2> QED
    BY <2>1, BindType DEF TypeInv
<1>8. ASSUME NEW t \in Threads, GetGroupInfoUnknown(t)
      PROVE  UserTypes'
  BY <1>8 DEF GetGroupInfoUnknown, Dies
<1>9. ASSUME NEW t \in Threads, NEW v \in Uids, SendMsg(t, v)
      PROVE  UserTypes'
  <2>0. PICK to \in Seq(Uids), where \in {"work", "group"} : Receive(t, to, where)
    BY <1>9, ChatReceives DEF TypeInv
  <2>1. Bind(t) /\ UNCHANGED <<ufd, online, sess, failed, dead>>
    BY <2>0, ReceiveType DEF TypeInv
  <2> QED
    BY <2>1, BindType DEF TypeInv
<1>10. ASSUME NEW t \in Threads, SendGmsg(t)
       PROVE  UserTypes'
  <2>0. PICK to \in Seq(Uids), where \in {"work", "group"} : Receive(t, to, where)
    BY <1>10, ChatReceives DEF TypeInv
  <2>1. Bind(t) /\ UNCHANGED <<ufd, online, sess, failed, dead>>
    BY <2>0, ReceiveType DEF TypeInv
  <2> QED
    BY <2>1, BindType DEF TypeInv
<1>11. ASSUME NEW t \in Threads, RecvError(t)
       PROVE  UserTypes'
  BY <1>11 DEF RecvError
<1>12. ASSUME NEW t \in Threads, OfflineFd(t)
       PROVE  UserTypes'
  BY <1>12 DEF OfflineFd
<1>13. ASSUME NEW t \in Threads, OfflineState(t)
       PROVE  UserTypes'
  BY <1>13 DEF OfflineState
<1>14. ASSUME NEW t \in Threads,
              \/ (\E f \in Fds, u \in Uids : Accept(t, f, u)) \/ LoginReply(t)
              \/ StepOver(t) \/ Serve(t) \/ AddCheck(t) \/ AddMsg(t) \/ Post(t)
              \/ Eof(t) \/ Close(t)
       PROVE  UserTypes'
  <2>1. UNCHANGED <<ufd, online, udata, sess, failed, dead>>
    BY <1>14 DEF Accept, LoginReply, StepOver, NextMember, Serve, AddCheck, AddMsg, Post, Eof,
      Close, userVars, histVars
  <2> QED
    BY <2>1
<1>15. CASE Loop \/ UNCHANGED vars
  <2>1. UNCHANGED <<ufd, online, udata, sess, failed, dead>>
    BY <1>15 DEF Loop, InitGroup, InitUser, MainLoop, BuddytreeFill, BuddytreeUpdate, DeliverCheck,
       DeliverTake, DeliverSend, DeliverReturn, userVars, histVars, vars
  <2> QED
    BY <2>1
<1>16. CASE Quit \/ Corrupt
  BY <1>16 DEF Quit, Corrupt, Dies
<1> HIDE <1>0
    DEF UserTypes, ThreadTypes, HasClient, At, Go, userVars, histVars
<1> QED
  BY <1>1, <1>2, <1>3, <1>4, <1>5, <1>6, <1>7, <1>8, <1>9, <1>10, <1>11, <1>12, <1>13, <1>14,
    <1>15, <1>16
  DEF Next, Step, Request

\* What stk_add_msg() appends.
LEMMA AddMsgAppends ==
  ASSUME TypeInv, NEW t \in Threads, AddMsg(t)
  PROVE  LET u == Head(work[t])
             m == <<t, sent[t], Session(u)>>
         IN /\ u \in Users /\ m \in Msgs /\ sent[t] \in 1 .. MaxSend /\ work[t] # <<>>
            /\ mail' = [mail EXCEPT ![u] = Append(@, m)]
            /\ pc[t] = "append" /\ pc' = [pc EXCEPT ![t] = "post"]
            /\ UNCHANGED <<bound, work, sent, tfd, peer, stage, ufd, online, udata, sess, got,
                           mcl, mmsg, mfd, idle>>
BY DEF AddMsg, TypeInv, Types, UserTypes, ThreadTypes, HasReceiver, Handling, Session, Msgs, At, Go,
   connVars, loopVars, histVars

LEMMA StepMailTypes ==
  ASSUME TypeInv, [Next]_vars
  PROVE  MailTypes'
<1>0. MailTypes /\ mmsg \in Msgs \cup {NoMsg}
  BY DEF TypeInv, Types, LoopTypes
<1>1. ASSUME NEW t \in Threads, AddMsg(t)
      PROVE  MailTypes'
  <2> DEFINE u == Head(work[t])
             m == <<t, sent[t], Session(u)>>
  <2>1. u \in Users /\ m \in Msgs /\ mail' = [mail EXCEPT ![u] = Append(@, m)] /\ got' = got
    BY <1>1, AddMsgAppends
  <2> HIDE DEF u, m
  <2>2. Append(mail[u], m) \in Seq(Msgs)
    BY <1>0, <2>1 DEF MailTypes
  <2> QED
    BY <1>0, <2>1, <2>2 DEF MailTypes
<1>2. ASSUME NEW u \in Users, DeliverTake(u)
      PROVE  MailTypes'
  <2>1. Tail(mail[u]) \in Seq(Msgs)
    BY <1>0, <1>2 DEF DeliverTake, MailTypes
  <2> QED
    BY <1>0, <1>2, <2>1 DEF DeliverTake, MailTypes, histVars
<1>3. ASSUME NEW u \in Users, DeliverSend(u)
      PROVE  MailTypes'
  <2>1. Append(got[u], mmsg) \in Seq(Msgs)
    BY <1>0, <1>3 DEF DeliverSend, MailTypes
  <2> QED
    BY <1>0, <1>3, <2>1 DEF DeliverSend, MailTypes, userVars
<1>4. ASSUME NEW t \in Threads, Step(t) \/ Request(t) \/ RecvError(t), ~AddMsg(t)
      PROVE  UNCHANGED <<mail, got>>
  BY <1>4 DEF Step, Request, LoginSetFd, LoginSetState, LoginReply, StepOver, Serve, AddCheck, Post,
     Eof, OfflineFd, OfflineState, Close, ReqLogin, LoginChecked, LoginRefused, SendMsg, SendGmsg,
     Receive, Query, GetGroupInfoUnknown, Dies, RecvError, userVars, histVars
<1>5. ASSUME NEW u \in Users, BuddytreeFill(u) \/ BuddytreeUpdate(u) \/ DeliverCheck(u) \/ DeliverReturn(u)
      PROVE  UNCHANGED <<mail, got>>
  BY <1>5 DEF BuddytreeFill, BuddytreeUpdate, DeliverCheck, DeliverReturn, userVars, histVars
<1>6. ASSUME \/ InitGroup \/ InitUser \/ MainLoop \/ Quit \/ Corrupt \/ UNCHANGED vars
             \/ \E t \in Threads, f \in Fds, u \in Uids : Accept(t, f, u)
             \/ \E f \in Fds : PeerClose(f)
      PROVE  UNCHANGED <<mail, got>>
  BY <1>6 DEF InitGroup, InitUser, MainLoop, Quit, Corrupt, Dies, Accept, PeerClose, userVars,
     histVars, vars
<1> QED
  BY <1>0, <1>1, <1>2, <1>3, <1>4, <1>5, <1>6 DEF Next, Loop, MailTypes

\* A callback is queued at the end.
LEMMA IdleAddType ==
  ASSUME idle \in Seq(Tasks), NEW u \in Users, NEW fn \in {"deliver", "update"}, IdleAdd(fn, u)
  PROVE  idle' = Append(idle, <<fn, u>>) /\ <<fn, u>> \in Tasks /\ idle' \in Seq(Tasks)
BY DEF IdleAdd, Tasks

LEMMA RunsType ==
  ASSUME idle \in Seq(Tasks), NEW u \in Users, NEW fn \in {"deliver", "update"}, Runs(fn, u)
  PROVE  /\ mcl = NoUser /\ idle # <<>> /\ Head(idle) = <<fn, u>> /\ Tail(idle) \in Seq(Tasks)
BY DEF Runs

LEMMA StepLoopTypes ==
  ASSUME TypeInv, [Next]_vars
  PROVE  LoopTypes'
<1>0. LoopTypes /\ UserTypes /\ MailTypes /\ ThreadTypes /\ HasClient /\ HasReceiver
  BY DEF TypeInv, Types
<1>1. ASSUME UNCHANGED <<uiVars, mcl, mmsg, mfd>>, idle' \in Seq(Tasks)
      PROVE  LoopTypes'
  BY <1>0, <1>1 DEF LoopTypes, uiVars
<1>2. ASSUME UNCHANGED <<uiVars, loopVars>>
      PROVE  LoopTypes'
  BY <1>0, <1>1, <1>2 DEF LoopTypes, loopVars
<1>3. ASSUME NEW t \in Threads, LoginReply(t) \/ Post(t) \/ Close(t)
      PROVE  LoopTypes'
  <2>1. CASE LoginReply(t)
    <3>1. bound[t] \in Users /\ idle \in Seq(Tasks)
      BY <1>0, <2>1 DEF LoginReply, At, HasClient, LoopTypes
    <3> QED
      BY <1>1, <2>1, <3>1, IdleAddType DEF LoginReply
  <2>2. CASE Post(t)
    <3>1. Head(work[t]) \in Users /\ idle \in Seq(Tasks)
      BY <1>0, <2>2 DEF Post, At, HasReceiver, LoopTypes
    <3> QED
      BY <1>1, <2>2, <3>1, IdleAddType DEF Post
  <2>3. CASE Close(t)
    <3>1. (pc[t] = "left" => bound[t] \in Users) /\ idle \in Seq(Tasks)
      BY <1>0, <2>3 DEF Close, At, HasClient, LoopTypes
    <3> QED
      BY <1>1, <2>3, <3>1, IdleAddType DEF Close
  <2> QED
    BY <1>3, <2>1, <2>2, <2>3
<1>4. ASSUME NEW t \in Threads, Step(t) \/ Request(t) \/ RecvError(t),
             ~LoginReply(t), ~Post(t), ~Close(t)
      PROVE  LoopTypes'
  <2>1. UNCHANGED <<uiVars, loopVars>>
    BY <1>4 DEF Step, Request, LoginSetFd, LoginSetState, StepOver, Serve, AddCheck, AddMsg,
       Eof, OfflineFd, OfflineState, ReqLogin, LoginChecked, LoginRefused, SendMsg, SendGmsg,
       Receive, Query, GetGroupInfoUnknown, Dies, RecvError
  <2> QED
    BY <1>2, <2>1
<1>5. CASE InitGroup \/ InitUser \/ MainLoop
  <2>1. UNCHANGED <<shown, loopVars>> /\ ui' \in {"groups", "users", "window", "loop"}
    BY <1>0, <1>5 DEF InitGroup, InitUser, MainLoop, LoopTypes
  <2>2. loaded' \in 0 .. Len(UserFile)
    <3>0. Len(UserFile) \in Nat
      BY UsersAssumption
    <3>1. Len(UserFile) \in Nat /\ loaded \in 0 .. Len(UserFile)
      BY <1>0, <3>0 DEF LoopTypes
    <3>2. loaded' = loaded \/ (loaded' = loaded + 1 /\ loaded < Len(UserFile))
      BY <1>5 DEF InitGroup, InitUser, MainLoop
    <3> QED
      BY <3>1, <3>2
  <2> QED
    BY <1>0, <2>1, <2>2 DEF LoopTypes, loopVars
<1>6. ASSUME NEW u \in Users, BuddytreeFill(u) \/ BuddytreeUpdate(u)
      PROVE  LoopTypes'
  <2>1. shown' = [shown EXCEPT ![u] = Status(u)] /\ UNCHANGED <<ui, loaded, mcl, mmsg, mfd>>
    BY <1>6 DEF BuddytreeFill, BuddytreeUpdate, loopVars
  <2>2. idle' \in Seq(Tasks)
    BY <1>0, <1>6, RunsType DEF BuddytreeFill, BuddytreeUpdate, loopVars, LoopTypes
  <2> QED
    BY <1>0, <2>1, <2>2 DEF LoopTypes, Status
<1>7. ASSUME NEW u \in Users, DeliverCheck(u)
      PROVE  LoopTypes'
  <2>1. idle' \in Seq(Tasks) /\ mcl' \in Users \cup {NoUser} /\ UNCHANGED <<uiVars, mmsg, mfd>>
    BY <1>0, <1>7, RunsType DEF DeliverCheck, LoopTypes
  <2> QED
    BY <1>0, <2>1 DEF LoopTypes, uiVars
<1>8. ASSUME NEW u \in Users, DeliverTake(u)
      PROVE  LoopTypes'
  <2>1. Head(mail[u]) \in Msgs /\ ufd[u] \in Fds \cup {NoFd}
    BY <1>0, <1>8 DEF DeliverTake, MailTypes, UserTypes
  <2> QED
    BY <1>0, <1>8, <2>1 DEF DeliverTake, LoopTypes, uiVars
<1>9. ASSUME NEW u \in Users, DeliverSend(u) \/ DeliverReturn(u)
      PROVE  LoopTypes'
  BY <1>0, <1>9 DEF DeliverSend, DeliverReturn, LoopTypes, uiVars
<1>10. ASSUME \/ Quit \/ Corrupt \/ UNCHANGED vars
              \/ \E t \in Threads, f \in Fds, u \in Uids : Accept(t, f, u)
              \/ \E f \in Fds : PeerClose(f)
       PROVE  LoopTypes'
  <2>1. UNCHANGED <<uiVars, loopVars>>
    BY <1>10 DEF Quit, Corrupt, Dies, Accept, PeerClose, vars
  <2> QED
    BY <1>2, <2>1
<1> QED
  BY <1>3, <1>4, <1>5, <1>6, <1>7, <1>8, <1>9, <1>10 DEF Next, Loop

LEMMA StepTypeInv ==
  ASSUME TypeInv, [Next]_vars
  PROVE  TypeInv'
BY StepLoopTypes, StepThreadTypes, StepConnTypes, StepUserTypes, StepMailTypes, StepHasPeer,
   StepHasReceiver, StepHasClient DEF TypeInv, Types

\* Every variable keeps its type, whatever the constants are.
THEOREM TypeCorrect == Spec => []TypeOK
<1>1. Spec => []TypeInv
  BY InitTypeInv, StepTypeInv, PTL DEF Spec
<1>2. TypeInv => TypeOK
  BY DEF TypeInv, Types, TypeOK, LoopTypes, ThreadTypes, ConnTypes, UserTypes, MailTypes
<1> QED
  BY <1>1, <1>2, PTL

-----------------------------------------------------------------------------
(* Descriptors and the user table                                          *)

Live(t) == pc[t] \notin {"none", "done"}

\* A thread that runs has an open descriptor of its own.
OneThreadPerFd ==
  /\ \A t \in Threads : Live(t) => tfd[t] \in Fds /\ stage[tfd[t]] # "free"
  /\ \A t \in Threads : ~Live(t) => bound[t] = NoUser
  /\ \A t, o \in Threads : Live(t) /\ Live(o) /\ tfd[t] = tfd[o] => t = o

\* It serves the client at the other end.
ServesPeer == \A t \in Threads : bound[t] # NoUser => bound[t] = peer[tfd[t]]

\* t still has all of stk_user_offline() before it.
Serves(t) == pc[t] \notin {"none", "left", "close", "done"}

\* A descriptor in the user table is that of a thread that will clear it.
FdOwner ==
  \A u \in Users :
    \/ ufd[u] = NoFd \/ u \in failed
    \/ \E t \in Threads : bound[t] = u /\ tfd[t] = ufd[u] /\ Serves(t) /\ pc[t] # "off2"

\* So is a stkc_data.
DataOwner ==
  \A u \in Users :
    udata[u] = NoThread \/ u \in failed \/ (bound[udata[u]] = u /\ Serves(udata[u]))

OwnInv == OneThreadPerFd /\ ServesPeer /\ FdOwner /\ DataOwner /\ NoZombie

LEMMA InitOwnInv == Init => OwnInv
<1> SUFFICES ASSUME Init
             PROVE  OwnInv
  OBVIOUS
<1>1. OneThreadPerFd /\ ServesPeer
  BY DEF Init, OneThreadPerFd, Live, ServesPeer
<1>2. FdOwner /\ DataOwner /\ NoZombie
  BY DEF Init, FdOwner, DataOwner, NoZombie
<1> QED
  BY <1>1, <1>2 DEF OwnInv

\* Where the list of receivers leads a thread.
LEMMA NextMemberPc ==
  ASSUME NEW t \in Threads, NextMember(t)
  PROVE  \E x \in {"recv", "group"} : pc' = [pc EXCEPT ![t] = x]
BY DEF NextMember, Go

\* accept() never returns a descriptor that is open.
LEMMA StepOneThreadPerFd ==
  ASSUME TypeInv, OneThreadPerFd, [Next]_vars
  PROVE  OneThreadPerFd'
<1>0. OneThreadPerFd /\ ThreadTypes /\ ConnTypes
  BY DEF TypeInv, Types
<1> USE UsersAssumption, NamesAssumption, <1>0
    DEF OneThreadPerFd, Live, ThreadTypes, ConnTypes, At, Go, Reads, Advance, connVars,
      threadVars
<1>1. ASSUME NEW t \in Threads, NEW f \in Fds, NEW u \in Uids, Accept(t, f, u)
      PROVE  OneThreadPerFd'
  BY <1>1 DEF Accept
<1>2. ASSUME NEW f \in Fds, PeerClose(f)
      PROVE  OneThreadPerFd'
  BY <1>2 DEF PeerClose, connVars, threadVars, userVars, histVars
<1>3. ASSUME NEW t \in Threads, ReqLogin(t)
      PROVE  OneThreadPerFd'
  <2>1. Bind(t) /\ UNCHANGED tfd /\ pc[t] = "recv" /\ (pc' = pc \/ pc' = [pc EXCEPT ![t] = "setfd"])
    BY <1>3 DEF ReqLogin
  <2>2. \A o \in Threads \ {t} : bound'[o] = bound[o]
    BY <2>1, BindType DEF TypeInv
  <2>3. \A f \in Fds : stage[f] # "free" => stage'[f] # "free"
    BY <1>3 DEF ReqLogin
  <2>4. \A o \in Threads : (Live(o))' <=> Live(o)
    BY <2>1
  <2> QED
    BY <2>1, <2>2, <2>3, <2>4
<1>4. ASSUME NEW t \in Threads, NEW passOk \in BOOLEAN, LoginRefused(t, passOk)
      PROVE  OneThreadPerFd'
  <2>1. Bind(t) /\ UNCHANGED tfd /\ pc[t] = "recv" /\ (pc' = pc \/ pc' = [pc EXCEPT ![t] = "setfd"])
    BY <1>4 DEF LoginRefused
  <2>2. \A o \in Threads \ {t} : bound'[o] = bound[o]
    BY <2>1, BindType DEF TypeInv
  <2>3. \A f \in Fds : stage[f] # "free" => stage'[f] # "free"
    BY <1>4 DEF LoginRefused
  <2>4. \A o \in Threads : (Live(o))' <=> Live(o)
    BY <2>1
  <2> QED
    BY <2>1, <2>2, <2>3, <2>4
<1>5. ASSUME NEW t \in Threads, LoginChecked(t)
      PROVE  OneThreadPerFd'
  <2>1. Bind(t) /\ UNCHANGED tfd /\ pc[t] = "recv" /\ (pc' = pc \/ pc' = [pc EXCEPT ![t] = "setfd"])
    BY <1>5 DEF LoginChecked
  <2>2. \A o \in Threads \ {t} : bound'[o] = bound[o]
    BY <2>1, BindType DEF TypeInv
  <2>3. \A f \in Fds : stage[f] # "free" => stage'[f] # "free"
    BY <1>5 DEF LoginChecked
  <2>4. \A o \in Threads : (Live(o))' <=> Live(o)
    BY <2>1
  <2> QED
    BY <2>1, <2>2, <2>3, <2>4
<1>6. ASSUME NEW t \in Threads, LoginSetFd(t)
      PROVE  OneThreadPerFd'
  BY <1>6 DEF LoginSetFd
<1>7. ASSUME NEW t \in Threads, LoginSetState(t)
      PROVE  OneThreadPerFd'
  BY <1>7 DEF LoginSetState
<1>8. ASSUME NEW t \in Threads, LoginReply(t)
      PROVE  OneThreadPerFd'
  BY <1>8 DEF LoginReply
<1>9. ASSUME NEW t \in Threads, Query(t)
      PROVE  OneThreadPerFd'
  <2>1. Bind(t) /\ UNCHANGED tfd /\ pc[t] = "recv" /\ (pc' = pc \/ pc' = [pc EXCEPT ![t] = "setfd"])
    BY <1>9 DEF Query
  <2>2. \A o \in Threads \ {t} : bound'[o] = bound[o]
    BY <2>1, BindType DEF TypeInv
  <2>3. \A f \in Fds : stage[f] # "free" => stage'[f] # "free"
    BY <1>9 DEF Query
  <2>4. \A o \in Threads : (Live(o))' <=> Live(o)
    BY <2>1
  <2> QED
    BY <2>1, <2>2, <2>3, <2>4
<1>10. ASSUME NEW t \in Threads, NEW v \in Uids, SendMsg(t, v)
       PROVE  OneThreadPerFd'
  <2>0. PICK to \in Seq(Uids), where \in {"work", "group"} : Receive(t, to, where)
    BY <1>10, ChatReceives DEF TypeInv
  <2>1. /\ Bind(t) /\ pc[t] = "recv" /\ UNCHANGED <<tfd, stage>>
        /\ \E x \in {"recv", "work", "group"} : pc' = [pc EXCEPT ![t] = x]
    BY <2>0, ReceiveType DEF TypeInv
  <2> QED
    BY <2>1, BindType DEF TypeInv
<1>11. ASSUME NEW t \in Threads, SendGmsg(t)
       PROVE  OneThreadPerFd'
  <2>0. PICK to \in Seq(Uids), where \in {"work", "group"} : Receive(t, to, where)
    BY <1>11, ChatReceives DEF TypeInv
  <2>1. /\ Bind(t) /\ pc[t] = "recv" /\ UNCHANGED <<tfd, stage>>
        /\ \E x \in {"recv", "work", "group"} : pc' = [pc EXCEPT ![t] = x]
    BY <2>0, ReceiveType DEF TypeInv
  <2> QED
    BY <2>1, BindType DEF TypeInv
<1>12. ASSUME NEW t \in Threads, StepOver(t)
       PROVE  OneThreadPerFd'
  <2>1. /\ UNCHANGED <<tfd, bound, stage>> /\ pc[t] \in {"group", "work", "add", "append", "post"}
        /\ \E x \in {"recv", "group", "add", "append"} : pc' = [pc EXCEPT ![t] = x]
    BY <1>12, NextMemberPc DEF StepOver, connVars
  <2> QED
    BY <2>1
<1>13. ASSUME NEW t \in Threads, Serve(t)
       PROVE  OneThreadPerFd'
  <2>1. /\ UNCHANGED <<tfd, bound, stage>> /\ pc[t] \in {"group", "work", "add", "append", "post"}
        /\ \E x \in {"recv", "group", "add", "append"} : pc' = [pc EXCEPT ![t] = x]
    BY <1>13, NextMemberPc DEF Serve, connVars
  <2> QED
    BY <2>1
<1>14. ASSUME NEW t \in Threads, AddCheck(t)
       PROVE  OneThreadPerFd'
  <2>1. /\ UNCHANGED <<tfd, bound, stage>> /\ pc[t] \in {"group", "work", "add", "append", "post"}
        /\ \E x \in {"recv", "group", "add", "append"} : pc' = [pc EXCEPT ![t] = x]
    BY <1>14, NextMemberPc DEF AddCheck, connVars
  <2> QED
    BY <2>1
<1>15. ASSUME NEW t \in Threads, AddMsg(t)
       PROVE  OneThreadPerFd'
  BY <1>15 DEF AddMsg
<1>16. ASSUME NEW t \in Threads, Post(t)
       PROVE  OneThreadPerFd'
  <2>1. /\ UNCHANGED <<tfd, bound, stage>> /\ pc[t] \in {"group", "work", "add", "append", "post"}
        /\ \E x \in {"recv", "group", "add", "append"} : pc' = [pc EXCEPT ![t] = x]
    BY <1>16, NextMemberPc DEF Post, connVars
  <2> QED
    BY <2>1
<1>17. ASSUME NEW t \in Threads, Eof(t)
       PROVE  OneThreadPerFd'
  BY <1>17 DEF Eof
<1>18. ASSUME NEW t \in Threads, RecvError(t)
       PROVE  OneThreadPerFd'
  BY <1>18 DEF RecvError
<1>19. ASSUME NEW t \in Threads, OfflineFd(t)
       PROVE  OneThreadPerFd'
  BY <1>19 DEF OfflineFd
<1>20. ASSUME NEW t \in Threads, OfflineState(t)
       PROVE  OneThreadPerFd'
  BY <1>20 DEF OfflineState
<1>21. ASSUME NEW t \in Threads, Close(t)
       PROVE  OneThreadPerFd'
  BY <1>21 DEF Close
<1>22. ASSUME NEW t \in Threads,
              \/ GetGroupInfoUnknown(t)
       PROVE  OneThreadPerFd'
  <2>1. UNCHANGED <<pc, tfd, bound, stage>>
    BY <1>22 DEF GetGroupInfoUnknown, Dies
  <2> QED
    BY <2>1
<1>23. CASE Loop \/ Quit \/ Corrupt \/ UNCHANGED vars
  BY <1>23, LoopFrame
<1> HIDE UsersAssumption, NamesAssumption, <1>0
    DEF OneThreadPerFd, Live, ThreadTypes, ConnTypes, At, Go, Reads, Advance, connVars,
      threadVars
<1> QED
  BY <1>1, <1>2, <1>3, <1>4, <1>5, <1>6, <1>7, <1>8, <1>9, <1>10, <1>11, <1>12, <1>13, <1>14,
    <1>15, <1>16, <1>17, <1>18, <1>19, <1>20, <1>21, <1>22, <1>23
  DEF Next, Step, Request

\* A thread is bound to the client it reads from.
LEMMA StepServesPeer ==
  ASSUME TypeInv, OneThreadPerFd, ServesPeer, [Next]_vars
  PROVE  ServesPeer'
<1>0. ServesPeer /\ OneThreadPerFd /\ ThreadTypes /\ ConnTypes
  BY DEF TypeInv, Types
<1> USE <1>0
    DEF ServesPeer, OneThreadPerFd, Live, ThreadTypes, ConnTypes, At, Reads, Advance, connVars,
      threadVars
<1>1. ASSUME NEW t \in Threads, NEW f \in Fds, NEW u \in Uids, Accept(t, f, u)
      PROVE  ServesPeer'
  BY <1>1 DEF Accept
<1>2. ASSUME NEW f \in Fds, PeerClose(f)
      PROVE  ServesPeer'
  BY <1>2 DEF PeerClose, connVars, threadVars, userVars, histVars
<1>3. ASSUME NEW t \in Threads, ReqLogin(t)
      PROVE  ServesPeer'
  <2>1. Bind(t) /\ UNCHANGED <<tfd, peer>> /\ pc[t] = "recv" /\ tfd[t] \in Fds
    BY <1>3 DEF ReqLogin
  <2>2. bound'[t] # NoUser => bound'[t] = peer[tfd[t]]
    BY <2>1, BindType, FindType DEF TypeInv, Types
  <2>3. \A o \in Threads \ {t} : bound'[o] = bound[o]
    BY <2>1, BindType DEF TypeInv
  <2> QED
    BY <2>1, <2>2, <2>3
<1>4. ASSUME NEW t \in Threads, NEW passOk \in BOOLEAN, LoginRefused(t, passOk)
      PROVE  ServesPeer'
  <2>1. Bind(t) /\ UNCHANGED <<tfd, peer>> /\ pc[t] = "recv" /\ tfd[t] \in Fds
    BY <1>4 DEF LoginRefused
  <2>2. bound'[t] # NoUser => bound'[t] = peer[tfd[t]]
    BY <2>1, BindType, FindType DEF TypeInv, Types
  <2>3. \A o \in Threads \ {t} : bound'[o] = bound[o]
    BY <2>1, BindType DEF TypeInv
  <2> QED
    BY <2>1, <2>2, <2>3
<1>5. ASSUME NEW t \in Threads, LoginChecked(t)
      PROVE  ServesPeer'
  <2>1. Bind(t) /\ UNCHANGED <<tfd, peer>> /\ pc[t] = "recv" /\ tfd[t] \in Fds
    BY <1>5 DEF LoginChecked
  <2>2. bound'[t] # NoUser => bound'[t] = peer[tfd[t]]
    BY <2>1, BindType, FindType DEF TypeInv, Types
  <2>3. \A o \in Threads \ {t} : bound'[o] = bound[o]
    BY <2>1, BindType DEF TypeInv
  <2> QED
    BY <2>1, <2>2, <2>3
<1>6. ASSUME NEW t \in Threads, Query(t)
      PROVE  ServesPeer'
  <2>1. Bind(t) /\ UNCHANGED <<tfd, peer>> /\ pc[t] = "recv" /\ tfd[t] \in Fds
    BY <1>6 DEF Query
  <2>2. bound'[t] # NoUser => bound'[t] = peer[tfd[t]]
    BY <2>1, BindType, FindType DEF TypeInv, Types
  <2>3. \A o \in Threads \ {t} : bound'[o] = bound[o]
    BY <2>1, BindType DEF TypeInv
  <2> QED
    BY <2>1, <2>2, <2>3
<1>7. ASSUME NEW t \in Threads, NEW v \in Uids, SendMsg(t, v)
      PROVE  ServesPeer'
  <2>0. PICK to \in Seq(Uids), where \in {"work", "group"} : Receive(t, to, where)
    BY <1>7, ChatReceives DEF TypeInv
  <2>1. Bind(t) /\ UNCHANGED <<tfd, peer>>
    BY <2>0, ReceiveType DEF TypeInv
  <2>2. bound'[t] # NoUser => bound'[t] = peer[tfd[t]]
    BY <2>1, BindType, FindType DEF TypeInv, Types
  <2>3. \A o \in Threads \ {t} : bound'[o] = bound[o]
    BY <2>1, BindType DEF TypeInv
  <2> QED
    BY <2>1, <2>2, <2>3
<1>8. ASSUME NEW t \in Threads, SendGmsg(t)
      PROVE  ServesPeer'
  <2>0. PICK to \in Seq(Uids), where \in {"work", "group"} : Receive(t, to, where)
    BY <1>8, ChatReceives DEF TypeInv
  <2>1. Bind(t) /\ UNCHANGED <<tfd, peer>>
    BY <2>0, ReceiveType DEF TypeInv
  <2>2. bound'[t] # NoUser => bound'[t] = peer[tfd[t]]
    BY <2>1, BindType, FindType DEF TypeInv, Types
  <2>3. \A o \in Threads \ {t} : bound'[o] = bound[o]
    BY <2>1, BindType DEF TypeInv
  <2> QED
    BY <2>1, <2>2, <2>3
<1>9. ASSUME NEW t \in Threads, Close(t)
      PROVE  ServesPeer'
  BY <1>9 DEF Close
<1>10. ASSUME NEW t \in Threads,
              \/ LoginSetFd(t) \/ LoginSetState(t) \/ LoginReply(t)
              \/ GetGroupInfoUnknown(t) \/ StepOver(t) \/ Serve(t) \/ AddCheck(t)
              \/ AddMsg(t) \/ Post(t) \/ Eof(t) \/ RecvError(t) \/ OfflineFd(t)
              \/ OfflineState(t)
       PROVE  ServesPeer'
  <2>1. UNCHANGED <<tfd, bound, peer>>
    BY <1>10 DEF LoginSetFd, LoginSetState, LoginReply, GetGroupInfoUnknown, Dies, StepOver,
      NextMember, Serve, AddCheck, AddMsg, Post, Eof, RecvError, OfflineFd, OfflineState
  <2> QED
    BY <2>1
<1>11. CASE Loop \/ Quit \/ Corrupt \/ UNCHANGED vars
  BY <1>11, LoopFrame
<1> HIDE <1>0
    DEF ServesPeer, OneThreadPerFd, Live, ThreadTypes, ConnTypes, At, Reads, Advance, connVars,
      threadVars
<1> QED
  BY <1>1, <1>2, <1>3, <1>4, <1>5, <1>6, <1>7, <1>8, <1>9, <1>10, <1>11
  DEF Next, Step, Request

\* A thread that goes on serving goes on owning what it owns.
LEMMA KeepsOwning ==
  ASSUME FdOwner, DataOwner, UserTypes, UNCHANGED <<ufd, failed>>,
         \A o \in Threads, u \in Users :
           bound[o] = u /\ Serves(o) => bound'[o] = u /\ (Serves(o))' /\ tfd'[o] = tfd[o],
         \A o \in Threads : pc'[o] = "off2" => pc[o] = "off2",
         \A u \in Users : udata'[u] = udata[u] \/ udata'[u] = NoThread
                          \/ \E o \in Threads : udata'[u] = o /\ bound'[o] = u /\ (Serves(o))'
  PROVE  FdOwner' /\ DataOwner'
<1>1. FdOwner'
  BY DEF FdOwner
<1>2. DataOwner'
  <2>1. ASSUME NEW u \in Users, udata'[u] # NoThread, u \notin failed
        PROVE  \E o \in Threads : udata'[u] = o /\ bound'[o] = u /\ (Serves(o))'
    <3>1. CASE udata'[u] = udata[u]
      BY <2>1, <3>1 DEF DataOwner, UserTypes
    <3>2. CASE udata'[u] # udata[u]
      BY <2>1, <3>2
    <3> QED
      BY <3>1, <3>2
  <2> QED
    BY <2>1 DEF DataOwner, Serves
<1> QED
  BY <1>1, <1>2

\* What a thread leaves in the user table it clears, unless recv() fails.
LEMMA StepOwners ==
  ASSUME TypeInv, OneThreadPerFd, FdOwner, DataOwner, [Next]_vars
  PROVE  (FdOwner /\ DataOwner)'
<1>0. FdOwner /\ DataOwner /\ ThreadTypes /\ UserTypes /\ HasClient
  BY DEF TypeInv, Types
<1> USE NamesAssumption, UsersAssumption, <1>0
    DEF FdOwner, DataOwner, Serves, ThreadTypes, UserTypes, HasClient, At, Go, Reads, Uids,
      userVars, histVars, threadVars
<1>1. ASSUME NEW t \in Threads, NEW f \in Fds, NEW u \in Uids, Accept(t, f, u)
      PROVE  (FdOwner /\ DataOwner)'
  BY <1>1 DEF Accept
<1>2. ASSUME NEW f \in Fds, PeerClose(f)
      PROVE  (FdOwner /\ DataOwner)'
  BY <1>2 DEF PeerClose, connVars, threadVars, userVars, histVars
<1>3. ASSUME NEW t \in Threads, ReqLogin(t)
      PROVE  (FdOwner /\ DataOwner)'
  <2>1. /\ Bind(t) /\ pc[t] = "recv" /\ (pc' = pc \/ pc' = [pc EXCEPT ![t] = "setfd"])
        /\ UNCHANGED <<tfd, ufd, failed>>
    BY <1>3 DEF ReqLogin
  <2>2. \A o \in Threads, u \in Users : bound[o] = u => bound'[o] = u
    BY <2>1, BindType, UsersAssumption DEF TypeInv, Uids
  <2>3. /\ \A o \in Threads : Serves(o) => (Serves(o))'
        /\ \A o \in Threads : pc'[o] = "off2" => pc[o] = "off2"
    BY <2>1
  <2>4. \A u \in Users : udata'[u] = udata[u] \/ (udata'[u] = t /\ bound[t] = u)
    BY <2>1 DEF Bind
  <2>5. (Serves(t))'
    BY <2>1
  <2> HIDE <1>3 DEF FdOwner, DataOwner, Serves, ThreadTypes, UserTypes, HasClient
  <2> QED
    BY <2>1, <2>2, <2>3, <2>4, <2>5, KeepsOwning
<1>4. ASSUME NEW t \in Threads, NEW passOk \in BOOLEAN, LoginRefused(t, passOk)
      PROVE  (FdOwner /\ DataOwner)'
  <2>1. /\ Bind(t) /\ pc[t] = "recv" /\ (pc' = pc \/ pc' = [pc EXCEPT ![t] = "setfd"])
        /\ UNCHANGED <<tfd, ufd, failed>>
    BY <1>4 DEF LoginRefused
  <2>2. \A o \in Threads, u \in Users : bound[o] = u => bound'[o] = u
    BY <2>1, BindType, UsersAssumption DEF TypeInv, Uids
  <2>3. /\ \A o \in Threads : Serves(o) => (Serves(o))'
        /\ \A o \in Threads : pc'[o] = "off2" => pc[o] = "off2"
    BY <2>1
  <2>4. \A u \in Users : udata'[u] = udata[u] \/ (udata'[u] = t /\ bound[t] = u)
    BY <2>1 DEF Bind
  <2>5. (Serves(t))'
    BY <2>1
  <2> HIDE <1>4 DEF FdOwner, DataOwner, Serves, ThreadTypes, UserTypes, HasClient
  <2> QED
    BY <2>1, <2>2, <2>3, <2>4, <2>5, KeepsOwning
<1>5. ASSUME NEW t \in Threads, LoginChecked(t)
      PROVE  (FdOwner /\ DataOwner)'
  <2>1. /\ Bind(t) /\ pc[t] = "recv" /\ (pc' = pc \/ pc' = [pc EXCEPT ![t] = "setfd"])
        /\ UNCHANGED <<tfd, ufd, failed>>
    BY <1>5 DEF LoginChecked
  <2>2. \A o \in Threads, u \in Users : bound[o] = u => bound'[o] = u
    BY <2>1, BindType, UsersAssumption DEF TypeInv, Uids
  <2>3. /\ \A o \in Threads : Serves(o) => (Serves(o))'
        /\ \A o \in Threads : pc'[o] = "off2" => pc[o] = "off2"
    BY <2>1
  <2>4. \A u \in Users : udata'[u] = udata[u] \/ (udata'[u] = t /\ bound[t] = u)
    BY <2>1 DEF Bind
  <2>5. (Serves(t))'
    BY <2>1
  <2> HIDE <1>5 DEF FdOwner, DataOwner, Serves, ThreadTypes, UserTypes, HasClient
  <2> QED
    BY <2>1, <2>2, <2>3, <2>4, <2>5, KeepsOwning
<1>6. ASSUME NEW t \in Threads, LoginSetFd(t)
      PROVE  (FdOwner /\ DataOwner)'
  BY <1>6 DEF LoginSetFd
<1>7. ASSUME NEW t \in Threads, LoginSetState(t)
      PROVE  (FdOwner /\ DataOwner)'
  BY <1>7 DEF LoginSetState
<1>8. ASSUME NEW t \in Threads, LoginReply(t)
      PROVE  (FdOwner /\ DataOwner)'
  BY <1>8 DEF LoginReply
<1>9. ASSUME NEW t \in Threads, Query(t)
      PROVE  (FdOwner /\ DataOwner)'
  <2>1. /\ Bind(t) /\ pc[t] = "recv" /\ (pc' = pc \/ pc' = [pc EXCEPT ![t] = "setfd"])
        /\ UNCHANGED <<tfd, ufd, failed>>
    BY <1>9 DEF Query
  <2>2. \A o \in Threads, u \in Users : bound[o] = u => bound'[o] = u
    BY <2>1, BindType, UsersAssumption DEF TypeInv, Uids
  <2>3. /\ \A o \in Threads : Serves(o) => (Serves(o))'
        /\ \A o \in Threads : pc'[o] = "off2" => pc[o] = "off2"
    BY <2>1
  <2>4. \A u \in Users : udata'[u] = udata[u] \/ (udata'[u] = t /\ bound[t] = u)
    BY <2>1 DEF Bind
  <2>5. (Serves(t))'
    BY <2>1
  <2> HIDE <1>9 DEF FdOwner, DataOwner, Serves, ThreadTypes, UserTypes, HasClient
  <2> QED
    BY <2>1, <2>2, <2>3, <2>4, <2>5, KeepsOwning
<1>10. ASSUME NEW t \in Threads, NEW v \in Uids, SendMsg(t, v)
       PROVE  (FdOwner /\ DataOwner)'
  <2>0. PICK to \in Seq(Uids), where \in {"work", "group"} : Receive(t, to, where)
    BY <1>10, ChatReceives DEF TypeInv
  <2>1. /\ Bind(t) /\ pc[t] = "recv" /\ UNCHANGED <<tfd, ufd, failed>>
        /\ \E x \in {"recv", "work", "group"} : pc' = [pc EXCEPT ![t] = x]
    BY <2>0, ReceiveType DEF TypeInv
  <2>2. \A o \in Threads, u \in Users : bound[o] = u => bound'[o] = u
    BY <2>1, BindType, UsersAssumption DEF TypeInv, Uids
  <2>3. /\ \A o \in Threads : Serves(o) => (Serves(o))'
        /\ \A o \in Threads : pc'[o] = "off2" => pc[o] = "off2"
    BY <2>1
  <2>4. \A u \in Users : udata'[u] = udata[u] \/ (udata'[u] = t /\ bound[t] = u)
    BY <2>1 DEF Bind
  <2>5. (Serves(t))'
    BY <2>1
  <2> HIDE <1>10 DEF FdOwner, DataOwner, Serves, ThreadTypes, UserTypes, HasClient
  <2> QED
    BY <2>1, <2>2, <2>3, <2>4, <2>5, KeepsOwning
<1>11. ASSUME NEW t \in Threads, SendGmsg(t)
       PROVE  (FdOwner /\ DataOwner)'
  <2>0. PICK to \in Seq(Uids), where \in {"work", "group"} : Receive(t, to, where)
    BY <1>11, ChatReceives DEF TypeInv
  <2>1. /\ Bind(t) /\ pc[t] = "recv" /\ UNCHANGED <<tfd, ufd, failed>>
        /\ \E x \in {"recv", "work", "group"} : pc' = [pc EXCEPT ![t] = x]
    BY <2>0, ReceiveType DEF TypeInv
  <2>2. \A o \in Threads, u \in Users : bound[o] = u => bound'[o] = u
    BY <2>1, BindType, UsersAssumption DEF TypeInv, Uids
  <2>3. /\ \A o \in Threads : Serves(o) => (Serves(o))'
        /\ \A o \in Threads : pc'[o] = "off2" => pc[o] = "off2"
    BY <2>1
  <2>4. \A u \in Users : udata'[u] = udata[u] \/ (udata'[u] = t /\ bound[t] = u)
    BY <2>1 DEF Bind
  <2>5. (Serves(t))'
    BY <2>1
  <2> HIDE <1>11 DEF FdOwner, DataOwner, Serves, ThreadTypes, UserTypes, HasClient
  <2> QED
    BY <2>1, <2>2, <2>3, <2>4, <2>5, KeepsOwning
<1>12. ASSUME NEW t \in Threads, StepOver(t)
       PROVE  (FdOwner /\ DataOwner)'
  <2>1. /\ UNCHANGED <<tfd, bound, ufd, udata, failed>>
        /\ \E x \in {"recv", "group", "add", "append"} : pc' = [pc EXCEPT ![t] = x]
        /\ pc[t] \in {"group", "work", "add", "append", "post"}
    BY <1>12, NextMemberPc DEF StepOver, userVars, histVars
  <2>2. /\ \A o \in Threads : Serves(o) => (Serves(o))'
        /\ \A o \in Threads : pc'[o] = "off2" => pc[o] = "off2"
    BY <2>1
  <2> HIDE <1>12 DEF FdOwner, DataOwner, Serves, ThreadTypes, UserTypes, HasClient
  <2> QED
    BY <2>1, <2>2, KeepsOwning
<1>13. ASSUME NEW t \in Threads, Serve(t)
       PROVE  (FdOwner /\ DataOwner)'
  <2>1. /\ UNCHANGED <<tfd, bound, ufd, udata, failed>>
        /\ \E x \in {"recv", "group", "add", "append"} : pc' = [pc EXCEPT ![t] = x]
        /\ pc[t] \in {"group", "work", "add", "append", "post"}
    BY <1>13, NextMemberPc DEF Serve, userVars, histVars
  <2>2. /\ \A o \in Threads : Serves(o) => (Serves(o))'
        /\ \A o \in Threads : pc'[o] = "off2" => pc[o] = "off2"
    BY <2>1
  <2> HIDE <1>13 DEF FdOwner, DataOwner, Serves, ThreadTypes, UserTypes, HasClient
  <2> QED
    BY <2>1, <2>2, KeepsOwning
<1>14. ASSUME NEW t \in Threads, AddCheck(t)
       PROVE  (FdOwner /\ DataOwner)'
  <2>1. /\ UNCHANGED <<tfd, bound, ufd, udata, failed>>
        /\ \E x \in {"recv", "group", "add", "append"} : pc' = [pc EXCEPT ![t] = x]
        /\ pc[t] \in {"group", "work", "add", "append", "post"}
    BY <1>14, NextMemberPc DEF AddCheck, userVars, histVars
  <2>2. /\ \A o \in Threads : Serves(o) => (Serves(o))'
        /\ \A o \in Threads : pc'[o] = "off2" => pc[o] = "off2"
    BY <2>1
  <2> HIDE <1>14 DEF FdOwner, DataOwner, Serves, ThreadTypes, UserTypes, HasClient
  <2> QED
    BY <2>1, <2>2, KeepsOwning
<1>15. ASSUME NEW t \in Threads, AddMsg(t)
       PROVE  (FdOwner /\ DataOwner)'
  BY <1>15 DEF AddMsg
<1>16. ASSUME NEW t \in Threads, Post(t)
       PROVE  (FdOwner /\ DataOwner)'
  <2>1. /\ UNCHANGED <<tfd, bound, ufd, udata, failed>>
        /\ \E x \in {"recv", "group", "add", "append"} : pc' = [pc EXCEPT ![t] = x]
        /\ pc[t] \in {"group", "work", "add", "append", "post"}
    BY <1>16, NextMemberPc DEF Post, userVars, histVars
  <2>2. /\ \A o \in Threads : Serves(o) => (Serves(o))'
        /\ \A o \in Threads : pc'[o] = "off2" => pc[o] = "off2"
    BY <2>1
  <2> HIDE <1>16 DEF FdOwner, DataOwner, Serves, ThreadTypes, UserTypes, HasClient
  <2> QED
    BY <2>1, <2>2, KeepsOwning
<1>17. ASSUME NEW t \in Threads, Eof(t)
       PROVE  (FdOwner /\ DataOwner)'
  BY <1>17 DEF Eof
<1>18. ASSUME NEW t \in Threads, RecvError(t)
       PROVE  (FdOwner /\ DataOwner)'
  BY <1>18 DEF RecvError
<1>19. ASSUME NEW t \in Threads, OfflineFd(t)
       PROVE  (FdOwner /\ DataOwner)'
  <2>1. /\ pc[t] = "off1" /\ pc' = [pc EXCEPT ![t] = "off2"] /\ bound[t] \in Users
        /\ ufd' = [ufd EXCEPT ![bound[t]] = NoFd] /\ UNCHANGED <<tfd, bound, udata, failed>>
    BY <1>19 DEF OfflineFd
  <2>2. FdOwner'
    <3> SUFFICES ASSUME NEW u \in Users, ufd'[u] # NoFd, u \notin failed
                 PROVE  (\E o \in Threads : bound[o] = u /\ tfd[o] = ufd[u] /\ Serves(o) /\ pc[o] # "off2")'
      BY <2>1
    <3>1. u # bound[t] /\ ufd'[u] = ufd[u]
      BY <2>1
    <3>2. PICK o \in Threads : bound[o] = u /\ tfd[o] = ufd[u] /\ Serves(o) /\ pc[o] # "off2"
      BY <2>1, <3>1
    <3> QED
      BY <2>1, <3>1, <3>2
  <2>3. DataOwner'
    BY <2>1
  <2> QED
    BY <2>2, <2>3
<1>20. ASSUME NEW t \in Threads, OfflineState(t)
       PROVE  (FdOwner /\ DataOwner)'
  BY <1>20 DEF OfflineState
<1>21. ASSUME NEW t \in Threads, Close(t)
       PROVE  (FdOwner /\ DataOwner)'
  BY <1>21 DEF Close
<1>22. ASSUME NEW t \in Threads,
              \/ GetGroupInfoUnknown(t)
       PROVE  (FdOwner /\ DataOwner)'
  <2>1. UNCHANGED <<pc, tfd, bound, ufd, udata, failed>>
    BY <1>22 DEF GetGroupInfoUnknown, Dies
  <2> QED
    BY <2>1
<1>23. CASE Loop \/ Quit \/ Corrupt \/ UNCHANGED vars
  BY <1>23, LoopFrame
<1> HIDE NamesAssumption, UsersAssumption, <1>0
    DEF FdOwner, DataOwner, Serves, ThreadTypes, UserTypes, HasClient, At, Go, Reads, Uids,
      userVars, histVars, threadVars
<1> QED
  BY <1>1, <1>2, <1>3, <1>4, <1>5, <1>6, <1>7, <1>8, <1>9, <1>10, <1>11, <1>12, <1>13, <1>14,
    <1>15, <1>16, <1>17, <1>18, <1>19, <1>20, <1>21, <1>22, <1>23
  DEF Next, Step, Request

LEMMA KeepsServing ==
  ASSUME NoZombie, \A u \in Users : online'[u] => online[u], failed' = failed,
         \A o \in Threads, u \in Users : bound[o] = u /\ Serves(o) => bound'[o] = u /\ (Serves(o))'
  PROVE  NoZombie'
BY DEF NoZombie, Serves

\* The thread that writes a user's state will write it again.
LEMMA StepNoZombie ==
  ASSUME TypeInv, OneThreadPerFd, NoZombie, [Next]_vars
  PROVE  NoZombie'
<1>0. NoZombie /\ ThreadTypes /\ UserTypes /\ HasClient
  BY DEF TypeInv, Types
<1> USE UsersAssumption, <1>0
    DEF NoZombie, Serves, ThreadTypes, UserTypes, HasClient, At, Go, Reads, Uids, userVars,
      histVars, threadVars
<1>1. ASSUME NEW t \in Threads, NEW f \in Fds, NEW u \in Uids, Accept(t, f, u)
      PROVE  NoZombie'
  BY <1>1 DEF Accept
<1>2. ASSUME NEW f \in Fds, PeerClose(f)
      PROVE  NoZombie'
  BY <1>2 DEF PeerClose, connVars, threadVars, userVars, histVars
<1>3. ASSUME NEW t \in Threads, ReqLogin(t)
      PROVE  NoZombie'
  <2>1. /\ Bind(t) /\ pc[t] = "recv" /\ (pc' = pc \/ pc' = [pc EXCEPT ![t] = "setfd"])
        /\ UNCHANGED <<online, failed>>
    BY <1>3 DEF ReqLogin
  <2>2. \A o \in Threads, u \in Users : bound[o] = u => bound'[o] = u
    BY <2>1, BindType, UsersAssumption DEF TypeInv, Uids
  <2>3. \A o \in Threads : Serves(o) => (Serves(o))'
    BY <2>1
  <2> HIDE <1>3 DEF NoZombie, Serves, ThreadTypes, UserTypes, HasClient
  <2> QED
    BY <2>1, <2>2, <2>3, KeepsServing
<1>4. ASSUME NEW t \in Threads, NEW passOk \in BOOLEAN, LoginRefused(t, passOk)
      PROVE  NoZombie'
  <2>1. /\ Bind(t) /\ pc[t] = "recv" /\ (pc' = pc \/ pc' = [pc EXCEPT ![t] = "setfd"])
        /\ UNCHANGED <<online, failed>>
    BY <1>4 DEF LoginRefused
  <2>2. \A o \in Threads, u \in Users : bound[o] = u => bound'[o] = u
    BY <2>1, BindType, UsersAssumption DEF TypeInv, Uids
  <2>3. \A o \in Threads : Serves(o) => (Serves(o))'
    BY <2>1
  <2> HIDE <1>4 DEF NoZombie, Serves, ThreadTypes, UserTypes, HasClient
  <2> QED
    BY <2>1, <2>2, <2>3, KeepsServing
<1>5. ASSUME NEW t \in Threads, LoginChecked(t)
      PROVE  NoZombie'
  <2>1. /\ Bind(t) /\ pc[t] = "recv" /\ (pc' = pc \/ pc' = [pc EXCEPT ![t] = "setfd"])
        /\ UNCHANGED <<online, failed>>
    BY <1>5 DEF LoginChecked
  <2>2. \A o \in Threads, u \in Users : bound[o] = u => bound'[o] = u
    BY <2>1, BindType, UsersAssumption DEF TypeInv, Uids
  <2>3. \A o \in Threads : Serves(o) => (Serves(o))'
    BY <2>1
  <2> HIDE <1>5 DEF NoZombie, Serves, ThreadTypes, UserTypes, HasClient
  <2> QED
    BY <2>1, <2>2, <2>3, KeepsServing
<1>6. ASSUME NEW t \in Threads, LoginSetFd(t)
      PROVE  NoZombie'
  BY <1>6 DEF LoginSetFd
<1>7. ASSUME NEW t \in Threads, LoginSetState(t)
      PROVE  NoZombie'
  BY <1>7 DEF LoginSetState
<1>8. ASSUME NEW t \in Threads, LoginReply(t)
      PROVE  NoZombie'
  BY <1>8 DEF LoginReply
<1>9. ASSUME NEW t \in Threads, Query(t)
      PROVE  NoZombie'
  <2>1. /\ Bind(t) /\ pc[t] = "recv" /\ (pc' = pc \/ pc' = [pc EXCEPT ![t] = "setfd"])
        /\ UNCHANGED <<online, failed>>
    BY <1>9 DEF Query
  <2>2. \A o \in Threads, u \in Users : bound[o] = u => bound'[o] = u
    BY <2>1, BindType, UsersAssumption DEF TypeInv, Uids
  <2>3. \A o \in Threads : Serves(o) => (Serves(o))'
    BY <2>1
  <2> HIDE <1>9 DEF NoZombie, Serves, ThreadTypes, UserTypes, HasClient
  <2> QED
    BY <2>1, <2>2, <2>3, KeepsServing
<1>10. ASSUME NEW t \in Threads, NEW v \in Uids, SendMsg(t, v)
       PROVE  NoZombie'
  <2>0. PICK to \in Seq(Uids), where \in {"work", "group"} : Receive(t, to, where)
    BY <1>10, ChatReceives DEF TypeInv
  <2>1. /\ Bind(t) /\ pc[t] = "recv" /\ UNCHANGED <<online, failed>>
        /\ \E x \in {"recv", "work", "group"} : pc' = [pc EXCEPT ![t] = x]
    BY <2>0, ReceiveType DEF TypeInv
  <2>2. \A o \in Threads, u \in Users : bound[o] = u => bound'[o] = u
    BY <2>1, BindType, UsersAssumption DEF TypeInv, Uids
  <2>3. \A o \in Threads : Serves(o) => (Serves(o))'
    BY <2>1
  <2> HIDE <1>10 DEF NoZombie, Serves, ThreadTypes, UserTypes, HasClient
  <2> QED
    BY <2>1, <2>2, <2>3, KeepsServing
<1>11. ASSUME NEW t \in Threads, SendGmsg(t)
       PROVE  NoZombie'
  <2>0. PICK to \in Seq(Uids), where \in {"work", "group"} : Receive(t, to, where)
    BY <1>11, ChatReceives DEF TypeInv
  <2>1. /\ Bind(t) /\ pc[t] = "recv" /\ UNCHANGED <<online, failed>>
        /\ \E x \in {"recv", "work", "group"} : pc' = [pc EXCEPT ![t] = x]
    BY <2>0, ReceiveType DEF TypeInv
  <2>2. \A o \in Threads, u \in Users : bound[o] = u => bound'[o] = u
    BY <2>1, BindType, UsersAssumption DEF TypeInv, Uids
  <2>3. \A o \in Threads : Serves(o) => (Serves(o))'
    BY <2>1
  <2> HIDE <1>11 DEF NoZombie, Serves, ThreadTypes, UserTypes, HasClient
  <2> QED
    BY <2>1, <2>2, <2>3, KeepsServing
<1>12. ASSUME NEW t \in Threads, StepOver(t)
       PROVE  NoZombie'
  <2>1. /\ UNCHANGED <<bound, online, failed>>
        /\ \E x \in {"recv", "group", "add", "append"} : pc' = [pc EXCEPT ![t] = x]
        /\ pc[t] \in {"group", "work", "add", "append", "post"}
    BY <1>12, NextMemberPc DEF StepOver, userVars, histVars
  <2>2. \A o \in Threads : Serves(o) => (Serves(o))'
    BY <2>1
  <2> HIDE <1>12 DEF NoZombie, Serves, ThreadTypes, UserTypes, HasClient
  <2> QED
    BY <2>1, <2>2, KeepsServing
<1>13. ASSUME NEW t \in Threads, Serve(t)
       PROVE  NoZombie'
  <2>1. /\ UNCHANGED <<bound, online, failed>>
        /\ \E x \in {"recv", "group", "add", "append"} : pc' = [pc EXCEPT ![t] = x]
        /\ pc[t] \in {"group", "work", "add", "append", "post"}
    BY <1>13, NextMemberPc DEF Serve, userVars, histVars
  <2>2. \A o \in Threads : Serves(o) => (Serves(o))'
    BY <2>1
  <2> HIDE <1>13 DEF NoZombie, Serves, ThreadTypes, UserTypes, HasClient
  <2> QED
    BY <2>1, <2>2, KeepsServing
<1>14. ASSUME NEW t \in Threads, AddCheck(t)
       PROVE  NoZombie'
  <2>1. /\ UNCHANGED <<bound, online, failed>>
        /\ \E x \in {"recv", "group", "add", "append"} : pc' = [pc EXCEPT ![t] = x]
        /\ pc[t] \in {"group", "work", "add", "append", "post"}
    BY <1>14, NextMemberPc DEF AddCheck, userVars, histVars
  <2>2. \A o \in Threads : Serves(o) => (Serves(o))'
    BY <2>1
  <2> HIDE <1>14 DEF NoZombie, Serves, ThreadTypes, UserTypes, HasClient
  <2> QED
    BY <2>1, <2>2, KeepsServing
<1>15. ASSUME NEW t \in Threads, AddMsg(t)
       PROVE  NoZombie'
  BY <1>15 DEF AddMsg
<1>16. ASSUME NEW t \in Threads, Post(t)
       PROVE  NoZombie'
  <2>1. /\ UNCHANGED <<bound, online, failed>>
        /\ \E x \in {"recv", "group", "add", "append"} : pc' = [pc EXCEPT ![t] = x]
        /\ pc[t] \in {"group", "work", "add", "append", "post"}
    BY <1>16, NextMemberPc DEF Post, userVars, histVars
  <2>2. \A o \in Threads : Serves(o) => (Serves(o))'
    BY <2>1
  <2> HIDE <1>16 DEF NoZombie, Serves, ThreadTypes, UserTypes, HasClient
  <2> QED
    BY <2>1, <2>2, KeepsServing
<1>17. ASSUME NEW t \in Threads, Eof(t)
       PROVE  NoZombie'
  BY <1>17 DEF Eof
<1>18. ASSUME NEW t \in Threads, RecvError(t)
       PROVE  NoZombie'
  BY <1>18 DEF RecvError
<1>19. ASSUME NEW t \in Threads, OfflineFd(t)
       PROVE  NoZombie'
  BY <1>19 DEF OfflineFd
<1>20. ASSUME NEW t \in Threads, OfflineState(t)
       PROVE  NoZombie'
  BY <1>20 DEF OfflineState
<1>21. ASSUME NEW t \in Threads, Close(t)
       PROVE  NoZombie'
  BY <1>21 DEF Close
<1>22. ASSUME NEW t \in Threads,
              \/ GetGroupInfoUnknown(t)
       PROVE  NoZombie'
  <2>1. UNCHANGED <<pc, bound, online, failed>>
    BY <1>22 DEF GetGroupInfoUnknown, Dies
  <2> QED
    BY <2>1
<1>23. CASE Loop \/ Quit \/ Corrupt \/ UNCHANGED vars
  BY <1>23, LoopFrame
<1> HIDE UsersAssumption, <1>0
    DEF NoZombie, Serves, ThreadTypes, UserTypes, HasClient, At, Go, Reads, Uids, userVars,
      histVars, threadVars
<1> QED
  BY <1>1, <1>2, <1>3, <1>4, <1>5, <1>6, <1>7, <1>8, <1>9, <1>10, <1>11, <1>12, <1>13, <1>14,
    <1>15, <1>16, <1>17, <1>18, <1>19, <1>20, <1>21, <1>22, <1>23
  DEF Next, Step, Request

LEMMA OwnInvCorrect == Spec => [](TypeInv /\ OwnInv)
<1>1. TypeInv /\ OwnInv /\ [Next]_vars => OwnInv'
  BY StepOneThreadPerFd, StepServesPeer, StepOwners, StepNoZombie DEF OwnInv
<1> QED
  BY <1>1, InitTypeInv, StepTypeInv, InitOwnInv, PTL DEF Spec

\* Whoever is online is served by a thread that will mark him offline, or was
\* left behind by a recv() error: for any users, threads and order of logins.
THEOREM NoZombieCorrect == Spec => []NoZombie
BY OwnInvCorrect, PTL DEF OwnInv

\* stkc_data never points to the buffer of a thread that has ended, unless the
\* user was left behind by a recv() error.
THEOREM DataAliveCorrect == Spec => []DataAlive
<1>1. TypeInv /\ OwnInv => DataAlive
  BY DEF OwnInv, DataOwner, DataAlive, Serves
<1> QED
  BY <1>1, OwnInvCorrect, PTL

\* A descriptor found in a user's entry is at his own connection.
LEMMA FdIsOwn ==
  ASSUME TypeInv, OwnInv, NEW u \in Users, u \notin failed
  PROVE  Own(u, ufd[u])
<1>1. CASE ufd[u] = NoFd
  BY <1>1 DEF Own
<1>2. CASE ufd[u] # NoFd
  <2>1. PICK t \in Threads : bound[t] = u /\ tfd[t] = ufd[u] /\ Serves(t)
    BY <1>2 DEF OwnInv, FdOwner
  <2>2. u # NoUser
    BY UsersAssumption DEF Uids
  <2>3. Live(t) /\ peer[tfd[t]] = u /\ tfd[t] \in Fds /\ stage[tfd[t]] # "free"
    BY <2>1, <2>2 DEF OwnInv, OneThreadPerFd, ServesPeer, Live, Serves
  <2> QED
    BY <2>1, <2>3, NamesAssumption DEF Own, Open
<1> QED
  BY <1>1, <1>2

\* So no answer is sent, and no message delivered, to a connection that is not
\* the user's, unless his entry has changed since the main loop read it or he was
\* left behind by a recv() error.
THEOREM SendsHomeCorrect == Spec => SendsHome
<1>1. ASSUME TypeInv, OwnInv, NEW u \in Users, DeliverSend(u), ~Own(u, mfd)
      PROVE  mfd # ufd[u] \/ u \in failed
  BY <1>1, FdIsOwn
<1>2. ASSUME TypeInv, OwnInv, NEW t \in Threads, Query(t), ~Own(bound[t], ufd[bound[t]])
      PROVE  bound[t] \in failed
  <2>1. bound[t] \in Users
    BY <1>2 DEF Query, TypeInv, Types, ThreadTypes
  <2> QED
    BY <1>2, <2>1, FdIsOwn
<1> DEFINE Home == /\ \A u \in Users : DeliverSend(u) /\ ~Own(u, mfd) => mfd # ufd[u] \/ u \in failed
                   /\ \A t \in Threads : Query(t) /\ ~Own(bound[t], ufd[bound[t]]) => bound[t] \in failed
<1>3. TypeInv /\ OwnInv /\ [Next]_vars => [Home]_vars
  BY <1>1, <1>2
<1>4. SendsHome <=> [][Home]_vars
  BY DEF SendsHome
<1> HIDE DEF Home
<1> QED
  BY <1>3, <1>4, OwnInvCorrect, PTL DEF Spec

-----------------------------------------------------------------------------
(* The callbacks and the window                                            *)

Queued(fn, u) == \E i \in DOMAIN idle : idle[i] = <<fn, u>>

\* g_idle_add() queues a callback behind those there are.
LEMMA IdleAddQueues ==
  ASSUME idle \in Seq(Tasks), NEW u \in Users, NEW fn \in {"deliver", "update"}, IdleAdd(fn, u)
  PROVE  /\ Queued(fn, u)'
         /\ \A gn, v : Queued(gn, v) => Queued(gn, v)'
<1> DEFINE e == <<fn, u>>
<1>1. idle' = Append(idle, e) /\ e \in Tasks
  BY IdleAddType
<1> HIDE DEF e
<1>2. /\ Len(idle) + 1 \in DOMAIN idle' /\ idle'[Len(idle) + 1] = e
      /\ \A i \in DOMAIN idle : i \in DOMAIN idle' /\ idle'[i] = idle[i]
  BY <1>1
<1> QED
  BY <1>2 DEF Queued, e

\* The main loop takes the first one off.
LEMMA RunsTakes ==
  ASSUME idle \in Seq(Tasks), NEW u \in Users, NEW fn \in {"deliver", "update"}, Runs(fn, u),
         idle' = Tail(idle)
  PROVE  \A gn, v : Queued(gn, v) /\ <<gn, v>> # <<fn, u>> => Queued(gn, v)'
<1>1. idle # <<>> /\ idle[1] = <<fn, u>>
  BY DEF Runs
<1> SUFFICES ASSUME NEW gn, NEW v, Queued(gn, v), <<gn, v>> # <<fn, u>>
             PROVE  Queued(gn, v)'
  OBVIOUS
<1>2. PICK i \in DOMAIN idle : idle[i] = <<gn, v>>
  BY DEF Queued
<1>3. i # 1
  BY <1>1, <1>2
<1>4. i - 1 \in DOMAIN idle' /\ idle'[i - 1] = idle[i]
  BY <1>1, <1>3
<1> QED
  BY <1>2, <1>4 DEF Queued

\* t has changed the state of u and has not told the window yet.
Tells(t, u) == bound[t] = u /\ pc[t] \in {"notify", "left"}

Agrees(u) ==
  shown[u] \notin {"", Status(u)} => Queued("update", u) \/ \E t \in Threads : Tells(t, u)

LEMMA WindowAgreesIsAgrees == WindowAgrees <=> \A u \in Users : Agrees(u)
BY DEF WindowAgrees, Agrees, Queued, Tells

LEMMA AgreesFrame ==
  ASSUME NEW u \in Users, Agrees(u), shown'[u] = shown[u], online'[u] = online[u],
         Queued("update", u) => Queued("update", u)',
         \A t \in Threads : Tells(t, u) => Tells(t, u)' \/ Queued("update", u)'
  PROVE  Agrees(u)'
BY DEF Agrees, Status

\* The steps by which a thread goes through its client's requests.
ReadsOn(t) ==
  \/ ReqLogin(t) \/ LoginChecked(t) \/ Query(t) \/ SendGmsg(t)
  \/ (\E passOk \in BOOLEAN : LoginRefused(t, passOk)) \/ (\E v \in Uids : SendMsg(t, v))

LEMMA RequestIs == \A t \in Threads : Request(t) <=> ReadsOn(t) \/ GetGroupInfoUnknown(t)
BY DEF Request, ReadsOn

LEMMA ReadsOnType ==
  ASSUME Types, NEW t \in Threads, ReadsOn(t)
  PROVE  /\ pc[t] = "recv" /\ Bind(t)
         /\ \E x \in {"recv", "setfd", "work", "group"} : pc' = [pc EXCEPT ![t] = x]
         /\ UNCHANGED <<tfd, peer, ufd, online, mail, sess, got, failed, loopVars, uiVars>>
<1>1. CASE \E to \in Seq(Uids), where \in {"work", "group"} : Receive(t, to, where)
  BY <1>1, ReceiveType
<1>2. CASE ReqLogin(t) \/ LoginChecked(t) \/ Query(t) \/ \E passOk \in BOOLEAN : LoginRefused(t, passOk)
  <2>1. /\ pc[t] = "recv" /\ Bind(t) /\ (pc' = pc \/ pc' = [pc EXCEPT ![t] = "setfd"])
        /\ UNCHANGED <<tfd, peer, ufd, online, mail, sess, got, failed, loopVars, uiVars>>
    BY <1>2 DEF ReqLogin, LoginChecked, Query, LoginRefused, Reads, At, Go, connVars, histVars
  <2>2. pc' = pc => pc' = [pc EXCEPT ![t] = "recv"]
    BY <2>1 DEF Types, ThreadTypes
  <2> QED
    BY <2>1, <2>2
<1> QED
  BY <1>1, <1>2, ChatReceives DEF ReadsOn

LEMMA ReadsOnTells ==
  ASSUME Types, NEW t \in Threads, ReadsOn(t), NEW o \in Threads, NEW u \in Users, Tells(o, u)
  PROVE  Tells(o, u)'
<1>1. /\ pc[t] = "recv" /\ Bind(t)
      /\ \E x \in {"recv", "setfd", "work", "group"} : pc' = [pc EXCEPT ![t] = x]
  BY ReadsOnType
<1>2. o # t
  BY <1>1 DEF Tells
<1>3. bound'[o] = bound[o] /\ pc'[o] = pc[o]
  BY <1>1, <1>2, BindType DEF Types, ThreadTypes
<1> QED
  BY <1>3 DEF Tells

LEMMA StepAgrees ==
  ASSUME TypeInv, OneThreadPerFd, [Next]_vars, NEW u \in Users, Agrees(u)
  PROVE  Agrees(u)'
<1>0. LoopTypes /\ ThreadTypes /\ UserTypes /\ HasClient /\ HasReceiver /\ Types /\ idle \in Seq(Tasks)
  BY DEF TypeInv, Types, LoopTypes
<1>1. ASSUME NEW t \in Threads, LoginSetState(t) \/ OfflineState(t)
      PROVE  Agrees(u)'
  <2>1. /\ bound[t] \in Users /\ bound' = bound /\ shown' = shown /\ idle' = idle
        /\ \E x \in {"notify", "left"} : pc' = [pc EXCEPT ![t] = x]
        /\ \E b \in BOOLEAN : online' = [online EXCEPT ![bound[t]] = b]
    BY <1>0, <1>1 DEF LoginSetState, OfflineState, At, Go, HasClient, uiVars, loopVars
  <2>2. CASE u = bound[t]
    <3>1. Tells(t, u)'
      BY <1>0, <2>1, <2>2 DEF Tells, ThreadTypes
    <3> QED
      BY <3>1 DEF Agrees
  <2>3. CASE u # bound[t]
    <3>1. online'[u] = online[u] /\ shown'[u] = shown[u]
      BY <1>0, <2>1, <2>3 DEF UserTypes
    <3>2. Queued("update", u) => Queued("update", u)'
      BY <2>1 DEF Queued
    <3>3. ASSUME NEW o \in Threads, Tells(o, u)
          PROVE  Tells(o, u)'
      BY <1>0, <2>1, <2>3, <3>3 DEF Tells, ThreadTypes
    <3> QED
      BY <3>1, <3>2, <3>3, AgreesFrame
  <2> QED
    BY <2>2, <2>3
<1>2. ASSUME NEW t \in Threads, LoginReply(t)
      PROVE  Agrees(u)'
  <2>1. bound[t] \in Users /\ IdleAdd("update", bound[t]) /\ UNCHANGED <<bound, shown, online>>
        /\ pc' = [pc EXCEPT ![t] = "recv"]
    BY <1>0, <1>2 DEF LoginReply, At, Go, HasClient, uiVars, userVars
  <2>2. /\ Queued("update", u) => Queued("update", u)'
        /\ bound[t] = u => Queued("update", u)'
    BY <1>0, <2>1, IdleAddQueues
  <2>3. ASSUME NEW o \in Threads, Tells(o, u)
        PROVE  Tells(o, u)' \/ Queued("update", u)'
    <3>1. CASE o = t
      BY <2>2, <2>3, <3>1 DEF Tells
    <3>2. CASE o # t
      BY <1>0, <2>1, <2>3, <3>2 DEF Tells, ThreadTypes
    <3> QED
      BY <3>1, <3>2
  <2> QED
    BY <2>1, <2>2, <2>3, AgreesFrame
<1>3. ASSUME NEW t \in Threads, Close(t)
      PROVE  Agrees(u)'
  <2>1. /\ pc[t] = "left" => bound[t] \in Users /\ IdleAdd("update", bound[t])
        /\ pc[t] # "left" => idle' = idle
        /\ pc[t] \in {"left", "close"} /\ UNCHANGED <<shown, online>>
        /\ pc' = [pc EXCEPT ![t] = "done"] /\ bound' = [bound EXCEPT ![t] = NoUser]
    BY <1>0, <1>3 DEF Close, At, Go, HasClient, uiVars, userVars
  <2>2. /\ Queued("update", u) => Queued("update", u)'
        /\ pc[t] = "left" /\ bound[t] = u => Queued("update", u)'
    <3>1. CASE pc[t] = "left"
      BY <1>0, <2>1, <3>1, IdleAddQueues
    <3>2. CASE pc[t] # "left"
      BY <2>1, <3>2 DEF Queued
    <3> QED
      BY <3>1, <3>2
  <2>3. ASSUME NEW o \in Threads, Tells(o, u)
        PROVE  Tells(o, u)' \/ Queued("update", u)'
    <3>1. CASE o = t
      BY <2>1, <2>2, <2>3, <3>1 DEF Tells
    <3>2. CASE o # t
      BY <1>0, <2>1, <2>3, <3>2 DEF Tells, ThreadTypes
    <3> QED
      BY <3>1, <3>2
  <2> QED
    BY <2>1, <2>2, <2>3, AgreesFrame
<1>4. ASSUME NEW t \in Threads, Post(t)
      PROVE  Agrees(u)'
  <2>1. /\ Head(work[t]) \in Users /\ IdleAdd("deliver", Head(work[t])) /\ UNCHANGED <<bound, shown, online>>
        /\ pc[t] = "post" /\ NextMember(t)
    BY <1>0, <1>4 DEF Post, At, HasReceiver, uiVars, userVars
  <2>2. Queued("update", u) => Queued("update", u)'
    BY <1>0, <2>1, IdleAddQueues
  <2>3. ASSUME NEW o \in Threads, Tells(o, u)
        PROVE  Tells(o, u)'
    BY <1>0, <2>1, <2>3, NextMemberPc DEF Tells, ThreadTypes
  <2> QED
    BY <2>1, <2>2, <2>3, AgreesFrame
<1>5. ASSUME UNCHANGED <<idle, shown, online>>,
             \A o \in Threads : Tells(o, u) => Tells(o, u)'
      PROVE  Agrees(u)'
  <2>1. Queued("update", u) => Queued("update", u)'
    BY <1>5 DEF Queued
  <2> QED
    BY <1>5, <2>1, AgreesFrame
<1>6. ASSUME NEW t \in Threads, ReadsOn(t)
      PROVE  Agrees(u)'
  <2>1. UNCHANGED <<idle, shown, online>>
    BY <1>0, <1>6, ReadsOnType DEF loopVars, uiVars
  <2> QED
    BY <1>0, <1>5, <1>6, <2>1, ReadsOnTells
<1>7. ASSUME NEW t \in Threads, \/ LoginSetFd(t) \/ StepOver(t) \/ Serve(t) \/ AddCheck(t) \/ AddMsg(t)
                                \/ Eof(t) \/ OfflineFd(t) \/ RecvError(t)
      PROVE  Agrees(u)'
  <2>1. /\ UNCHANGED <<idle, shown, online, bound>> /\ pc[t] \notin {"notify", "left"}
        /\ \E x \in PCs : pc' = [pc EXCEPT ![t] = x]
    BY <1>7, NextMemberPc DEF LoginSetFd, StepOver, Serve, AddCheck, AddMsg, Eof, OfflineFd, RecvError,
       Reads, At, Go, PCs, uiVars, loopVars, userVars
  <2>2. \A o \in Threads : Tells(o, u) => Tells(o, u)'
    BY <1>0, <2>1 DEF Tells, ThreadTypes
  <2> QED
    BY <1>5, <2>1, <2>2
<1>8. ASSUME NEW t \in Threads, NEW f \in Fds, NEW v \in Uids, Accept(t, f, v)
      PROVE  Agrees(u)'
  <2>1. /\ UNCHANGED <<idle, shown, online, bound>> /\ pc[t] = "none" /\ pc' = [pc EXCEPT ![t] = "recv"]
    BY <1>8 DEF Accept, Go, uiVars, loopVars, userVars
  <2>2. \A o \in Threads : Tells(o, u) => Tells(o, u)'
    BY <1>0, <2>1 DEF Tells, ThreadTypes
  <2> QED
    BY <1>5, <2>1, <2>2
<1>9. ASSUME \/ InitGroup \/ InitUser \/ MainLoop \/ Quit \/ Corrupt \/ UNCHANGED vars
             \/ \E v \in Users : DeliverTake(v) \/ DeliverSend(v) \/ DeliverReturn(v)
             \/ \E f \in Fds : PeerClose(f)
             \/ \E t \in Threads : GetGroupInfoUnknown(t)
      PROVE  Agrees(u)'
  <2>1. UNCHANGED <<idle, shown, online, bound, pc>>
    BY <1>9 DEF InitGroup, InitUser, MainLoop, Quit, Corrupt, Dies, DeliverTake, DeliverSend, DeliverReturn,
       PeerClose, GetGroupInfoUnknown, uiVars, loopVars, userVars, threadVars, vars
  <2>2. \A o \in Threads : Tells(o, u) => Tells(o, u)'
    BY <2>1 DEF Tells
  <2> QED
    BY <1>5, <2>1, <2>2
<1>10. ASSUME NEW v \in Users, BuddytreeFill(v) \/ BuddytreeUpdate(v) \/ DeliverCheck(v)
       PROVE  Agrees(u)'
  <2>1. /\ UNCHANGED <<online, bound, pc>>
        /\ shown' = shown \/ shown' = [shown EXCEPT ![v] = Status(v)]
    BY <1>10 DEF BuddytreeFill, BuddytreeUpdate, DeliverCheck, uiVars, userVars, threadVars
  <2>2. CASE shown'[u] = Status(u)
    BY <2>1, <2>2 DEF Agrees, Status
  <2>3. CASE shown'[u] # Status(u)
    <3>1. shown'[u] = shown[u]
      BY <1>0, <2>1, <2>3 DEF LoopTypes
    <3>2. v # u \/ ~BuddytreeUpdate(v)
      BY <1>0, <2>3 DEF BuddytreeUpdate, LoopTypes
    <3>3. Queued("update", u) => Queued("update", u)'
      <4>1. CASE BuddytreeFill(v)
        BY <4>1 DEF BuddytreeFill, loopVars, Queued
      <4>2. CASE DeliverCheck(v)
        <5>1. Runs("deliver", v) /\ idle' = Tail(idle) /\ <<"update", u>> # <<"deliver", v>>
          BY <4>2 DEF DeliverCheck
        <5> QED
          BY <1>0, <5>1, RunsTakes
      <4>3. CASE BuddytreeUpdate(v)
        <5>1. Runs("update", v) /\ idle' = Tail(idle) /\ <<"update", u>> # <<"update", v>>
          BY <3>2, <4>3 DEF BuddytreeUpdate
        <5> QED
          BY <1>0, <5>1, RunsTakes
      <4> QED
        BY <1>10, <4>1, <4>2, <4>3
    <3>4. \A o \in Threads : Tells(o, u) => Tells(o, u)'
      BY <2>1 DEF Tells
    <3> QED
      BY <2>1, <3>1, <3>3, <3>4, AgreesFrame
  <2> QED
    BY <2>2, <2>3
<1> QED
  BY <1>1, <1>2, <1>3, <1>4, <1>6, <1>7, <1>8, <1>9, <1>10, RequestIs DEF Next, Step, Loop

\* The window shows the state of every user, or will be told: whatever the
\* users, the threads and their order, during startup and after.
THEOREM WindowAgreesCorrect == Spec => []WindowAgrees
<1>1. Init => WindowAgrees
  <2>1. Init => shown = [u \in Users |-> ""]
    BY DEF Init
  <2>2. Init => \A u \in Users : shown[u] = ""
    BY <2>1
  <2> QED
    BY <2>2 DEF WindowAgrees
<1>2. TypeInv /\ OwnInv /\ WindowAgrees /\ [Next]_vars => WindowAgrees'
  <2> SUFFICES ASSUME TypeInv, OwnInv, WindowAgrees, [Next]_vars
               PROVE  WindowAgrees'
    OBVIOUS
  <2>1. \A u \in Users : Agrees(u)'
    BY StepAgrees, WindowAgreesIsAgrees DEF OwnInv
  <2> QED
    BY <2>1 DEF WindowAgrees, Agrees, Queued, Tells
<1> QED
  BY <1>1, <1>2, OwnInvCorrect, PTL DEF Spec

-----------------------------------------------------------------------------
(* No message is left without a callback                                   *)

\* How far the client of a thread that is at work has come.
Progress ==
  \A t \in Threads :
    /\ pc[t] \in {"setfd", "setstate", "notify"} => stage[tfd[t]] \in {"asked", "gone"}
    /\ Handling(t) => stage[tfd[t]] \in {"in", "gone"}

\* t has set the state of its client, or will never do so.
PastLogin(t) ==
  /\ pc[t] \notin {"none", "setfd", "setstate"}
  /\ pc[t] = "recv" => stage[tfd[t]] \notin {"new", "asked"}

\* The sessions that messages are queued in have begun.
Tagged ==
  \A u \in Users :
    /\ online[u] => sess[u] # NoThread
    /\ sess[u] # NoThread => PastLogin(sess[u])
    /\ \A i \in DOMAIN mail[u] : mail[u][i][3] # NoThread => PastLogin(mail[u][i][3])

LEMMA InitTagged == Init => Progress /\ Tagged
<1>1. Init => \A u \in Users : ~online[u] /\ sess[u] = NoThread /\ mail[u] = <<>>
  BY DEF Init
<1>2. Init => \A t \in Threads : pc[t] = "none"
  BY DEF Init
<1> QED
  BY <1>1, <1>2 DEF Progress, Tagged, Handling

\* What a step leaves of the other threads' connections.
LEMMA OtherStage ==
  ASSUME TypeInv, OneThreadPerFd, [Next]_vars, NEW o \in Threads, Live(o),
         pc'[o] = pc[o], tfd'[o] = tfd[o], stage'[tfd[o]] # stage[tfd[o]]
  PROVE  \/ stage'[tfd[o]] = "gone"
         \/ /\ pc[o] = "recv"
            /\ \/ stage[tfd[o]] = "new" /\ stage'[tfd[o]] = "asked"
               \/ stage[tfd[o]] = "asked" /\ stage'[tfd[o]] = "refused"
<1>0. ThreadTypes /\ ConnTypes
  BY DEF TypeInv, Types
<1>1. ASSUME NEW t \in Threads, NEW s, Advance(t, s), Live(t)
      PROVE  t = o /\ stage'[tfd[o]] = s
  <2>1. tfd[t] \in Fds /\ tfd[o] \in Fds /\ stage' = [stage EXCEPT ![tfd[t]] = s]
    BY <1>1 DEF OneThreadPerFd, Advance
  <2>2. tfd[t] = tfd[o]
    BY <1>0, <2>1 DEF ConnTypes
  <2> QED
    BY <1>0, <1>1, <2>1, <2>2 DEF OneThreadPerFd, ConnTypes
<1>2. ASSUME NEW t \in Threads, ReqLogin(t)
      PROVE  pc[o] = "recv" /\ stage[tfd[o]] = "new" /\ stage'[tfd[o]] = "asked"
  <2>1. pc[t] = "recv" /\ stage[tfd[t]] = "new" /\ Advance(t, "asked") /\ Live(t)
    BY <1>2 DEF ReqLogin, Reads, At, Live
  <2> QED
    BY <1>1, <2>1
<1>3. ASSUME NEW t \in Threads, NEW passOk \in BOOLEAN, LoginRefused(t, passOk)
      PROVE  pc[o] = "recv" /\ stage[tfd[o]] = "asked" /\ stage'[tfd[o]] = "refused"
  <2>1. pc[t] = "recv" /\ stage[tfd[t]] = "asked" /\ Advance(t, "refused") /\ Live(t)
    BY <1>3 DEF LoginRefused, Reads, At, Live
  <2> QED
    BY <1>1, <2>1
<1>4. ASSUME NEW t \in Threads, LoginReply(t) \/ Close(t)
      PROVE  FALSE
  <2>1. /\ Live(t) /\ pc' = [pc EXCEPT ![t] = IF pc[t] = "notify" THEN "recv" ELSE "done"]
        /\ \E s : stage' = [stage EXCEPT ![tfd[t]] = s]
        /\ pc[t] \in {"notify", "left", "close"}
    BY <1>4 DEF LoginReply, Close, Advance, At, Go, Live
  <2>2. t = o
    BY <1>1, <2>1 DEF Advance
  <2> QED
    BY <1>0, <2>1, <2>2 DEF ThreadTypes
<1>5. ASSUME NEW t \in Threads, NEW f \in Fds, NEW u \in Uids, Accept(t, f, u)
      PROVE  FALSE
  <2>1. stage[f] = "free" /\ stage' = [stage EXCEPT ![f] = "new"]
    BY <1>5 DEF Accept
  <2> QED
    BY <1>0, <2>1 DEF OneThreadPerFd, ConnTypes
<1>6. ASSUME NEW f \in Fds, PeerClose(f)
      PROVE  stage'[tfd[o]] = "gone"
  BY <1>0, <1>6 DEF PeerClose, ConnTypes, OneThreadPerFd
<1>7. ASSUME NEW t \in Threads, Step(t) \/ Request(t) \/ RecvError(t),
             ~ReqLogin(t), ~LoginReply(t), ~Close(t), \A passOk \in BOOLEAN : ~LoginRefused(t, passOk)
      PROVE  FALSE
  <2>1. UNCHANGED stage
    BY <1>7 DEF Step, Request, LoginSetFd, LoginSetState, StepOver, Serve, AddCheck, AddMsg, Post,
       Eof, OfflineFd, OfflineState, LoginChecked, SendMsg, SendGmsg, Receive, Query,
       GetGroupInfoUnknown, Dies, RecvError, connVars
  <2> QED
    BY <2>1
<1>8. CASE Loop \/ Quit \/ Corrupt \/ UNCHANGED vars
  BY <1>8, LoopFrame
<1> QED
  BY <1>2, <1>3, <1>4, <1>5, <1>6, <1>7, <1>8 DEF Next

\* How a step moves a thread.
LEMMA StepPc ==
  ASSUME TypeInv, OneThreadPerFd, [Next]_vars, NEW o \in Threads
  PROVE  \/ pc'[o] = pc[o] /\ tfd'[o] = tfd[o]
         \/ pc[o] = "none" /\ pc'[o] = "recv" /\ stage'[tfd'[o]] = "new"
         \/ /\ tfd'[o] = tfd[o] /\ stage'[tfd[o]] = stage[tfd[o]]
            /\ \/ pc[o] = "recv" /\ stage[tfd[o]] = "asked" /\ pc'[o] = "setfd"
               \/ pc[o] = "recv" /\ stage[tfd[o]] = "in" /\ pc'[o] \in {"recv", "group", "work"}
               \/ pc[o] = "setfd" /\ pc'[o] = "setstate"
               \/ pc[o] = "setstate" /\ pc'[o] = "notify"
               \/ Handling(o) /\ pc'[o] \in {"recv", "group", "add", "append", "post"}
               \/ pc[o] = "recv" /\ stage[tfd[o]] = "gone" /\ pc'[o] \in {"off1", "close"}
               \/ pc[o] \in {"off1", "off2"} /\ pc'[o] \in {"off2", "left"}
         \/ pc[o] = "notify" /\ pc'[o] = "recv" /\ tfd'[o] = tfd[o]
            /\ (stage[tfd[o]] = "asked" => stage'[tfd[o]] = "in")
            /\ (stage[tfd[o]] = "gone" => stage'[tfd[o]] = "gone")
         \/ pc'[o] = "done"
<1>0. Types /\ ThreadTypes /\ ConnTypes
  BY DEF TypeInv, Types
<1> DEFINE Same == pc'[o] = pc[o] /\ tfd'[o] = tfd[o]
<1>1. ASSUME NEW t \in Threads, t # o, Step(t) \/ Request(t) \/ RecvError(t)
      PROVE  Same
  <2>1. CASE ReadsOn(t)
    BY <1>0, <1>1, <2>1, ReadsOnType DEF ThreadTypes
  <2>2. CASE Step(t) \/ RecvError(t) \/ GetGroupInfoUnknown(t)
    <3>1. /\ \E x \in PCs : pc' = pc \/ pc' = [pc EXCEPT ![t] = x]
          /\ tfd' = tfd \/ tfd' = [tfd EXCEPT ![t] = NoFd]
      BY <2>2, NextMemberPc DEF Step, LoginSetFd, LoginSetState, LoginReply, StepOver, Serve, AddCheck, AddMsg,
         Post, Eof, OfflineFd, OfflineState, Close, GetGroupInfoUnknown, Dies, RecvError, Go, PCs, threadVars
    <3> QED
      BY <1>0, <1>1, <3>1 DEF ThreadTypes
  <2> QED
    BY <1>1, <2>1, <2>2, RequestIs
<1>2. ASSUME NEW t \in Threads, NEW f \in Fds, NEW u \in Uids, Accept(t, f, u)
      PROVE  Same \/ (pc[o] = "none" /\ pc'[o] = "recv" /\ stage'[tfd'[o]] = "new")
  BY <1>0, <1>2 DEF Accept, Go, ThreadTypes, ConnTypes
<1>3. CASE Loop \/ Quit \/ Corrupt \/ UNCHANGED vars \/ \E f \in Fds : PeerClose(f)
  <2>1. UNCHANGED <<pc, tfd>>
    BY <1>3, LoopFrame DEF PeerClose, threadVars
  <2> QED
    BY <2>1
<1> DEFINE Moves(here, there) ==
             pc[o] \in here /\ pc'[o] \in there /\ tfd'[o] = tfd[o] /\ stage'[tfd[o]] = stage[tfd[o]]
<1>4. ASSUME LoginSetFd(o) \/ LoginSetState(o) \/ OfflineFd(o) \/ OfflineState(o)
      PROVE  \/ Moves({"setfd"}, {"setstate"}) \/ Moves({"setstate"}, {"notify"})
             \/ Moves({"off1", "off2"}, {"off2", "left"})
  BY <1>0, <1>4 DEF LoginSetFd, LoginSetState, OfflineFd, OfflineState, At, Go, ThreadTypes, connVars
<1>5. ASSUME StepOver(o) \/ Serve(o) \/ AddCheck(o) \/ AddMsg(o) \/ Post(o)
      PROVE  Handling(o) /\ Moves(PCs, {"recv", "group", "add", "append", "post"})
  BY <1>0, <1>5, NextMemberPc
  DEF StepOver, Serve, AddCheck, AddMsg, Post, Handling, At, Go, ThreadTypes, connVars
<1>6. ASSUME Eof(o) \/ RecvError(o)
      PROVE  Moves({"recv"}, {"off1", "close"}) /\ stage[tfd[o]] = "gone"
  BY <1>0, <1>6 DEF Eof, RecvError, Reads, At, Go, ThreadTypes, connVars
<1>7. ASSUME Close(o)
      PROVE  pc'[o] = "done"
  BY <1>0, <1>7 DEF Close, Go, ThreadTypes
<1>8. ASSUME LoginReply(o)
      PROVE  /\ pc[o] = "notify" /\ pc'[o] = "recv" /\ tfd'[o] = tfd[o]
             /\ (stage[tfd[o]] = "asked" => stage'[tfd[o]] = "in")
             /\ (stage[tfd[o]] = "gone" => stage'[tfd[o]] = "gone")
  <2>1. tfd[o] \in Fds
    BY <1>8 DEF LoginReply, At, OneThreadPerFd, Live
  <2> QED
    BY <1>0, <1>8, <2>1 DEF LoginReply, At, Go, ThreadTypes, ConnTypes
<1>9. ASSUME ReqLogin(o) \/ Query(o) \/ GetGroupInfoUnknown(o) \/ \E passOk \in BOOLEAN : LoginRefused(o, passOk)
      PROVE  Same
  BY <1>9 DEF ReqLogin, Query, GetGroupInfoUnknown, Dies, LoginRefused, threadVars
<1>10. ASSUME LoginChecked(o)
       PROVE  Moves({"recv"}, {"setfd"}) /\ stage[tfd[o]] = "asked"
  BY <1>0, <1>10 DEF LoginChecked, Reads, At, Go, ThreadTypes, connVars
<1>11. ASSUME SendGmsg(o) \/ \E v \in Uids : SendMsg(o, v)
       PROVE  Moves({"recv"}, {"recv", "group", "work"}) /\ stage[tfd[o]] = "in"
  <2>1. PICK to \in Seq(Uids), where \in {"work", "group"} : Receive(o, to, where)
    BY <1>0, <1>11, ChatReceives
  <2>2. /\ pc[o] = "recv" /\ stage[tfd[o]] = "in" /\ UNCHANGED <<tfd, stage>>
        /\ \E x \in {"recv", where} : pc' = [pc EXCEPT ![o] = x]
    BY <1>0, <2>1, ReceiveType
  <2> QED
    BY <1>0, <2>2 DEF ThreadTypes
<1>12. CASE Step(o)
  BY <1>4, <1>5, <1>6, <1>7, <1>8, <1>12 DEF Step
<1>13. CASE Request(o) \/ RecvError(o)
  BY <1>6, <1>9, <1>10, <1>11, <1>13 DEF Request
<1> QED
  BY <1>1, <1>2, <1>3, <1>12, <1>13 DEF Next

LEMMA StepProgress ==
  ASSUME TypeInv, OneThreadPerFd, Progress, [Next]_vars
  PROVE  Progress'
<1> SUFFICES ASSUME NEW o \in Threads, pc'[o] \in {"setfd", "setstate", "notify"} \/ Handling(o)'
             PROVE  /\ pc'[o] \in {"setfd", "setstate", "notify"} => stage'[tfd'[o]] \in {"asked", "gone"}
                    /\ Handling(o)' => stage'[tfd'[o]] \in {"in", "gone"}
  BY DEF Progress
<1>1. CASE pc'[o] = pc[o] /\ tfd'[o] = tfd[o]
  <2>1. Live(o) /\ pc[o] # "recv"
    BY <1>1 DEF Live, Handling
  <2>2. stage'[tfd[o]] = stage[tfd[o]] \/ stage'[tfd[o]] = "gone"
    BY <1>1, <2>1, OtherStage
  <2> QED
    BY <1>1, <2>2 DEF Progress, Handling
<1>2. CASE pc'[o] # pc[o] \/ tfd'[o] # tfd[o]
  BY <1>2, StepPc DEF Progress, Handling
<1> QED
  BY <1>1, <1>2

LEMMA StepPastLogin ==
  ASSUME TypeInv, OneThreadPerFd, Progress, [Next]_vars, NEW o \in Threads, PastLogin(o)
  PROVE  PastLogin(o)'
<1>1. CASE pc'[o] = pc[o] /\ tfd'[o] = tfd[o] /\ pc[o] # "done"
  <2>1. Live(o)
    BY <1>1 DEF Live, PastLogin
  <2> QED
    BY <1>1, <2>1, OtherStage DEF PastLogin
<1>2. CASE pc'[o] # pc[o] \/ tfd'[o] # tfd[o]
  BY <1>2, StepPc DEF Progress, Handling, PastLogin
<1>3. CASE pc'[o] = "done"
  BY <1>3 DEF PastLogin
<1> QED
  BY <1>1, <1>2, <1>3

\* The elements of a sequence after its head, and with one more at its end.
LEMMA TailElements ==
  ASSUME NEW S, NEW s \in Seq(S), s # <<>>, NEW i \in DOMAIN Tail(s)
  PROVE  i + 1 \in DOMAIN s /\ Tail(s)[i] = s[i + 1]
OBVIOUS

LEMMA AppendElements ==
  ASSUME NEW S, NEW s \in Seq(S), NEW e \in S, NEW i \in DOMAIN Append(s, e)
  PROVE  \/ i \in DOMAIN s /\ Append(s, e)[i] = s[i]
         \/ i = Len(s) + 1 /\ Append(s, e)[i] = e
OBVIOUS

\* A mailbox holds what it held, and the message being queued.
LEMMA AddMsgElements ==
  ASSUME TypeInv, NEW t \in Threads, AddMsg(t), NEW u \in Users, NEW i \in DOMAIN mail'[u]
  PROVE  \/ i \in DOMAIN mail[u] /\ mail'[u][i] = mail[u][i]
         \/ /\ u = Head(work[t]) /\ i = Len(mail[u]) + 1
            /\ mail'[u][i] = <<t, sent[t], Session(u)>>
<1> DEFINE m == <<t, sent[t], Session(u)>>
<1>0. mail \in [Users -> Seq(Msgs)]
  BY DEF TypeInv, Types, MailTypes
<1>1. CASE u = Head(work[t])
  <2>1. mail'[u] = Append(mail[u], m) /\ mail[u] \in Seq(Msgs) /\ m \in Msgs
    BY <1>0, <1>1, AddMsgAppends
  <2> HIDE DEF m
  <2>2. \/ i \in DOMAIN mail[u] /\ mail'[u][i] = mail[u][i]
        \/ i = Len(mail[u]) + 1 /\ mail'[u][i] = m
    BY <2>1, AppendElements
  <2> QED
    BY <1>1, <2>2 DEF m
<1>2. CASE u # Head(work[t])
  <2>1. mail'[u] = mail[u]
    BY <1>0, <1>2 DEF AddMsg
  <2> QED
    BY <2>1
<1> QED
  BY <1>1, <1>2

\* stk_get_msg() takes the oldest message.
LEMMA TakeElements ==
  ASSUME TypeInv, NEW w \in Users, DeliverTake(w), NEW u \in Users, NEW i \in DOMAIN mail'[u]
  PROVE  \E j \in DOMAIN mail[u] : mail'[u][i] = mail[u][j] /\ j = IF u = w THEN i + 1 ELSE i
<1>0. mail \in [Users -> Seq(Msgs)]
  BY DEF TypeInv, Types, MailTypes
<1>1. CASE u = w
  <2>1. mail'[u] = Tail(mail[u]) /\ mail[u] \in Seq(Msgs) /\ mail[u] # <<>>
    BY <1>0, <1>1 DEF DeliverTake
  <2>2. i + 1 \in DOMAIN mail[u] /\ mail'[u][i] = mail[u][i + 1]
    BY <2>1, TailElements
  <2> QED
    BY <1>1, <2>2
<1>2. CASE u # w
  <2>1. mail'[u] = mail[u]
    BY <1>0, <1>2 DEF DeliverTake
  <2> QED
    BY <1>2, <2>1
<1> QED
  BY <1>1, <1>2

\* What a step writes to the mailboxes and the states.
LEMMA StepMail ==
  ASSUME TypeInv, [Next]_vars
  PROVE  \/ UNCHANGED <<mail, online, sess>>
         \/ \E t \in Threads : AddMsg(t) \/ LoginSetState(t) \/ OfflineState(t)
         \/ \E u \in Users : DeliverTake(u)
<1>1. ASSUME NEW t \in Threads, Step(t) \/ RecvError(t) \/ GetGroupInfoUnknown(t),
             ~AddMsg(t), ~LoginSetState(t), ~OfflineState(t)
      PROVE  UNCHANGED <<mail, online, sess>>
  BY <1>1 DEF Step, LoginSetFd, LoginReply, StepOver, Serve, AddCheck, Post, Eof, OfflineFd, Close,
     GetGroupInfoUnknown, Dies, RecvError, userVars, histVars
<1>2. ASSUME NEW t \in Threads, ReadsOn(t)
      PROVE  UNCHANGED <<mail, online, sess>>
  BY <1>2, ReadsOnType DEF TypeInv
<1>3. CASE \/ \E t \in Threads, f \in Fds, u \in Uids : Accept(t, f, u)
           \/ \E f \in Fds : PeerClose(f)
  BY <1>3 DEF Accept, PeerClose, userVars, histVars
<1>4. CASE Loop \/ Quit \/ Corrupt \/ UNCHANGED vars
  <2>1. UNCHANGED <<online, sess>>
    BY <1>4, LoopFrame
  <2>2. UNCHANGED mail \/ \E u \in Users : DeliverTake(u)
    BY <1>4 DEF Loop, Quit, Corrupt, Dies, InitGroup, InitUser, MainLoop, BuddytreeFill, BuddytreeUpdate,
       DeliverCheck, DeliverSend, DeliverReturn, userVars, vars
  <2> QED
    BY <2>1, <2>2
<1> QED
  BY <1>1, <1>2, <1>3, <1>4, RequestIs DEF Next

LEMMA StepTagged ==
  ASSUME TypeInv, OneThreadPerFd, Progress, Tagged, [Next]_vars
  PROVE  Tagged'
<1>0. UserTypes /\ HasClient /\ ThreadTypes /\ mail \in [Users -> Seq(Msgs)]
  BY DEF TypeInv, Types, MailTypes
<1>1. \A o \in Threads : PastLogin(o) => PastLogin(o)'
  BY StepPastLogin
<1>2. ASSUME NEW u \in Users, NEW i \in DOMAIN mail[u]
      PROVE  mail[u][i][3] \in Threads \cup {NoThread}
  <2>1. mail[u][i] \in Msgs
    BY <1>0, <1>2
  <2> QED
    BY <2>1 DEF Msgs
<1>3. CASE UNCHANGED <<mail, online, sess>>
  <2>1. ASSUME NEW u \in Users
        PROVE  /\ online'[u] => sess'[u] # NoThread
               /\ sess'[u] # NoThread => PastLogin(sess[u])'
               /\ \A i \in DOMAIN mail'[u] : mail'[u][i][3] # NoThread => PastLogin(mail[u][i][3])'
    <3>1. sess[u] # NoThread => PastLogin(sess[u])'
      BY <1>0, <1>1, <1>3 DEF Tagged, UserTypes, PastLogin
    <3>2. \A i \in DOMAIN mail[u] : mail[u][i][3] # NoThread => PastLogin(mail[u][i][3])'
      BY <1>1, <1>2, <1>3 DEF Tagged, PastLogin
    <3> QED
      BY <1>3, <3>1, <3>2 DEF Tagged
  <2> QED
    BY <2>1 DEF Tagged
<1>4. ASSUME NEW t \in Threads, LoginSetState(t)
      PROVE  Tagged'
  <2>1. /\ bound[t] \in Users /\ mail' = mail /\ online' = [online EXCEPT ![bound[t]] = TRUE]
        /\ sess' = [sess EXCEPT ![bound[t]] = t] /\ pc' = [pc EXCEPT ![t] = "notify"]
    BY <1>0, <1>4 DEF LoginSetState, At, Go, HasClient
  <2>2. PastLogin(t)'
    BY <1>0, <2>1 DEF PastLogin, ThreadTypes
  <2>3. ASSUME NEW u \in Users
        PROVE  /\ online'[u] => sess'[u] # NoThread
               /\ \E s \in Threads \cup {NoThread} : sess'[u] = s /\ (s # NoThread => PastLogin(s)')
    <3>1. CASE u = bound[t]
      BY <1>0, <2>1, <2>2, <3>1, NamesAssumption DEF UserTypes
    <3>2. CASE u # bound[t]
      <4>1. sess'[u] = sess[u] /\ online'[u] = online[u] /\ sess[u] \in Threads \cup {NoThread}
        BY <1>0, <2>1, <3>2 DEF UserTypes
      <4> QED
        BY <1>1, <4>1 DEF Tagged
    <3> QED
      BY <3>1, <3>2
  <2>4. \A u \in Users : \A i \in DOMAIN mail[u] :
          \E s \in Threads \cup {NoThread} : mail[u][i][3] = s /\ (s # NoThread => PastLogin(s)')
    BY <1>1, <1>2 DEF Tagged
  <2> QED
    BY <2>1, <2>3, <2>4 DEF Tagged, PastLogin
<1>5. ASSUME NEW t \in Threads, OfflineState(t)
      PROVE  Tagged'
  <2>1. UNCHANGED <<mail, sess>> /\ \A u \in Users : online'[u] => online[u]
    BY <1>0, <1>5 DEF OfflineState, histVars, UserTypes
  <2>2. \A u \in Users :
          \E s \in Threads \cup {NoThread} : sess[u] = s /\ (s # NoThread => PastLogin(s)')
    BY <1>0, <1>1 DEF Tagged, UserTypes
  <2>3. \A u \in Users : \A i \in DOMAIN mail[u] :
          \E s \in Threads \cup {NoThread} : mail[u][i][3] = s /\ (s # NoThread => PastLogin(s)')
    BY <1>1, <1>2 DEF Tagged
  <2>4. \A u \in Users : online'[u] => sess[u] # NoThread
    BY <2>1 DEF Tagged
  <2> QED
    BY <2>1, <2>2, <2>3, <2>4 DEF Tagged, PastLogin
<1>6. ASSUME UNCHANGED <<online, sess>>,
             \A u \in Users : \A i \in DOMAIN mail'[u] :
               \E s \in Threads \cup {NoThread} : mail'[u][i][3] = s /\ (s # NoThread => PastLogin(s)')
      PROVE  Tagged'
  <2>1. \A u \in Users :
          \E s \in Threads \cup {NoThread} : sess[u] = s /\ (s # NoThread => PastLogin(s)')
    BY <1>0, <1>1 DEF Tagged, UserTypes
  <2> QED
    BY <1>6, <2>1 DEF Tagged, PastLogin
<1>7. ASSUME NEW t \in Threads, AddMsg(t)
      PROVE  Tagged'
  <2>1. UNCHANGED <<online, sess>>
    BY <1>7, AddMsgAppends
  <2>2. ASSUME NEW u \in Users, NEW i \in DOMAIN mail'[u]
        PROVE  \E s \in Threads \cup {NoThread} : mail'[u][i][3] = s /\ (s # NoThread => PastLogin(s)')
    <3>1. CASE i \in DOMAIN mail[u] /\ mail'[u][i] = mail[u][i]
      BY <1>1, <1>2, <3>1 DEF Tagged
    <3>2. CASE mail'[u][i] = <<t, sent[t], Session(u)>>
      <4>1. mail'[u][i][3] = Session(u) /\ Session(u) \in Threads \cup {NoThread}
        BY <1>0, <3>2 DEF Session, UserTypes
      <4>2. Session(u) # NoThread => PastLogin(sess[u]) /\ Session(u) = sess[u]
        BY DEF Session, Tagged
      <4> QED
        BY <1>1, <4>1, <4>2
    <3> QED
      BY <1>7, <3>1, <3>2, AddMsgElements
  <2> QED
    BY <1>6, <2>1, <2>2
<1>8. ASSUME NEW w \in Users, DeliverTake(w)
      PROVE  Tagged'
  <2>1. UNCHANGED <<online, sess>>
    BY <1>8 DEF DeliverTake, histVars
  <2>2. ASSUME NEW u \in Users, NEW i \in DOMAIN mail'[u]
        PROVE  \E s \in Threads \cup {NoThread} : mail'[u][i][3] = s /\ (s # NoThread => PastLogin(s)')
    <3>1. PICK j \in DOMAIN mail[u] : mail'[u][i] = mail[u][j]
      BY <1>8, TakeElements
    <3> QED
      BY <1>1, <1>2, <3>1 DEF Tagged
  <2> QED
    BY <1>6, <2>1, <2>2
<1> QED
  BY <1>3, <1>4, <1>5, <1>7, <1>8, StepMail

Waiting(u) == online[u] /\ Fresh(u) # {}
Posts(t, u) == pc[t] = "post" /\ Head(work[t]) = u
Awake(u) == mcl = u \/ Queued("deliver", u) \/ \E t \in Threads : Posts(t, u)

LEMMA NoLostWakeupIsAwake == NoLostWakeup <=> \A u \in Users : Waiting(u) => Awake(u)
BY DEF NoLostWakeup, Waiting, Awake, Queued, Posts

\* Only stk_add_msg() puts a message into the present session of a user.
LEMMA StepWaiting ==
  ASSUME TypeInv, Tagged, [Next]_vars, NEW u \in Users, Waiting(u)'
  PROVE  Waiting(u) \/ \E t \in Threads : AddMsg(t) /\ Head(work[t]) = u
<1>0. UserTypes /\ HasClient /\ mail \in [Users -> Seq(Msgs)]
  BY DEF TypeInv, Types, MailTypes
<1>1. CASE UNCHANGED <<mail, online, sess>>
  BY <1>1 DEF Waiting, Fresh
<1>2. ASSUME NEW t \in Threads, AddMsg(t), Head(work[t]) # u
      PROVE  Waiting(u)
  <2>1. UNCHANGED <<online, sess>> /\ mail'[u] = mail[u]
    BY <1>0, <1>2 DEF AddMsg, histVars
  <2> QED
    BY <2>1 DEF Waiting, Fresh
<1>3. ASSUME NEW t \in Threads, LoginSetState(t)
      PROVE  Waiting(u)
  <2>1. /\ bound[t] \in Users /\ mail' = mail /\ online' = [online EXCEPT ![bound[t]] = TRUE]
        /\ sess' = [sess EXCEPT ![bound[t]] = t] /\ pc[t] = "setstate"
    BY <1>0, <1>3 DEF LoginSetState, At, HasClient
  <2>2. u # bound[t]
    <3>1. ASSUME NEW i \in DOMAIN mail[u], mail[u][i][3] = t
          PROVE  FALSE
      BY <2>1, <3>1, NamesAssumption DEF Tagged, PastLogin
    <3>2. u = bound[t] => sess'[u] = t
      BY <1>0, <2>1 DEF UserTypes
    <3> QED
      BY <2>1, <3>1, <3>2 DEF Waiting, Fresh
  <2>3. online'[u] = online[u] /\ sess'[u] = sess[u]
    BY <1>0, <2>1, <2>2 DEF UserTypes
  <2> QED
    BY <2>1, <2>3 DEF Waiting, Fresh
<1>4. ASSUME NEW t \in Threads, OfflineState(t)
      PROVE  Waiting(u)
  <2>1. UNCHANGED <<mail, sess>> /\ (online'[u] => online[u])
    BY <1>0, <1>4 DEF OfflineState, histVars, UserTypes
  <2> QED
    BY <2>1 DEF Waiting, Fresh
<1>5. ASSUME NEW w \in Users, DeliverTake(w)
      PROVE  Waiting(u)
  <2>1. UNCHANGED <<online, sess>>
    BY <1>5 DEF DeliverTake, histVars
  <2>2. PICK i \in DOMAIN mail'[u] : mail'[u][i][3] = sess'[u]
    BY DEF Waiting, Fresh
  <2>3. PICK j \in DOMAIN mail[u] : mail'[u][i] = mail[u][j]
    BY <1>5, TakeElements
  <2> QED
    BY <2>1, <2>2, <2>3 DEF Waiting, Fresh
<1> QED
  BY <1>1, <1>2, <1>3, <1>4, <1>5, StepMail

LEMMA AwakeFrame ==
  ASSUME NEW u \in Users, Awake(u), mcl = u => mcl' = u \/ Queued("deliver", u)',
         Queued("deliver", u) => Queued("deliver", u)' \/ mcl' = u,
         \A t \in Threads : Posts(t, u) => Posts(t, u)' \/ Queued("deliver", u)'
  PROVE  Awake(u)'
BY DEF Awake

\* A callback for u is lost only when it finds him offline, or nothing queued.
LEMMA StepAwake ==
  ASSUME TypeInv, [Next]_vars, NEW u \in Users, Awake(u), Waiting(u)'
  PROVE  Awake(u)'
<1>0. LoopTypes /\ ThreadTypes /\ UserTypes /\ HasClient /\ HasReceiver /\ Types /\ idle \in Seq(Tasks)
      /\ u # NoUser
  BY UsersAssumption DEF TypeInv, Types, LoopTypes, Uids
<1>1. ASSUME UNCHANGED <<idle, mcl>>, \A t \in Threads : Posts(t, u) => Posts(t, u)'
      PROVE  Awake(u)'
  <2>1. Queued("deliver", u) => Queued("deliver", u)'
    BY <1>1 DEF Queued
  <2> QED
    BY <1>1, <2>1, AwakeFrame
<1>2. ASSUME NEW t \in Threads, Post(t)
      PROVE  Awake(u)'
  <2>1. /\ Head(work[t]) \in Users /\ IdleAdd("deliver", Head(work[t])) /\ mcl' = mcl
        /\ pc[t] = "post" /\ NextMember(t)
    BY <1>0, <1>2 DEF Post, At, HasReceiver
  <2>2. PICK v \in Users : v = Head(work[t]) /\ IdleAdd("deliver", v)
    BY <2>1 DEF IdleAdd
  <2>3. /\ Queued("deliver", u) => Queued("deliver", u)'
        /\ Queued("deliver", v)'
    BY <1>0, <2>2, IdleAddQueues
  <2>4. ASSUME NEW o \in Threads, Posts(o, u)
        PROVE  Posts(o, u)' \/ Queued("deliver", u)'
    <3>1. CASE o = t
      BY <2>2, <2>3, <2>4, <3>1 DEF Posts
    <3>2. CASE o # t
      BY <1>0, <2>1, <2>4, <3>2 DEF Posts, NextMember, Go, ThreadTypes
    <3> QED
      BY <3>1, <3>2
  <2> QED
    BY <2>1, <2>3, <2>4, AwakeFrame
<1>3. ASSUME NEW t \in Threads, LoginReply(t) \/ Close(t)
      PROVE  Awake(u)'
  <2>1. /\ mcl' = mcl /\ work' = work /\ pc[t] # "post" /\ \E x \in PCs : pc' = [pc EXCEPT ![t] = x]
        /\ idle' = idle \/ (bound[t] \in Users /\ IdleAdd("update", bound[t]))
    BY <1>0, <1>3 DEF LoginReply, Close, At, Go, HasClient, PCs
  <2>2. Queued("deliver", u) => Queued("deliver", u)'
    <3>1. CASE idle' = idle
      BY <3>1 DEF Queued
    <3>2. CASE bound[t] \in Users /\ IdleAdd("update", bound[t])
      <4>1. PICK v \in Users : v = bound[t] /\ IdleAdd("update", v)
        BY <3>2 DEF IdleAdd
      <4> QED
        BY <1>0, <4>1, IdleAddQueues
    <3> QED
      BY <2>1, <3>1, <3>2
  <2>3. \A o \in Threads : Posts(o, u) => Posts(o, u)'
    BY <1>0, <2>1 DEF Posts, ThreadTypes
  <2> QED
    BY <2>1, <2>2, <2>3, AwakeFrame
<1>4. ASSUME NEW t \in Threads, ReadsOn(t)
      PROVE  Awake(u)'
  <2>1. /\ UNCHANGED <<idle, mcl>> /\ pc[t] = "recv"
        /\ \E x \in {"recv", "setfd", "work", "group"} : pc' = [pc EXCEPT ![t] = x]
    BY <1>0, <1>4, ReadsOnType DEF loopVars
  <2>2. \A o \in Threads : o # t => work'[o] = work[o]
    <3>1. CASE \E to \in Seq(Uids), where \in {"work", "group"} : Receive(t, to, where)
      BY <1>0, <3>1 DEF Receive, ThreadTypes
    <3>2. CASE UNCHANGED work
      BY <3>2
    <3> QED
      BY <1>0, <1>4, <3>1, <3>2, ChatReceives DEF ReadsOn, ReqLogin, LoginChecked, Query, LoginRefused
  <2>3. \A o \in Threads : Posts(o, u) => Posts(o, u)'
    BY <1>0, <2>1, <2>2 DEF Posts, ThreadTypes
  <2> QED
    BY <1>1, <2>1, <2>3
<1>5. ASSUME NEW t \in Threads, \/ LoginSetFd(t) \/ LoginSetState(t) \/ StepOver(t) \/ Serve(t) \/ AddCheck(t)
                                \/ AddMsg(t) \/ Eof(t) \/ OfflineFd(t) \/ OfflineState(t) \/ RecvError(t)
      PROVE  Awake(u)'
  <2>1. /\ UNCHANGED <<idle, mcl>> /\ pc[t] # "post" /\ \E x \in PCs : pc' = [pc EXCEPT ![t] = x]
        /\ work' = work \/ \E s : work' = [work EXCEPT ![t] = s]
    BY <1>5, NextMemberPc DEF LoginSetFd, LoginSetState, StepOver, Serve, AddCheck, AddMsg, Eof, OfflineFd,
       OfflineState, RecvError, NextMember, Reads, At, Go, PCs, loopVars
  <2>2. \A o \in Threads : Posts(o, u) => Posts(o, u)'
    BY <1>0, <2>1 DEF Posts, ThreadTypes
  <2> QED
    BY <1>1, <2>1, <2>2
<1>6. ASSUME \/ \E t \in Threads, f \in Fds, v \in Uids : Accept(t, f, v)
             \/ \E f \in Fds : PeerClose(f)
             \/ \E t \in Threads : GetGroupInfoUnknown(t)
             \/ InitGroup \/ InitUser \/ MainLoop \/ Quit \/ Corrupt \/ UNCHANGED vars
             \/ \E v \in Users : BuddytreeFill(v) \/ DeliverTake(v) \/ DeliverSend(v)
      PROVE  Awake(u)'
  <2>1. /\ UNCHANGED <<idle, mcl, work>>
        /\ pc' = pc \/ \E t \in Threads : pc[t] = "none" /\ pc' = [pc EXCEPT ![t] = "recv"]
    BY <1>6 DEF Accept, PeerClose, GetGroupInfoUnknown, InitGroup, InitUser, MainLoop, Quit, Corrupt, Dies,
       BuddytreeFill, DeliverTake, DeliverSend, Go, threadVars, loopVars, vars
  <2>2. \A o \in Threads : Posts(o, u) => Posts(o, u)'
    BY <1>0, <2>1 DEF Posts, ThreadTypes
  <2> QED
    BY <1>1, <2>1, <2>2
<1>7. ASSUME NEW v \in Users, DeliverReturn(v)
      PROVE  Awake(u)'
  <2>1. mcl = v /\ mail[v] = <<>> /\ UNCHANGED <<idle, mail, pc, work>>
    BY <1>7 DEF DeliverReturn, Delivering, userVars, threadVars
  <2>2. u # v
    BY <2>1 DEF Waiting, Fresh
  <2> QED
    BY <2>1, <2>2 DEF Awake, Queued, Posts
<1>8. ASSUME NEW v \in Users, BuddytreeUpdate(v)
      PROVE  Awake(u)'
  <2>1. Runs("update", v) /\ idle' = Tail(idle) /\ UNCHANGED <<mcl, pc, work>> /\ <<"deliver", u>> # <<"update", v>>
    BY <1>8 DEF BuddytreeUpdate, threadVars
  <2>2. Queued("deliver", u) => Queued("deliver", u)'
    BY <1>0, <2>1, RunsTakes
  <2> QED
    BY <2>1, <2>2 DEF Awake, Posts
<1>9. ASSUME NEW v \in Users, DeliverCheck(v)
      PROVE  Awake(u)'
  <2>1. /\ Runs("deliver", v) /\ idle' = Tail(idle) /\ UNCHANGED <<pc, work, online>>
        /\ mcl = NoUser /\ mcl' = IF online[v] THEN v ELSE NoUser
    BY <1>9 DEF DeliverCheck, Runs, threadVars, userVars
  <2>2. CASE u = v
    <3>1. online[u]
      BY <2>1 DEF Waiting
    <3> QED
      BY <2>1, <2>2, <3>1 DEF Awake
  <2>3. CASE u # v
    <3>1. Queued("deliver", u) => Queued("deliver", u)'
      BY <1>0, <2>1, <2>3, RunsTakes
    <3> QED
      BY <1>0, <2>1, <3>1 DEF Awake, Posts
  <2> QED
    BY <2>2, <2>3
<1> QED
  BY <1>2, <1>3, <1>4, <1>5, <1>6, <1>7, <1>8, <1>9, RequestIs DEF Next, Step, Loop

LEMMA StepNoLostWakeup ==
  ASSUME TypeInv, Tagged, NoLostWakeup, [Next]_vars
  PROVE  NoLostWakeup'
<1>1. ASSUME NEW u \in Users, Waiting(u)'
      PROVE  Awake(u)'
  <2>1. CASE Waiting(u)
    BY <1>1, <2>1, StepAwake, NoLostWakeupIsAwake
  <2>2. ASSUME NEW t \in Threads, AddMsg(t), Head(work[t]) = u
        PROVE  Awake(u)'
    <3>1. pc' = [pc EXCEPT ![t] = "post"] /\ work' = work /\ pc \in [Threads -> PCs]
      BY <2>2, AddMsgAppends DEF TypeInv, Types, ThreadTypes
    <3>2. Posts(t, u)'
      BY <2>2, <3>1 DEF Posts
    <3> QED
      BY <3>2 DEF Awake
  <2> QED
    BY <1>1, <2>1, <2>2, StepWaiting
<1> QED
  BY <1>1 DEF NoLostWakeup, Waiting, Awake, Queued, Posts, Fresh

LEMMA DeliveryCorrect == Spec => [](TypeInv /\ OwnInv /\ Progress /\ Tagged /\ NoLostWakeup)
<1>1. Init => NoLostWakeup
  <2>1. Init => \A u \in Users : ~online[u]
    BY DEF Init
  <2> QED
    BY <2>1 DEF NoLostWakeup
<1>2. TypeInv /\ OwnInv /\ Progress /\ Tagged /\ NoLostWakeup /\ [Next]_vars
        => Progress' /\ Tagged' /\ NoLostWakeup'
  BY StepProgress, StepTagged, StepNoLostWakeup DEF OwnInv
<1> QED
  BY <1>1, <1>2, InitTagged, OwnInvCorrect, PTL DEF Spec

\* A message queued in its receiver's present session has a callback that will
\* find it, for any number of senders, sessions and callbacks.
THEOREM NoLostWakeupCorrect == Spec => []NoLostWakeup
BY DeliveryCorrect, PTL

-----------------------------------------------------------------------------
(* The order of messages                                                   *)

\* m may come before n.
Precedes(m, n) == m[1] = n[1] => m[2] < n[2]

\* The main loop holds a message only for the client it serves.
HeldInv == mmsg # NoMsg => mcl \in Users
Held(u) == mmsg # NoMsg /\ mcl = u

\* What has come to u so far: written to him, queued, or held by the main loop.
Reached(u) ==
  {got[u][i] : i \in DOMAIN got[u]} \cup {mail[u][i] : i \in DOMAIN mail[u]}
    \cup {m \in {mmsg} : Held(u)}

\* Written before held, held before queued, each in order.
Ordered ==
  \A u \in Users :
    /\ \A i, j \in DOMAIN got[u] : i < j => Precedes(got[u][i], got[u][j])
    /\ \A i, j \in DOMAIN mail[u] : i < j => Precedes(mail[u][i], mail[u][j])
    /\ \A i \in DOMAIN got[u], j \in DOMAIN mail[u] : Precedes(got[u][i], mail[u][j])
    /\ Held(u) => /\ \A i \in DOMAIN got[u] : Precedes(got[u][i], mmsg)
                  /\ \A j \in DOMAIN mail[u] : Precedes(mmsg, mail[u][j])

\* The receivers the packet t is handling has still to be queued for.
Todo(t) ==
  IF pc[t] \in {"group", "work", "add", "append"} THEN {work[t][i] : i \in DOMAIN work[t]}
  ELSE IF pc[t] = "post" THEN {work[t][i] : i \in DOMAIN work[t] \ {1}}
  ELSE {}

\* No message of a rank its thread has not reached; the latest one has not
\* come to a receiver who is still to be served.
Ranked ==
  \A u \in Users : \A m \in Reached(u) :
    /\ m[2] \in 1 .. sent[m[1]]
    /\ m[2] = sent[m[1]] => u \notin Todo(m[1])

\* A packet has no receiver twice, if the group has no member twice: the server
\* takes the members of its groups file as they come.
OnceEach == \A t \in Threads : \A i, j \in DOMAIN work[t] : work[t][i] = work[t][j] => i = j

DistinctMembers == \A i, j \in DOMAIN Group : Group[i] = Group[j] => i = j

OrderInv == HeldInv /\ Ordered /\ Ranked /\ OnceEach

LEMMA InitOrderInv == Init => OrderInv
<1>1. Init => /\ \A u \in Users : got[u] = <<>> /\ mail[u] = <<>> /\ ~Held(u)
              /\ \A t \in Threads : work[t] = <<>>
              /\ HeldInv
  BY DEF Init, Held, HeldInv
<1> QED
  BY <1>1 DEF OrderInv, Ordered, Ranked, Reached, OnceEach

\* What a step does to a list of receivers: a new one, its tail, or none.
LEMMA StepWork ==
  ASSUME TypeInv, [Next]_vars, NEW t \in Threads
  PROVE  \/ work'[t] = work[t] /\ sent'[t] = sent[t] /\ Todo(t)' \subseteq Todo(t)
         \/ AddMsg(t)
         \/ /\ sent'[t] = sent[t] + 1
            /\ work'[t] = Group \/ \E v \in Uids : work'[t] = <<v>>
         \/ /\ work[t] # <<>> /\ work'[t] = Tail(work[t])
            /\ sent'[t] = sent[t] /\ Todo(t)' \subseteq Todo(t)
         \/ work'[t] = <<>> /\ sent'[t] = sent[t] /\ Todo(t)' \subseteq Todo(t)
<1> DEFINE Busy == {"group", "work", "add", "append"}
           Same == work'[t] = work[t] /\ sent'[t] = sent[t]
           Less == Todo(t)' \subseteq Todo(t)
           Short == work[t] # <<>> /\ work'[t] = Tail(work[t]) /\ sent'[t] = sent[t]
<1>0. Types /\ ThreadTypes /\ HasReceiver /\ work[t] \in Seq(Uids)
  BY DEF TypeInv, Types, ThreadTypes
<1>1. ASSUME Same, pc'[t] = pc[t] \/ pc'[t] \notin Busy \cup {"post"} \/ {pc[t], pc'[t]} \subseteq Busy
      PROVE  Less
  BY <1>1 DEF Todo
<1>2. ASSUME Short, pc[t] \in {"group", "add", "post"}, pc'[t] \in {"recv", "group"}
      PROVE  Less
  <2>1. \A i \in DOMAIN work'[t] : i + 1 \in DOMAIN work[t] \ {1} /\ work'[t][i] = work[t][i + 1]
    BY <1>0, <1>2
  <2> QED
    BY <1>2, <2>1 DEF Todo
<1>3. ASSUME NEW o \in Threads, NextMember(o), UNCHANGED sent, pc[o] \in {"group", "add", "post"}
      PROVE  (Same /\ Less) \/ (Short /\ Less)
  <2>1. /\ work' = [work EXCEPT ![o] = Tail(@)]
        /\ \E x \in {"recv", "group"} : pc' = [pc EXCEPT ![o] = x]
        /\ work[o] # <<>>
    BY <1>0, <1>3, NextMemberType DEF HasReceiver, Handling
  <2>2. CASE o # t
    <3>1. Same /\ pc'[t] = pc[t]
      BY <1>0, <1>3, <2>1, <2>2 DEF ThreadTypes
    <3> QED
      BY <1>1, <3>1
  <2>3. CASE o = t
    <3>1. Short /\ pc'[t] \in {"recv", "group"}
      BY <1>0, <1>3, <2>1, <2>3 DEF ThreadTypes
    <3> QED
      BY <1>2, <1>3, <2>3, <3>1
  <2> QED
    BY <2>2, <2>3
<1>4. ASSUME NEW o \in Threads, StepOver(o) \/ Post(o)
      PROVE  (Same /\ Less) \/ (Short /\ Less)
  BY <1>3, <1>4 DEF StepOver, Post, At
<1>5. ASSUME NEW o \in Threads, AddCheck(o)
      PROVE  (Same /\ Less) \/ (Short /\ Less)
  <2>1. CASE NextMember(o)
    BY <1>3, <1>5, <2>1 DEF AddCheck, At
  <2>2. CASE Go(o, "append") /\ UNCHANGED work
    <3>1. Same /\ (pc'[t] = pc[t] \/ {pc[t], pc'[t]} \subseteq Busy)
      BY <1>0, <1>5, <2>2 DEF AddCheck, At, Go, ThreadTypes
    <3> QED
      BY <1>1, <3>1
  <2> QED
    BY <1>5, <2>1, <2>2 DEF AddCheck
<1>6. ASSUME NEW o \in Threads, Serve(o)
      PROVE  (Same /\ Less) \/ (work'[t] = <<>> /\ sent'[t] = sent[t] /\ Less)
  <2>1. CASE Go(o, "add") /\ UNCHANGED work
    <3>1. Same /\ (pc'[t] = pc[t] \/ {pc[t], pc'[t]} \subseteq Busy)
      BY <1>0, <1>6, <2>1 DEF Serve, At, Go, ThreadTypes
    <3> QED
      BY <1>1, <3>1
  <2>2. CASE Go(o, "recv") /\ work' = [work EXCEPT ![o] = <<>>]
    <3>1. CASE o # t
      <4>1. Same /\ pc'[t] = pc[t]
        BY <1>0, <1>6, <2>2, <3>1 DEF Serve, Go, ThreadTypes
      <4> QED
        BY <1>1, <4>1
    <3>2. CASE o = t
      <4>1. work'[t] = <<>> /\ sent'[t] = sent[t] /\ pc'[t] = "recv"
        BY <1>0, <1>6, <2>2, <3>2 DEF Serve, Go, ThreadTypes
      <4> QED
        BY <4>1 DEF Todo
    <3> QED
      BY <3>1, <3>2
  <2> QED
    BY <1>6, <2>1, <2>2 DEF Serve
<1>7. ASSUME NEW o \in Threads, SendGmsg(o) \/ \E v \in Uids : SendMsg(o, v)
      PROVE  \/ Same /\ Less
             \/ sent'[t] = sent[t] + 1 /\ (work'[t] = Group \/ \E v \in Uids : work'[t] = <<v>>)
  <2>1. PICK to \in Seq(Uids), where \in {"work", "group"} :
          Receive(o, to, where) /\ (to = Group \/ \E v \in Uids : to = <<v>>)
    <3>1. \A v \in Uids : <<v>> \in Seq(Uids)
      OBVIOUS
    <3> QED
      BY <1>7, <3>1, GroupType DEF SendGmsg, SendMsg
  <2>2. /\ work' = [work EXCEPT ![o] = to] /\ sent' = [sent EXCEPT ![o] = @ + 1]
        /\ \E x \in {"recv", where} : pc' = [pc EXCEPT ![o] = x]
    BY <1>0, <2>1, ReceiveType
  <2>3. CASE o # t
    <3>1. Same /\ pc'[t] = pc[t]
      BY <1>0, <2>2, <2>3 DEF ThreadTypes
    <3> QED
      BY <1>1, <3>1
  <2>4. CASE o = t
    BY <1>0, <2>1, <2>2, <2>4 DEF ThreadTypes
  <2> QED
    BY <2>3, <2>4
<1>8. ASSUME NEW o \in Threads, AddMsg(o)
      PROVE  AddMsg(t) \/ (Same /\ Less)
  <2>1. CASE o # t
    <3>1. Same /\ pc'[t] = pc[t]
      BY <1>0, <1>8, <2>1, AddMsgAppends DEF ThreadTypes
    <3> QED
      BY <1>1, <3>1
  <2> QED
    BY <1>8, <2>1
<1>9. ASSUME NEW o \in Threads,
             \/ LoginSetFd(o) \/ LoginSetState(o) \/ LoginReply(o) \/ Eof(o) \/ OfflineFd(o)
             \/ OfflineState(o) \/ Close(o) \/ RecvError(o)
             \/ ReqLogin(o) \/ LoginChecked(o) \/ Query(o) \/ GetGroupInfoUnknown(o)
             \/ \E passOk \in BOOLEAN : LoginRefused(o, passOk)
      PROVE  Same /\ Less
  <2>1. /\ UNCHANGED <<work, sent>>
        /\ \/ pc' = pc
           \/ \E x \in PCs \ (Busy \cup {"post"}) : pc' = [pc EXCEPT ![o] = x]
    BY <1>9 DEF LoginSetFd, LoginSetState, LoginReply, Eof, OfflineFd, OfflineState, Close, RecvError,
       ReqLogin, LoginChecked, Query, GetGroupInfoUnknown, LoginRefused, Dies, Go, PCs, threadVars
  <2>2. pc'[t] = pc[t] \/ pc'[t] \notin Busy \cup {"post"}
    BY <1>0, <2>1 DEF ThreadTypes
  <2> QED
    BY <1>1, <2>1, <2>2
<1>10. ASSUME NEW o \in Threads, \E f \in Fds, u \in Uids : Accept(o, f, u)
       PROVE  Same /\ Less
  <2>1. UNCHANGED <<work, sent>> /\ pc' = [pc EXCEPT ![o] = "recv"]
    BY <1>10 DEF Accept, Go
  <2>2. pc'[t] = pc[t] \/ pc'[t] \notin Busy \cup {"post"}
    BY <1>0, <2>1 DEF ThreadTypes
  <2> QED
    BY <1>1, <2>1, <2>2
<1>11. ASSUME Loop \/ Quit \/ Corrupt \/ UNCHANGED vars \/ \E f \in Fds : PeerClose(f)
       PROVE  Same /\ Less
  <2>1. UNCHANGED <<work, sent, pc>>
    BY <1>11, LoopFrame DEF PeerClose, threadVars
  <2> QED
    BY <1>1, <2>1
<1> HIDE DEF Same, Less, Short
<1>12. \/ (Same /\ Less) \/ (Short /\ Less) \/ AddMsg(t)
       \/ sent'[t] = sent[t] + 1 /\ (work'[t] = Group \/ \E v \in Uids : work'[t] = <<v>>)
       \/ (work'[t] = <<>> /\ sent'[t] = sent[t] /\ Less)
  BY <1>4, <1>5, <1>6, <1>7, <1>8, <1>9, <1>10, <1>11 DEF Next, Step, Request
<1> QED
  BY <1>12 DEF Same, Less, Short

LEMMA StepOnceEach ==
  ASSUME DistinctMembers, TypeInv, OnceEach, [Next]_vars
  PROVE  OnceEach'
<1> SUFFICES ASSUME NEW t \in Threads, NEW i \in DOMAIN work'[t], NEW j \in DOMAIN work'[t],
                    work'[t][i] = work'[t][j]
             PROVE  i = j
  BY DEF OnceEach
<1>0. work[t] \in Seq(Uids)
  BY DEF TypeInv, Types, ThreadTypes
<1>1. CASE work'[t] = work[t]
  BY <1>1 DEF OnceEach
<1>2. CASE work[t] # <<>> /\ work'[t] = Tail(work[t])
  <2>1. /\ i + 1 \in DOMAIN work[t] /\ work'[t][i] = work[t][i + 1]
        /\ j + 1 \in DOMAIN work[t] /\ work'[t][j] = work[t][j + 1]
    BY <1>0, <1>2, TailElements
  <2>2. i + 1 = j + 1
    BY <2>1 DEF OnceEach
  <2> QED
    BY <1>0, <1>2, <2>2
<1>3. CASE work'[t] = <<>> \/ work'[t] = Group \/ \E v \in Uids : work'[t] = <<v>>
  BY <1>3 DEF DistinctMembers
<1>4. CASE AddMsg(t)
  BY <1>1, <1>4 DEF AddMsg
<1> QED
  BY <1>1, <1>2, <1>3, <1>4, StepWork

\* What a step does to the messages: it queues, takes or sends one, or none.
LEMMA StepStream ==
  ASSUME TypeInv, HeldInv, [Next]_vars
  PROVE  \/ UNCHANGED <<mail, got, mmsg, mcl>>
         \/ UNCHANGED <<mail, got>> /\ mmsg = NoMsg /\ mmsg' = NoMsg
         \/ \E t \in Threads : AddMsg(t)
         \/ \E u \in Users : DeliverTake(u) \/ DeliverSend(u)
<1>1. ASSUME NEW t \in Threads, Step(t) \/ RecvError(t) \/ GetGroupInfoUnknown(t), ~AddMsg(t)
      PROVE  UNCHANGED <<mail, got, mmsg, mcl>>
  BY <1>1 DEF Step, LoginSetFd, LoginSetState, LoginReply, StepOver, Serve, AddCheck, Post, Eof, OfflineFd,
     OfflineState, Close, GetGroupInfoUnknown, Dies, RecvError, userVars, histVars, loopVars
<1>2. ASSUME NEW t \in Threads, ReadsOn(t)
      PROVE  UNCHANGED <<mail, got, mmsg, mcl>>
  BY <1>2, ReadsOnType DEF TypeInv, loopVars
<1>3. ASSUME NEW u \in Users, DeliverCheck(u) \/ DeliverReturn(u)
      PROVE  UNCHANGED <<mail, got>> /\ mmsg = NoMsg /\ mmsg' = NoMsg
  BY <1>3, UsersAssumption DEF DeliverCheck, DeliverReturn, Runs, Delivering, HeldInv, Uids, userVars, histVars
<1>4. ASSUME \/ InitGroup \/ InitUser \/ MainLoop \/ Quit \/ Corrupt \/ UNCHANGED vars
             \/ \E u \in Users : BuddytreeFill(u) \/ BuddytreeUpdate(u)
             \/ \E t \in Threads, f \in Fds, u \in Uids : Accept(t, f, u)
             \/ \E f \in Fds : PeerClose(f)
      PROVE  UNCHANGED <<mail, got, mmsg, mcl>>
  BY <1>4 DEF InitGroup, InitUser, MainLoop, Quit, Corrupt, Dies, BuddytreeFill, BuddytreeUpdate, Accept,
     PeerClose, userVars, histVars, loopVars, vars
<1> QED
  BY <1>1, <1>2, <1>3, <1>4, RequestIs DEF Next, Loop

\* stk_get_msg(), with the message in the main loop's hands.
LEMMA TakeHolds ==
  ASSUME TypeInv, NEW w \in Users, DeliverTake(w)
  PROVE  /\ mail[w] \in Seq(Msgs) /\ mail[w] # <<>> /\ mmsg = NoMsg /\ mcl = w /\ mcl' = w
         /\ 1 \in DOMAIN mail[w] /\ mmsg' = mail[w][1] /\ mmsg' \in Msgs /\ mmsg' # NoMsg
         /\ mail' = [mail EXCEPT ![w] = Tail(@)] /\ got' = got
<1>1. /\ mail[w] \in Seq(Msgs) /\ mail[w] # <<>> /\ mmsg = NoMsg /\ mcl = w /\ mcl' = w
      /\ mmsg' = Head(mail[w])
      /\ mail' = [mail EXCEPT ![w] = Tail(@)] /\ got' = got
  BY DEF DeliverTake, Delivering, TypeInv, Types, MailTypes, histVars
<1>2. 1 \in DOMAIN mail[w] /\ Head(mail[w]) = mail[w][1] /\ mail[w][1] \in Msgs
  BY <1>1
<1>3. \A m \in Msgs : m # NoMsg
  BY DEF Msgs, NoMsg
<1> QED
  BY <1>1, <1>2, <1>3

\* send(), and what it may add to the messages written.
LEMMA SendWrites ==
  ASSUME TypeInv, NEW w \in Users, DeliverSend(w)
  PROVE  /\ mmsg \in Msgs /\ Held(w) /\ mmsg' = NoMsg /\ mail' = mail
         /\ \A u \in Users : \A i \in DOMAIN got'[u] :
              \/ i \in DOMAIN got[u] /\ got'[u][i] = got[u][i]
              \/ u = w /\ i = Len(got[u]) + 1 /\ got'[u][i] = mmsg
<1>0. got \in [Users -> Seq(Msgs)]
  BY DEF TypeInv, Types, MailTypes
<1>1. /\ mmsg \in Msgs /\ mmsg # NoMsg /\ mcl = w /\ mmsg' = NoMsg /\ mail' = mail
      /\ got' = [got EXCEPT ![w] = Append(@, mmsg)] \/ got' = got
  BY DEF DeliverSend, TypeInv, Types, LoopTypes, userVars
<1>2. ASSUME NEW u \in Users, NEW i \in DOMAIN got'[u]
      PROVE  \/ i \in DOMAIN got[u] /\ got'[u][i] = got[u][i]
             \/ u = w /\ i = Len(got[u]) + 1 /\ got'[u][i] = mmsg
  <2>1. CASE got'[u] = got[u]
    BY <1>2, <2>1
  <2>2. CASE u = w /\ got'[u] = Append(got[u], mmsg)
    <3>1. got[u] \in Seq(Msgs)
      BY <1>0
    <3> QED
      BY <1>1, <1>2, <2>2, <3>1, AppendElements
  <2> QED
    BY <1>0, <1>1, <2>1, <2>2
<1> QED
  BY <1>1, <1>2 DEF Held

LEMMA StepHeldInv ==
  ASSUME TypeInv, HeldInv, [Next]_vars
  PROVE  HeldInv'
<1>1. CASE UNCHANGED <<mail, got, mmsg, mcl>> \/ mmsg' = NoMsg
  BY <1>1 DEF HeldInv, NoMsg
<1>2. CASE \E t \in Threads : AddMsg(t)
  BY <1>2, AddMsgAppends DEF HeldInv
<1>3. ASSUME NEW w \in Users, DeliverTake(w)
      PROVE  HeldInv'
  BY <1>3, TakeHolds DEF HeldInv
<1>4. ASSUME NEW w \in Users, DeliverSend(w)
      PROVE  mmsg' = NoMsg
  BY <1>4, SendWrites
<1> QED
  BY <1>1, <1>2, <1>3, <1>4, StepStream

LEMMA ReachedType ==
  ASSUME TypeInv, NEW u \in Users
  PROVE  Reached(u) \subseteq Msgs
<1>1. mail[u] \in Seq(Msgs) /\ got[u] \in Seq(Msgs) /\ (mmsg # NoMsg => mmsg \in Msgs)
  BY DEF TypeInv, Types, MailTypes, LoopTypes
<1> QED
  BY <1>1 DEF Reached, Held

\* A step brings at most the message being queued, and only to its receiver.
LEMMA StepReached ==
  ASSUME TypeInv, HeldInv, [Next]_vars, NEW u \in Users, NEW m \in Reached(u)'
  PROVE  \/ m \in Reached(u)
         \/ \E t \in Threads : AddMsg(t) /\ Head(work[t]) = u /\ m = <<t, sent[t], Session(u)>>
<1>0. \/ \E i \in DOMAIN got'[u] : m = got'[u][i]
      \/ \E i \in DOMAIN mail'[u] : m = mail'[u][i]
      \/ m = mmsg' /\ mmsg' # NoMsg /\ mcl' = u
  BY DEF Reached, Held, NoMsg
<1>1. CASE UNCHANGED <<mail, got, mmsg, mcl>>
  BY <1>0, <1>1 DEF Reached, Held
<1>2. CASE UNCHANGED <<mail, got>> /\ mmsg' = NoMsg
  BY <1>0, <1>2 DEF Reached
<1>3. ASSUME NEW t \in Threads, AddMsg(t)
      PROVE  m \in Reached(u) \/ (Head(work[t]) = u /\ m = <<t, sent[t], Session(u)>>)
  <2>1. UNCHANGED <<got, mmsg, mcl>>
    BY <1>3, AddMsgAppends
  <2>2. CASE \E i \in DOMAIN mail'[u] : m = mail'[u][i]
    <3>1. PICK i \in DOMAIN mail'[u] : m = mail'[u][i]
      BY <2>2
    <3>2. CASE i \in DOMAIN mail[u] /\ m = mail[u][i]
      BY <3>2 DEF Reached
    <3>3. CASE u = Head(work[t]) /\ m = <<t, sent[t], Session(u)>>
      BY <3>3
    <3> QED
      BY <1>3, <3>1, <3>2, <3>3, AddMsgElements
  <2>3. CASE ~\E i \in DOMAIN mail'[u] : m = mail'[u][i]
    BY <1>0, <2>1, <2>3 DEF Reached, Held
  <2> QED
    BY <2>2, <2>3
<1>4. ASSUME NEW w \in Users, DeliverTake(w)
      PROVE  m \in Reached(u)
  <2>1. /\ mcl' = w /\ 1 \in DOMAIN mail[w] /\ mmsg' = mail[w][1] /\ got' = got
    BY <1>4, TakeHolds
  <2>2. CASE \E i \in DOMAIN mail'[u] : m = mail'[u][i]
    <3>1. PICK i \in DOMAIN mail'[u] : m = mail'[u][i]
      BY <2>2
    <3>2. PICK j \in DOMAIN mail[u] : mail'[u][i] = mail[u][j]
      BY <1>4, TakeElements
    <3> QED
      BY <3>1, <3>2 DEF Reached
  <2>3. CASE ~\E i \in DOMAIN mail'[u] : m = mail'[u][i]
    BY <1>0, <2>1, <2>3 DEF Reached
  <2> QED
    BY <2>2, <2>3
<1>5. ASSUME NEW w \in Users, DeliverSend(w)
      PROVE  m \in Reached(u)
  <2>1. /\ Held(w) /\ mmsg' = NoMsg /\ mail' = mail
        /\ \A i \in DOMAIN got'[u] :
              \/ i \in DOMAIN got[u] /\ got'[u][i] = got[u][i]
              \/ u = w /\ got'[u][i] = mmsg
    BY <1>5, SendWrites
  <2> QED
    BY <1>0, <2>1 DEF Reached
<1> QED
  BY <1>1, <1>2, <1>3, <1>4, <1>5, StepStream

LEMMA StepRanked ==
  ASSUME TypeInv, HeldInv, Ranked, OnceEach, [Next]_vars
  PROVE  Ranked'
<1> SUFFICES ASSUME NEW u \in Users, NEW m \in Reached(u)'
             PROVE  m[2] \in 1 .. sent'[m[1]] /\ (m[2] = sent'[m[1]] => u \notin Todo(m[1])')
  BY DEF Ranked
<1>0. ASSUME m \in Reached(u)
      PROVE  m[1] \in Threads /\ m[2] \in Nat
  BY <1>0, ReachedType DEF Msgs
<1>1. ASSUME NEW t \in Threads, AddMsg(t)
      PROVE  /\ sent' = sent /\ sent[t] \in 1 .. MaxSend
             /\ \A o \in Threads \ {t} : Todo(o)' = Todo(o)
             /\ Todo(t)' \subseteq Todo(t)
             /\ Head(work[t]) \notin Todo(t)'
  <2>1. /\ pc[t] = "append" /\ pc' = [pc EXCEPT ![t] = "post"] /\ UNCHANGED <<work, sent>>
        /\ work[t] \in Seq(Uids) /\ work[t] # <<>> /\ sent[t] \in 1 .. MaxSend
        /\ pc \in [Threads -> PCs]
    BY <1>1, AddMsgAppends DEF TypeInv, Types, ThreadTypes
  <2>2. /\ Todo(t) = {work[t][i] : i \in DOMAIN work[t]}
        /\ Todo(t)' = {work[t][i] : i \in DOMAIN work[t] \ {1}}
    BY <2>1 DEF Todo
  <2>3. 1 \in DOMAIN work[t] /\ Head(work[t]) = work[t][1]
    BY <2>1
  <2>4. \A i \in DOMAIN work[t] \ {1} : work[t][i] # work[t][1]
    BY <2>3 DEF OnceEach
  <2>5. \A o \in Threads \ {t} : Todo(o)' = Todo(o)
    BY <2>1 DEF Todo
  <2> QED
    BY <2>1, <2>2, <2>3, <2>4, <2>5
<1>2. CASE m \in Reached(u)
  <2>1. m[2] \in 1 .. sent[m[1]] /\ (m[2] = sent[m[1]] => u \notin Todo(m[1]))
    BY <1>2 DEF Ranked
  <2>2. sent[m[1]] \in Nat
    BY <1>0, <1>2, BoundsAssumption DEF TypeInv, Types, ThreadTypes
  <2>3. \/ sent'[m[1]] = sent[m[1]] /\ Todo(m[1])' \subseteq Todo(m[1])
        \/ sent'[m[1]] = sent[m[1]] + 1
    BY <1>0, <1>1, <1>2, StepWork
  <2> QED
    BY <2>1, <2>2, <2>3
<1>3. ASSUME NEW t \in Threads, AddMsg(t), Head(work[t]) = u, m = <<t, sent[t], Session(u)>>
      PROVE  m[2] \in 1 .. sent'[m[1]] /\ (m[2] = sent'[m[1]] => u \notin Todo(m[1])')
  <2>1. m[1] = t /\ m[2] = sent[t]
    BY <1>3
  <2> QED
    BY <1>1, <1>3, <2>1, BoundsAssumption
<1> QED
  BY <1>2, <1>3, StepReached

\* The message being queued comes after everything that has reached its
\* receiver.
LEMMA QueuedLast ==
  ASSUME TypeInv, Ranked, NEW t \in Threads, AddMsg(t), NEW u \in Users, Head(work[t]) = u,
         NEW m \in Reached(u)
  PROVE  Precedes(m, <<t, sent[t], Session(u)>>)
<1>1. pc[t] = "append" /\ work[t] \in Seq(Uids) /\ work[t] # <<>> /\ sent[t] \in Nat
  <2>1. pc[t] = "append" /\ work[t] # <<>> /\ sent[t] \in 1 .. MaxSend
    BY AddMsgAppends
  <2> QED
    BY <2>1, BoundsAssumption DEF TypeInv, Types, ThreadTypes
<1>2. u \in Todo(t)
  <2>1. 1 \in DOMAIN work[t] /\ work[t][1] = u
    BY <1>1
  <2> QED
    BY <1>1, <2>1 DEF Todo
<1>3. m[1] = t => m[2] \in 1 .. sent[t] /\ m[2] # sent[t]
  BY <1>2 DEF Ranked
<1> QED
  BY <1>1, <1>3 DEF Precedes

LEMMA AddMsgOrdered ==
  ASSUME TypeInv, Ordered, Ranked, NEW t \in Threads, AddMsg(t)
  PROVE  Ordered'
<1> DEFINE v == Head(work[t])
           n == <<t, sent[t], Session(v)>>
<1>1. UNCHANGED <<mmsg, mcl, got>>
  BY AddMsgAppends
<1>2. ASSUME v \in Users, NEW m \in Reached(v)
      PROVE  Precedes(m, n)
  BY <1>2, QueuedLast
<1>3. ASSUME NEW u \in Users, NEW j \in DOMAIN mail'[u]
      PROVE  \/ j \in DOMAIN mail[u] /\ mail'[u][j] = mail[u][j]
             \/ u = v /\ j = Len(mail[u]) + 1 /\ mail'[u][j] = n
  BY <1>3, AddMsgElements
<1> HIDE DEF n, v
<1>4. ASSUME NEW u \in Users, NEW m \in Reached(u), NEW j \in DOMAIN mail'[u],
             \A k \in DOMAIN mail[u] : Precedes(m, mail[u][k])
      PROVE  Precedes(m, mail'[u][j])
  BY <1>2, <1>3, <1>4
<1>5. ASSUME NEW u \in Users, NEW i \in DOMAIN mail'[u], NEW j \in DOMAIN mail'[u], i < j
      PROVE  Precedes(mail'[u][i], mail'[u][j])
  <2>0. mail[u] \in Seq(Msgs) /\ DOMAIN mail[u] = 1 .. Len(mail[u]) /\ Len(mail[u]) \in Nat
    BY DEF TypeInv, Types, MailTypes
  <2>1. CASE j \in DOMAIN mail[u] /\ mail'[u][j] = mail[u][j]
    <3>1. i \in DOMAIN mail[u] /\ mail'[u][i] = mail[u][i]
      BY <1>3, <1>5, <2>0, <2>1
    <3> QED
      BY <1>5, <2>1, <3>1 DEF Ordered
  <2>2. CASE u = v /\ j = Len(mail[u]) + 1 /\ mail'[u][j] = n
    <3>1. i \in DOMAIN mail[u] /\ mail'[u][i] = mail[u][i]
      BY <1>3, <1>5, <2>0, <2>2
    <3> QED
      BY <1>2, <2>2, <3>1 DEF Reached
  <2> QED
    BY <1>3, <1>5, <2>1, <2>2
<1>6. ASSUME NEW u \in Users
      PROVE  /\ \A i \in DOMAIN got[u], j \in DOMAIN mail'[u] : Precedes(got[u][i], mail'[u][j])
             /\ Held(u) => \A j \in DOMAIN mail'[u] : Precedes(mmsg, mail'[u][j])
  <2>1. ASSUME NEW i \in DOMAIN got[u], NEW j \in DOMAIN mail'[u]
        PROVE  Precedes(got[u][i], mail'[u][j])
    <3>1. got[u][i] \in Reached(u) /\ \A k \in DOMAIN mail[u] : Precedes(got[u][i], mail[u][k])
      BY <2>1 DEF Reached, Ordered
    <3> QED
      BY <1>4, <2>1, <3>1
  <2>2. ASSUME Held(u), NEW j \in DOMAIN mail'[u]
        PROVE  Precedes(mmsg, mail'[u][j])
    <3>1. mmsg \in Reached(u) /\ \A k \in DOMAIN mail[u] : Precedes(mmsg, mail[u][k])
      BY <2>2 DEF Reached, Ordered
    <3> QED
      BY <1>4, <2>2, <3>1
  <2> QED
    BY <2>1, <2>2
<1> QED
  BY <1>1, <1>5, <1>6 DEF Ordered, Held

LEMMA TakeOrdered ==
  ASSUME TypeInv, Ordered, NEW w \in Users, DeliverTake(w)
  PROVE  Ordered'
<1>1. /\ mail[w] \in Seq(Msgs) /\ mcl = w /\ mcl' = w /\ got' = got
      /\ 1 \in DOMAIN mail[w] /\ mmsg' = mail[w][1] /\ mail' = [mail EXCEPT ![w] = Tail(@)]
  BY TakeHolds
<1>2. ASSUME NEW u \in Users, NEW j \in DOMAIN mail'[u]
      PROVE  \E k \in DOMAIN mail[u] : mail'[u][j] = mail[u][k] /\ k = IF u = w THEN j + 1 ELSE j
  BY <1>2, TakeElements
<1>3. ASSUME NEW u \in Users
      PROVE  \A i \in DOMAIN got[u], j \in DOMAIN mail'[u] : Precedes(got[u][i], mail'[u][j])
  BY <1>2 DEF Ordered
<1>4. ASSUME NEW u \in Users, NEW i \in DOMAIN mail'[u], NEW j \in DOMAIN mail'[u], i < j
      PROVE  Precedes(mail'[u][i], mail'[u][j])
  <2>0. mail'[u] \in Seq(Msgs)
    BY <1>1 DEF TypeInv, Types, MailTypes
  <2>1. PICK k \in DOMAIN mail[u] : mail'[u][i] = mail[u][k] /\ k = IF u = w THEN i + 1 ELSE i
    BY <1>2, <1>4
  <2>2. PICK l \in DOMAIN mail[u] : mail'[u][j] = mail[u][l] /\ l = IF u = w THEN j + 1 ELSE j
    BY <1>2, <1>4
  <2>3. k < l
    BY <1>4, <2>0, <2>1, <2>2
  <2> QED
    BY <2>1, <2>2, <2>3 DEF Ordered
<1>5. ASSUME NEW u \in Users, u = w
      PROVE  /\ \A i \in DOMAIN got[u] : Precedes(got[u][i], mail[w][1])
             /\ \A j \in DOMAIN mail'[u] : Precedes(mail[w][1], mail'[u][j])
  <2>1. ASSUME NEW j \in DOMAIN mail'[w]
        PROVE  Precedes(mail[w][1], mail'[w][j])
    <3>1. mail'[w] \in Seq(Msgs)
      BY <1>1 DEF TypeInv, Types, MailTypes
    <3>2. j \in Nat /\ 1 < j + 1
      BY <2>1, <3>1
    <3>3. j + 1 \in DOMAIN mail[w] /\ mail'[w][j] = mail[w][j + 1]
      BY <1>2, <2>1
    <3> QED
      BY <1>1, <3>2, <3>3 DEF Ordered
  <2> QED
    BY <1>1, <1>5, <2>1 DEF Ordered
<1> QED
  BY <1>1, <1>3, <1>4, <1>5 DEF Ordered, Held

LEMMA SendOrdered ==
  ASSUME TypeInv, Ordered, NEW w \in Users, DeliverSend(w)
  PROVE  Ordered'
<1>1. mmsg \in Msgs /\ Held(w) /\ mmsg' = NoMsg /\ mail' = mail
  BY SendWrites
<1>2. ASSUME NEW u \in Users, NEW i \in DOMAIN got'[u]
      PROVE  \/ i \in DOMAIN got[u] /\ got'[u][i] = got[u][i]
             \/ u = w /\ i = Len(got[u]) + 1 /\ got'[u][i] = mmsg
  BY <1>2, SendWrites
<1>3. ASSUME NEW u \in Users, NEW i \in DOMAIN got'[u], NEW j \in DOMAIN mail[u]
      PROVE  Precedes(got'[u][i], mail[u][j])
  BY <1>1, <1>2, <1>3 DEF Ordered
<1>4. ASSUME NEW u \in Users, NEW i \in DOMAIN got'[u], NEW j \in DOMAIN got'[u], i < j
      PROVE  Precedes(got'[u][i], got'[u][j])
  <2>0. got[u] \in Seq(Msgs) /\ DOMAIN got[u] = 1 .. Len(got[u]) /\ Len(got[u]) \in Nat
    BY DEF TypeInv, Types, MailTypes
  <2>1. CASE j \in DOMAIN got[u] /\ got'[u][j] = got[u][j]
    <3>1. i \in DOMAIN got[u] /\ got'[u][i] = got[u][i]
      BY <1>2, <1>4, <2>0, <2>1
    <3> QED
      BY <1>4, <2>1, <3>1 DEF Ordered
  <2>2. CASE u = w /\ j = Len(got[u]) + 1 /\ got'[u][j] = mmsg
    <3>1. i \in DOMAIN got[u] /\ got'[u][i] = got[u][i]
      BY <1>2, <1>4, <2>0, <2>2
    <3> QED
      BY <1>1, <2>2, <3>1 DEF Ordered
  <2> QED
    BY <1>2, <1>4, <2>1, <2>2
<1>5. \A u \in Users : ~Held(u)'
  BY <1>1 DEF Held, NoMsg
<1> QED
  BY <1>1, <1>3, <1>4, <1>5 DEF Ordered

LEMMA StepOrdered ==
  ASSUME TypeInv, HeldInv, Ordered, Ranked, [Next]_vars
  PROVE  Ordered'
<1>1. CASE UNCHANGED <<mail, got, mmsg, mcl>>
  BY <1>1 DEF Ordered, Held
<1>2. CASE UNCHANGED <<mail, got>> /\ mmsg' = NoMsg
  <2>1. \A u \in Users : ~Held(u)'
    BY <1>2 DEF Held, NoMsg
  <2> QED
    BY <1>2, <2>1 DEF Ordered
<1> QED
  BY <1>1, <1>2, StepStream, AddMsgOrdered, TakeOrdered, SendOrdered

\* An element of a concatenation is one of either sequence.
LEMMA ConcatElements ==
  ASSUME NEW S, NEW s \in Seq(S), NEW r \in Seq(S), NEW k \in 1 .. Len(s \o r)
  PROVE  \/ k \in DOMAIN s /\ k <= Len(s) /\ (s \o r)[k] = s[k]
         \/ k > Len(s) /\ k - Len(s) \in DOMAIN r /\ (s \o r)[k] = r[k - Len(s)]
OBVIOUS

LEMMA OrderInvCorrect ==
  ASSUME DistinctMembers
  PROVE  Spec => [](TypeInv /\ OrderInv)
<1>1. TypeInv /\ OrderInv /\ [Next]_vars => OrderInv'
  BY StepHeldInv, StepOrdered, StepRanked, StepOnceEach DEF OrderInv
<1> QED
  BY <1>1, InitOrderInv, OwnInvCorrect, PTL DEF Spec

\* All that was written to u, then all that is queued for him, in order.
LEMMA WholeStream ==
  ASSUME TypeInv, OrderInv, NEW u \in Users,
         NEW i \in 1 .. Len(got[u] \o mail[u]), NEW j \in 1 .. Len(got[u] \o mail[u]), i < j
  PROVE  Precedes((got[u] \o mail[u])[i], (got[u] \o mail[u])[j])
<1> DEFINE G == got[u]
           M == mail[u]
           all == G \o M
<1>1. G \in Seq(Msgs) /\ M \in Seq(Msgs) /\ Len(G) \in Nat
  BY DEF TypeInv, Types, MailTypes
<1>2. ASSUME NEW k \in 1 .. Len(all)
      PROVE  \/ k \in DOMAIN G /\ k <= Len(G) /\ all[k] = G[k]
             \/ k > Len(G) /\ k - Len(G) \in DOMAIN M /\ all[k] = M[k - Len(G)]
  BY <1>1, <1>2, ConcatElements
<1>0. i \in 1 .. Len(all) /\ j \in 1 .. Len(all) /\ i < j
  OBVIOUS
<1> HIDE DEF all
<1>3. CASE j \in DOMAIN G /\ j <= Len(G) /\ all[j] = G[j]
  <2>1. i \in DOMAIN G /\ all[i] = G[i]
    BY <1>0, <1>1, <1>2, <1>3
  <2> QED
    BY <1>0, <1>3, <2>1 DEF OrderInv, Ordered
<1>4. CASE j > Len(G) /\ j - Len(G) \in DOMAIN M /\ all[j] = M[j - Len(G)]
  <2>1. CASE i \in DOMAIN G /\ all[i] = G[i]
    BY <1>4, <2>1 DEF OrderInv, Ordered
  <2>2. CASE i > Len(G) /\ i - Len(G) \in DOMAIN M /\ all[i] = M[i - Len(G)]
    <3>1. i - Len(G) < j - Len(G)
      BY <1>0, <1>1, <1>4, <2>2
    <3> QED
      BY <1>4, <2>2, <3>1 DEF OrderInv, Ordered
  <2> QED
    BY <1>0, <1>2, <2>1, <2>2
<1>5. Precedes(all[i], all[j])
  BY <1>0, <1>2, <1>3, <1>4
<1> QED
  BY <1>5 DEF all

\* When the group has no member twice, the messages of a connection reach each
\* user in the order they were sent in and once, across the mailbox, the main
\* loop and the user's sessions.
THEOREM InOrderCorrect ==
  ASSUME DistinctMembers
  PROVE  Spec => []InOrder
<1>1. TypeInv /\ OrderInv => InOrder
  BY WholeStream DEF InOrder, Precedes
<1> QED
  BY <1>1, OrderInvCorrect, PTL

=============================================================================
