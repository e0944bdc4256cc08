-------------------------- MODULE StkLogin_proofs --------------------------
(***************************************************************************)
(* A login with the GTK client for any users, groups and bounds: its types, *)
(* what the client believes about profiles and members, and what a login    *)
(* that nothing disturbed has learnt.                                       *)
(***************************************************************************)
EXTENDS StkLogin, FiniteSetTheorems, TLAPS

-----------------------------------------------------------------------------
(* Sequences                                                               *)

\* What is left after the first n elements.
LEMMA RestElements ==
  ASSUME NEW S, NEW s \in Seq(S), NEW n \in 1 .. Len(s)
  PROVE  SubSeq(s, n + 1, Len(s)) \in Seq(S) /\ 1 \in DOMAIN s /\ s[1] \in S
OBVIOUS

LEMMA AppendElements ==
  ASSUME NEW S, NEW s \in Seq(S), NEW e \in S
  PROVE  Append(s, e) \in Seq(S)
OBVIOUS

\* An element of a concatenation is one of either sequence.
LEMMA ConcatElements ==
  ASSUME NEW S, NEW s \in Seq(S), NEW r \in Seq(S)
  PROVE  /\ s \o r \in Seq(S)
         /\ \A i \in DOMAIN (s \o r) : \/ i \in DOMAIN s /\ (s \o r)[i] = s[i]
                                       \/ i - Len(s) \in DOMAIN r /\ (s \o r)[i] = r[i - Len(s)]
OBVIOUS

-----------------------------------------------------------------------------
(* Who writes what                                                         *)

\* The answers about users and groups change the lists.
LEMMA ListFrame ==
  ASSUME [Next]_vars
  PROVE  UNCHANGED <<buddies, mygroups>>
         \/ \E n \in DOMAIN down[cur] : OnUsers(n) \/ OnInfo(n) \/ OnGroups(n) \/ OnGinfo(n)
<1>1. CASE Submit \/ Cancel \/ Waiting \/ SeeRequest \/ Begin \/ ConnectCancelled \/ Connect
           \/ ConnectErr \/ ConnectFails
  BY <1>1 DEF Submit, Cancel, Waiting, SeeRequest, Begin, ConnectCancelled, Connect, ConnectErr,
     ConnectFails
<1>2. CASE ServerGone \/ SocketFails
  BY <1>2 DEF ServerGone, SocketFails, NoAnswer, Fail, Ready
<1>3. CASE \E n \in DOMAIN down[cur] : OnReq(n) \/ OnLogin(n) \/ OnSelf(n)
  BY <1>3 DEF OnReq, OnLogin, OnSelf, Fail, GoOn
<1>4. CASE \E c \in Conns : Serve(c)
  BY <1>4 DEF Serve, ReqAck, LoginAgain, LoginInvalid, LoginOk, Directory, Reply, client
<1>5. CASE LoginReply \/ Push \/ Restart
  BY <1>5 DEF LoginReply, Push, Restart, client
<1>6. CASE UNCHANGED vars
  BY <1>6 DEF vars, client
<1> QED
  BY <1>1, <1>2, <1>3, <1>4, <1>5, <1>6 DEF Next, Thread

-----------------------------------------------------------------------------
(* Type correctness                                                        *)

Profile == [uid : Range(Others), profile : {NoId, Self} \cup Range(Others)]
Membership == [gid : Range(Groups), members : {NoId} \cup Range(Groups)]
Ids == {NoId, Self} \cup Range(Others) \cup Range(Groups)

\* TypeOK in parts.
ListTypes == buddies \in Seq(Profile) /\ mygroups \in Seq(Membership)
WireTypes == up \in [Conns -> Seq(Packets)] /\ down \in [Conns -> Seq(Packets)]
ThreadTypes ==
  /\ running \in {"init", "req", "connecting", "connected", "running"} \cup Failed
  /\ win \in {"form", "waiting", "main"}
  /\ pc \in {"idle", "begin", "connect", "refused", "req", "login", "self", "users", "info",
             "groups", "ginfo", "loop"}
  /\ cur \in {0} \cup Conns /\ k \in Nat /\ cancelled \in BOOLEAN
ServerTypes ==
  /\ home \in {0} \cup Conns /\ owed \in BOOLEAN
  /\ pushed \in 0 .. MaxPushes /\ restarts \in 0 .. MaxRestarts
  /\ lost \subseteq Conns /\ broken \in BOOLEAN
TypeInv == ListTypes /\ WireTypes /\ ThreadTypes /\ ServerTypes

LEMMA Bounds == MaxConns \in Nat /\ MaxPushes \in Nat /\ MaxRestarts \in Nat
BY BoundsAssumption

LEMMA InitTypeInv == Init => TypeInv
<1> SUFFICES ASSUME Init
             PROVE  TypeInv
  OBVIOUS
<1>1. \A S : <<>> \in Seq(S)
  OBVIOUS
<1>2. ListTypes /\ WireTypes
  BY <1>1 DEF Init, ListTypes, WireTypes
<1>3. ThreadTypes
  BY DEF Init, ThreadTypes
<1>4. ServerTypes
  <2>1. 0 \in 0 .. MaxPushes /\ 0 \in 0 .. MaxRestarts
    BY Bounds
  <2> QED
    BY <2>1 DEF Init, ServerTypes
<1> QED
  BY <1>2, <1>3, <1>4 DEF TypeInv

\* GET_USER's answer, and GET_GROUP's.
LEMMA AnsweredType ==
  /\ Answered \in Seq(Profile) /\ DOMAIN Answered = DOMAIN Others /\ Len(Answered) = Len(Others)
  /\ \A i \in DOMAIN Others : Answered[i].uid = Others[i] /\ Answered[i].profile = NoId
<1>1. Others \in Seq(Range(Others)) /\ DOMAIN Others = 1 .. Len(Others) /\ Len(Others) \in Nat
  BY DirectoryAssumption
<1>2. \A i \in DOMAIN Others : [uid |-> Others[i], profile |-> NoId] \in Profile
  BY DEF Profile, Range
<1> QED
  BY <1>1, <1>2 DEF Answered

LEMMA MemberType ==
  LET list == [i \in DOMAIN Groups |-> [gid |-> Groups[i], members |-> NoId]]
  IN  /\ list \in Seq(Membership) /\ DOMAIN list = DOMAIN Groups /\ Len(list) = Len(Groups)
      /\ \A i \in DOMAIN Groups : list[i].gid = Groups[i] /\ list[i].members = NoId
<1>1. Groups \in Seq(Range(Groups)) /\ DOMAIN Groups = 1 .. Len(Groups) /\ Len(Groups) \in Nat
  BY DirectoryAssumption
<1>2. \A i \in DOMAIN Groups : [gid |-> Groups[i], members |-> NoId] \in Membership
  BY DEF Membership, Range
<1> QED
  BY <1>1, <1>2

\* stk_update_buddy() leaves the uids alone, and gives a user his own profile.
LEMMA UpdateKeeps ==
  ASSUME ListTypes, NEW uid, Update(uid)
  PROVE  /\ buddies' \in Seq(Profile) /\ Len(buddies') = Len(buddies) /\ DOMAIN buddies' = DOMAIN buddies
         /\ \A i \in DOMAIN buddies : /\ buddies'[i].uid = buddies[i].uid
                                      /\ buddies'[i].profile \in {buddies[i].profile, buddies[i].uid}
<1>1. DOMAIN buddies = 1 .. Len(buddies) /\ Len(buddies) \in Nat /\ \A i \in DOMAIN buddies : buddies[i] \in Profile
  BY DEF ListTypes
<1>2. /\ DOMAIN buddies' = DOMAIN buddies
      /\ \A i \in DOMAIN buddies : \/ buddies'[i] = buddies[i]
                                   \/ buddies'[i] = [buddies[i] EXCEPT !.profile = uid] /\ buddies[i].uid = uid
  BY DEF Update
<1>3. \A p \in Profile : [p EXCEPT !.profile = p.uid] \in Profile /\ [p EXCEPT !.profile = p.uid].uid = p.uid
                         /\ [p EXCEPT !.profile = p.uid].profile = p.uid
  BY DEF Profile
<1>4. \A i \in DOMAIN buddies : /\ buddies'[i] \in Profile /\ buddies'[i].uid = buddies[i].uid
                                /\ buddies'[i].profile \in {buddies[i].profile, buddies[i].uid}
  <2> SUFFICES ASSUME NEW i \in DOMAIN buddies
               PROVE  /\ buddies'[i] \in Profile /\ buddies'[i].uid = buddies[i].uid
                      /\ buddies'[i].profile \in {buddies[i].profile, buddies[i].uid}
    OBVIOUS
  <2>1. CASE buddies'[i] = buddies[i]
    BY <1>1, <2>1
  <2>2. CASE buddies'[i] = [buddies[i] EXCEPT !.profile = uid] /\ buddies[i].uid = uid
    <3>1. buddies'[i] = [buddies[i] EXCEPT !.profile = buddies[i].uid] /\ buddies[i] \in Profile
      BY <1>1, <2>2
    <3> QED
      BY <1>3, <3>1
  <2> QED
    BY <1>2, <2>1, <2>2
<1>5. buddies' = [i \in 1 .. Len(buddies) |-> buddies'[i]]
  BY <1>1 DEF Update
<1> QED
  BY <1>1, <1>2, <1>4, <1>5

\* The member list that was asked for goes to its group.
LEMMA GinfoKeeps ==
  ASSUME ListTypes, NEW n, OnGinfo(n)
  PROVE  /\ mygroups' \in Seq(Membership) /\ DOMAIN mygroups' = DOMAIN mygroups
         /\ \A i \in DOMAIN mygroups : /\ mygroups'[i].gid = mygroups[i].gid
                                       /\ mygroups'[i].members \in {mygroups[i].members, mygroups[i].gid}
<1>1. \A i \in DOMAIN mygroups : mygroups[i] \in Membership
  BY DEF ListTypes
<1>2. \/ mygroups' = mygroups
      \/ mygroups' = [mygroups EXCEPT ![k].members = mygroups[k].gid]
  BY DEF OnGinfo, IsAsked
<1>3. CASE mygroups' = mygroups
  BY <1>3 DEF ListTypes
<1>4. CASE mygroups' = [mygroups EXCEPT ![k].members = mygroups[k].gid] /\ k \in DOMAIN mygroups
  <2> DEFINE m == [mygroups[k] EXCEPT !.members = mygroups[k].gid]
  <2>1. m \in Membership /\ m.gid = mygroups[k].gid /\ m.members = mygroups[k].gid
    BY <1>1, <1>4 DEF Membership
  <2>2. mygroups' = [mygroups EXCEPT ![k] = m]
    BY <1>4
  <2> HIDE DEF m
  <2>3. mygroups \in Seq(Membership)
    BY DEF ListTypes
  <2>4. mygroups' \in Seq(Membership) /\ DOMAIN mygroups' = DOMAIN mygroups
    BY <1>4, <2>1, <2>2, <2>3
  <2>5. \A i \in DOMAIN mygroups : mygroups'[i] = IF i = k THEN m ELSE mygroups[i]
    BY <2>2, <2>3
  <2> QED
    BY <2>1, <2>4, <2>5
<1>5. CASE mygroups' = [mygroups EXCEPT ![k].members = mygroups[k].gid] /\ k \notin DOMAIN mygroups
  <2>1. mygroups \in Seq(Membership)
    BY DEF ListTypes
  <2>2. mygroups' = mygroups
    BY <1>5, <2>1
  <2> QED
    BY <1>3, <2>2
<1> QED
  BY <1>2, <1>3, <1>4, <1>5

LEMMA StepListTypes ==
  ASSUME TypeInv, [Next]_vars
  PROVE  ListTypes'
<1>0. ListTypes
  BY DEF TypeInv
<1>1. CASE UNCHANGED <<buddies, mygroups>>
  BY <1>0, <1>1 DEF ListTypes
<1>2. ASSUME NEW n \in DOMAIN down[cur], OnUsers(n)
      PROVE  ListTypes'
  <2>1. mygroups' = mygroups /\ (buddies' = buddies \/ buddies' = buddies \o Answered)
    BY <1>2 DEF OnUsers, Fail, GoOn
  <2>2. buddies \in Seq(Profile) /\ Answered \in Seq(Profile)
    BY <1>0, AnsweredType DEF ListTypes
  <2>3. buddies \o Answered \in Seq(Profile)
    BY <2>2, ConcatElements
  <2> QED
    BY <1>0, <2>1, <2>2, <2>3 DEF ListTypes
<1>3. ASSUME NEW n \in DOMAIN down[cur], OnInfo(n)
      PROVE  ListTypes'
  <2>1. mygroups' = mygroups /\ (buddies' = buddies \/ Update(First.id))
    BY <1>3 DEF OnInfo, AfterInfo, GoOn
  <2> QED
    BY <1>0, <2>1, UpdateKeeps DEF ListTypes
<1>4. ASSUME NEW n \in DOMAIN down[cur], OnGroups(n)
      PROVE  ListTypes'
  <2>1. buddies' = buddies /\ (mygroups' = mygroups \/ mygroups' = [i \in DOMAIN Groups |-> [gid |-> Groups[i], members |-> NoId]])
    BY <1>4 DEF OnGroups, Fail
  <2> QED
    BY <1>0, <2>1, MemberType DEF ListTypes
<1>5. ASSUME NEW n \in DOMAIN down[cur], OnGinfo(n)
      PROVE  ListTypes'
  <2>1. buddies' = buddies
    BY <1>5 DEF OnGinfo
  <2> QED
    BY <1>0, <1>5, <2>1, GinfoKeeps DEF ListTypes
<1> QED
  BY <1>1, <1>2, <1>3, <1>4, <1>5, ListFrame

\* The packet received first, and what Recv() leaves.
LEMMA RecvType ==
  ASSUME TypeInv, NEW at, NEW n, Recv(at, n)
  PROVE  /\ pc = at /\ UNCHANGED <<win, cur, cancelled, server, broken>> /\ n \in Nat
         /\ down' \in [Conns -> Seq(Packets)]
         /\ cur \in Conns => First \in Packets
<1>1. down \in [Conns -> Seq(Packets)]
  BY DEF TypeInv, WireTypes
<1>2. CASE cur \in Conns
  <2>1. down[cur] \in Seq(Packets) /\ n \in 1 .. Len(down[cur])
    BY <1>1, <1>2 DEF Recv
  <2>2. SubSeq(down[cur], n + 1, Len(down[cur])) \in Seq(Packets) /\ First \in Packets
    BY <2>1, RestElements DEF First
  <2> QED
    BY <1>1, <1>2, <2>1, <2>2 DEF Recv
<1>3. CASE cur \notin Conns
  <2>1. down' = down
    BY <1>1, <1>3 DEF Recv
  <2>2. n \in Nat
    BY DEF Recv
  <2> QED
    BY <1>1, <1>3, <2>1, <2>2 DEF Recv
<1> QED
  BY <1>2, <1>3

LEMMA SendType ==
  ASSUME TypeInv, NEW p \in Packets, NEW c, up' = [up EXCEPT ![c] = Append(@, p)]
  PROVE  up' \in [Conns -> Seq(Packets)]
<1>1. up \in [Conns -> Seq(Packets)]
  BY DEF TypeInv, WireTypes
<1>2. c \in Conns => Append(up[c], p) \in Seq(Packets)
  BY <1>1, AppendElements
<1> QED
  BY <1>1, <1>2

LEMMA PacketType ==
  /\ \A cmd \in {"req", "login", "again", "invalid", "user_info", "user", "group", "group_info", "msg"}, id \in Ids :
       Packet(cmd, id) \in Packets
  /\ {NoId, Self} \subseteq Ids /\ (\A i \in DOMAIN buddies : ListTypes => buddies[i].uid \in Ids)
  /\ \A i \in DOMAIN mygroups : ListTypes => mygroups[i].gid \in Ids
<1>1. ASSUME NEW cmd \in {"req", "login", "again", "invalid", "user_info", "user", "group", "group_info", "msg"},
             NEW id \in Ids
      PROVE  Packet(cmd, id) \in Packets
  BY DEF Packet, Packets, Ids
<1>2. ASSUME NEW i \in DOMAIN buddies, ListTypes
      PROVE  buddies[i].uid \in Ids
  <2>1. buddies[i] \in Profile
    BY <1>2 DEF ListTypes
  <2> QED
    BY <2>1 DEF Profile, Ids
<1>3. ASSUME NEW i \in DOMAIN mygroups, ListTypes
      PROVE  mygroups[i].gid \in Ids
  <2>1. mygroups[i] \in Membership
    BY <1>3 DEF ListTypes
  <2> QED
    BY <2>1 DEF Membership, Ids
<1> QED
  BY <1>1, <1>2, <1>3 DEF Ids

\* A request asks about nobody, himself, a buddy or a group.
LEMMA GoOnType ==
  ASSUME TypeInv, NEW to, NEW cmd \in {"login", "user_info", "user", "group", "group_info"}, NEW id \in Ids,
         GoOn(to, cmd, id)
  PROVE  up' \in [Conns -> Seq(Packets)] /\ pc' = to /\ UNCHANGED <<running, mygroups>>
BY PacketType, SendType DEF GoOn, Send

\* Where the socket thread is after a packet, and what it has asked.
LEMMA OnPacketTypes ==
  ASSUME TypeInv, NEW n \in DOMAIN down[cur], cur # 0,
         \/ OnReq(n) \/ OnLogin(n) \/ OnSelf(n) \/ OnUsers(n) \/ OnInfo(n) \/ OnGroups(n) \/ OnGinfo(n)
  PROVE  WireTypes' /\ ThreadTypes'
<1> DEFINE Goes == /\ up' \in [Conns -> Seq(Packets)] /\ k' \in Nat
                   /\ pc' \in {"idle", "login", "self", "users", "info", "groups", "ginfo", "loop"}
                   /\ running' \in {running, "connected"} \cup Failed
<1>0. /\ k \in Nat /\ cur \in Conns /\ up \in [Conns -> Seq(Packets)] /\ ListTypes
      /\ {NoId, Self} \subseteq Ids /\ (\A i \in DOMAIN buddies : buddies[i].uid \in Ids)
      /\ \A i \in DOMAIN mygroups : mygroups[i].gid \in Ids
  BY PacketType DEF TypeInv, ThreadTypes, WireTypes
<1>1. ASSUME NEW err \in Failed, Fail(err)
      PROVE  Goes
  BY <1>0, <1>1 DEF Fail
<1>f. "socket_err" \in Failed /\ "already" \in Failed /\ "invalid" \in Failed
  BY DEF Failed
<1>2. ASSUME NEW to \in {"login", "self", "users", "info", "groups"},
             NEW cmd \in {"login", "user_info", "user", "group", "group_info"}, NEW id \in Ids,
             GoOn(to, cmd, id), k' \in Nat
      PROVE  Goes
  <2>1. up' \in [Conns -> Seq(Packets)] /\ pc' = to /\ running' = running
    BY <1>2, GoOnType
  <2> QED
    BY <1>2, <2>1
<1>3. Ready => Goes
  BY <1>0 DEF Ready
<1>d. UNCHANGED <<win, cur, cancelled>> /\ down' \in [Conns -> Seq(Packets)]
  <2>1. \E at : Recv(at, n)
    BY DEF OnReq, OnLogin, OnSelf, OnUsers, OnInfo, OnGroups, OnGinfo
  <2> QED
    BY <2>1, RecvType
<1> SUFFICES Goes
  BY <1>d DEF TypeInv, WireTypes, ThreadTypes
<1> HIDE DEF Goes
<1>r. ASSUME GoOn("login", "login", NoId) \/ GoOn("self", "user_info", Self) \/ GoOn("users", "user", NoId)
             \/ GoOn("groups", "group", NoId), k' \in Nat
      PROVE  Goes
  <2>1. CASE GoOn("login", "login", NoId)
    BY <1>0, <1>2, <1>r, <2>1
  <2>2. CASE GoOn("self", "user_info", Self)
    BY <1>0, <1>2, <1>r, <2>2
  <2>3. CASE GoOn("users", "user", NoId)
    BY <1>0, <1>2, <1>r, <2>3
  <2>4. CASE GoOn("groups", "group", NoId)
    BY <1>0, <1>2, <1>r, <2>4
  <2> QED
    BY <1>r, <2>1, <2>2, <2>3, <2>4
<1>s. ASSUME up' \in [Conns -> Seq(Packets)], k' \in Nat, pc' = "ginfo", running' = running
      PROVE  Goes
  BY <1>s DEF Goes
<1>n. 1 \in Nat /\ k + 1 \in Nat
  BY <1>0
<1>4. CASE OnReq(n) \/ OnLogin(n) \/ OnSelf(n)
  <2>1. \/ \E err \in Failed : Fail(err)
        \/ k' = k /\ (GoOn("login", "login", NoId) \/ GoOn("self", "user_info", Self) \/ GoOn("users", "user", NoId))
    <3>1. CASE OnReq(n)
      BY <1>f, <3>1 DEF OnReq
    <3>2. CASE OnLogin(n)
      BY <1>f, <3>2 DEF OnLogin
    <3>3. CASE OnSelf(n)
      BY <1>f, <3>3 DEF OnSelf
    <3> QED
      BY <1>4, <3>1, <3>2, <3>3
  <2> QED
    BY <1>0, <1>1, <1>r, <2>1
<1>5. CASE OnUsers(n)
  <2>1. CASE Fail("socket_err")
    BY <1>1, <1>f, <2>1
  <2>2. CASE k' = 1 /\ GoOn("groups", "group", NoId)
    BY <1>n, <1>r, <2>2
  <2>3. CASE k' = 1 /\ Others # <<>> /\ buddies' = buddies \o Answered /\ GoOn("info", "user_info", buddies'[1].uid)
    <3>1. buddies' \in Seq(Profile) /\ 1 \in DOMAIN buddies'
      <4>1. buddies \in Seq(Profile) /\ Answered \in Seq(Profile) /\ Len(Answered) # 0
        BY <1>0, <2>3, AnsweredType, DirectoryAssumption DEF ListTypes
      <4> QED
        BY <2>3, <4>1
    <3>2. buddies'[1] \in Profile
      BY <3>1
    <3>3. buddies'[1].uid \in Ids
      BY <3>2 DEF Profile, Ids
    <3> QED
      BY <1>n, <1>2, <2>3, <3>3
  <2> QED
    BY <1>5, <2>1, <2>2, <2>3 DEF OnUsers
<1>6. CASE OnInfo(n)
  <2>1. k' = k + 1
    BY <1>6 DEF OnInfo, AfterInfo
  <2>2. CASE k < Len(buddies) /\ GoOn("info", "user_info", buddies[k + 1].uid)
    <3>1. k + 1 \in DOMAIN buddies
      BY <1>0, <2>2 DEF ListTypes
    <3> QED
      BY <1>0, <1>n, <1>2, <2>1, <2>2, <3>1
  <2>3. CASE GoOn("groups", "group", NoId)
    BY <1>n, <1>r, <2>1, <2>3
  <2> QED
    BY <1>6, <2>2, <2>3 DEF OnInfo, AfterInfo
<1>7. CASE OnGroups(n)
  <2>1. CASE Fail("socket_err")
    BY <1>1, <1>f, <2>1
  <2>2. CASE Groups # <<>> /\ k' = 1 /\ pc' = "ginfo" /\ Send("group_info", Groups[1]) /\ UNCHANGED running
    <3>1. Groups[1] \in Ids
      BY <2>2, DirectoryAssumption DEF Ids, Range
    <3>2. up' \in [Conns -> Seq(Packets)]
      BY <2>2, <3>1, PacketType, SendType DEF Send
    <3> QED
      BY <1>n, <1>s, <2>2, <3>2
  <2> QED
    BY <1>3, <1>7, <2>1, <2>2 DEF OnGroups
<1>8. CASE OnGinfo(n)
  <2>1. CASE k < Len(mygroups) /\ k' = k + 1 /\ Send("group_info", mygroups[k + 1].gid) /\ UNCHANGED <<pc, running>>
    <3>1. k + 1 \in DOMAIN mygroups
      BY <1>0, <2>1 DEF ListTypes
    <3>2. up' \in [Conns -> Seq(Packets)]
      BY <1>0, <2>1, <3>1, PacketType, SendType DEF Send
    <3>3. pc = "ginfo"
      BY <1>8 DEF OnGinfo, Recv
    <3> QED
      BY <1>n, <1>s, <2>1, <3>2, <3>3
  <2> QED
    BY <1>3, <1>8, <2>1 DEF OnGinfo
<1> QED
  BY <1>4, <1>5, <1>6, <1>7, <1>8

LEMMA StepTypeInv == TypeInv /\ [Next]_vars => TypeInv'
<1> SUFFICES ASSUME TypeInv, [Next]_vars
             PROVE  TypeInv'
  OBVIOUS
<1>1. ListTypes'
  BY StepListTypes
<1> USE Bounds
<1>2. CASE Submit \/ Cancel \/ Waiting \/ SeeRequest \/ Begin \/ ConnectErr \/ ConnectFails
  <2>1. UNCHANGED <<cur, k, up, down, server, broken>>
    BY <1>2 DEF Submit, Cancel, Waiting, SeeRequest, Begin, ConnectErr, ConnectFails
  <2>2. ThreadTypes'
    BY <1>2 DEF Submit, Cancel, Waiting, SeeRequest, Begin, ConnectErr, ConnectFails, TypeInv, ThreadTypes, Failed
  <2> QED
    BY <1>1, <2>1, <2>2 DEF TypeInv, WireTypes, ServerTypes, server
<1>3. CASE ConnectCancelled \/ Connect
  <2>1. cur' \in Conns /\ cur' = cur + 1 /\ UNCHANGED <<running, win, k, cancelled, down, server, broken>>
        /\ pc' \in {"idle", "req"}
    BY <1>3 DEF ConnectCancelled, Connect, TypeInv, ThreadTypes, Conns
  <2>2. Packet("req", NoId) \in Packets
    BY PacketType
  <2>3. up' \in [Conns -> Seq(Packets)]
    <3>1. <<Packet("req", NoId)>> \in Seq(Packets)
      BY <2>2
    <3> QED
      BY <1>3, <3>1 DEF ConnectCancelled, Connect, TypeInv, WireTypes
  <2> QED
    BY <1>1, <2>1, <2>3 DEF TypeInv, WireTypes, ThreadTypes, ServerTypes, server
<1>4. CASE ServerGone \/ SocketFails
  <2>1. /\ UNCHANGED <<win, cur, cancelled, down, server, k, up>> /\ broken' = TRUE
        /\ pc' \in {"idle", "loop"} /\ running' \in {"socket_err", "connected"}
    BY <1>4 DEF ServerGone, SocketFails, NoAnswer, Fail, Ready
  <2> QED
    BY <1>1, <2>1 DEF TypeInv, WireTypes, ThreadTypes, ServerTypes, server, Failed
<1>5. ASSUME cur # 0, NEW n \in DOMAIN down[cur],
             \/ OnReq(n) \/ OnLogin(n) \/ OnSelf(n) \/ OnUsers(n) \/ OnInfo(n) \/ OnGroups(n) \/ OnGinfo(n)
      PROVE  TypeInv'
  <2>1. UNCHANGED <<server, broken>>
    BY <1>5 DEF OnReq, OnLogin, OnSelf, OnUsers, OnInfo, OnGroups, OnGinfo, Recv
  <2> QED
    BY <1>1, <1>5, <2>1, OnPacketTypes DEF TypeInv, ServerTypes, server
<1>6. ASSUME NEW c \in Conns, Serve(c)
      PROVE  TypeInv'
  <2>1. /\ UNCHANGED <<client, broken, pushed, restarts, lost>> /\ up' = [up EXCEPT ![c] = Tail(@)] /\ up[c] # <<>>
        /\ up[c] \in Seq(Packets) /\ home' \in {home, c} /\ owed' \in {owed, TRUE}
    BY <1>6 DEF Serve, ReqAck, LoginAgain, LoginInvalid, LoginOk, Directory, Asks, Reply, server, TypeInv, WireTypes
  <2>2. up' \in [Conns -> Seq(Packets)]
    BY <2>1 DEF TypeInv, WireTypes
  <2>3. down' \in [Conns -> Seq(Packets)]
    <3>1. up[c][1] \in Packets /\ down \in [Conns -> Seq(Packets)] /\ NoId \in Ids
      BY <2>1, PacketType DEF TypeInv, WireTypes
    <3>2. ASSUME NEW to, NEW p \in Packets, down' = [down EXCEPT ![to] = Append(@, p)]
          PROVE  down' \in [Conns -> Seq(Packets)]
      <4>1. to \in Conns => Append(down[to], p) \in Seq(Packets)
        BY <3>1, AppendElements
      <4> QED
        BY <3>1, <3>2, <4>1
    <3>3. \/ down' = down
          \/ \E to, p : p \in Packets /\ down' = [down EXCEPT ![to] = Append(@, p)]
      <4>1. CASE ReqAck(c) \/ LoginAgain(c) \/ LoginInvalid(c)
        <5>1. \E cmd \in {"req", "again", "invalid"} : down' = [down EXCEPT ![c] = Append(@, Packet(cmd, NoId))]
          BY <4>1 DEF ReqAck, LoginAgain, LoginInvalid, Reply
        <5> QED
          BY <3>1, <5>1, PacketType
      <4>2. CASE LoginOk(c)
        BY <4>2 DEF LoginOk
      <4>3. CASE Directory(c)
        <5>1. down' = [down EXCEPT ![home] = Append(@, Packet(up[c][1].cmd, up[c][1].id))]
          BY <4>3 DEF Directory, Reply
        <5>2. Packet(up[c][1].cmd, up[c][1].id) \in Packets
          BY <3>1 DEF Packet, Packets
        <5> QED
          BY <5>1, <5>2
      <4> QED
        BY <1>6, <4>1, <4>2, <4>3 DEF Serve
    <3> QED
      BY <3>1, <3>2, <3>3
  <2>4. ThreadTypes'
    BY <2>1 DEF TypeInv, ThreadTypes, client
  <2>5. ServerTypes'
    BY <2>1 DEF TypeInv, ServerTypes
  <2> QED
    BY <1>1, <2>2, <2>3, <2>4, <2>5 DEF TypeInv, WireTypes
<1>7. CASE LoginReply \/ Push
  <2>1. PICK p \in Packets : down' = [down EXCEPT ![home] = Append(@, p)]
    <3>1. Packet("login", NoId) \in Packets /\ Packet("msg", NoId) \in Packets
      BY PacketType
    <3> QED
      BY <1>7, <3>1 DEF LoginReply, Push
  <2>2. down \in [Conns -> Seq(Packets)] /\ up \in [Conns -> Seq(Packets)]
    BY DEF TypeInv, WireTypes
  <2>3. home \in Conns => Append(down[home], p) \in Seq(Packets)
    BY <2>2, AppendElements
  <2>4. down' \in [Conns -> Seq(Packets)] /\ up' = up
    BY <1>7, <2>1, <2>2, <2>3 DEF LoginReply, Push
  <2>5. /\ UNCHANGED <<client, home, restarts, lost, broken>> /\ owed' \in {owed, FALSE}
        /\ (pushed' = pushed \/ (pushed < MaxPushes /\ pushed' = pushed + 1))
    BY <1>7 DEF LoginReply, Push
  <2>6. pushed' \in 0 .. MaxPushes
    BY <2>5 DEF TypeInv, ServerTypes
  <2>7. ServerTypes'
    BY <2>5, <2>6 DEF TypeInv, ServerTypes
  <2> QED
    BY <1>1, <2>2, <2>4, <2>5, <2>7 DEF TypeInv, WireTypes, ThreadTypes, client
<1>8. CASE Restart
  <2>1. 1 .. cur \subseteq Conns
    BY DEF TypeInv, ThreadTypes, Conns
  <2>0. restarts' \in 0 .. MaxRestarts
    BY <1>8 DEF Restart, TypeInv, ServerTypes
  <2>2. ServerTypes' /\ UNCHANGED <<client, up, down>>
    BY <1>8, <2>0, <2>1 DEF Restart, TypeInv, ServerTypes
  <2> QED
    BY <1>1, <2>2 DEF TypeInv, WireTypes, ThreadTypes, client
<1>9. CASE UNCHANGED vars
  BY <1>1, <1>9 DEF TypeInv, WireTypes, ThreadTypes, ServerTypes, vars, client, server
<1> QED
  BY <1>2, <1>3, <1>4, <1>5, <1>6, <1>7, <1>8, <1>9 DEF Next, Thread


LEMMA Typed == Spec => []TypeInv
BY InitTypeInv, StepTypeInv, PTL DEF Spec

\* Type correctness of every login.
THEOREM TypeCorrect == Spec => []TypeOK
<1>1. TypeInv => TypeOK
  BY DEF TypeInv, ListTypes, WireTypes, ThreadTypes, ServerTypes, TypeOK, Profile, Membership
<1> QED
  BY <1>1, Typed, PTL

-----------------------------------------------------------------------------
(* What the client believes                                                *)

LEMMA StepMatching ==
  ASSUME TypeInv, Matching, [Next]_vars
  PROVE  Matching'
<1>0. ListTypes
  BY DEF TypeInv
<1>1. CASE UNCHANGED <<buddies, mygroups>>
  BY <1>1 DEF Matching
<1>2. ASSUME NEW n \in DOMAIN down[cur], OnUsers(n)
      PROVE  Matching'
  <2>1. mygroups' = mygroups /\ (buddies' = buddies \/ buddies' = buddies \o Answered)
    BY <1>2 DEF OnUsers, Fail, GoOn
  <2>2. CASE buddies' = buddies \o Answered
    <3>1. \A i \in DOMAIN buddies' : \/ i \in DOMAIN buddies /\ buddies'[i] = buddies[i]
                                     \/ i - Len(buddies) \in DOMAIN Answered /\ buddies'[i] = Answered[i - Len(buddies)]
      BY <1>0, <2>2, AnsweredType, ConcatElements DEF ListTypes
    <3>2. \A j \in DOMAIN Answered : Answered[j].profile = NoId
      BY AnsweredType
    <3> QED
      BY <2>1, <3>1, <3>2 DEF Matching
  <2> QED
    BY <1>1, <2>1, <2>2
<1>3. ASSUME NEW n \in DOMAIN down[cur], OnInfo(n)
      PROVE  Matching'
  <2>1. mygroups' = mygroups /\ (buddies' = buddies \/ Update(First.id))
    BY <1>3 DEF OnInfo, AfterInfo, GoOn
  <2>2. CASE Update(First.id)
    BY <1>0, <2>1, <2>2, UpdateKeeps DEF Matching
  <2> QED
    BY <1>1, <2>1, <2>2
<1>4. ASSUME NEW n \in DOMAIN down[cur], OnGroups(n)
      PROVE  Matching'
  <2>1. buddies' = buddies /\ (mygroups' = mygroups \/ mygroups' = [i \in DOMAIN Groups |-> [gid |-> Groups[i], members |-> NoId]])
    BY <1>4 DEF OnGroups, Fail
  <2> QED
    BY <2>1, MemberType DEF Matching
<1>5. ASSUME NEW n \in DOMAIN down[cur], OnGinfo(n)
      PROVE  Matching'
  <2>1. buddies' = buddies
    BY <1>5 DEF OnGinfo
  <2> QED
    BY <1>0, <1>5, <2>1, GinfoKeeps DEF Matching
<1> QED
  BY <1>1, <1>2, <1>3, <1>4, <1>5, ListFrame

\* Matching: whatever the server pushes, whenever it dies and however often the
\* user logs in, a profile the client shows belongs to that user and a member
\* list to that group.
THEOREM MatchingCorrect == Spec => []Matching
<1>1. Init => Matching
  BY DEF Init, Matching
<1>2. TypeInv /\ Matching /\ [Next]_vars => Matching'
  BY StepMatching
<1> QED
  BY <1>1, <1>2, Typed, PTL DEF Spec


-----------------------------------------------------------------------------
(* A login that nothing disturbs                                           *)

\* No message was pushed, and no connection has failed.
Clean == pushed = 0 /\ ~broken

\* Where the thread waits for an answer; where the user is online; where the
\* buddies are known.
Asking == {"req", "login", "self", "users", "info", "groups", "ginfo"}
Late == {"self", "users", "info", "groups", "ginfo", "loop"}
Listed == {"info", "groups", "ginfo", "loop"}

\* What the thread has asked, and how its answer looks.
Request ==
  IF pc = "self" THEN Packet("user_info", Self)
  ELSE IF pc = "users" THEN Packet("user", NoId)
  ELSE IF pc = "info" THEN Packet("user_info", buddies[k].uid)
  ELSE IF pc = "groups" THEN Packet("group", NoId)
  ELSE IF pc = "ginfo" THEN Packet("group_info", mygroups[k].gid)
  ELSE Packet(pc, NoId)

\* One request or its answer is on its way, or the server is about to answer.
Asked ==
  up[cur] = <<Request>> /\ down[cur] = <<>> /\ ~owed /\ (pc \in {"req", "login"} => home = 0)
Told ==
  /\ up[cur] = <<>> /\ down[cur] = <<Request>> /\ ~owed
  /\ (pc = "req" => home = 0) /\ (pc # "req" => home = cur)
Granted == pc = "login" /\ up[cur] = <<>> /\ down[cur] = <<>> /\ owed /\ home = cur
Refused == pc = "login" /\ up[cur] = <<>> /\ down[cur] = <<Packet("invalid", NoId)>> /\ ~owed /\ home = 0

Wire ==
  /\ lost = {}
  /\ \A c \in Conns : c # cur \/ pc \notin Asking => up[c] = <<>> /\ down[c] = <<>>
  /\ pc \in Asking => cur # 0 /\ (Asked \/ Told \/ Granted \/ Refused)
  /\ pc \notin Late \cup {"login"} => home = 0 /\ ~owed
  /\ pc \in Late => home = cur /\ ~owed /\ cur # 0

\* The lists hold GET_USER's and GET_GROUP's answers in their order; profiles and
\* members are known up to the one asked for.
Uids == Len(buddies) = Len(Others) /\ \A i \in DOMAIN Others : buddies[i].uid = Others[i]
Gids == Len(mygroups) = Len(Groups) /\ \A i \in DOMAIN Groups : mygroups[i].gid = Groups[i]
Profiles == \A i \in DOMAIN buddies : pc # "info" \/ i < k => buddies[i].profile = buddies[i].uid
Members == \A i \in DOMAIN mygroups : pc # "ginfo" \/ i < k => mygroups[i].members = mygroups[i].gid

Lists ==
  /\ pc \notin Listed => buddies = <<>>
  /\ pc \in Listed => Uids /\ Profiles
  /\ pc = "info" => k \in DOMAIN Others
  /\ pc = "ginfo" => Gids /\ k \in DOMAIN Groups
  /\ pc \in {"ginfo", "loop"} => Members

Connected == running = "connected" => pc = "loop"
Inv == Connected /\ (Clean => Wire /\ Lists)

LEMMA Single ==
  \A p : /\ Len(<<p>>) = 1 /\ <<p>>[1] = p /\ <<p>> # <<>> /\ Tail(<<p>>) = <<>> /\ Append(<<>>, p) = <<p>>
         /\ SubSeq(<<p>>, 2, 1) = <<>> /\ DOMAIN <<p>> = {1}
<1>1. \A p : /\ Len(<<p>>) = 1 /\ <<p>>[1] = p /\ <<p>> # <<>> /\ Tail(<<p>>) = <<>> /\ DOMAIN <<p>> = {1}
             /\ SubSeq(<<p>>, 2, 1) = <<>>
  OBVIOUS
<1>2. \A p : Append(<<>>, p) = <<p>>
  OBVIOUS
<1> QED
  BY <1>1, <1>2

LEMMA Fields == \A cmd, id : Packet(cmd, id).cmd = cmd /\ Packet(cmd, id).id = id
BY DEF Packet

\* The window and the thread agree about a login that succeeded.
LEMMA StepConnected ==
  ASSUME Connected, [Next]_vars
  PROVE  Connected'
<1>1. CASE Submit \/ Cancel \/ Waiting
  BY <1>1 DEF Submit, Cancel, Waiting, Connected, Failed
<1>2. CASE SeeRequest \/ Begin \/ ConnectCancelled \/ Connect \/ ConnectErr \/ ConnectFails
  BY <1>2 DEF SeeRequest, Begin, ConnectCancelled, Connect, ConnectErr, ConnectFails, Connected
<1>3. CASE ServerGone \/ SocketFails
  BY <1>3 DEF ServerGone, SocketFails, NoAnswer, Fail, Ready, Connected
<1>4. ASSUME NEW n, OnReq(n) \/ OnLogin(n) \/ OnSelf(n) \/ OnUsers(n)
      PROVE  Connected'
  <2>1. pc # "loop" /\ (running' = running \/ running' \in {"socket_err", "already", "invalid"})
    BY <1>4 DEF OnReq, OnLogin, OnSelf, OnUsers, Recv, Fail, GoOn
  <2> QED
    BY <2>1 DEF Connected
<1>5. ASSUME NEW n, OnInfo(n) \/ OnGroups(n)
      PROVE  Connected'
  <2>1. pc # "loop" /\ (running' = running \/ running' = "socket_err" \/ pc' = "loop")
    BY <1>5 DEF OnInfo, AfterInfo, OnGroups, Recv, Fail, GoOn, Ready
  <2> QED
    BY <2>1 DEF Connected
<1>6. ASSUME NEW n, OnGinfo(n)
      PROVE  Connected'
  <2>1. pc = "ginfo" /\ (running' = running \/ pc' = "loop")
    BY <1>6 DEF OnGinfo, Recv, Ready
  <2> QED
    BY <2>1 DEF Connected
<1>7. CASE (\E c \in Conns : Serve(c)) \/ LoginReply \/ Push \/ Restart
  <2>1. UNCHANGED client
    BY <1>7 DEF Serve, ReqAck, LoginAgain, LoginInvalid, LoginOk, Directory, Reply, LoginReply, Push, Restart
  <2> QED
    BY <2>1 DEF client, Connected
<1>8. CASE UNCHANGED vars
  BY <1>8 DEF vars, client, Connected
<1> QED
  BY <1>1, <1>2, <1>3, <1>4, <1>5, <1>6, <1>7, <1>8 DEF Next, Thread

\* The steps after which the login is still undisturbed.
Before == {"idle", "begin", "connect", "refused"}
Apart == UNCHANGED <<pc, cur, buddies, mygroups, k, up, down, server>>
Prepare == pc \in Before /\ pc' \in Before /\ UNCHANGED <<buddies, mygroups, k, up, down, server>>
Receive(n) == OnReq(n) \/ OnLogin(n) \/ OnSelf(n) \/ OnUsers(n) \/ OnInfo(n) \/ OnGroups(n) \/ OnGinfo(n)

LEMMA Undisturbed ==
  ASSUME TypeInv, [Next]_vars, Clean'
  PROVE  /\ Clean
         /\ \/ Apart \/ Prepare \/ Connect
            \/ cur # 0 /\ \E n \in DOMAIN down[cur] : Receive(n)
            \/ \E c \in Conns : Serve(c)
            \/ LoginReply
<1>1. CASE Submit \/ Cancel \/ Waiting \/ UNCHANGED vars
  BY <1>1 DEF Submit, Cancel, Waiting, vars, client, server, Clean, Apart
<1>2. CASE SeeRequest \/ Begin \/ ConnectCancelled \/ ConnectErr \/ ConnectFails
  <2>1. Prepare
    BY <1>2 DEF SeeRequest, Begin, ConnectCancelled, ConnectErr, ConnectFails, Prepare, Before
  <2>2. UNCHANGED <<server, broken>>
    BY <1>2 DEF SeeRequest, Begin, ConnectCancelled, ConnectErr, ConnectFails
  <2> QED
    BY <2>1, <2>2 DEF Clean, server
<1>3. CASE Connect
  BY <1>3 DEF Connect, Clean, server
<1>4. CASE ServerGone \/ SocketFails \/ Restart
  BY <1>4 DEF ServerGone, SocketFails, NoAnswer, Restart, Clean
<1>5. CASE cur # 0 /\ \E n \in DOMAIN down[cur] : Receive(n)
  <2>1. UNCHANGED <<server, broken>>
    BY <1>5 DEF Receive, OnReq, OnLogin, OnSelf, OnUsers, OnInfo, OnGroups, OnGinfo, Recv
  <2> QED
    BY <1>5, <2>1 DEF Clean, server
<1>6. CASE (\E c \in Conns : Serve(c)) \/ LoginReply
  <2>1. UNCHANGED <<pushed, broken>>
    BY <1>6 DEF Serve, ReqAck, LoginAgain, LoginInvalid, LoginOk, Directory, Reply, server, LoginReply
  <2> QED
    BY <1>6, <2>1 DEF Clean
<1>7. CASE Push
  <2>1. pushed' = pushed + 1 /\ pushed \in Nat
    BY <1>7, Bounds DEF Push, TypeInv, ServerTypes
  <2>2. pushed' # 0
    BY <2>1
  <2> QED
    BY <2>2 DEF Clean
<1> QED
  BY <1>1, <1>2, <1>3, <1>4, <1>5, <1>6, <1>7 DEF Next, Thread, Receive


LEMMA PrepareKeeps ==
  ASSUME Wire, Lists, Apart \/ Prepare
  PROVE  Wire' /\ Lists'
<1>1. CASE Apart
  <2>1. UNCHANGED <<pc, cur, up, down, home, owed, lost>> /\ Request' = Request
    BY <1>1 DEF Apart, server, Request
  <2>2. Asked' = Asked /\ Told' = Told /\ Granted' = Granted /\ Refused' = Refused
    BY <2>1 DEF Asked, Told, Granted, Refused
  <2>3. Wire'
    BY <2>1, <2>2 DEF Wire
  <2>4. UNCHANGED <<pc, k, buddies, mygroups>>
    BY <1>1 DEF Apart
  <2> QED
    BY <2>3, <2>4 DEF Lists, Uids, Gids, Profiles, Members
<1>2. CASE Prepare
  <2>1. /\ pc \notin Asking \cup Late /\ pc' \notin Asking \cup Late /\ pc # "login" /\ pc' # "login"
        /\ pc \notin Listed /\ pc' \notin Listed /\ pc' \notin {"info", "ginfo", "loop"}
    BY <1>2 DEF Prepare, Before, Asking, Late, Listed
  <2>2. UNCHANGED <<up, down, home, owed, lost, buddies>>
    BY <1>2 DEF Prepare, server
  <2>3. Wire'
    BY <2>1, <2>2 DEF Wire
  <2> QED
    BY <2>1, <2>2, <2>3 DEF Lists
<1> QED
  BY <1>1, <1>2

LEMMA ConnectKeeps ==
  ASSUME TypeInv, Wire, Lists, Connect
  PROVE  Wire' /\ Lists'
<1>1. /\ pc = "connect" /\ pc' = "req" /\ cur' = cur + 1 /\ UNCHANGED <<down, home, owed, lost, buddies>>
      /\ up' = [up EXCEPT ![cur + 1] = <<Packet("req", NoId)>>] /\ cur < MaxConns
  BY DEF Connect, server
<1>2. cur' \in Conns /\ cur' # 0
  BY <1>1, Bounds DEF TypeInv, ThreadTypes, Conns
<1>3. home = 0 /\ ~owed /\ lost = {} /\ \A c \in Conns : up[c] = <<>> /\ down[c] = <<>>
  BY <1>1 DEF Wire, Asking, Late
<1>4. up'[cur'] = <<Packet("req", NoId)>> /\ down'[cur'] = <<>>
      /\ \A c \in Conns : c # cur' => up'[c] = <<>> /\ down'[c] = <<>>
  BY <1>1, <1>2, <1>3 DEF TypeInv, WireTypes
<1>5. Request' = Packet("req", NoId)
  BY <1>1 DEF Request
<1>6. Asked'
  BY <1>1, <1>3, <1>4, <1>5 DEF Asked
<1>7. Wire'
  BY <1>1, <1>2, <1>3, <1>4, <1>6 DEF Wire, Late, Asking
<1>8. Lists'
  BY <1>1 DEF Lists, Listed
<1> QED
  BY <1>7, <1>8

-----------------------------------------------------------------------------
(* The server's side of an undisturbed login                               *)

\* The only request under way is the thread's.
LEMMA OneAsks ==
  ASSUME Wire, NEW c \in Conns, up[c] # <<>>
  PROVE  c = cur /\ pc \in Asking /\ cur # 0 /\ Asked
BY DEF Wire, Told, Granted, Refused

LEMMA RequestCmd ==
  /\ pc \in {"req", "login"} => Request = Packet(pc, NoId)
  /\ pc \in Asking /\ pc \notin {"req", "login"} => Request.cmd \notin {"req", "login"}
BY Fields DEF Request, Asking

LEMMA ServerFrame ==
  ASSUME UNCHANGED client
  PROVE  UNCHANGED <<pc, cur, Request>> /\ (Lists => Lists')
<1>1. UNCHANGED <<pc, cur, buddies, mygroups, k>>
  BY DEF client
<1>2. Lists => Lists'
  BY <1>1 DEF Lists, Uids, Gids, Profiles, Members
<1> QED
  BY <1>1, <1>2 DEF Request

LEMMA ServeKeeps ==
  ASSUME TypeInv, Wire, Lists, NEW c \in Conns, Serve(c)
  PROVE  Wire' /\ Lists'
<1>1. UNCHANGED client /\ up' = [up EXCEPT ![c] = Tail(@)] /\ up[c] # <<>> /\ lost' = lost
  BY DEF Serve, ReqAck, LoginAgain, LoginInvalid, LoginOk, Directory, Reply, Asks, server
<1>2. c = cur /\ pc \in Asking /\ cur # 0 /\ cur \in Conns /\ Asked
  BY <1>1, OneAsks
<1>3. /\ up[cur] = <<Request>> /\ down[cur] = <<>> /\ ~owed /\ (pc \in {"req", "login"} => home = 0)
      /\ lost = {} /\ \A d \in Conns : d # cur => up[d] = <<>> /\ down[d] = <<>>
      /\ (pc \in Late => home = cur)
  BY <1>2 DEF Asked, Wire
<1>4. UNCHANGED <<pc, cur, Request>> /\ Lists'
  BY <1>1, ServerFrame
<1>5. up'[cur] = <<>> /\ \A d \in Conns : d # cur => up'[d] = <<>>
  BY <1>1, <1>2, <1>3, Single DEF TypeInv, WireTypes
<1>6. pc \in Asking => pc \in Late \/ pc \in {"req", "login"}
  BY DEF Asking, Late
<1>7. pc \in {"req", "login"} => pc \notin Late
  BY DEF Late
<1>8. ASSUME down' = [down EXCEPT ![cur] = Append(@, Request)], UNCHANGED server, pc # "login"
      PROVE  Wire'
  <2>1. down'[cur] = <<Request>> /\ \A d \in Conns : d # cur => down'[d] = <<>>
    BY <1>2, <1>3, <1>8, Single DEF TypeInv, WireTypes
  <2>2. UNCHANGED <<home, owed, lost>>
    BY <1>8 DEF server
  <2>3. Told'
    BY <1>2, <1>3, <1>4, <1>5, <1>6, <1>8, <2>1, <2>2 DEF Told
  <2> QED
    BY <1>2, <1>3, <1>4, <1>5, <1>6, <1>7, <2>1, <2>2, <2>3 DEF Wire
<1>9. CASE ReqAck(c)
  <2>1. Request.cmd = "req" /\ down' = [down EXCEPT ![cur] = Append(@, Packet("req", NoId))] /\ UNCHANGED server
    BY <1>2, <1>3, <1>9, Single DEF ReqAck, Asks, Reply
  <2>2. pc = "req" /\ Request = Packet("req", NoId)
    BY <1>2, <2>1, RequestCmd, Fields
  <2> QED
    BY <1>4, <1>8, <2>1, <2>2
<1>10. CASE LoginAgain(c) \/ LoginInvalid(c) \/ LoginOk(c)
  <2>1. Request.cmd = "login"
    BY <1>2, <1>3, <1>10, Single DEF LoginAgain, LoginInvalid, LoginOk, Asks
  <2>2. pc = "login" /\ home = 0
    BY <1>2, <1>3, <2>1, RequestCmd, Fields
  <2>3. CASE LoginInvalid(c)
    <3>1. UNCHANGED <<home, owed, lost>> /\ down' = [down EXCEPT ![cur] = Append(@, Packet("invalid", NoId))]
      BY <1>2, <2>3 DEF LoginInvalid, Reply, server
    <3>2. down'[cur] = <<Packet("invalid", NoId)>> /\ \A d \in Conns : d # cur => down'[d] = <<>>
      BY <1>2, <1>3, <3>1, Single DEF TypeInv, WireTypes
    <3>3. Refused'
      BY <1>3, <1>4, <1>5, <2>2, <3>1, <3>2 DEF Refused
    <3> QED
      BY <1>2, <1>3, <1>4, <1>5, <1>7, <2>2, <3>1, <3>2, <3>3 DEF Wire
  <2>4. CASE LoginOk(c)
    <3>1. home' = cur /\ owed' = TRUE /\ UNCHANGED <<down, lost>>
      BY <1>2, <2>4 DEF LoginOk
    <3>2. Granted'
      BY <1>3, <1>4, <1>5, <2>2, <3>1 DEF Granted
    <3> QED
      BY <1>2, <1>3, <1>4, <1>5, <1>7, <2>2, <3>1, <3>2 DEF Wire
  <2> QED
    BY <1>4, <1>10, <2>2, <2>3, <2>4 DEF LoginAgain
<1>11. CASE Directory(c)
  <2>1. /\ home # 0 /\ UNCHANGED server
        /\ down' = [down EXCEPT ![home] = Append(@, Packet(Request.cmd, Request.id))]
    BY <1>2, <1>3, <1>11, Single DEF Directory, Reply
  <2>2. pc \in Late /\ home = cur /\ pc # "login"
    BY <1>2, <1>3, <1>6, <1>7, <2>1
  <2>3. Packet(Request.cmd, Request.id) = Request
    BY Fields DEF Request
  <2> QED
    BY <1>4, <1>8, <2>1, <2>2, <2>3
<1> QED
  BY <1>9, <1>10, <1>11 DEF Serve

LEMMA LoginReplyKeeps ==
  ASSUME TypeInv, Wire, Lists, LoginReply
  PROVE  Wire' /\ Lists'
<1>1. UNCHANGED client /\ UNCHANGED <<up, home, lost>> /\ owed /\ owed' = FALSE
      /\ down' = [down EXCEPT ![home] = Append(@, Packet("login", NoId))]
  BY DEF LoginReply
<1>2. pc = "login" /\ cur # 0 /\ up[cur] = <<>> /\ down[cur] = <<>> /\ home = cur /\ cur \in Conns
  BY <1>1 DEF Wire, Asked, Told, Granted, Refused, Asking, Late, TypeInv, ThreadTypes
<1>3. UNCHANGED <<pc, cur, Request>> /\ Lists' /\ Request = Packet("login", NoId)
  BY <1>1, <1>2, ServerFrame, RequestCmd
<1>4. lost = {} /\ \A d \in Conns : d # cur => up[d] = <<>> /\ down[d] = <<>>
  BY DEF Wire
<1>5. down'[cur] = <<Request>> /\ \A d \in Conns : d # cur => down'[d] = <<>>
  BY <1>1, <1>2, <1>3, <1>4, Single DEF TypeInv, WireTypes
<1>6. Told'
  BY <1>1, <1>2, <1>3, <1>5 DEF Told
<1>7. pc \notin Late /\ pc \in Asking
  BY <1>2 DEF Late, Asking
<1>8. Wire'
  BY <1>1, <1>2, <1>3, <1>4, <1>5, <1>6, <1>7 DEF Wire
<1> QED
  BY <1>3, <1>8


-----------------------------------------------------------------------------
(* The client's side of an undisturbed login                               *)

\* What a recv() returns is the answer to the request, alone.
LEMMA Heard ==
  ASSUME TypeInv, Wire, cur # 0, NEW at \in Asking, NEW n, Recv(at, n)
  PROVE  /\ pc = at /\ cur \in Conns /\ ~owed /\ lost = {} /\ UNCHANGED <<cur, home, owed, lost>>
         /\ \A c \in Conns : up[c] = <<>> /\ down'[c] = <<>>
         /\ \/ First = Request /\ (at = "req" => home = 0) /\ (at # "req" => home = cur)
            \/ at = "login" /\ First = Packet("invalid", NoId) /\ home = 0
<1>1. /\ pc = at /\ n \in 1 .. Len(down[cur]) /\ UNCHANGED <<cur, home, owed, lost>>
      /\ down' = [down EXCEPT ![cur] = SubSeq(@, n + 1, Len(@))]
  BY DEF Recv, server
<1>2. cur \in Conns /\ lost = {} /\ \A c \in Conns : c # cur => up[c] = <<>> /\ down[c] = <<>>
  BY DEF TypeInv, ThreadTypes, Wire
<1>3. down[cur] # <<>>
  BY <1>1
<1>4. Told \/ Refused
  BY <1>1, <1>3 DEF Wire, Asked, Granted
<1>5. \E p : down[cur] = <<p>>
  BY <1>4 DEF Told, Refused
<1>6. PICK p : down[cur] = <<p>>
  BY <1>5
<1>7. n = 1 /\ Len(down[cur]) = 1
  BY <1>1, <1>6, Single
<1>8. down'[cur] = <<>>
  BY <1>1, <1>2, <1>6, <1>7, Single DEF TypeInv, WireTypes
<1>9. \A c \in Conns : c # cur => down'[c] = <<>>
  BY <1>1, <1>2 DEF TypeInv, WireTypes
<1>10. up[cur] = <<>> /\ ~owed
  BY <1>4 DEF Told, Refused
<1>11. CASE Told
  BY <1>1, <1>2, <1>8, <1>9, <1>10, <1>11, Single DEF Told, First
<1>12. CASE Refused
  BY <1>1, <1>2, <1>8, <1>9, <1>10, <1>12, Single DEF Refused, First
<1> QED
  BY <1>4, <1>11, <1>12

\* Nothing is under way but what the thread now asks.
LEMMA AsksNext ==
  ASSUME TypeInv, cur \in Conns, ~owed, lost = {}, UNCHANGED <<cur, home, owed, lost>>,
         \A c \in Conns : up[c] = <<>> /\ down'[c] = <<>>,
         NEW cmd, NEW id, Send(cmd, id), Request' = Packet(cmd, id), pc' \in Asking,
         (pc' = "login" /\ home = 0) \/ (pc' \in Late /\ home = cur)
  PROVE  Wire'
<1>1. up' = [up EXCEPT ![cur] = Append(@, Packet(cmd, id))]
  BY DEF Send
<1>2. up'[cur'] = <<Request'>> /\ down'[cur'] = <<>> /\ \A c \in Conns : c # cur' => up'[c] = <<>>
  BY <1>1, Single DEF TypeInv, WireTypes
<1>3. cur' # 0
  BY DEF Conns
<1>4. pc' \in Late => pc' # "login" /\ pc' # "req"
  BY DEF Late
<1>5. Asked'
  BY <1>2, <1>4 DEF Asked
<1> QED
  BY <1>2, <1>3, <1>4, <1>5 DEF Wire

\* The login has ended, and nothing is under way.
LEMMA AsksNoMore ==
  ASSUME cur \in Conns, ~owed, lost = {}, UNCHANGED <<cur, home, owed, lost, up>>,
         \A c \in Conns : up[c] = <<>> /\ down'[c] = <<>>,
         (pc' = "idle" /\ home = 0) \/ (pc' = "loop" /\ home = cur)
  PROVE  Wire'
<1>1. cur' # 0 /\ \A c \in Conns : up'[c] = <<>> /\ down'[c] = <<>>
  BY DEF Conns
<1>2. pc' \notin Asking /\ (pc' = "loop" => pc' \in Late) /\ (pc' = "idle" => pc' \notin Late \cup {"login"})
  BY DEF Asking, Late
<1> QED
  BY <1>1, <1>2 DEF Wire

LEMMA Places ==
  /\ {"req", "login", "self", "users", "info", "groups", "ginfo"} \subseteq Asking
  /\ {"self", "users", "info", "groups", "ginfo", "loop"} \subseteq Late
BY DEF Asking, Late

LEMMA ReqKeeps ==
  ASSUME TypeInv, Wire, Lists, cur # 0, NEW n, OnReq(n) \/ OnLogin(n) \/ OnSelf(n)
  PROVE  Wire' /\ Lists'
<1>1. pc \in {"req", "login", "self"} /\ pc' \in {"login", "self", "users", "idle"} /\ buddies' = buddies
  BY DEF OnReq, OnLogin, OnSelf, Recv, GoOn, Fail
<1>2. Lists'
  BY <1>1 DEF Lists, Listed
<1>3. CASE OnReq(n)
  <2>1. Recv("req", n) /\ pc = "req"
    BY <1>3 DEF OnReq, Recv
  <2>2. First = Packet("req", NoId) /\ home = 0
    BY <2>1, Heard, Places DEF Request
  <2>3. GoOn("login", "login", NoId)
    BY <1>3, <2>2, Fields DEF OnReq
  <2>4. pc' = "login" /\ Send("login", NoId) /\ Request' = Packet("login", NoId)
    BY <2>3 DEF GoOn, Request
  <2>6. cur \in Conns /\ ~owed /\ lost = {} /\ UNCHANGED <<cur, home, owed, lost>>
        /\ \A c \in Conns : up[c] = <<>> /\ down'[c] = <<>>
    BY <2>1, Heard, Places
  <2>7. pc' \in Asking
    BY <2>4, Places
  <2>5. Wire'
    BY <2>2, <2>4, <2>6, <2>7, AsksNext
  <2> QED
    BY <1>2, <2>5
<1>4. CASE OnLogin(n)
  <2>1. Recv("login", n) /\ pc = "login"
    BY <1>4 DEF OnLogin, Recv
  <2>2. \/ First = Packet("login", NoId) /\ home = cur
        \/ First = Packet("invalid", NoId) /\ home = 0
    BY <2>1, Heard, Places DEF Request
  <2>3. CASE First = Packet("login", NoId) /\ home = cur
    <3>1. GoOn("self", "user_info", Self)
      BY <1>4, <2>3, Fields DEF OnLogin
    <3>2. pc' = "self" /\ Send("user_info", Self) /\ Request' = Packet("user_info", Self)
      BY <3>1 DEF GoOn, Request
    <3>3. Wire'
      BY <2>1, <2>3, <3>2, Heard, AsksNext, Places
    <3> QED
      BY <1>2, <3>3
  <2>4. CASE First = Packet("invalid", NoId) /\ home = 0
    <3>1. Fail("invalid")
      BY <1>4, <2>4, Fields DEF OnLogin
    <3>2. pc' = "idle" /\ up' = up
      BY <3>1 DEF Fail
    <3>4. cur \in Conns /\ ~owed /\ lost = {} /\ UNCHANGED <<cur, home, owed, lost>>
          /\ \A c \in Conns : up[c] = <<>> /\ down'[c] = <<>>
      BY <2>1, Heard, Places
    <3>3. Wire'
      BY <2>4, <3>2, <3>4, AsksNoMore
    <3> QED
      BY <1>2, <3>3
  <2> QED
    BY <2>2, <2>3, <2>4
<1>5. CASE OnSelf(n)
  <2>1. Recv("self", n) /\ pc = "self"
    BY <1>5 DEF OnSelf, Recv
  <2>2. First = Packet("user_info", Self) /\ home = cur
    BY <2>1, Heard, Places DEF Request
  <2>3. GoOn("users", "user", NoId)
    BY <1>5, <2>2, Fields DEF OnSelf
  <2>4. pc' = "users" /\ Send("user", NoId) /\ Request' = Packet("user", NoId)
    BY <2>3 DEF GoOn, Request
  <2>5. Wire'
    BY <2>1, <2>2, <2>4, Heard, AsksNext, Places
  <2> QED
    BY <1>2, <2>5
<1> QED
  BY <1>3, <1>4, <1>5


\* What has to be known where the thread goes on.
LEMMA ListsAt ==
  /\ pc' = "info" /\ Uids' /\ Profiles' /\ k' \in DOMAIN Others => Lists'
  /\ pc' = "groups" /\ Uids' /\ Profiles' => Lists'
  /\ pc' = "ginfo" /\ Uids' /\ Profiles' /\ Gids' /\ k' \in DOMAIN Groups /\ Members' => Lists'
  /\ pc' = "loop" /\ Uids' /\ Profiles' /\ Members' => Lists'
BY DEF Lists, Listed

LEMMA UsersKeeps ==
  ASSUME TypeInv, Wire, Lists, cur # 0, NEW n, OnUsers(n)
  PROVE  Wire' /\ Lists'
<1>1. Recv("users", n) /\ pc = "users"
  BY DEF OnUsers, Recv
<1>2. First = Packet("user", NoId) /\ home = cur
  BY <1>1, Heard, Places DEF Request
<1>3. cur \in Conns /\ ~owed /\ lost = {} /\ UNCHANGED <<cur, home, owed, lost>>
      /\ \A c \in Conns : up[c] = <<>> /\ down'[c] = <<>>
  BY <1>1, Heard, Places
<1>4. /\ buddies' = buddies \o Answered /\ k' = 1
      /\ IF Others = <<>> THEN GoOn("groups", "group", NoId) ELSE GoOn("info", "user_info", buddies'[1].uid)
  BY <1>2, Fields DEF OnUsers
<1>5. buddies' = Answered
  <2>1. buddies = <<>>
    BY <1>1 DEF Lists, Listed
  <2>2. \A s \in Seq(Profile) : <<>> \o s = s
    OBVIOUS
  <2> QED
    BY <1>4, <2>1, <2>2, AnsweredType
<1>6. Uids'
  BY <1>5, AnsweredType DEF Uids
<1>7. DOMAIN buddies' = 1 .. Len(Others) /\ Len(Others) \in Nat
  BY <1>5, AnsweredType, DirectoryAssumption
<1>8. CASE Others = <<>>
  <2>1. pc' = "groups" /\ Send("group", NoId) /\ Request' = Packet("group", NoId)
    BY <1>4, <1>8 DEF GoOn, Request
  <2>2. Wire'
    BY <1>2, <1>3, <2>1, AsksNext, Places
  <2>3. \A i \in DOMAIN buddies' : FALSE
    BY <1>7, <1>8
  <2>4. Profiles'
    BY <2>3 DEF Profiles
  <2> QED
    BY <1>6, <2>1, <2>2, <2>4, ListsAt
<1>9. CASE Others # <<>>
  <2>1. pc' = "info" /\ Send("user_info", buddies'[1].uid)
    BY <1>4, <1>9 DEF GoOn
  <2>2. Request' = Packet("user_info", buddies'[1].uid)
    BY <1>4, <2>1 DEF Request
  <2>3. Wire'
    BY <1>2, <1>3, <2>1, <2>2, AsksNext, Places
  <2>4. \A i \in DOMAIN buddies' : ~(i < k')
    BY <1>4, <1>7
  <2>5. Profiles'
    BY <2>1, <2>4 DEF Profiles
  <2>6. k' \in DOMAIN Others
    BY <1>4, <1>9, DirectoryAssumption
  <2> QED
    BY <1>6, <2>1, <2>3, <2>5, <2>6, ListsAt
<1> QED
  BY <1>8, <1>9

\* The profile that was asked for is stored, and no other is touched.
LEMMA UpdateAskedFor ==
  ASSUME ListTypes, Uids, k \in DOMAIN Others, Update(buddies[k].uid)
  PROVE  /\ DOMAIN buddies' = DOMAIN buddies /\ Len(buddies') = Len(buddies)
         /\ \A i \in DOMAIN buddies : buddies'[i].uid = buddies[i].uid
         /\ buddies'[k].profile = buddies[k].uid
         /\ \A i \in DOMAIN buddies : i # k => buddies'[i] = buddies[i]
<1>1. DOMAIN buddies = 1 .. Len(buddies) /\ DOMAIN Others = DOMAIN buddies /\ \A i \in DOMAIN buddies : buddies[i] \in Profile
  BY DirectoryAssumption DEF ListTypes, Uids
<1>2. \A i \in DOMAIN buddies : buddies[i].uid = buddies[k].uid => i = k
  BY <1>1, DirectoryAssumption DEF Uids, IsInjective
<1>3. \A i \in DOMAIN buddies : i # k => buddies'[i] = buddies[i]
  BY <1>2 DEF Update
<1>4. buddies'[k].profile = buddies[k].uid
  <2>1. k \in DOMAIN buddies /\ k \in Nat /\ \A j \in 1 .. k - 1 : j \in DOMAIN buddies /\ j # k
    BY <1>1
  <2>2. buddies'[k] = [buddies[k] EXCEPT !.profile = buddies[k].uid]
    BY <1>2, <2>1 DEF Update
  <2>3. buddies[k] \in Profile
    BY <1>1, <2>1
  <2> QED
    BY <2>2, <2>3 DEF Profile
<1> QED
  BY <1>3, <1>4, UpdateKeeps

LEMMA InfoKeeps ==
  ASSUME TypeInv, Wire, Lists, cur # 0, NEW n, OnInfo(n)
  PROVE  Wire' /\ Lists'
<1>1. Recv("info", n) /\ pc = "info"
  BY DEF OnInfo, Recv
<1>2. First = Packet("user_info", buddies[k].uid) /\ home = cur
  BY <1>1, Heard, Places DEF Request
<1>3. cur \in Conns /\ ~owed /\ lost = {} /\ UNCHANGED <<cur, home, owed, lost>>
      /\ \A c \in Conns : up[c] = <<>> /\ down'[c] = <<>>
  BY <1>1, Heard, Places
<1>4. Uids /\ Profiles /\ k \in DOMAIN Others /\ ListTypes
  BY <1>1 DEF Lists, Listed, TypeInv
<1>5. Update(buddies[k].uid) /\ AfterInfo
  BY <1>2, Fields DEF OnInfo
<1>6. /\ DOMAIN buddies' = DOMAIN buddies /\ Len(buddies') = Len(buddies)
      /\ \A i \in DOMAIN buddies : buddies'[i].uid = buddies[i].uid
      /\ buddies'[k].profile = buddies[k].uid
      /\ \A i \in DOMAIN buddies : i # k => buddies'[i] = buddies[i]
  BY <1>4, <1>5, UpdateAskedFor
<1>7. DOMAIN Others = DOMAIN buddies /\ DOMAIN buddies = 1 .. Len(buddies) /\ Len(buddies) \in Nat /\ k \in Nat
  BY <1>4, DirectoryAssumption DEF Uids, ListTypes
<1>8. Uids'
  BY <1>4, <1>6, <1>7 DEF Uids
<1>9. \A i \in DOMAIN buddies : i < k + 1 => buddies'[i].profile = buddies'[i].uid
  <2> SUFFICES ASSUME NEW i \in DOMAIN buddies, i < k + 1
               PROVE  buddies'[i].profile = buddies'[i].uid
    OBVIOUS
  <2>1. CASE i = k
    BY <1>6, <2>1
  <2>2. CASE i # k
    <3>1. i < k
      BY <1>7, <2>2
    <3>2. buddies[i].profile = buddies[i].uid
      BY <1>1, <1>4, <3>1 DEF Profiles
    <3> QED
      BY <1>6, <2>2, <3>2
  <2> QED
    BY <2>1, <2>2
<1>10. k' = k + 1
  BY <1>5 DEF AfterInfo
<1>11. CASE k < Len(buddies)
  <2>1. pc' = "info" /\ Send("user_info", buddies[k + 1].uid)
    BY <1>5, <1>11 DEF AfterInfo, GoOn
  <2>2. k + 1 \in DOMAIN buddies
    BY <1>7, <1>11
  <2>3. Request' = Packet("user_info", buddies[k + 1].uid)
    BY <1>6, <1>10, <2>1, <2>2 DEF Request
  <2>4. Wire'
    BY <1>2, <1>3, <2>1, <2>3, AsksNext, Places
  <2>5. Profiles'
    BY <1>6, <1>9, <1>10, <2>1 DEF Profiles
  <2>6. k' \in DOMAIN Others
    BY <1>7, <1>10, <2>2
  <2> QED
    BY <1>8, <2>1, <2>4, <2>5, <2>6, ListsAt
<1>12. CASE ~(k < Len(buddies))
  <2>1. pc' = "groups" /\ Send("group", NoId) /\ Request' = Packet("group", NoId)
    BY <1>5, <1>12 DEF AfterInfo, GoOn, Request
  <2>2. Wire'
    BY <1>2, <1>3, <2>1, AsksNext, Places
  <2>3. \A i \in DOMAIN buddies : i < k + 1
    BY <1>7, <1>12
  <2>4. Profiles'
    BY <1>6, <1>9, <2>3 DEF Profiles
  <2> QED
    BY <1>8, <2>1, <2>2, <2>4, ListsAt
<1> QED
  BY <1>11, <1>12


\* The profiles stay known while the members are asked for.
LEMMA ProfilesStay ==
  ASSUME pc \in {"groups", "ginfo"}, Uids, Profiles, buddies' = buddies
  PROVE  Uids' /\ Profiles'
<1>1. \A i \in DOMAIN buddies : buddies[i].profile = buddies[i].uid
  BY DEF Profiles
<1> QED
  BY <1>1 DEF Uids, Profiles

LEMMA GroupsKeeps ==
  ASSUME TypeInv, Wire, Lists, cur # 0, NEW n, OnGroups(n)
  PROVE  Wire' /\ Lists'
<1>1. Recv("groups", n) /\ pc = "groups"
  BY DEF OnGroups, Recv
<1>2. First = Packet("group", NoId) /\ home = cur
  BY <1>1, Heard, Places DEF Request
<1>3. cur \in Conns /\ ~owed /\ lost = {} /\ UNCHANGED <<cur, home, owed, lost>>
      /\ \A c \in Conns : up[c] = <<>> /\ down'[c] = <<>>
  BY <1>1, Heard, Places
<1>4. /\ mygroups' = [i \in DOMAIN Groups |-> [gid |-> Groups[i], members |-> NoId]]
      /\ IF Groups = <<>> THEN Ready
         ELSE k' = 1 /\ pc' = "ginfo" /\ Send("group_info", Groups[1])
      /\ UNCHANGED buddies
  BY <1>2, Fields DEF OnGroups
<1>5. Uids' /\ Profiles'
  <2>1. Uids /\ Profiles
    BY <1>1 DEF Lists, Listed
  <2> QED
    BY <1>1, <1>4, <2>1, ProfilesStay
<1>6. DOMAIN mygroups' = DOMAIN Groups /\ Len(mygroups') = Len(Groups) /\ \A i \in DOMAIN Groups : mygroups'[i].gid = Groups[i]
  BY <1>4, MemberType
<1>7. DOMAIN Groups = 1 .. Len(Groups) /\ Len(Groups) \in Nat
  BY DirectoryAssumption
<1>8. CASE Groups = <<>>
  <2>1. pc' = "loop" /\ up' = up
    BY <1>4, <1>8 DEF Ready
  <2>2. Wire'
    BY <1>2, <1>3, <2>1, AsksNoMore
  <2>3. \A i \in DOMAIN mygroups' : FALSE
    BY <1>6, <1>7, <1>8
  <2>4. Members'
    BY <2>3 DEF Members
  <2> QED
    BY <1>5, <2>1, <2>2, <2>4, ListsAt
<1>9. CASE Groups # <<>>
  <2>1. pc' = "ginfo" /\ k' = 1 /\ Send("group_info", Groups[1]) /\ 1 \in DOMAIN Groups
    BY <1>4, <1>7, <1>9
  <2>2. Request' = Packet("group_info", Groups[1])
    BY <1>6, <2>1 DEF Request
  <2>3. Wire'
    BY <1>2, <1>3, <2>1, <2>2, AsksNext, Places
  <2>4. \A i \in DOMAIN mygroups' : ~(i < k')
    BY <1>6, <1>7, <2>1
  <2>5. Members'
    BY <2>1, <2>4 DEF Members
  <2>6. Gids'
    BY <1>6 DEF Gids
  <2> QED
    BY <1>5, <2>1, <2>3, <2>5, <2>6, ListsAt
<1> QED
  BY <1>8, <1>9

LEMMA GinfoStep ==
  ASSUME TypeInv, Wire, Lists, cur # 0, NEW n, OnGinfo(n)
  PROVE  Wire' /\ Lists'
<1>1. Recv("ginfo", n) /\ pc = "ginfo"
  BY DEF OnGinfo, Recv
<1>2. First = Packet("group_info", mygroups[k].gid) /\ home = cur
  BY <1>1, Heard, Places DEF Request
<1>3. cur \in Conns /\ ~owed /\ lost = {} /\ UNCHANGED <<cur, home, owed, lost>>
      /\ \A c \in Conns : up[c] = <<>> /\ down'[c] = <<>>
  BY <1>1, Heard, Places
<1>4. Uids /\ Profiles /\ Gids /\ Members /\ k \in DOMAIN Groups /\ mygroups \in Seq(Membership)
  BY <1>1 DEF Lists, Listed, TypeInv, ListTypes
<1>5. DOMAIN Groups = 1 .. Len(Groups) /\ DOMAIN mygroups = DOMAIN Groups /\ DOMAIN mygroups = 1 .. Len(mygroups)
      /\ Len(mygroups) \in Nat /\ k \in Nat /\ k \in DOMAIN mygroups
  BY <1>4, DirectoryAssumption DEF Gids
<1>6. /\ mygroups' = [mygroups EXCEPT ![k].members = mygroups[k].gid]
      /\ IF k < Len(mygroups)
         THEN k' = k + 1 /\ Send("group_info", mygroups[k + 1].gid) /\ UNCHANGED <<pc, running>>
         ELSE Ready
      /\ buddies' = buddies
  <2>1. IsAsked /\ First.id = mygroups[k].gid
    BY <1>2, Fields DEF IsAsked
  <2>2. mygroups' = [mygroups EXCEPT ![k].members = First.id]
    BY <2>1 DEF OnGinfo
  <2> QED
    BY <2>1, <2>2 DEF OnGinfo
<1>7. mygroups[k] \in Membership
  BY <1>4, <1>5
<1>8. [mygroups[k] EXCEPT !.members = mygroups[k].gid].members = mygroups[k].gid
      /\ [mygroups[k] EXCEPT !.members = mygroups[k].gid].gid = mygroups[k].gid
  BY <1>7 DEF Membership
<1>9. /\ DOMAIN mygroups' = DOMAIN mygroups /\ Len(mygroups') = Len(mygroups)
      /\ mygroups'[k].members = mygroups[k].gid /\ mygroups'[k].gid = mygroups[k].gid
      /\ \A i \in DOMAIN mygroups : i # k => mygroups'[i] = mygroups[i]
  <2>1. /\ DOMAIN mygroups' = DOMAIN mygroups
        /\ mygroups'[k] = [mygroups[k] EXCEPT !.members = mygroups[k].gid]
        /\ \A i \in DOMAIN mygroups : i # k => mygroups'[i] = mygroups[i]
    BY <1>5, <1>6
  <2>2. mygroups' \in Seq(Membership)
    BY <1>4, GinfoKeeps DEF TypeInv
  <2>3. Len(mygroups') = Len(mygroups)
    BY <1>4, <2>1, <2>2
  <2> QED
    BY <1>8, <2>1, <2>3
<1>10. Uids' /\ Profiles'
  BY <1>1, <1>4, <1>6, ProfilesStay
<1>11. \A i \in DOMAIN mygroups : i < k + 1 => mygroups'[i].members = mygroups'[i].gid
  <2> SUFFICES ASSUME NEW i \in DOMAIN mygroups, i < k + 1
               PROVE  mygroups'[i].members = mygroups'[i].gid
    OBVIOUS
  <2>1. CASE i = k
    BY <1>9, <2>1
  <2>2. CASE i # k
    <3>1. i < k
      BY <1>5, <2>2
    <3>2. mygroups[i].members = mygroups[i].gid
      BY <1>4, <3>1 DEF Members
    <3> QED
      BY <1>9, <2>2, <3>2
  <2> QED
    BY <2>1, <2>2
<1>12. CASE k < Len(mygroups)
  <2>1. pc' = "ginfo" /\ k' = k + 1 /\ Send("group_info", mygroups[k + 1].gid) /\ k + 1 \in DOMAIN mygroups /\ k + 1 # k
    BY <1>1, <1>5, <1>6, <1>12
  <2>2. Request' = Packet("group_info", mygroups[k + 1].gid)
    BY <1>9, <2>1 DEF Request
  <2>3. Wire'
    BY <1>2, <1>3, <2>1, <2>2, AsksNext, Places
  <2>4. Members'
    BY <1>9, <1>11, <2>1 DEF Members
  <2>5. Gids'
    <3>1. \A i \in DOMAIN mygroups : mygroups'[i].gid = mygroups[i].gid
      BY <1>9
    <3> QED
      BY <1>4, <1>5, <1>9, <3>1 DEF Gids
  <2>6. k' \in DOMAIN Groups
    BY <1>5, <2>1
  <2> QED
    BY <1>10, <2>1, <2>3, <2>4, <2>5, <2>6, ListsAt
<1>13. CASE ~(k < Len(mygroups))
  <2>1. pc' = "loop" /\ up' = up
    BY <1>6, <1>13 DEF Ready
  <2>2. Wire'
    BY <1>2, <1>3, <2>1, AsksNoMore
  <2>3. \A i \in DOMAIN mygroups : i < k + 1
    BY <1>5, <1>13
  <2>4. Members'
    BY <1>9, <1>11, <2>3 DEF Members
  <2> QED
    BY <1>10, <2>1, <2>2, <2>4, ListsAt
<1> QED
  BY <1>12, <1>13

-----------------------------------------------------------------------------
(* A clean login                                                           *)

LEMMA StepInv ==
  ASSUME TypeInv, Inv, [Next]_vars
  PROVE  Inv'
<1>1. Connected'
  BY StepConnected DEF Inv
<1> SUFFICES ASSUME Clean'
             PROVE  Wire' /\ Lists'
  BY <1>1 DEF Inv
<1>2. Wire /\ Lists
  BY Undisturbed DEF Inv
<1>3. ASSUME cur # 0, NEW n, Receive(n)
      PROVE  Wire' /\ Lists'
  BY <1>2, <1>3, ReqKeeps, UsersKeeps, InfoKeeps, GroupsKeeps, GinfoStep DEF Receive
<1>4. ASSUME NEW c \in Conns, Serve(c)
      PROVE  Wire' /\ Lists'
  BY <1>2, <1>4, ServeKeeps
<1>5. CASE Apart \/ Prepare
  BY <1>2, <1>5, PrepareKeeps
<1>6. CASE Connect
  BY <1>2, <1>6, ConnectKeeps
<1>7. CASE LoginReply
  BY <1>2, <1>7, LoginReplyKeeps
<1> QED
  BY <1>3, <1>4, <1>5, <1>6, <1>7, Undisturbed

LEMMA InitInv == Init => Inv
<1> SUFFICES ASSUME Init
             PROVE  Inv
  OBVIOUS
<1>1. Connected
  BY DEF Init, Connected
<1>2. Wire
  BY DEF Init, Wire, Asking, Late
<1>3. Lists
  BY DEF Init, Lists, Listed
<1> QED
  BY <1>1, <1>2, <1>3 DEF Inv

LEMMA InvImpliesClean ==
  ASSUME TypeInv, Inv
  PROVE  CleanLogin
<1> SUFFICES ASSUME running = "connected", pushed = 0, ~broken
             PROVE  /\ \A u \in Range(Others) : Cardinality({i \in DOMAIN buddies : buddies[i].uid = u}) = 1
                    /\ \A i \in DOMAIN buddies : buddies[i].profile = buddies[i].uid
                    /\ \A i \in DOMAIN mygroups : mygroups[i].members = mygroups[i].gid
                    /\ ~Unread
  BY DEF CleanLogin
<1>1. pc = "loop" /\ Wire /\ Lists
  BY DEF Inv, Connected, Clean
<1>2. Uids /\ Profiles /\ Members
  BY <1>1 DEF Lists, Listed
<1>3. ASSUME NEW u \in Range(Others)
      PROVE  Cardinality({i \in DOMAIN buddies : buddies[i].uid = u}) = 1
  <2>1. PICK j \in DOMAIN Others : Others[j] = u
    BY <1>3 DEF Range
  <2>2. DOMAIN buddies = DOMAIN Others
    BY <1>2, DirectoryAssumption DEF Uids, TypeInv, ListTypes
  <2>3. {i \in DOMAIN buddies : buddies[i].uid = u} = {j}
    BY <1>2, <2>1, <2>2, DirectoryAssumption DEF Uids, IsInjective
  <2> QED
    BY <2>3, FS_Singleton
<1>4. ~Unread
  <2>1. pc \in Late /\ pc \notin Asking
    BY <1>1 DEF Late, Asking
  <2>2. cur \in Conns /\ ~owed
    BY <1>1, <2>1 DEF Wire, TypeInv, ThreadTypes
  <2>3. up[cur] = <<>> /\ down[cur] = <<>>
    BY <1>1, <2>1, <2>2 DEF Wire
  <2> QED
    BY <2>2, <2>3 DEF Unread
<1> QED
  BY <1>1, <1>2, <1>3, <1>4 DEF Profiles, Members

\* CleanLogin: a login during which no message was pushed and no connection
\* failed, after any number of others that were cancelled or refused, ends with
\* every other user once, every profile, every member list and nothing unread.
THEOREM CleanLoginCorrect == Spec => []CleanLogin
<1>1. TypeInv /\ Inv /\ [Next]_vars => Inv'
  BY StepInv
<1>2. TypeInv /\ Inv => CleanLogin
  BY InvImpliesClean
<1> QED
  BY <1>1, <1>2, InitInv, Typed, PTL DEF Spec

=============================================================================
