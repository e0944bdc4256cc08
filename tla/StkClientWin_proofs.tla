------------------------- MODULE StkClientWin_proofs ------------------------
(***************************************************************************)
(* The Win32 client for any users, groups, forms and bounds: what the      *)
(* thread makes of the server's answers, and how messages reach the chat   *)
(* windows.                                                                *)
(***************************************************************************)
EXTENDS StkClientWin, TLAPS

-----------------------------------------------------------------------------
(* Sequences                                                               *)

\* What is left after the first n elements.
LEMMA RestElements ==
  ASSUME NEW S, NEW s \in Seq(S), NEW n \in 1 .. Len(s)
  PROVE  /\ SubSeq(s, n + 1, Len(s)) \in Seq(S)
         /\ \A i \in DOMAIN SubSeq(s, n + 1, Len(s)) :
              i + n \in DOMAIN s /\ SubSeq(s, n + 1, Len(s))[i] = s[i + n]
OBVIOUS

LEMMA TailElements ==
  ASSUME NEW S, NEW s \in Seq(S), s # <<>>
  PROVE  /\ Tail(s) \in Seq(S) /\ Head(s) \in S /\ 1 \in DOMAIN s /\ Head(s) = s[1]
         /\ \A i \in DOMAIN Tail(s) : i + 1 \in DOMAIN s /\ i \in Nat /\ Tail(s)[i] = s[i + 1]
OBVIOUS

LEMMA AppendElements ==
  ASSUME NEW S, NEW s \in Seq(S), NEW e \in S
  PROVE  /\ Append(s, e) \in Seq(S)
         /\ \A i \in DOMAIN Append(s, e) : \/ i \in DOMAIN s /\ Append(s, e)[i] = s[i]
                                           \/ i = Len(s) + 1 /\ Append(s, e)[i] = e
         /\ \A i \in DOMAIN s : i \in DOMAIN Append(s, e) /\ Append(s, e)[i] = s[i] /\ i < Len(s) + 1
         /\ Len(s) + 1 \in DOMAIN Append(s, e) /\ Append(s, e)[Len(s) + 1] = e
OBVIOUS

\* An element of a concatenation is one of either sequence.
LEMMA ConcatElements ==
  ASSUME NEW S, NEW s \in Seq(S), NEW r \in Seq(S)
  PROVE  /\ s \o r \in Seq(S)
         /\ \A k \in DOMAIN (s \o r) :
              \/ k \in DOMAIN s /\ k <= Len(s) /\ (s \o r)[k] = s[k]
              \/ k > Len(s) /\ k - Len(s) \in DOMAIN r /\ (s \o r)[k] = r[k - Len(s)]
OBVIOUS

-----------------------------------------------------------------------------
(* Who writes what                                                         *)

\* Only an answer changes the lists of buddies and groups.
LEMMA ListFrame ==
  ASSUME [Next]_vars
  PROVE  UNCHANGED <<buddys, groups>> \/ Answer
<1>1. ASSUME SeeRequest \/ Claim \/ Connected \/ Report \/ Silent \/ Ask
             \/ (\E ok \in BOOLEAN : Connect(ok))
      PROVE  UNCHANGED <<buddys, groups>>
  BY <1>1 DEF SeeRequest, Claim, Connect, Connected, Report, Silent, Ask, IsAt, clientVars,
     listVars, threadVars, windowVars, wireVars, histVars, vars
<1>2. ASSUME Listen \/ Receive \/ RecvTimeout \/ RecvEnd \/ Lost \/ AddMsg \/ MsgEvent
             \/ ThreadEnd
      PROVE  UNCHANGED <<buddys, groups>>
  BY <1>2 DEF Listen, Receive, RecvTimeout, RecvEnd, Lost, AddMsg, MsgEvent, ThreadEnd, IsAt,
     clientVars, listVars, threadVars, windowVars, wireVars, histVars, vars
<1>3. ASSUME SocketMessage \/ Joined \/ Cancel \/ Quit
             \/ (\E c \in Conv : MsgMessage(c) \/ Display(c) \/ Displayed(c) \/ OpenChat(c) \/ CloseChat(c) \/ SendMsg(c))
             \/ (\E f \in Forms : Submit(f[1], f[2]) \/ Incomplete(f[1]))
      PROVE  UNCHANGED <<buddys, groups>>
  BY <1>3 DEF SocketMessage, Joined, MsgMessage, Display, Displayed, Submit, Incomplete,
     Cancel, Quit, OpenChat, CloseChat, SendMsg, IsAt, clientVars, listVars, threadVars,
     windowVars, wireVars, histVars, vars
<1>4. ASSUME Timeout \/ Corrupt \/ Serve \/ ServerExit \/ (\E c \in Conv : Push(c))
      PROVE  UNCHANGED <<buddys, groups>>
  BY <1>4 DEF Timeout, Corrupt, Serve, ServerExit, Push, IsAt, clientVars, listVars,
     threadVars, windowVars, wireVars, histVars, vars
<1>5. ASSUME UNCHANGED vars
      PROVE  UNCHANGED <<buddys, groups>>
  BY <1>5 DEF clientVars, listVars, threadVars, windowVars, wireVars, histVars, vars
<1> QED
  BY <1>1, <1>2, <1>3, <1>4, <1>5 DEF Next, Thread, Window, User

\* The messages of a conversation are touched by these three actions only.
LEMMA MailFrame ==
  ASSUME [Next]_vars
  PROVE  UNCHANGED <<mail, shown, pushed>> \/ AddMsg \/ (\E c \in Conv : Display(c) \/ Push(c))
<1>1. ASSUME SeeRequest \/ Claim \/ Connected \/ Report \/ Silent \/ Ask \/ Answer
             \/ (\E ok \in BOOLEAN : Connect(ok))
      PROVE  UNCHANGED <<mail, shown, pushed>>
  BY <1>1 DEF SeeRequest, Claim, Connect, Connected, Report, Silent, Ask, Answer, IsAt,
     clientVars, listVars, threadVars, windowVars, wireVars, histVars, vars
<1>2. ASSUME Listen \/ Receive \/ RecvTimeout \/ RecvEnd \/ Lost \/ MsgEvent \/ ThreadEnd
      PROVE  UNCHANGED <<mail, shown, pushed>>
  BY <1>2 DEF Listen, Receive, RecvTimeout, RecvEnd, Lost, MsgEvent, ThreadEnd, IsAt,
     clientVars, listVars, threadVars, windowVars, wireVars, histVars, vars
<1>3. ASSUME SocketMessage \/ Joined \/ Cancel \/ Quit
             \/ (\E c \in Conv : MsgMessage(c) \/ Displayed(c) \/ OpenChat(c) \/ CloseChat(c) \/ SendMsg(c))
             \/ (\E f \in Forms : Submit(f[1], f[2]) \/ Incomplete(f[1]))
      PROVE  UNCHANGED <<mail, shown, pushed>>
  BY <1>3 DEF SocketMessage, Joined, MsgMessage, Displayed, Submit, Incomplete, Cancel, Quit,
     OpenChat, CloseChat, SendMsg, IsAt, clientVars, listVars, threadVars, windowVars,
     wireVars, histVars, vars
<1>4. ASSUME Timeout \/ Corrupt \/ Serve \/ ServerExit
      PROVE  UNCHANGED <<mail, shown, pushed>>
  BY <1>4 DEF Timeout, Corrupt, Serve, ServerExit, IsAt, clientVars, listVars, threadVars,
     windowVars, wireVars, histVars, vars
<1>5. ASSUME UNCHANGED vars
      PROVE  UNCHANGED <<mail, shown, pushed>>
  BY <1>5 DEF clientVars, listVars, threadVars, windowVars, wireVars, histVars, vars
<1> QED
  BY <1>1, <1>2, <1>3, <1>4, <1>5 DEF Next, Thread, Window, User

\* The connection is left alone by all actions but these.
LEMMA WireFrame ==
  ASSUME [Next]_vars
  PROVE  UNCHANGED <<link, toSrv, toCli, bound, inLink, online>> \/ Connected \/ Ask \/ Answer
         \/ Receive \/ ThreadEnd \/ Serve \/ ServerExit \/ (\E ok \in BOOLEAN : Connect(ok))
         \/ (\E c \in Conv : SendMsg(c) \/ Push(c))
<1>1. ASSUME SeeRequest \/ Claim \/ Report \/ Silent
      PROVE  UNCHANGED <<link, toSrv, toCli, bound, inLink, online>>
  BY <1>1 DEF SeeRequest, Claim, Report, Silent, IsAt, clientVars, listVars, threadVars,
     windowVars, wireVars, histVars, vars
<1>2. ASSUME Listen \/ RecvTimeout \/ RecvEnd \/ Lost \/ AddMsg \/ MsgEvent
      PROVE  UNCHANGED <<link, toSrv, toCli, bound, inLink, online>>
  BY <1>2 DEF Listen, RecvTimeout, RecvEnd, Lost, AddMsg, MsgEvent, IsAt, clientVars, listVars,
     threadVars, windowVars, wireVars, histVars, vars
<1>3. ASSUME SocketMessage \/ Joined \/ Cancel \/ Quit
             \/ (\E c \in Conv : MsgMessage(c) \/ Display(c) \/ Displayed(c) \/ OpenChat(c) \/ CloseChat(c))
             \/ (\E f \in Forms : Submit(f[1], f[2]) \/ Incomplete(f[1]))
      PROVE  UNCHANGED <<link, toSrv, toCli, bound, inLink, online>>
  BY <1>3 DEF SocketMessage, Joined, MsgMessage, Display, Displayed, Submit, Incomplete,
     Cancel, Quit, OpenChat, CloseChat, IsAt, clientVars, listVars, threadVars, windowVars,
     wireVars, histVars, vars
<1>4. ASSUME Timeout \/ Corrupt
      PROVE  UNCHANGED <<link, toSrv, toCli, bound, inLink, online>>
  BY <1>4 DEF Timeout, Corrupt, IsAt, clientVars, listVars, threadVars, windowVars, wireVars,
     histVars, vars
<1>5. ASSUME UNCHANGED vars
      PROVE  UNCHANGED <<link, toSrv, toCli, bound, inLink, online>>
  BY <1>5 DEF clientVars, listVars, threadVars, windowVars, wireVars, histVars, vars
<1> QED
  BY <1>1, <1>2, <1>3, <1>4, <1>5 DEF Next, Thread, Window, User

\* Only the thread and its timeouts change what the thread holds.
LEMMA ThreadFrame ==
  ASSUME [Next]_vars
  PROVE  UNCHANGED <<pc, todo, luid, res, cur>> \/ SeeRequest \/ Claim \/ Connected \/ Report
         \/ Silent \/ Ask \/ Answer \/ Listen \/ Receive \/ RecvTimeout \/ RecvEnd \/ Lost
         \/ AddMsg \/ MsgEvent \/ ThreadEnd \/ Timeout \/ (\E ok \in BOOLEAN : Connect(ok))
<1>1. ASSUME SocketMessage \/ Joined \/ Cancel \/ Quit
             \/ (\E c \in Conv : MsgMessage(c) \/ Display(c) \/ Displayed(c) \/ OpenChat(c) \/ CloseChat(c) \/ SendMsg(c))
             \/ (\E f \in Forms : Submit(f[1], f[2]) \/ Incomplete(f[1]))
      PROVE  UNCHANGED <<pc, todo, luid, res, cur>>
  BY <1>1 DEF SocketMessage, Joined, MsgMessage, Display, Displayed, Submit, Incomplete,
     Cancel, Quit, OpenChat, CloseChat, SendMsg, IsAt, clientVars, listVars, threadVars,
     windowVars, wireVars, histVars, vars
<1>2. ASSUME Corrupt \/ Serve \/ ServerExit \/ (\E c \in Conv : Push(c))
      PROVE  UNCHANGED <<pc, todo, luid, res, cur>>
  BY <1>2 DEF Corrupt, Serve, ServerExit, Push, IsAt, clientVars, listVars, threadVars,
     windowVars, wireVars, histVars, vars
<1>3. ASSUME UNCHANGED vars
      PROVE  UNCHANGED <<pc, todo, luid, res, cur>>
  BY <1>3 DEF clientVars, listVars, threadVars, windowVars, wireVars, histVars, vars
<1> QED
  BY <1>1, <1>2, <1>3 DEF Next, Thread, Window, User

\* What the message loop does next depends on these.
LEMMA WindowFrame ==
  ASSUME [Next]_vars
  PROVE  UNCHANGED <<ui, posted>> \/ SocketMessage \/ Joined \/ Quit \/ Report \/ MsgEvent
         \/ (\E c \in Conv : MsgMessage(c) \/ Displayed(c))
<1>1. ASSUME SeeRequest \/ Claim \/ Connected \/ Silent \/ Ask \/ Answer
             \/ (\E ok \in BOOLEAN : Connect(ok))
      PROVE  UNCHANGED <<ui, posted>>
  BY <1>1 DEF SeeRequest, Claim, Connect, Connected, Silent, Ask, Answer, IsAt, clientVars,
     listVars, threadVars, windowVars, wireVars, histVars, vars
<1>2. ASSUME Listen \/ Receive \/ RecvTimeout \/ RecvEnd \/ Lost \/ AddMsg \/ ThreadEnd
      PROVE  UNCHANGED <<ui, posted>>
  BY <1>2 DEF Listen, Receive, RecvTimeout, RecvEnd, Lost, AddMsg, ThreadEnd, IsAt, clientVars,
     listVars, threadVars, windowVars, wireVars, histVars, vars
<1>3. ASSUME Cancel
             \/ (\E c \in Conv : Display(c) \/ OpenChat(c) \/ CloseChat(c) \/ SendMsg(c))
             \/ (\E f \in Forms : Submit(f[1], f[2]) \/ Incomplete(f[1]))
      PROVE  UNCHANGED <<ui, posted>>
  BY <1>3 DEF Display, Submit, Incomplete, Cancel, OpenChat, CloseChat, SendMsg, IsAt,
     clientVars, listVars, threadVars, windowVars, wireVars, histVars, vars
<1>4. ASSUME Timeout \/ Corrupt \/ Serve \/ ServerExit \/ (\E c \in Conv : Push(c))
      PROVE  UNCHANGED <<ui, posted>>
  BY <1>4 DEF Timeout, Corrupt, Serve, ServerExit, Push, IsAt, clientVars, listVars,
     threadVars, windowVars, wireVars, histVars, vars
<1>5. ASSUME UNCHANGED vars
      PROVE  UNCHANGED <<ui, posted>>
  BY <1>5 DEF clientVars, listVars, threadVars, windowVars, wireVars, histVars, vars
<1> QED
  BY <1>1, <1>2, <1>3, <1>4, <1>5 DEF Next, Thread, Window, User

-----------------------------------------------------------------------------
(* Type correctness                                                        *)

Uid0 == Users \cup {NoOne}
Codes == {"ok", "uid", "pass", "again"}

\* The requests of a login, and packets in either direction.
Requests ==
  ({"req", "login", "self", "users", "groups"} \X {NoOne}) \cup ({"info"} \X Users) \cup ({"ginfo"} \X Gids)
ToServer ==
  ({"req", "users", "groups"} \X Uid0 \X {NoOne}) \cup ({"login", "info"} \X Uid0 \X Uid0)
    \cup ({"ginfo"} \X Uid0 \X Gids) \cup ({"msg"} \X Uid0 \X Conv)
Messages == {p \in {"msg"} \X Conv \X Nat : p[3] \in 1 .. MaxPush[p[2]]}
ToClient ==
  ({"req"} \X Uid0 \X {NoOne}) \cup ({"login"} \X Uid0 \X Codes) \cup ({"info"} \X Uid0 \X Uid0)
    \cup ({"users"} \X Uid0 \X Seq(Users)) \cup ({"groups"} \X Uid0 \X Seq(Gids))
    \cup ({"ginfo"} \X Uid0 \X Gids) \cup Messages

\* TypeOK in parts, with what they need to be inductive.
WindowTypes ==
  /\ running \in States /\ cuid \in Uid0 /\ cpass \in Uid0
  /\ view \in {"form", "wait", "main"} /\ ui \in {"loop", "join", "ended"} \cup Conv
  /\ posted \in Seq({"socket"} \cup Conv) /\ exist \subseteq Conv
  /\ again \in BOOLEAN /\ dead \in BOOLEAN
CountTypes ==
  /\ asks \in 0 .. MaxLogin /\ late \in 0 .. MaxLate /\ sent \in 0 .. MaxSend
  /\ exits \in 0 .. MaxExit
ListTypes == buddys \in Seq(Entry(Users)) /\ groups \in Seq(Entry(Gids))

PCs == {"top", "claim", "connect", "refused", "made", "ask", "answer", "report", "silent",
        "top2", "recv", "append", "post", "lost", "exit", "ended"}
ThreadTypes ==
  /\ pc \in PCs /\ todo \in Seq(Requests) /\ luid \in Uid0 /\ res \in States \cup {NoOne}
  /\ cur \in (Conv \X Nat) \cup {NoOne}
  /\ pc \in {"ask", "answer"} => todo # <<>>
  /\ pc \in {"report", "lost"} => res \in States
  /\ pc \in {"append", "post"} => cur \in Conv \X Nat /\ cur[2] \in 1 .. MaxPush[cur[1]]

MailTypes ==
  /\ mail \in [Conv -> Seq(Nat)] /\ shown \in [Conv -> Seq(Nat)] /\ pushed \in [Conv -> Nat]
  /\ \A c \in Conv : /\ mail[c] \in Seq(1 .. MaxPush[c]) /\ shown[c] \in Seq(1 .. MaxPush[c])
                     /\ pushed[c] \in 0 .. MaxPush[c]

WireTypes ==
  /\ link \in {"none", "up", "closed"} /\ bound \in Uid0 /\ inLink \in BOOLEAN /\ online \subseteq Users
  /\ toSrv \in Seq(ToServer) /\ toCli \in Seq(ToClient)

\* Whoever asks for the list of users has logged in over this connection, which
\* is then bound to a user; no later request asks for it again.
LoggedIn ==
  /\ inLink => bound \in Users
  /\ \A i \in DOMAIN toCli : toCli[i][1] = "login" /\ toCli[i][3] = "ok" => inLink
  /\ \A i \in DOMAIN toSrv : toSrv[i][1] = "users" => inLink
  /\ pc \in {"ask", "answer"} /\ Cmd \in {"self", "users"} => inLink
  /\ \A i \in DOMAIN todo \ {1} : todo[i][1] \in {"info", "groups", "ginfo"}

TypeInv ==
  WindowTypes /\ CountTypes /\ ListTypes /\ ThreadTypes /\ MailTypes /\ WireTypes /\ LoggedIn

LEMMA InitTypeInv == Init => TypeInv
<1> SUFFICES ASSUME Init
             PROVE  TypeInv
  OBVIOUS
<1>1. /\ \A S : <<>> \in Seq(S)
      /\ \A n \in Nat : 0 \in 0 .. n
      /\ \A c \in Conv : MaxPush[c] \in Nat
  BY BoundsAssumption
<1>2. WindowTypes
  <2>1. posted \in Seq({"socket"} \cup Conv)
    BY <1>1 DEF Init
  <2> QED
    BY <2>1 DEF Init, WindowTypes, States, Uid0
<1>3. CountTypes
  BY <1>1, BoundsAssumption DEF Init, CountTypes
<1>4. ListTypes
  BY <1>1 DEF Init, ListTypes
<1>5. ThreadTypes
  <2>1. todo \in Seq(Requests)
    BY <1>1 DEF Init
  <2> QED
    BY <2>1 DEF Init, ThreadTypes, PCs, Uid0
<1>6. MailTypes
  BY <1>1 DEF Init, MailTypes
<1>7. WireTypes
  <2>1. toSrv \in Seq(ToServer) /\ toCli \in Seq(ToClient)
    BY <1>1 DEF Init
  <2> QED
    BY <2>1 DEF Init, WireTypes, Uid0
<1>8. LoggedIn
  <2>1. toSrv = <<>> /\ toCli = <<>> /\ todo = <<>> /\ pc = "top" /\ inLink = FALSE
    BY DEF Init
  <2> QED
    BY <2>1 DEF LoggedIn
<1> QED
  BY <1>2, <1>3, <1>4, <1>5, <1>6, <1>7, <1>8 DEF TypeInv

\* What a request, and what a packet holds.
LEMMA RequestType ==
  ASSUME NEW r \in Requests
  PROVE  /\ r[1] \in {"req", "login", "self", "users", "groups", "info", "ginfo"}
         /\ r[1] = "info" => r[2] \in Users
         /\ r[1] = "ginfo" => r[2] \in Gids
         /\ r[1] \notin {"info", "ginfo"} => r[2] = NoOne
BY DEF Requests

LEMMA PacketType ==
  ASSUME NEW p \in ToClient
  PROVE  /\ p[1] = "login" => p[3] \in Codes
         /\ p[1] = "info" => p[3] \in Uid0
         /\ p[1] = "users" => p[3] \in Seq(Users)
         /\ p[1] = "groups" => p[3] \in Seq(Gids)
         /\ p[1] = "ginfo" => p[3] \in Gids
         /\ p[1] = "msg" => /\ p[2] \in Conv /\ p[3] \in Nat /\ p[3] \in 1 .. MaxPush[p[2]]
BY DEF ToClient, Messages

\* stk_update_buddy() changes at most one entry, to the packet's own.
LEMMA UpdateType ==
  ASSUME NEW K, NEW list \in Seq(Entry(K)), NEW v \in K
  PROVE  /\ Update(list, v) \in Seq(Entry(K))
         /\ \A i \in DOMAIN Update(list, v) :
              i \in DOMAIN list /\ (Update(list, v)[i] = list[i] \/ Update(list, v)[i] = <<v, v>>)
<1> DEFINE new == Update(list, v)
<1>1. <<v, v>> \in Entry(K)
  BY DEF Entry
<1>2. /\ DOMAIN new = DOMAIN list
      /\ \A i \in DOMAIN new : new[i] = list[i] \/ new[i] = <<v, v>>
  BY DEF Update
<1>3. new = [i \in DOMAIN new |-> new[i]]
  BY DEF Update
<1>4. \A i \in DOMAIN new : new[i] \in Entry(K)
  BY <1>1, <1>2
<1>5. DOMAIN new = 1 .. Len(list) /\ Len(list) \in Nat
  BY <1>2
<1> HIDE DEF new
<1>6. new \in Seq(Entry(K))
  BY <1>3, <1>4, <1>5
<1> QED
  BY <1>2, <1>6 DEF new

LEMMA StepWindowTypes ==
  ASSUME WindowTypes, ThreadTypes, [Next]_vars
  PROVE  WindowTypes'
<1>0. /\ \A s \in Seq({"socket"} \cup Conv) : s # <<>> => Tail(s) \in Seq({"socket"} \cup Conv)
      /\ \A s \in Seq({"socket"} \cup Conv), e \in {"socket"} \cup Conv :
           Append(s, e) \in Seq({"socket"} \cup Conv)
  OBVIOUS
<1>1. ASSUME SeeRequest \/ Claim \/ Connected \/ Silent \/ Ask \/ Answer \/ Listen
             \/ (\E ok \in BOOLEAN : Connect(ok))
      PROVE  WindowTypes'
  <2>1. running' \in States /\ UNCHANGED <<cuid, cpass, view, ui, posted, exist, again, dead>>
    BY <1>1 DEF SeeRequest, Claim, Connect, Connected, Silent, Ask, Answer, Listen, WindowTypes,
       States, Failures, IsAt, clientVars, listVars, threadVars, windowVars, wireVars, histVars,
       vars
  <2> QED
    BY <2>1 DEF WindowTypes
<1>2. ASSUME Receive \/ RecvTimeout \/ RecvEnd \/ Lost \/ AddMsg \/ ThreadEnd
      PROVE  WindowTypes'
  BY <1>2 DEF Receive, RecvTimeout, RecvEnd, Lost, AddMsg, ThreadEnd, At, WindowTypes,
     ThreadTypes, IsAt, clientVars, listVars, threadVars, windowVars, wireVars, histVars, vars
<1>3. ASSUME Report \/ MsgEvent
      PROVE  WindowTypes'
  <2>1. /\ running' \in States
        /\ posted' = Append(posted, "socket") \/ (cur \in Conv \X Nat /\ posted' = Append(posted, cur[1]))
    BY <1>3 DEF Report, MsgEvent, IsAt, At, ThreadTypes, WindowTypes, clientVars
  <2>2. posted' \in Seq({"socket"} \cup Conv)
    BY <1>0, <2>1 DEF WindowTypes
  <2> QED
    BY <1>3, <2>1, <2>2 DEF Report, MsgEvent, WindowTypes, clientVars, histVars
<1>4. ASSUME SocketMessage \/ Joined
             \/ (\E c \in Conv : MsgMessage(c) \/ Display(c) \/ Displayed(c))
      PROVE  WindowTypes'
  BY <1>0, <1>4 DEF SocketMessage, Joined, MsgMessage, Display, Displayed, WindowTypes, States,
     IsAt, clientVars, listVars, threadVars, windowVars, wireVars, histVars, vars
<1>5. ASSUME Cancel \/ Quit \/ (\E c \in Conv : OpenChat(c) \/ CloseChat(c) \/ SendMsg(c))
             \/ (\E f \in Forms : Submit(f[1], f[2]) \/ Incomplete(f[1]))
      PROVE  WindowTypes'
  <2>1. CASE Cancel \/ Quit
    BY <1>5, <2>1 DEF Cancel, Quit, WindowTypes, States, clientVars, histVars
  <2>2. ASSUME NEW c \in Conv, OpenChat(c) \/ CloseChat(c) \/ SendMsg(c)
        PROVE  WindowTypes'
    BY <2>2 DEF OpenChat, CloseChat, SendMsg, WindowTypes, clientVars, windowVars, histVars
  <2>3. ASSUME NEW f \in Forms, Submit(f[1], f[2]) \/ Incomplete(f[1])
        PROVE  WindowTypes'
    <3>1. f[1] \in Uid0 /\ f[2] \in Uid0 /\ NoOne \in Uid0 /\ "CONNECTE_REQ" \in States
      BY BoundsAssumption DEF Uid0, States
    <3>2. again' \in BOOLEAN
      BY <2>3 DEF Submit, Incomplete, WindowTypes
    <3> QED
      BY <2>3, <3>1, <3>2 DEF Submit, Incomplete, WindowTypes, windowVars
  <2> QED
    BY <1>5, <2>1, <2>2, <2>3
<1>6. ASSUME Timeout \/ Corrupt \/ Serve \/ ServerExit \/ (\E c \in Conv : Push(c))
      PROVE  WindowTypes'
  BY <1>6 DEF Timeout, Corrupt, Serve, ServerExit, Push, WindowTypes, IsAt, clientVars,
     listVars, threadVars, windowVars, wireVars, histVars, vars
<1>7. ASSUME UNCHANGED vars
      PROVE  WindowTypes'
  BY <1>7 DEF clientVars, windowVars, histVars, vars, WindowTypes
<1> QED
  BY <1>1, <1>2, <1>3, <1>4, <1>5, <1>6, <1>7 DEF Next, Thread, Window, User

\* The bounds' counters.
LEMMA CountFrame ==
  ASSUME [Next]_vars
  PROVE  UNCHANGED <<asks, late, sent, exits>> \/ Timeout \/ ServerExit
         \/ (\E c \in Conv : SendMsg(c))
         \/ (\E f \in Forms : Submit(f[1], f[2]) \/ Incomplete(f[1]))
<1>1. ASSUME SeeRequest \/ Claim \/ Connected \/ Report \/ Silent \/ Ask \/ Answer
             \/ (\E ok \in BOOLEAN : Connect(ok))
      PROVE  UNCHANGED <<asks, late, sent, exits>>
  BY <1>1 DEF SeeRequest, Claim, Connect, Connected, Report, Silent, Ask, Answer, IsAt,
     clientVars, listVars, threadVars, windowVars, wireVars, histVars, vars
<1>2. ASSUME Listen \/ Receive \/ RecvTimeout \/ RecvEnd \/ Lost \/ AddMsg \/ MsgEvent
             \/ ThreadEnd
      PROVE  UNCHANGED <<asks, late, sent, exits>>
  BY <1>2 DEF Listen, Receive, RecvTimeout, RecvEnd, Lost, AddMsg, MsgEvent, ThreadEnd, IsAt,
     clientVars, listVars, threadVars, windowVars, wireVars, histVars, vars
<1>3. ASSUME SocketMessage \/ Joined \/ Cancel \/ Quit
             \/ (\E c \in Conv : MsgMessage(c) \/ Display(c) \/ Displayed(c) \/ OpenChat(c) \/ CloseChat(c))
      PROVE  UNCHANGED <<asks, late, sent, exits>>
  BY <1>3 DEF SocketMessage, Joined, MsgMessage, Display, Displayed, Cancel, Quit, OpenChat,
     CloseChat, IsAt, clientVars, listVars, threadVars, windowVars, wireVars, histVars, vars
<1>4. ASSUME Corrupt \/ Serve \/ (\E c \in Conv : Push(c))
      PROVE  UNCHANGED <<asks, late, sent, exits>>
  BY <1>4 DEF Corrupt, Serve, Push, IsAt, clientVars, listVars, threadVars, windowVars,
     wireVars, histVars, vars
<1>5. ASSUME UNCHANGED vars
      PROVE  UNCHANGED <<asks, late, sent, exits>>
  BY <1>5 DEF clientVars, listVars, threadVars, windowVars, wireVars, histVars, vars
<1> QED
  BY <1>1, <1>2, <1>3, <1>4, <1>5 DEF Next, Thread, Window, User

LEMMA StepCountTypes ==
  ASSUME CountTypes, [Next]_vars
  PROVE  CountTypes'
<1>0. {MaxLogin, MaxLate, MaxSend, MaxExit} \subseteq Nat
  BY BoundsAssumption
<1>1. CASE UNCHANGED <<asks, late, sent, exits>>
  BY <1>1 DEF CountTypes
<1>2. ASSUME NEW f \in Forms, Submit(f[1], f[2]) \/ Incomplete(f[1])
      PROVE  CountTypes'
  BY <1>0, <1>2 DEF Submit, Incomplete, CountTypes
<1>3. ASSUME NEW c \in Conv, SendMsg(c)
      PROVE  CountTypes'
  BY <1>0, <1>3 DEF SendMsg, CountTypes
<1>4. CASE Timeout
  BY <1>0, <1>4 DEF Timeout, CountTypes
<1>5. CASE ServerExit
  BY <1>0, <1>5 DEF ServerExit, CountTypes
<1> QED
  BY <1>1, <1>2, <1>3, <1>4, <1>5, CountFrame

\* The packet an answer begins with, and those that remain.
LEMMA ReceivesType ==
  ASSUME WireTypes, NEW n \in 1 .. Len(toCli), Receives(n)
  PROVE  /\ toCli # <<>> /\ Head(toCli) \in ToClient /\ 1 \in DOMAIN toCli /\ Head(toCli) = toCli[1]
         /\ toCli' \in Seq(ToClient)
         /\ \A i \in DOMAIN toCli' : i + n \in DOMAIN toCli /\ i \in Nat /\ toCli'[i] = toCli[i + n]
<1>1. toCli \in Seq(ToClient) /\ toCli' = SubSeq(toCli, n + 1, Len(toCli))
  BY DEF WireTypes, Receives
<1>2. toCli # <<>> /\ Head(toCli) \in ToClient /\ 1 \in DOMAIN toCli /\ Head(toCli) = toCli[1]
  BY <1>1
<1>3. toCli' \in Seq(ToClient) /\ \A i \in DOMAIN toCli' : i + n \in DOMAIN toCli /\ toCli'[i] = toCli[i + n]
  BY <1>1, RestElements
<1>4. \A i \in DOMAIN toCli' : i \in Nat
  BY <1>3
<1> QED
  BY <1>2, <1>3, <1>4

\* The later requests of a list, and of a list and one more.
Later(rest) == rest \in Seq(Requests) /\ \A i \in DOMAIN rest \ {1} : rest[i][1] \in {"info", "groups", "ginfo"}

\* What the thread holds after an answer: the requests that remain, or a result.
Goes ==
  /\ Later(todo)'
  /\ pc' \in {"ask", "report", "silent"} /\ (pc' = "ask" => todo' # <<>>)
  /\ res' \in States \cup {NoOne} /\ (pc' = "report" => res' \in States)

LEMMA GoOnType ==
  ASSUME NEW rest, Later(rest), GoOn(rest), res \in States \cup {NoOne}
  PROVE  Goes /\ todo' = rest
BY DEF GoOn, Goes, Later, States

LEMMA LaterTail ==
  ASSUME todo # <<>>, Later(todo)
  PROVE  /\ Later(Tail(todo)) /\ (Tail(todo) # <<>> => Head(Tail(todo))[1] \in {"info", "groups", "ginfo"})
         /\ Head(todo) \in Requests
<1>1. todo \in Seq(Requests) /\ todo # <<>>
  BY DEF Later
<1>2. /\ Tail(todo) \in Seq(Requests) /\ Head(todo) \in Requests
      /\ \A i \in DOMAIN Tail(todo) : i + 1 \in DOMAIN todo \ {1} /\ Tail(todo)[i] = todo[i + 1]
  BY <1>1
<1>3. Tail(todo) # <<>> => 1 \in DOMAIN Tail(todo) /\ Head(Tail(todo)) = Tail(todo)[1]
  BY <1>2
<1> QED
  BY <1>2, <1>3 DEF Later

\* A list that begins with one request, and goes on with no other than these.
LEMMA LaterLists ==
  /\ \A cmd \in {"login", "self", "users", "groups", "req"} : Later(<<<<cmd, NoOne>>>>)
  /\ \A list \in Seq(Entry(Users)) : Later(Profiles(list) \o <<<<"groups", NoOne>>>>)
  /\ \A gids \in Seq(Gids) : Later([i \in DOMAIN gids |-> <<"ginfo", gids[i]>>])
<1>1. ASSUME NEW cmd \in {"login", "self", "users", "groups", "req"}
      PROVE  Later(<<<<cmd, NoOne>>>>)
  <2>1. <<cmd, NoOne>> \in Requests
    BY DEF Requests
  <2> DEFINE r == <<cmd, NoOne>>
  <2> HIDE DEF r
  <2>2. <<r>> \in Seq(Requests) /\ DOMAIN <<r>> = {1}
    BY <2>1 DEF r
  <2> QED
    BY <2>2 DEF Later, r
<1>2. ASSUME NEW list \in Seq(Entry(Users))
      PROVE  Later(Profiles(list) \o <<<<"groups", NoOne>>>>)
  <2> DEFINE p == Profiles(list)
             g == <<<<"groups", NoOne>>>>
  <2>1. /\ p = [i \in 1 .. Len(list) |-> <<"info", list[i][1]>>] /\ Len(list) \in Nat
        /\ \A i \in 1 .. Len(list) : list[i][1] \in Users
    BY DEF Profiles, Entry
  <2>2. \A i \in 1 .. Len(list) : <<"info", list[i][1]>> \in Requests
    BY <2>1 DEF Requests
  <2>3. p \in Seq(Requests) /\ \A i \in DOMAIN p : p[i][1] = "info"
    BY <2>1, <2>2
  <2>4. g \in Seq(Requests) /\ \A i \in DOMAIN g : g[i][1] = "groups"
    <3>1. <<"groups", NoOne>> \in Requests
      BY DEF Requests
    <3> QED
      BY <3>1
  <2> HIDE DEF p, g
  <2>5. p \o g \in Seq(Requests) /\ \A i \in DOMAIN (p \o g) : (p \o g)[i][1] \in {"info", "groups"}
    BY <2>3, <2>4, ConcatElements
  <2> QED
    BY <2>5 DEF Later, p, g
<1>3. ASSUME NEW gids \in Seq(Gids)
      PROVE  Later([i \in DOMAIN gids |-> <<"ginfo", gids[i]>>])
  <2> DEFINE p == [i \in DOMAIN gids |-> <<"ginfo", gids[i]>>]
  <2>1. DOMAIN gids = 1 .. Len(gids) /\ Len(gids) \in Nat /\ \A i \in DOMAIN gids : gids[i] \in Gids
    OBVIOUS
  <2>2. \A i \in DOMAIN gids : <<"ginfo", gids[i]>> \in Requests
    BY <2>1 DEF Requests
  <2>3. p \in Seq(Requests) /\ \A i \in DOMAIN p : p[i][1] = "ginfo"
    BY <2>1, <2>2
  <2> QED
    BY <2>3 DEF Later
<1> QED
  BY <1>1, <1>2, <1>3

\* A login that fails, or a profile or member list that stays unknown.
LEMMA FailsType ==
  ASSUME todo # <<>>, Later(todo), res \in States \cup {NoOne}, Fails
  PROVE  Goes /\ ((todo' = todo /\ pc' # "ask") \/ (Cmd \in {"info", "ginfo"} /\ todo' = Tail(todo)))
<1>1. Cmd \in {"req", "login", "self", "users", "groups", "info", "ginfo"}
  BY LaterTail, RequestType DEF Cmd
<1>2. CASE Cmd \in {"req", "login", "self", "users", "groups"}
  BY <1>2 DEF Fails, Ends, Goes, Later, States, Failures
<1>3. CASE Cmd \in {"info", "ginfo"}
  <2>1. GoOn(Tail(todo))
    BY <1>3 DEF Fails
  <2> QED
    BY <1>3, <2>1, LaterTail, GoOnType
<1> QED
  BY <1>1, <1>2, <1>3

\* The lists after an answer: new entries are without a profile, and the others
\* are kept or become <<x, x>>.
Grown(new, old) ==
  \A i \in DOMAIN new : \/ new[i][2] = NoOne \/ new[i][2] = new[i][1]
                        \/ i \in DOMAIN old /\ new[i] = old[i]

LEMMA AddBuddiesType ==
  ASSUME buddys \in Seq(Entry(Users)), NEW uids \in Seq(Users)
  PROVE  AddBuddies(uids) \in Seq(Entry(Users)) /\ Grown(AddBuddies(uids), buddys)
<1> DEFINE add == [i \in DOMAIN uids |-> <<uids[i], NoOne>>]
<1>1. /\ DOMAIN uids = 1 .. Len(uids) /\ Len(uids) \in Nat
      /\ \A i \in DOMAIN uids : <<uids[i], NoOne>> \in Entry(Users)
  BY DEF Entry
<1>2. add \in Seq(Entry(Users)) /\ \A i \in DOMAIN add : add[i][2] = NoOne
  BY <1>1
<1>3. AddBuddies(uids) = buddys \o add
  BY DEF AddBuddies
<1> HIDE DEF add
<1> QED
  BY <1>2, <1>3, ConcatElements DEF Grown

LEMMA NewGroupsType ==
  ASSUME NEW gids \in Seq(Gids)
  PROVE  LET new == [i \in DOMAIN gids |-> <<gids[i], NoOne>>]
         IN new \in Seq(Entry(Gids)) /\ Grown(new, groups)
<1>1. /\ DOMAIN gids = 1 .. Len(gids) /\ Len(gids) \in Nat
      /\ \A i \in DOMAIN gids : <<gids[i], NoOne>> \in Entry(Gids)
  BY DEF Entry
<1> QED
  BY <1>1 DEF Grown

LEMMA UpdateGrows ==
  ASSUME NEW K, NEW list \in Seq(Entry(K)), NEW v \in K
  PROVE  Update(list, v) \in Seq(Entry(K)) /\ Grown(Update(list, v), list)
<1> DEFINE new == Update(list, v)
<1>1. new \in Seq(Entry(K)) /\ \A i \in DOMAIN new : i \in DOMAIN list /\ (new[i] = list[i] \/ new[i] = <<v, v>>)
  BY UpdateType
<1> HIDE DEF new
<1>2. Grown(new, list)
  BY <1>1 DEF Grown
<1> QED
  BY <1>1, <1>2 DEF new

\* What an answer of the expected command does.
LEMMA AcceptType ==
  ASSUME ListTypes, todo # <<>>, Later(todo), res \in States \cup {NoOne},
         NEW p \in ToClient, p[1] = Wire(Cmd), Accept(p[3])
  PROVE  /\ Goes /\ ListTypes'
         /\ Grown(buddys', buddys) /\ Grown(groups', groups)
         /\ pc' = "ask" /\ Head(todo')[1] \in {"self", "users"} =>
              \/ Cmd = "login" /\ p[1] = "login" /\ p[3] = "ok"
              \/ Cmd = "self"
<1> DEFINE body == p[3]
           Same == UNCHANGED listVars
           Asks == pc' = "ask" /\ Head(todo')[1] \in {"self", "users"} =>
                     \/ Cmd = "login" /\ p[1] = "login" /\ p[3] = "ok"
                     \/ Cmd = "self"
<1>0. /\ Cmd \in {"req", "login", "self", "users", "groups", "info", "ginfo"}
      /\ p[1] = IF Cmd = "self" THEN "info" ELSE Cmd
      /\ Head(todo) \in Requests
  BY LaterTail, RequestType DEF Cmd, Wire
<1>1. ASSUME Same
      PROVE  ListTypes' /\ Grown(buddys', buddys) /\ Grown(groups', groups)
  BY <1>1 DEF listVars, ListTypes, Grown
<1>2. CASE Cmd = "req"
  <2>1. GoOn(<<<<"login", NoOne>>>>) /\ Same
    BY <1>2 DEF Accept
  <2>2. Goes /\ todo' = <<<<"login", NoOne>>>>
    BY <2>1, LaterLists, GoOnType
  <2> QED
    BY <1>1, <2>1, <2>2
<1>3. CASE Cmd = "login"
  <2>1. Decide(body) /\ Same /\ body \in Codes /\ p[1] = "login"
    BY <1>0, <1>3, PacketType DEF Accept
  <2>2. CASE body = "ok"
    <3>1. GoOn(<<<<"self", NoOne>>>>)
      BY <2>1, <2>2 DEF Decide
    <3>2. Goes
      BY <3>1, LaterLists, GoOnType
    <3> QED
      BY <1>1, <1>3, <2>1, <2>2, <3>2
  <2>3. CASE body # "ok"
    <3>1. pc' = "report" /\ res' \in States /\ todo' = todo
      BY <2>1, <2>3 DEF Decide, Ends, Codes, States, Failures
    <3>2. Goes
      BY <3>1 DEF Goes, Later
    <3> QED
      BY <1>1, <2>1, <3>1, <3>2
  <2> QED
    BY <2>2, <2>3
<1>4. CASE Cmd = "self"
  <2>1. (Fails \/ GoOn(<<<<"users", NoOne>>>>)) /\ Same
    BY <1>4 DEF Accept
  <2>2. Goes
    BY <2>1, FailsType, LaterLists, GoOnType
  <2> QED
    BY <1>1, <1>4, <2>1, <2>2
<1>5. CASE Cmd = "users"
  <2>1. /\ body \in Seq(Users) /\ buddys' = AddBuddies(body) /\ groups' = groups
        /\ GoOn((IF body = <<>> THEN <<>> ELSE Profiles(buddys')) \o <<<<"groups", NoOne>>>>)
    BY <1>0, <1>5, PacketType DEF Accept
  <2>2. buddys' \in Seq(Entry(Users)) /\ Grown(buddys', buddys)
    BY <2>1, AddBuddiesType DEF ListTypes
  <2>3. ListTypes' /\ Grown(groups', groups)
    BY <2>1, <2>2 DEF ListTypes, Grown
  <2>4. CASE body = <<>>
    <3>1. (IF body = <<>> THEN <<>> ELSE Profiles(buddys')) \o <<<<"groups", NoOne>>>> = <<<<"groups", NoOne>>>>
      BY <2>4
    <3>2. GoOn(<<<<"groups", NoOne>>>>)
      BY <2>1, <3>1
    <3>3. Goes /\ todo' = <<<<"groups", NoOne>>>>
      BY <3>2, LaterLists, GoOnType
    <3> QED
      BY <2>2, <2>3, <3>3
  <2>5. CASE body # <<>>
    <3> DEFINE q == Profiles(buddys')
               g == <<<<"groups", NoOne>>>>
    <3>1. GoOn(q \o g)
      BY <2>1, <2>5
    <3>2. Later(q \o g)
      BY <2>2, LaterLists
    <3>3. Goes /\ todo' = q \o g
      BY <3>1, <3>2, GoOnType
    <3>4. q \in Seq(Requests) /\ \A i \in DOMAIN q : q[i][1] = "info"
      <4>1. /\ q = [i \in 1 .. Len(buddys') |-> <<"info", buddys'[i][1]>>]
            /\ Len(buddys') \in Nat /\ \A i \in 1 .. Len(buddys') : buddys'[i][1] \in Users
        BY <2>2 DEF Profiles, Entry
      <4>2. \A i \in 1 .. Len(buddys') : <<"info", buddys'[i][1]>> \in Requests
        BY <4>1 DEF Requests
      <4> QED
        BY <4>1, <4>2
    <3>5. g \in Seq(Requests) /\ \A i \in DOMAIN g : g[i][1] = "groups"
      <4>1. <<"groups", NoOne>> \in Requests
        BY DEF Requests
      <4> QED
        BY <4>1
    <3> HIDE DEF q, g
    <3>6. pc' = "ask" => Head(todo')[1] \in {"info", "groups"}
      <4>1. \A i \in DOMAIN (q \o g) : (q \o g)[i][1] \in {"info", "groups"}
        BY <3>4, <3>5, ConcatElements
      <4>2. pc' = "ask" => 1 \in DOMAIN todo' /\ Head(todo') = todo'[1]
        BY <3>3 DEF Goes, Later
      <4> QED
        BY <3>3, <4>1, <4>2
    <3> QED
      BY <2>2, <2>3, <3>3, <3>6
  <2> QED
    BY <2>4, <2>5
<1>6. CASE Cmd = "info"
  <2>1. /\ body \in Uid0 /\ buddys' = (IF body = NoOne THEN buddys ELSE Update(buddys, body))
        /\ groups' = groups /\ GoOn(Tail(todo))
    BY <1>0, <1>6, PacketType DEF Accept
  <2>2. Goes /\ todo' = Tail(todo)
    BY <2>1, LaterTail, GoOnType
  <2>3. buddys' \in Seq(Entry(Users)) /\ Grown(buddys', buddys)
    <3>1. CASE body = NoOne
      BY <2>1, <3>1 DEF ListTypes, Grown
    <3>2. CASE body # NoOne
      BY <2>1, <3>2, UpdateGrows DEF ListTypes, Uid0
    <3> QED
      BY <3>1, <3>2
  <2>4. pc' = "ask" => Head(todo')[1] \in {"info", "groups", "ginfo"}
    BY <2>2, LaterTail DEF Goes
  <2> QED
    BY <2>1, <2>2, <2>3, <2>4 DEF ListTypes, Grown
<1>7. CASE Cmd = "groups"
  <2>1. /\ body \in Seq(Gids) /\ groups' = [i \in DOMAIN body |-> <<body[i], NoOne>>]
        /\ buddys' = buddys /\ GoOn([i \in DOMAIN body |-> <<"ginfo", body[i]>>])
    BY <1>0, <1>7, PacketType DEF Accept
  <2> DEFINE rest == [i \in DOMAIN body |-> <<"ginfo", body[i]>>]
  <2>2. Goes /\ todo' = rest
    BY <2>1, LaterLists, GoOnType
  <2>3. groups' \in Seq(Entry(Gids)) /\ Grown(groups', groups)
    BY <2>1, NewGroupsType
  <2>4. pc' = "ask" => Head(todo')[1] = "ginfo"
    <3>1. rest # <<>> => 1 \in DOMAIN rest /\ Head(rest) = rest[1]
      BY <2>2 DEF Goes, Later
    <3>2. \A i \in DOMAIN rest : rest[i][1] = "ginfo"
      OBVIOUS
    <3> HIDE DEF rest
    <3> QED
      BY <2>2, <3>1, <3>2 DEF Goes
  <2> QED
    BY <2>1, <2>2, <2>3, <2>4 DEF ListTypes, Grown
<1>8. CASE Cmd = "ginfo"
  <2>1. /\ body \in Gids /\ groups' = (IF body # Head(todo)[2] THEN groups ELSE Update(groups, body))
        /\ buddys' = buddys /\ GoOn(Tail(todo))
    BY <1>0, <1>8, PacketType DEF Accept
  <2>2. Goes /\ todo' = Tail(todo)
    BY <2>1, LaterTail, GoOnType
  <2>3. groups' \in Seq(Entry(Gids)) /\ Grown(groups', groups)
    <3>1. CASE body # Head(todo)[2]
      BY <2>1, <3>1 DEF ListTypes, Grown
    <3>2. CASE body = Head(todo)[2]
      BY <2>1, <3>2, UpdateGrows DEF ListTypes
    <3> QED
      BY <3>1, <3>2
  <2>4. pc' = "ask" => Head(todo')[1] \in {"info", "groups", "ginfo"}
    BY <2>2, LaterTail DEF Goes
  <2> QED
    BY <2>1, <2>2, <2>3, <2>4 DEF ListTypes, Grown
<1> QED
  BY <1>0, <1>2, <1>3, <1>4, <1>5, <1>6, <1>7, <1>8

\* What is left on the wire is what was there, less the first packets.
Shorter == \E n \in Nat : \A i \in DOMAIN toCli' :
             i \in Nat /\ i + n \in DOMAIN toCli /\ toCli'[i] = toCli[i + n]

\* An answer, of the expected kind or not.
LEMMA AnswerStep ==
  ASSUME TypeInv, Answer
  PROVE  /\ Goes /\ ListTypes' /\ Grown(buddys', buddys) /\ Grown(groups', groups)
         /\ pc' = "ask" /\ Head(todo')[1] \in {"self", "users"} => inLink
         /\ toCli' \in Seq(ToClient) /\ Shorter
         /\ pc = "answer" /\ UNCHANGED <<luid, cur, link, toSrv, bound, inLink, online>>
<1>1. /\ ListTypes /\ WireTypes /\ todo # <<>> /\ Later(todo) /\ res \in States \cup {NoOne}
      /\ pc = "answer" /\ UNCHANGED <<luid, cur, link, toSrv, bound, inLink, online>>
  BY DEF TypeInv, ThreadTypes, LoggedIn, Later, Answer, At
<1>2. Cmd \in {"self", "users"} => inLink
  BY <1>1 DEF TypeInv, LoggedIn
<1>3. ASSUME Fails, UNCHANGED listVars
      PROVE  /\ Goes /\ ListTypes' /\ Grown(buddys', buddys) /\ Grown(groups', groups)
             /\ pc' = "ask" /\ Head(todo')[1] \in {"self", "users"} => inLink
  <2>1. Goes /\ ((todo' = todo /\ pc' # "ask") \/ todo' = Tail(todo))
    BY <1>1, <1>3, FailsType
  <2>2. ListTypes' /\ Grown(buddys', buddys) /\ Grown(groups', groups)
    BY <1>1, <1>3 DEF listVars, ListTypes, Grown
  <2>3. pc' = "ask" => Head(todo')[1] \notin {"self", "users"}
    BY <1>1, <2>1, LaterTail DEF Goes
  <2> QED
    BY <2>1, <2>2, <2>3
<1>4. CASE AtEnd /\ Fails /\ UNCHANGED <<toCli, listVars>>
  <2>1. UNCHANGED listVars /\ toCli' = toCli /\ toCli = <<>>
    BY <1>4 DEF AtEnd
  <2>2. toCli' \in Seq(ToClient)
    BY <1>1, <2>1 DEF WireTypes
  <2>3. 0 \in Nat /\ \A i \in DOMAIN toCli' : i \in Nat /\ i + 0 \in DOMAIN toCli /\ toCli'[i] = toCli[i + 0]
    BY <2>1
  <2>4. Shorter
    BY <2>3 DEF Shorter
  <2> QED
    BY <1>1, <1>3, <1>4, <2>1, <2>2, <2>4
<1>5. ASSUME NEW n \in 1 .. Len(toCli), Receives(n),
             IF Head(toCli)[1] = Wire(Cmd) /\ Head(toCli)[2] = luid
             THEN Accept(Head(toCli)[3]) ELSE Fails /\ UNCHANGED listVars
      PROVE  /\ Goes /\ ListTypes' /\ Grown(buddys', buddys) /\ Grown(groups', groups)
             /\ pc' = "ask" /\ Head(todo')[1] \in {"self", "users"} => inLink
             /\ toCli' \in Seq(ToClient) /\ Shorter
  <2>1. /\ toCli # <<>> /\ Head(toCli) \in ToClient /\ 1 \in DOMAIN toCli /\ Head(toCli) = toCli[1]
        /\ toCli' \in Seq(ToClient)
        /\ \A i \in DOMAIN toCli' : i + n \in DOMAIN toCli /\ i \in Nat /\ toCli'[i] = toCli[i + n]
    BY <1>1, <1>5, ReceivesType
  <2>2. Shorter
    BY <2>1 DEF Shorter
  <2>3. CASE Head(toCli)[1] = Wire(Cmd) /\ Head(toCli)[2] = luid
    <3> DEFINE p == Head(toCli)
    <3>1. p \in ToClient /\ p[1] = Wire(Cmd) /\ Accept(p[3]) /\ p = toCli[1]
      BY <1>5, <2>1, <2>3
    <3>2. p[1] = "login" /\ p[3] = "ok" => inLink
      BY <2>1, <3>1 DEF TypeInv, LoggedIn
    <3> HIDE DEF p
    <3> QED
      BY <1>1, <1>2, <2>1, <2>2, <3>1, <3>2, AcceptType
  <2>4. CASE ~(Head(toCli)[1] = Wire(Cmd) /\ Head(toCli)[2] = luid)
    BY <1>3, <1>5, <2>1, <2>2, <2>4
  <2> QED
    BY <2>3, <2>4
<1> QED
  BY <1>1, <1>4, <1>5 DEF Answer

\* A timeout is a failure to answer that leaves the wire as it is.
LEMMA TimeoutStep ==
  ASSUME TypeInv, Timeout
  PROVE  /\ Goes /\ (pc' = "ask" => Head(todo')[1] \notin {"self", "users"})
         /\ pc = "answer" /\ UNCHANGED <<luid, cur, link, toSrv, toCli, bound, inLink, online>>
<1>1. /\ todo # <<>> /\ Later(todo) /\ res \in States \cup {NoOne} /\ Fails
      /\ pc = "answer" /\ UNCHANGED <<luid, cur, link, toSrv, toCli, bound, inLink, online>>
  BY DEF TypeInv, ThreadTypes, LoggedIn, Later, Timeout, At, wireVars
<1>2. Goes /\ ((todo' = todo /\ pc' # "ask") \/ todo' = Tail(todo))
  BY <1>1, FailsType
<1> QED
  BY <1>1, <1>2, LaterTail DEF Goes

LEMMA StepListTypes ==
  ASSUME TypeInv, [Next]_vars
  PROVE  ListTypes' /\ Grown(buddys', buddys) /\ Grown(groups', groups)
<1>1. CASE UNCHANGED <<buddys, groups>>
  BY <1>1 DEF TypeInv, ListTypes, Grown
<1> QED
  BY <1>1, AnswerStep, ListFrame

LEMMA StepThreadTypes ==
  ASSUME TypeInv, [Next]_vars
  PROVE  ThreadTypes'
<1>0. ThreadTypes /\ WindowTypes /\ WireTypes
  BY DEF TypeInv
<1>1. CASE UNCHANGED <<pc, todo, luid, res, cur>>
  BY <1>0, <1>1 DEF ThreadTypes
<1>2. CASE SeeRequest \/ Claim \/ Silent \/ Listen \/ RecvTimeout \/ Lost \/ ThreadEnd
           \/ (\E ok \in BOOLEAN : Connect(ok))
  <2>1. /\ pc' \in {"exit", "claim", "connect", "made", "refused", "top", "recv", "top2", "ended"}
        /\ UNCHANGED <<todo, luid, res, cur>>
    BY <1>2 DEF SeeRequest, Claim, Silent, Listen, RecvTimeout, Lost, ThreadEnd, Connect, IsAt, At
  <2> QED
    BY <1>0, <2>1 DEF ThreadTypes, PCs
<1>3. CASE Report \/ AddMsg \/ Ask
  BY <1>0, <1>3 DEF Report, AddMsg, Ask, IsAt, At, ThreadTypes, WindowTypes, PCs
<1>4. CASE Connected
  <2>1. /\ pc' \in {"top", "ask", "report"} /\ cur' = cur /\ luid' \in {luid, cuid}
        /\ res' \in {res, "CONNECTE_ERR"} /\ (pc' = "report" => res' = "CONNECTE_ERR")
        /\ \/ todo' = todo /\ pc' # "ask"
           \/ todo' = <<<<"req", NoOne>>>>
    BY <1>4 DEF Connected, At
  <2>2. <<<<"req", NoOne>>>> \in Seq(Requests) /\ <<<<"req", NoOne>>>> # <<>>
    BY LaterLists DEF Later
  <2> QED
    BY <1>0, <2>1, <2>2 DEF ThreadTypes, WindowTypes, PCs, States, Failures
<1>5. CASE Answer \/ Timeout
  BY <1>0, <1>5, AnswerStep, TimeoutStep DEF Goes, Later, ThreadTypes, PCs
<1>6. CASE Receive
  <2>1. UNCHANGED <<todo, luid, res>>
    BY <1>6 DEF Receive
  <2>2. PICK n \in 1 .. Len(toCli) : Receives(n)
    BY <1>6 DEF Receive
  <2>3. Head(toCli) \in ToClient
    BY <1>0, <2>2, ReceivesType
  <2>4. \/ UNCHANGED <<pc, cur>> /\ pc = "recv"
        \/ Head(toCli)[1] = "msg" /\ pc' = "append" /\ cur' = <<Head(toCli)[2], Head(toCli)[3]>>
    BY <1>6 DEF Receive, At
  <2>5. Head(toCli)[1] = "msg" => /\ Head(toCli)[2] \in Conv /\ Head(toCli)[3] \in Nat
                                  /\ Head(toCli)[3] \in 1 .. MaxPush[Head(toCli)[2]]
    BY <2>3, PacketType
  <2> QED
    BY <1>0, <2>1, <2>4, <2>5 DEF ThreadTypes, PCs
<1>7. CASE RecvEnd
  BY <1>0, <1>7 DEF RecvEnd, At, ThreadTypes, PCs, States, Failures
<1>8. CASE MsgEvent
  BY <1>0, <1>8 DEF MsgEvent, IsAt, At, ThreadTypes, PCs
<1> QED
  BY <1>1, <1>2, <1>3, <1>4, <1>5, <1>6, <1>7, <1>8, ThreadFrame

LEMMA StepMailTypes ==
  ASSUME TypeInv, [Next]_vars
  PROVE  MailTypes'
<1>0. MailTypes /\ ThreadTypes /\ \A c \in Conv : MaxPush[c] \in Nat
  BY BoundsAssumption DEF TypeInv
<1>1. CASE UNCHANGED <<mail, shown, pushed>>
  BY <1>0, <1>1 DEF MailTypes
<1>2. CASE AddMsg
  <2>1. /\ cur[1] \in Conv /\ cur[2] \in Nat /\ cur[2] \in 1 .. MaxPush[cur[1]]
        /\ mail' = [mail EXCEPT ![cur[1]] = Append(mail[cur[1]], cur[2])] /\ UNCHANGED <<shown, pushed>>
    BY <1>0, <1>2 DEF AddMsg, IsAt, At, ThreadTypes, histVars
  <2>2. /\ Append(mail[cur[1]], cur[2]) \in Seq(Nat)
        /\ Append(mail[cur[1]], cur[2]) \in Seq(1 .. MaxPush[cur[1]])
    BY <1>0, <2>1, AppendElements DEF MailTypes
  <2> QED
    BY <1>0, <2>1, <2>2 DEF MailTypes
<1>3. ASSUME NEW c \in Conv, Display(c)
      PROVE  MailTypes'
  <2>1. /\ mail[c] # <<>> /\ mail[c] \in Seq(1 .. MaxPush[c]) /\ mail[c] \in Seq(Nat)
        /\ shown[c] \in Seq(1 .. MaxPush[c]) /\ shown[c] \in Seq(Nat)
        /\ mail' = [mail EXCEPT ![c] = Tail(mail[c])]
        /\ shown' = [shown EXCEPT ![c] = Append(shown[c], Head(mail[c]))] /\ pushed' = pushed
    BY <1>0, <1>3 DEF Display, MailTypes
  <2>2. /\ Tail(mail[c]) \in Seq(1 .. MaxPush[c]) /\ Tail(mail[c]) \in Seq(Nat)
        /\ Head(mail[c]) \in Nat /\ Head(mail[c]) \in 1 .. MaxPush[c]
    BY <2>1, TailElements
  <2>3. /\ Append(shown[c], Head(mail[c])) \in Seq(1 .. MaxPush[c])
        /\ Append(shown[c], Head(mail[c])) \in Seq(Nat)
    BY <2>1, <2>2, AppendElements
  <2> QED
    BY <1>0, <2>1, <2>2, <2>3 DEF MailTypes
<1>4. ASSUME NEW c \in Conv, Push(c)
      PROVE  MailTypes'
  BY <1>0, <1>4 DEF Push, MailTypes
<1> QED
  BY <1>1, <1>2, <1>3, <1>4, MailFrame

\* The answer to GET_USER lists users.
LEMMA OthersType ==
  ASSUME NEW u \in Users
  PROVE  Others(u) \in Seq(Users)
<1> DEFINE n == Len(UserFile)
           i == CHOOSE k \in 1 .. n : UserFile[k] = u
<1>1. UserFile \in Seq(Users) /\ n \in Nat /\ DOMAIN UserFile = 1 .. n
  BY NamesAssumption
<1>2. n > 0 /\ i \in 1 .. n
  BY <1>1 DEF Users
<1>3. Others(u) = [k \in 1 .. n - 1 |-> UserFile[((i + k - 1) % n) + 1]]
  BY DEF Others
<1> HIDE DEF n, i
<1>4. \A a \in Nat : a % n \in 0 .. n - 1
  BY <1>1, <1>2
<1>5. \A k \in 1 .. n - 1 : UserFile[((i + k - 1) % n) + 1] \in Users
  <2>1. SUFFICES ASSUME NEW k \in 1 .. n - 1
                 PROVE  UserFile[((i + k - 1) % n) + 1] \in Users
    OBVIOUS
  <2>2. i + k - 1 \in Nat
    BY <1>1, <1>2
  <2> DEFINE m == (i + k - 1) % n
  <2>3. m \in 0 .. n - 1
    BY <1>4, <2>2
  <2> HIDE DEF m
  <2>4. m + 1 \in 1 .. n
    BY <1>1, <2>3
  <2>5. UserFile[m + 1] \in Users
    BY <1>1, <2>4
  <2> QED
    BY <2>5 DEF m
<1>6. n - 1 \in Nat
  BY <1>1, <1>2
<1> QED
  BY <1>3, <1>5, <1>6

\* Only a user logs in.
LEMMA LoginOk ==
  ASSUME NEW u, NEW p, LoginCode(u, p) = "ok"
  PROVE  u \in Users
<1>1. SUFFICES ASSUME u \notin Users
               PROVE  FALSE
  OBVIOUS
<1>2. LoginCode(u, p) = "uid"
  BY <1>1 DEF LoginCode
<1> QED
  BY <1>2

\* A request on the wire.
LEMMA ServedType ==
  ASSUME NEW q \in ToServer
  PROVE  /\ q[1] \in {"req", "users", "groups", "login", "info", "ginfo", "msg"} /\ q[2] \in Uid0
         /\ q[1] \in {"login", "info"} => q[3] \in Uid0
         /\ q[1] = "ginfo" => q[3] \in Gids
BY DEF ToServer

\* The server's answer is a packet the client may get.
LEMMA BodyType ==
  ASSUME NEW q \in ToServer, q[1] # "msg", q[1] = "users" => bound \in Users
  PROVE  <<q[1], q[2], Body(q[1], q[2], q[3])>> \in ToClient
<1> DEFINE b == Body(q[1], q[2], q[3])
<1>1. /\ q[1] \in {"req", "users", "groups", "login", "info", "ginfo"} /\ q[2] \in Uid0
      /\ q[1] \in {"login", "info"} => q[3] \in Uid0
      /\ q[1] = "ginfo" => q[3] \in Gids
  BY ServedType
<1>2. CASE q[1] = "users"
  <2>1. b \in Seq(Users)
    BY <1>2, OthersType DEF Body
  <2> HIDE DEF b
  <2> QED
    BY <1>1, <1>2, <2>1 DEF ToClient, b
<1>3. CASE q[1] = "groups"
  <2>1. b \in Seq(Gids)
    BY <1>3, NamesAssumption DEF Body
  <2> HIDE DEF b
  <2> QED
    BY <1>1, <1>3, <2>1 DEF ToClient, b
<1>4. CASE q[1] = "login"
  <2>1. b \in Codes
    BY <1>4 DEF Body, LoginCode, Codes
  <2> HIDE DEF b
  <2> QED
    BY <1>1, <1>4, <2>1 DEF ToClient, b
<1>5. CASE q[1] \in {"req", "info", "ginfo"}
  <2>1. b = IF q[1] = "req" THEN NoOne ELSE q[3]
    BY <1>5 DEF Body
  <2> HIDE DEF b
  <2> QED
    BY <1>1, <1>5, <2>1 DEF ToClient, b
<1> QED
  BY <1>1, <1>2, <1>3, <1>4, <1>5

\* What Ask sends.
LEMMA AskType ==
  ASSUME TypeInv, Ask
  PROVE  /\ toSrv' = toSrv \/ \E q \in ToServer : /\ toSrv' = Append(toSrv, q)
                                                  /\ q[1] = "users" => Cmd = "users"
         /\ pc = "ask" /\ todo' = todo /\ UNCHANGED <<link, toCli, bound, inLink, online>>
<1>1. /\ cuid \in Uid0 /\ cpass \in Uid0 /\ luid \in Uid0 /\ todo # <<>> /\ Later(todo)
      /\ pc = "ask" /\ todo' = todo /\ UNCHANGED <<link, toCli, bound, inLink, online>>
  BY DEF TypeInv, WindowTypes, ThreadTypes, LoggedIn, Later, Ask, IsAt, At
<1>2. Head(todo) \in Requests
  BY <1>1, LaterTail
<1> DEFINE q == <<Wire(Cmd), luid', CASE Cmd = "login" -> cpass [] Cmd = "self" -> luid'
                                    [] OTHER -> Head(todo)[2]>>
<1>3. luid' \in Uid0 /\ (toSrv' = toSrv \/ toSrv' = Append(toSrv, q))
  BY <1>1 DEF Ask
<1>4. /\ Cmd \in {"req", "login", "self", "users", "groups", "info", "ginfo"}
      /\ Cmd = "info" => Head(todo)[2] \in Users
      /\ Cmd = "ginfo" => Head(todo)[2] \in Gids
      /\ Cmd \notin {"info", "ginfo"} => Head(todo)[2] = NoOne
  BY <1>2, RequestType DEF Cmd
<1>5. q \in ToServer /\ (q[1] = "users" => Cmd = "users")
  BY <1>1, <1>3, <1>4 DEF Wire, ToServer, Uid0
<1> HIDE DEF q
<1> QED
  BY <1>1, <1>3, <1>5

LEMMA StepWireTypes ==
  ASSUME TypeInv, [Next]_vars
  PROVE  WireTypes'
<1>0. WireTypes /\ MailTypes /\ LoggedIn /\ WindowTypes /\ \A S : <<>> \in Seq(S)
  BY DEF TypeInv
<1>1. CASE UNCHANGED <<link, toSrv, toCli, bound, inLink, online>>
  BY <1>0, <1>1 DEF WireTypes
<1>2. CASE Connected
  <2>1. link' \in {link, "none"} /\ UNCHANGED <<toSrv, toCli, bound, inLink, online>>
    BY <1>2 DEF Connected
  <2> QED
    BY <1>0, <2>1 DEF WireTypes
<1>3. CASE Ask
  <2>1. /\ UNCHANGED <<link, toCli, bound, inLink, online>>
        /\ toSrv' = toSrv \/ \E q \in ToServer : toSrv' = Append(toSrv, q)
    BY <1>3, AskType
  <2>2. toSrv' \in Seq(ToServer)
    BY <1>0, <2>1, AppendElements DEF WireTypes
  <2> QED
    BY <1>0, <2>1, <2>2 DEF WireTypes
<1>4. CASE Answer
  BY <1>0, <1>4, AnswerStep DEF WireTypes
<1>5. CASE Receive
  <2>1. PICK n \in 1 .. Len(toCli) : Receives(n)
    BY <1>5 DEF Receive
  <2>2. toCli' \in Seq(ToClient)
    BY <1>0, <2>1, ReceivesType
  <2>3. UNCHANGED <<link, toSrv, bound, inLink, online>>
    BY <1>5 DEF Receive
  <2> QED
    BY <1>0, <2>2, <2>3 DEF WireTypes
<1>6. CASE ThreadEnd \/ \E ok \in BOOLEAN : Connect(ok)
  <2>1. /\ toSrv' = <<>> /\ toCli' = <<>> /\ online' = online
        /\ link' \in {"up", "none"} /\ bound' \in {bound, NoOne} /\ inLink' \in {inLink, FALSE}
    BY <1>6 DEF ThreadEnd, Connect
  <2>2. toSrv' \in Seq(ToServer) /\ toCli' \in Seq(ToClient)
    BY <1>0, <2>1
  <2> QED
    BY <1>0, <2>1, <2>2 DEF WireTypes, Uid0
<1>7. CASE Serve
  <2> DEFINE q == toSrv[1]
             p == <<q[1], q[2], Body(q[1], q[2], q[3])>>
  <2>0. /\ toSrv # <<>> /\ toSrv' = Tail(toSrv) /\ link' = link
        /\ bound' = (IF bound = NoOne THEN q[2] ELSE bound)
        /\ toCli' = (IF q[1] = "msg" THEN toCli ELSE Append(toCli, p))
        /\ online' = (IF q[1] = "login" /\ LoginCode(q[2], q[3]) = "ok" THEN online \cup {q[2]} ELSE online)
        /\ inLink' = (inLink \/ (q[1] = "login" /\ LoginCode(q[2], q[3]) = "ok"))
    BY <1>7 DEF Serve
  <2>01. LoginCode(q[2], q[3]) = "ok" => q[2] \in Users
    BY LoginOk
  <2>1. /\ toSrv # <<>> /\ toSrv' = Tail(toSrv) /\ link' = link
        /\ bound' \in {bound, q[2]} /\ online' \in {online, online \cup {q[2]}}
        /\ online' # online => q[2] \in Users
        /\ toCli' = (IF q[1] = "msg" THEN toCli ELSE Append(toCli, p))
        /\ inLink' \in BOOLEAN
    BY <1>0, <2>0, <2>01 DEF WireTypes
  <2>2. q \in ToServer /\ Tail(toSrv) \in Seq(ToServer) /\ 1 \in DOMAIN toSrv
    BY <1>0, <2>1, TailElements DEF WireTypes
  <2>3. q[1] = "users" => bound \in Users
    BY <1>0, <2>2 DEF LoggedIn
  <2>4. q[1] # "msg" => p \in ToClient
    BY <2>2, <2>3, BodyType
  <2>5. q[2] \in Uid0
    BY <2>2, ServedType
  <2> HIDE DEF p, q
  <2>6. toCli' \in Seq(ToClient)
    BY <1>0, <2>1, <2>4, AppendElements DEF WireTypes
  <2>7. online' \subseteq Users
    BY <1>0, <2>1 DEF WireTypes
  <2> QED
    BY <1>0, <2>1, <2>2, <2>5, <2>6, <2>7 DEF WireTypes
<1>8. CASE ServerExit
  <2>1. /\ toSrv' = <<>> /\ online' = {} /\ link' \in {link, "closed"} /\ UNCHANGED <<toCli, bound, inLink>>
    BY <1>8 DEF ServerExit
  <2> QED
    BY <1>0, <2>1 DEF WireTypes
<1>9. ASSUME NEW c \in Conv, SendMsg(c)
      PROVE  WireTypes'
  <2> DEFINE q == <<"msg", cuid, c>>
  <2>1. toSrv' \in {toSrv, Append(toSrv, q)} /\ UNCHANGED <<link, toCli, bound, inLink, online>>
    BY <1>9 DEF SendMsg
  <2>2. q \in ToServer
    BY <1>0 DEF WindowTypes, ToServer
  <2> HIDE DEF q
  <2>3. toSrv' \in Seq(ToServer)
    BY <1>0, <2>1, <2>2, AppendElements DEF WireTypes
  <2> QED
    BY <1>0, <2>1, <2>3 DEF WireTypes
<1>10. ASSUME NEW c \in Conv, Push(c)
       PROVE  WireTypes'
  <2> DEFINE p == <<"msg", c, pushed'[c]>>
  <2>1. /\ toCli' = Append(toCli, p) /\ UNCHANGED <<link, toSrv, bound, inLink, online>>
        /\ pushed'[c] = pushed[c] + 1 /\ pushed[c] < MaxPush[c] /\ pushed[c] \in Nat
        /\ MaxPush[c] \in Nat
    BY <1>0, <1>10, BoundsAssumption DEF Push, MailTypes
  <2>2. p \in ToClient
    BY <2>1 DEF ToClient, Messages
  <2> HIDE DEF p
  <2>3. toCli' \in Seq(ToClient)
    BY <1>0, <2>1, <2>2, AppendElements DEF WireTypes
  <2> QED
    BY <1>0, <2>1, <2>3 DEF WireTypes
<1> QED
  BY <1>1, <1>2, <1>3, <1>4, <1>5, <1>6, <1>7, <1>8, <1>9, <1>10, WireFrame

LEMMA StepLoggedIn ==
  ASSUME TypeInv, [Next]_vars
  PROVE  LoggedIn'
<1> DEFINE W == /\ inLink => bound \in Users
                /\ \A i \in DOMAIN toCli : toCli[i][1] = "login" /\ toCli[i][3] = "ok" => inLink
                /\ \A i \in DOMAIN toSrv : toSrv[i][1] = "users" => inLink
           T == /\ pc \in {"ask", "answer"} /\ Head(todo)[1] \in {"self", "users"} => inLink
                /\ Later(todo)
<1>0. W /\ T /\ WireTypes /\ ThreadTypes
  BY DEF TypeInv, LoggedIn, Later, ThreadTypes, Cmd
<1>00. W' /\ T' => LoggedIn'
  BY DEF LoggedIn, Later, Cmd
<1>1. ASSUME UNCHANGED <<link, toSrv, toCli, bound, inLink, online>>
      PROVE  W'
  BY <1>0, <1>1
<1>2. ASSUME UNCHANGED <<pc, todo>>, inLink => inLink'
      PROVE  T'
  BY <1>0, <1>2 DEF Later
<1>3. CASE SeeRequest \/ Claim \/ Report \/ Silent \/ Listen \/ RecvTimeout \/ RecvEnd \/ Lost
           \/ AddMsg \/ MsgEvent
  <2>1. UNCHANGED <<link, toSrv, toCli, bound, inLink, online, todo>> /\ pc' \notin {"ask", "answer"}
    BY <1>3 DEF SeeRequest, Claim, Report, Silent, Listen, RecvTimeout, RecvEnd, Lost, AddMsg,
       MsgEvent, IsAt, wireVars
  <2>2. T'
    BY <1>0, <2>1 DEF Later
  <2> QED
    BY <1>00, <1>1, <2>1, <2>2
<1>4. CASE Connected
  <2>1. /\ UNCHANGED <<toSrv, toCli, bound, inLink>>
        /\ \/ pc' = "ask" /\ todo' = <<<<"req", NoOne>>>>
           \/ pc' \in {"top", "report"} /\ todo' = todo
    BY <1>4 DEF Connected
  <2>2. W'
    BY <1>0, <2>1
  <2>3. Later(<<<<"req", NoOne>>>>) /\ Head(<<<<"req", NoOne>>>>)[1] = "req"
    BY LaterLists
  <2>4. T'
    BY <1>0, <2>1, <2>3 DEF Later
  <2> QED
    BY <1>00, <2>2, <2>4
<1>5. CASE \E ok \in BOOLEAN : Connect(ok)
  <2>1. /\ toSrv' = <<>> /\ toCli' = <<>> /\ inLink' = FALSE /\ todo' = todo
        /\ pc' \in {"made", "refused"}
    BY <1>5 DEF Connect, IsAt
  <2>2. W' /\ T'
    BY <1>0, <2>1 DEF Later
  <2> QED
    BY <1>00, <2>2
<1>6. CASE ThreadEnd
  <2>1. toSrv' = <<>> /\ toCli' = <<>> /\ UNCHANGED <<todo, inLink, bound>> /\ pc' = "ended"
    BY <1>6 DEF ThreadEnd, IsAt
  <2>2. W' /\ T'
    BY <1>0, <2>1 DEF Later
  <2> QED
    BY <1>00, <2>2
<1>7. CASE Ask
  <2>1. /\ toSrv' = toSrv \/ \E q \in ToServer : /\ toSrv' = Append(toSrv, q)
                                                 /\ q[1] = "users" => Cmd = "users"
        /\ pc = "ask" /\ todo' = todo /\ UNCHANGED <<toCli, bound, inLink>>
    BY <1>7, AskType
  <2>2. Head(todo)[1] \in {"self", "users"} => inLink
    BY <1>0, <2>1
  <2>3. T'
    BY <1>0, <2>1, <2>2 DEF Later
  <2>4. ASSUME NEW q \in ToServer, toSrv' = Append(toSrv, q), q[1] = "users" => Cmd = "users"
        PROVE  \A i \in DOMAIN toSrv' : toSrv'[i][1] = "users" => inLink
    BY <1>0, <2>2, <2>4, AppendElements DEF WireTypes, Cmd
  <2>5. W'
    BY <1>0, <2>1, <2>4
  <2> QED
    BY <1>00, <2>3, <2>5
<1>8. CASE Answer
  <2>1. /\ Goes /\ (pc' = "ask" /\ Head(todo')[1] \in {"self", "users"} => inLink)
        /\ Shorter /\ UNCHANGED <<toSrv, bound, inLink>>
    BY <1>8, AnswerStep
  <2>2. W'
    BY <1>0, <2>1 DEF Shorter
  <2>3. T'
    BY <2>1 DEF Goes, Later
  <2> QED
    BY <1>00, <2>2, <2>3
<1>9. CASE Timeout
  <2>1. /\ Goes /\ (pc' = "ask" => Head(todo')[1] \notin {"self", "users"})
        /\ UNCHANGED <<link, toSrv, toCli, bound, inLink, online>>
    BY <1>9, TimeoutStep
  <2>2. T'
    BY <2>1 DEF Goes, Later
  <2> QED
    BY <1>00, <1>1, <2>1, <2>2
<1>10. CASE Receive
  <2>1. /\ UNCHANGED <<todo, bound, inLink, toSrv>> /\ pc = "recv" /\ pc' \in {"recv", "append"}
        /\ \E n \in 1 .. Len(toCli) : Receives(n)
    BY <1>10 DEF Receive, At
  <2>2. W'
    BY <1>0, <2>1, ReceivesType
  <2>3. T'
    BY <1>0, <2>1 DEF Later
  <2> QED
    BY <1>00, <2>2, <2>3
<1>11. CASE Serve
  <2> DEFINE q == toSrv[1]
             p == <<q[1], q[2], Body(q[1], q[2], q[3])>>
             ok == q[1] = "login" /\ LoginCode(q[2], q[3]) = "ok"
  <2>1. /\ toSrv # <<>> /\ toSrv' = Tail(toSrv) /\ UNCHANGED <<pc, todo>>
        /\ bound' = (IF bound = NoOne THEN q[2] ELSE bound)
        /\ toCli' = (IF q[1] = "msg" THEN toCli ELSE Append(toCli, p))
        /\ inLink' = (inLink \/ ok)
    BY <1>11 DEF Serve, threadVars
  <2>2. ok => q[2] \in Users
    BY LoginOk
  <2>3. p[1] = "login" /\ p[3] = "ok" => ok
    BY DEF Body
  <2>4. q[1] # "msg" => p \in ToClient
    <3>1. q \in ToServer /\ 1 \in DOMAIN toSrv
      BY <1>0, <2>1 DEF WireTypes
    <3>2. q[1] = "users" => bound \in Users
      BY <1>0, <3>1
    <3> QED
      BY <3>1, <3>2, BodyType
  <2>21. ok \in BOOLEAN /\ inLink \in BOOLEAN /\ bound \in Uid0 /\ toCli \in Seq(ToClient)
    BY <1>0 DEF WireTypes
  <2> HIDE DEF p, q, ok
  <2>22. (inLink => inLink') /\ (ok => inLink') /\ (inLink' => inLink \/ ok)
    BY <2>1, <2>21
  <2>5. inLink' => bound' \in Users
    <3>1. CASE bound = NoOne
      BY <1>0, <2>1, <2>2, <2>22, <3>1, NamesAssumption DEF Conv
    <3>2. CASE bound # NoOne
      BY <2>1, <2>21, <3>2 DEF Uid0
    <3> QED
      BY <3>1, <3>2
  <2>6. \A i \in DOMAIN toCli' : toCli'[i][1] = "login" /\ toCli'[i][3] = "ok" => inLink'
    <3>1. CASE toCli' = toCli
      BY <1>0, <2>22, <3>1
    <3>2. CASE p \in ToClient /\ toCli' = Append(toCli, p)
      BY <1>0, <2>3, <2>21, <2>22, <3>2, AppendElements
    <3> QED
      BY <2>1, <2>4, <3>1, <3>2
  <2>7. \A i \in DOMAIN toSrv' : toSrv'[i][1] = "users" => inLink'
    BY <1>0, <2>1, TailElements DEF WireTypes
  <2>8. W'
    BY <2>5, <2>6, <2>7
  <2> QED
    BY <1>00, <1>2, <2>1, <2>8
<1>12. CASE ServerExit
  <2>1. toSrv' = <<>> /\ UNCHANGED <<pc, todo, toCli, bound, inLink>>
    BY <1>12 DEF ServerExit, threadVars
  <2>2. W'
    BY <1>0, <2>1
  <2> QED
    BY <1>00, <1>2, <2>1, <2>2
<1>13. ASSUME NEW c \in Conv, SendMsg(c)
       PROVE  LoggedIn'
  <2> DEFINE q == <<"msg", cuid, c>>
  <2>1. toSrv' \in {toSrv, Append(toSrv, q)} /\ UNCHANGED <<pc, todo, toCli, bound, inLink>>
    BY <1>13 DEF SendMsg, threadVars
  <2>2. q \in ToServer /\ q[1] = "msg"
    BY DEF TypeInv, WindowTypes, ToServer
  <2> HIDE DEF q
  <2>3. W'
    BY <1>0, <2>1, <2>2, AppendElements DEF WireTypes
  <2> QED
    BY <1>00, <1>2, <2>1, <2>3
<1>14. ASSUME NEW c \in Conv, Push(c)
       PROVE  LoggedIn'
  <2> DEFINE p == <<"msg", c, pushed'[c]>>
  <2>1. toCli' = Append(toCli, p) /\ inLink /\ UNCHANGED <<pc, todo, toSrv, bound, inLink>>
    BY <1>14 DEF Push, threadVars
  <2>2. W'
    BY <1>0, <2>1
  <2> QED
    BY <1>00, <1>2, <2>1, <2>2
<1>15. CASE UNCHANGED <<pc, todo, luid, res, cur>> /\ UNCHANGED <<link, toSrv, toCli, bound, inLink, online>>
  BY <1>00, <1>1, <1>2, <1>15
<1> QED
  BY <1>3, <1>4, <1>5, <1>6, <1>7, <1>8, <1>9, <1>10, <1>11, <1>12, <1>13, <1>14, <1>15,
     ThreadFrame, WireFrame

LEMMA StepTypeInv == TypeInv /\ [Next]_vars => TypeInv'
<1> SUFFICES ASSUME TypeInv, [Next]_vars
             PROVE  TypeInv'
  OBVIOUS
<1>1. WindowTypes /\ CountTypes /\ ThreadTypes
  BY DEF TypeInv
<1> QED
  BY <1>1, StepWindowTypes, StepCountTypes, StepListTypes, StepThreadTypes, StepMailTypes,
     StepWireTypes, StepLoggedIn DEF TypeInv

THEOREM Typed == Spec => []TypeInv
<1>1. Init => TypeInv
  BY InitTypeInv
<1>2. TypeInv /\ [Next]_vars => TypeInv'
  BY StepTypeInv
<1> QED
  BY <1>1, <1>2, PTL DEF Spec

\* stk_running, the lists, the message lists, what the thread holds and the
\* main window's messages keep their types, for any interleaving of the two
\* threads, any loss of an answer and any end of the server.
THEOREM TypeCorrect == Spec => []TypeOK
<1>1. TypeInv => TypeOK
  <2>1. Requests \subseteq {"req", "login", "self", "users", "info", "groups", "ginfo"} \X Subject
    BY DEF Requests, Subject, Conv
  <2>2. \A s \in Seq(Requests) : s \in Seq({"req", "login", "self", "users", "info", "groups", "ginfo"} \X Subject)
    BY <2>1
  <2> QED
    BY <2>2 DEF TypeInv, WindowTypes, CountTypes, ListTypes, ThreadTypes, MailTypes, WireTypes,
       TypeOK, PCs, Uid0
<1> QED
  BY <1>1, Typed, PTL

-----------------------------------------------------------------------------
(* Profiles                                                                *)

LEMMA InitMatching == Init => Matching
<1>1. \A i \in DOMAIN <<>> : FALSE
  OBVIOUS
<1> QED
  BY <1>1 DEF Init, Matching

\* A profile that is not absent is the entry's own: an answer brings the uid or
\* gid it is filed under, so entries are only completed with their own.
THEOREM MatchingCorrect == Spec => []Matching
<1>1. Init => Matching
  BY InitMatching
<1>2. TypeInv /\ Matching /\ [Next]_vars => Matching'
  <2> SUFFICES ASSUME TypeInv, Matching, [Next]_vars
               PROVE  Matching'
    OBVIOUS
  <2>1. Grown(buddys', buddys) /\ Grown(groups', groups)
    BY StepListTypes
  <2> QED
    BY <2>1 DEF Grown, Matching
<1> QED
  BY <1>1, <1>2, Typed, PTL DEF Spec

-----------------------------------------------------------------------------
(* Notification                                                            *)

\* Nothing happens once a list is corrupted.
LEMMA NextAlive ==
  ASSUME Next
  PROVE  ~dead
BY DEF Next, Thread, Window, User, SeeRequest, Claim, Connect, Connected, Report, Silent, Ask,
   Answer, Listen, Receive, RecvTimeout, RecvEnd, Lost, AddMsg, MsgEvent, ThreadEnd,
   SocketMessage, Joined, MsgMessage, Display, Displayed, Submit, Incomplete, Cancel, Quit,
   OpenChat, CloseChat, SendMsg, Timeout, Corrupt, Serve, ServerExit, Push, IsAt, At, Loops

\* The thread leaves a stored message only by notifying it.
Notifies(c) == pc = "post" /\ cur[1] = c

LEMMA NotifiesFrame ==
  ASSUME TypeInv, [Next]_vars
  PROVE  MsgEvent \/ \A c \in Conv : Notifies(c) => Notifies(c)'
<1>1. CASE UNCHANGED <<pc, todo, luid, res, cur>>
  BY <1>1 DEF Notifies
<1>2. CASE SeeRequest \/ Claim \/ Connected \/ Report \/ Silent \/ Ask \/ Answer \/ Listen
           \/ Receive \/ RecvTimeout \/ RecvEnd \/ Lost \/ AddMsg \/ ThreadEnd \/ Timeout
           \/ (\E ok \in BOOLEAN : Connect(ok))
  <2>1. pc # "post"
    BY <1>2 DEF SeeRequest, Claim, Connected, Report, Silent, Ask, Answer, Listen, Receive,
       RecvTimeout, RecvEnd, Lost, AddMsg, ThreadEnd, Timeout, Connect, IsAt, At
  <2> QED
    BY <2>1 DEF Notifies
<1> QED
  BY <1>1, <1>2, ThreadFrame

\* The message loop shows the conversation, or a message posted to it will make
\* it do so.
Posted(c) == \E i \in DOMAIN posted : posted[i] = c
Told(c) == ui \in {c, "join", "ended"} \/ Posted(c) \/ Notifies(c)

LEMMA PostedStep ==
  ASSUME TypeInv, [Next]_vars, NEW c \in Conv, Told(c), mail[c] # <<>>
  PROVE  Told(c)'
<1>0. /\ posted \in Seq({"socket"} \cup Conv) /\ c \notin {"socket", "loop", "join", "ended"}
      /\ ThreadTypes
  BY NamesAssumption DEF TypeInv, WindowTypes
<1>1. CASE MsgEvent
  <2>1. posted' = Append(posted, cur[1]) /\ ui' = ui /\ cur[1] \in Conv
    BY <1>0, <1>1 DEF MsgEvent, IsAt, At, ThreadTypes
  <2> DEFINE e == cur[1]
  <2> HIDE DEF e
  <2>2. /\ \A i \in DOMAIN posted : i \in DOMAIN posted' /\ posted'[i] = posted[i]
        /\ \E i \in DOMAIN posted' : posted'[i] = e
    BY <1>0, <2>1, AppendElements DEF e
  <2> QED
    BY <2>1, <2>2 DEF Told, Posted, Notifies, e
<1> SUFFICES ASSUME ~MsgEvent
             PROVE  Told(c)'
  BY <1>1
<1>2. Notifies(c) => Notifies(c)'
  BY NotifiesFrame
<1>3. CASE UNCHANGED <<ui, posted>>
  BY <1>2, <1>3 DEF Told, Posted
<1>4. CASE Report
  <2>1. posted' = Append(posted, "socket") /\ ui' = ui
    BY <1>4 DEF Report
  <2>2. \A i \in DOMAIN posted : i \in DOMAIN posted' /\ posted'[i] = posted[i]
    BY <1>0, <2>1, AppendElements
  <2> QED
    BY <1>2, <2>1, <2>2 DEF Told, Posted
<1>5. CASE Quit \/ Joined
  <2>1. ui' \in {"join", "ended"}
    BY <1>5 DEF Quit, Joined
  <2> QED
    BY <2>1 DEF Told
<1>6. CASE SocketMessage \/ \E d \in Conv \ {c} : MsgMessage(d)
  <2>1. /\ posted # <<>> /\ posted' = Tail(posted) /\ Head(posted) # c /\ ui = "loop"
    BY <1>0, <1>6 DEF SocketMessage, MsgMessage, Loops
  <2>2. \A i \in DOMAIN posted : i = 1 \/ (i - 1 \in DOMAIN Tail(posted) /\ Tail(posted)[i - 1] = posted[i])
    BY <1>0, <2>1
  <2>3. Head(posted) = posted[1]
    BY <1>0, <2>1, TailElements
  <2>4. Posted(c) => Posted(c)'
    BY <2>1, <2>2, <2>3 DEF Posted
  <2> QED
    BY <1>0, <1>2, <2>1, <2>4 DEF Told
<1>7. CASE MsgMessage(c)
  BY <1>7 DEF MsgMessage, Told
<1>8. ASSUME NEW d \in Conv, Displayed(d)
      PROVE  Told(c)'
  <2>1. ui = d /\ d # c /\ d \notin {"join", "ended"} /\ posted' = posted
    BY <1>8, NamesAssumption DEF Displayed
  <2> QED
    BY <1>2, <2>1 DEF Told, Posted
<1> QED
  BY <1>3, <1>4, <1>5, <1>6, <1>7, <1>8, WindowFrame

\* A message that the thread has stored is not forgotten: while the main window
\* lives, the message loop is showing the conversation, or WMAPP_MSG for it has
\* been posted, or stk_msg_event() is about to post it.
THEOREM NoLostWakeupCorrect == Spec => []NoLostWakeup
<1> DEFINE Inv == \A c \in Conv : ~dead /\ mail[c] # <<>> => Told(c)
<1>1. Init => Inv
  BY DEF Init
<1>2. TypeInv /\ Inv /\ [Next]_vars => Inv'
  <2> SUFFICES ASSUME TypeInv, Inv, [Next]_vars, NEW c \in Conv, ~dead', mail'[c] # <<>>
               PROVE  Told(c)'
    OBVIOUS
  <2>1. ~dead
    BY NextAlive DEF vars
  <2>2. CASE mail[c] # <<>>
    BY <2>1, <2>2, PostedStep
  <2>3. CASE mail[c] = <<>>
    <3>1. ~UNCHANGED <<mail, shown, pushed>>
      BY <2>3
    <3>3. AddMsg
      BY <2>3, <3>1, MailFrame DEF Display, Push, TypeInv, MailTypes
    <3>4. pc' = "post" /\ cur' = cur /\ mail' = [mail EXCEPT ![cur[1]] = Append(mail[cur[1]], cur[2])]
      BY <3>3 DEF AddMsg, IsAt
    <3>5. cur[1] = c
      BY <2>3, <3>4 DEF TypeInv, MailTypes
    <3> QED
      BY <3>4, <3>5 DEF Told, Notifies
  <2> QED
    BY <2>2, <2>3
<1>3. Inv => NoLostWakeup
  BY DEF NoLostWakeup, Told, Posted, Notifies
<1> QED
  BY <1>1, <1>2, <1>3, Typed, PTL DEF Spec

-----------------------------------------------------------------------------
(* Order                                                                   *)

\* The invariant: the messages of a conversation that have been shown, those in
\* its list, the one being stored and those on the wire were sent in this order,
\* and none has been made up.
Asc(s) == \A i, j \in DOMAIN s : i < j => s[i] < s[j]
Below(s, m) == \A i \in DOMAIN s : s[i] < m
Storing(c) == pc = "append" /\ cur[1] = c
OnWire(i, c) == toCli[i][1] = "msg" /\ toCli[i][2] = c
Came(c) == {shown[c][i] : i \in DOMAIN shown[c]} \cup {mail[c][i] : i \in DOMAIN mail[c]}
             \cup (IF Storing(c) THEN {cur[2]} ELSE {})

Stored(c) ==
  /\ Asc(shown[c]) /\ Asc(mail[c]) /\ \A i \in DOMAIN mail[c] : Below(shown[c], mail[c][i])
  /\ Storing(c) => Below(shown[c], cur[2]) /\ Below(mail[c], cur[2])
Coming(c) ==
  /\ \A i \in DOMAIN toCli : OnWire(i, c) =>
       /\ toCli[i][3] <= pushed[c]
       /\ \A m \in Came(c) : m < toCli[i][3]
       /\ \A j \in DOMAIN toCli : OnWire(j, c) /\ i < j => toCli[i][3] < toCli[j][3]
  /\ \A m \in Came(c) : m <= pushed[c]
Ascending(c) == Stored(c) /\ Coming(c)

LEMMA InitAscending ==
  ASSUME Init, NEW c \in Conv
  PROVE  Ascending(c)
<1>1. shown[c] = <<>> /\ mail[c] = <<>> /\ toCli = <<>> /\ pc = "top"
  BY DEF Init
<1>2. ~Storing(c)
  BY <1>1 DEF Storing
<1>3. DOMAIN shown[c] = {} /\ DOMAIN mail[c] = {} /\ DOMAIN toCli = {}
  BY <1>1
<1>4. Came(c) = {}
  BY <1>2, <1>3 DEF Came
<1>5. Stored(c)
  BY <1>2, <1>3 DEF Stored, Asc
<1>6. Coming(c)
  BY <1>3, <1>4 DEF Coming
<1> QED
  BY <1>5, <1>6 DEF Ascending

\* The messages that came are numbers.
LEMMA CameNat ==
  ASSUME TypeInv, NEW c \in Conv
  PROVE  /\ Came(c) \subseteq Nat /\ pushed[c] \in Nat /\ mail[c] \in Seq(Nat) /\ shown[c] \in Seq(Nat)
         /\ Storing(c) => cur[2] \in Nat /\ cur[2] \in Came(c)
         /\ \A i \in DOMAIN mail[c] : mail[c][i] \in Came(c)
         /\ \A i \in DOMAIN shown[c] : shown[c][i] \in Came(c)
<1>1. pushed[c] \in Nat /\ mail[c] \in Seq(Nat) /\ shown[c] \in Seq(Nat)
  BY DEF TypeInv, MailTypes
<1>2. Storing(c) => cur[2] \in Nat
  BY DEF TypeInv, ThreadTypes, Storing
<1>3. (\A i \in DOMAIN mail[c] : mail[c][i] \in Nat) /\ (\A i \in DOMAIN shown[c] : shown[c][i] \in Nat)
  BY <1>1
<1> QED
  BY <1>1, <1>2, <1>3 DEF Came

\* The messages on the wire, the numbers of which are naturals.
LEMMA WireNat ==
  ASSUME TypeInv, NEW c \in Conv, NEW i \in DOMAIN toCli, OnWire(i, c)
  PROVE  toCli[i][3] \in Nat /\ i \in Nat
<1>1. toCli \in Seq(ToClient)
  BY DEF TypeInv, WireTypes
<1>2. toCli[i] \in ToClient /\ i \in Nat
  BY <1>1
<1> QED
  BY <1>2, PacketType DEF OnWire

\* The messages on the wire are those that were there, less the first n packets.
Fewer(c) == \E n \in Nat : \A i \in DOMAIN toCli' :
  OnWire(i, c)' => i \in Nat /\ i + n \in DOMAIN toCli /\ toCli'[i] = toCli[i + n]

LEMMA ComingKept ==
  ASSUME NEW c \in Conv, Coming(c), Fewer(c), Came(c)' \subseteq Came(c), pushed'[c] = pushed[c]
  PROVE  Coming(c)'
<1>1. PICK n \in Nat : \A i \in DOMAIN toCli' :
        OnWire(i, c)' => i \in Nat /\ i + n \in DOMAIN toCli /\ toCli'[i] = toCli[i + n]
  BY DEF Fewer
<1>2. \A m \in Came(c)' : m <= pushed'[c]
  BY DEF Coming
<1>3. ASSUME NEW i \in DOMAIN toCli', OnWire(i, c)'
      PROVE  /\ toCli'[i][3] <= pushed'[c]
             /\ \A m \in Came(c)' : m < toCli'[i][3]
             /\ \A j \in DOMAIN toCli' : OnWire(j, c)' /\ i < j => toCli'[i][3] < toCli'[j][3]
  <2>1. i \in Nat /\ i + n \in DOMAIN toCli /\ toCli'[i] = toCli[i + n] /\ OnWire(i + n, c)
    BY <1>1, <1>3 DEF OnWire
  <2>2. ASSUME NEW j \in DOMAIN toCli', OnWire(j, c)', i < j
        PROVE  toCli'[i][3] < toCli'[j][3]
    <3>1. j \in Nat /\ j + n \in DOMAIN toCli /\ toCli'[j] = toCli[j + n] /\ OnWire(j + n, c)
      BY <1>1, <2>2 DEF OnWire
    <3>2. i + n < j + n
      BY <2>1, <2>2, <3>1
    <3> QED
      BY <2>1, <3>1, <3>2 DEF Coming
  <2> QED
    BY <2>1, <2>2 DEF Coming
<1> QED
  BY <1>2, <1>3 DEF Coming

\* Who adds messages to the wire, and who takes them off.
LEMMA FewerFrame ==
  ASSUME TypeInv, [Next]_vars, NEW c \in Conv
  PROVE  Fewer(c) \/ Push(c)
<1>0. toCli \in Seq(ToClient) /\ 0 \in Nat
  BY DEF TypeInv, WireTypes
<1>1. CASE toCli' = toCli
  <2>1. \A i \in DOMAIN toCli' : i \in Nat /\ i + 0 \in DOMAIN toCli /\ toCli'[i] = toCli[i + 0]
    BY <1>0, <1>1
  <2> QED
    BY <1>0, <2>1 DEF Fewer
<1>2. CASE Connected \/ Ask \/ ServerExit \/ \E d \in Conv : SendMsg(d)
  BY <1>1, <1>2 DEF Connected, Ask, ServerExit, SendMsg
<1>3. CASE ThreadEnd \/ \E ok \in BOOLEAN : Connect(ok)
  <2>1. toCli' = <<>>
    BY <1>3 DEF ThreadEnd, Connect
  <2>2. DOMAIN toCli' = {}
    BY <2>1
  <2> QED
    BY <1>0, <2>2 DEF Fewer
<1>4. CASE Answer
  BY <1>4, AnswerStep DEF Fewer, Shorter
<1>5. CASE Receive
  <2>1. PICK n \in 1 .. Len(toCli) : Receives(n)
    BY <1>5 DEF Receive
  <2>2. n \in Nat /\ \A i \in DOMAIN toCli' : i + n \in DOMAIN toCli /\ i \in Nat /\ toCli'[i] = toCli[i + n]
    BY <1>0, <2>1, ReceivesType DEF TypeInv
  <2> QED
    BY <2>2 DEF Fewer
<1>6. CASE Serve
  <2> DEFINE q == toSrv[1]
             p == <<q[1], q[2], Body(q[1], q[2], q[3])>>
  <2>1. toCli' = (IF q[1] = "msg" THEN toCli ELSE Append(toCli, p)) /\ toSrv # <<>>
    BY <1>6 DEF Serve
  <2>2. q \in ToServer /\ 1 \in DOMAIN toSrv
    BY <2>1, TailElements DEF TypeInv, WireTypes
  <2>3. q[1] # "msg" => p \in ToClient
    BY <2>2, BodyType DEF TypeInv, LoggedIn
  <2>4. p[1] = q[1]
    OBVIOUS
  <2> HIDE DEF p, q
  <2>5. CASE q[1] # "msg"
    <3>1. \A i \in DOMAIN toCli' : \/ i \in DOMAIN toCli /\ toCli'[i] = toCli[i]
                                   \/ toCli'[i] = p
      BY <1>0, <2>1, <2>3, <2>5, AppendElements
    <3>2. \A i \in DOMAIN toCli' : OnWire(i, c)' =>
            i \in Nat /\ i + 0 \in DOMAIN toCli /\ toCli'[i] = toCli[i + 0]
      BY <1>0, <2>4, <2>5, <3>1 DEF OnWire
    <3> QED
      BY <1>0, <3>2 DEF Fewer
  <2> QED
    BY <1>1, <2>1, <2>5
<1>7. ASSUME NEW d \in Conv, Push(d), d # c
      PROVE  Fewer(c)
  <2> DEFINE p == <<"msg", d, pushed'[d]>>
  <2>1. toCli' = Append(toCli, p)
    BY <1>7 DEF Push
  <2>2. /\ DOMAIN toCli' = 1 .. Len(toCli) + 1 /\ p[2] # c
        /\ \A i \in DOMAIN toCli' : toCli'[i] = IF i = Len(toCli) + 1 THEN p ELSE toCli[i]
    BY <1>0, <1>7, <2>1
  <2> HIDE DEF p
  <2>3. \A i \in DOMAIN toCli' : OnWire(i, c)' => i \in Nat /\ i + 0 \in DOMAIN toCli /\ toCli'[i] = toCli[i + 0]
    BY <1>0, <2>2 DEF OnWire
  <2> QED
    BY <1>0, <2>3 DEF Fewer
<1> QED
  BY <1>1, <1>2, <1>3, <1>4, <1>5, <1>6, <1>7, WireFrame

\* The message being stored is fetched by Receive and stored by AddMsg.
LEMMA StoringFrame ==
  ASSUME TypeInv, [Next]_vars
  PROVE  \/ Receive \/ AddMsg
         \/ pc' = "append" => pc = "append" /\ cur' = cur
<1>1. CASE UNCHANGED <<pc, todo, luid, res, cur>>
  BY <1>1
<1>2. CASE SeeRequest \/ Claim \/ Connected \/ Report \/ Silent \/ Ask \/ Listen \/ RecvTimeout
           \/ RecvEnd \/ Lost \/ MsgEvent \/ ThreadEnd \/ (\E ok \in BOOLEAN : Connect(ok))
  BY <1>2 DEF SeeRequest, Claim, Connected, Report, Silent, Ask, Listen, RecvTimeout, RecvEnd,
     Lost, MsgEvent, ThreadEnd, Connect, IsAt
<1>3. CASE Answer \/ Timeout
  <2>1. pc' \in {"ask", "report", "silent"}
    BY <1>3, AnswerStep, TimeoutStep DEF Goes
  <2> QED
    BY <2>1
<1> QED
  BY <1>1, <1>2, <1>3, ThreadFrame

\* A step that leaves the messages of a conversation alone, or loses one.
LEMMA StoredKept ==
  ASSUME NEW c \in Conv, Stored(c), mail'[c] = mail[c], shown'[c] = shown[c],
         pc' = "append" => pc = "append" /\ cur' = cur
  PROVE  Stored(c)' /\ Came(c)' \subseteq Came(c)
<1>1. Storing(c)' => Storing(c) /\ cur' = cur
  BY DEF Storing
<1>2. Stored(c)'
  BY <1>1 DEF Stored, Asc, Below
<1>3. Came(c)' \subseteq Came(c)
  BY <1>1 DEF Came
<1> QED
  BY <1>2, <1>3

\* stk_add_msg() appends the message that was fetched last.
LEMMA AddMsgStep ==
  ASSUME TypeInv, NEW c \in Conv, Ascending(c), AddMsg
  PROVE  Stored(c)' /\ Came(c)' \subseteq Came(c)
<1>1. /\ pc = "append" /\ pc' = "post" /\ cur' = cur /\ shown' = shown /\ cur[1] \in Conv /\ cur[2] \in Nat
      /\ mail \in [Conv -> Seq(Nat)] /\ mail' = [mail EXCEPT ![cur[1]] = Append(mail[cur[1]], cur[2])]
  BY DEF AddMsg, IsAt, At, TypeInv, ThreadTypes, MailTypes, histVars
<1>2. CASE cur[1] # c
  <2>1. mail'[c] = mail[c] /\ shown'[c] = shown[c]
    BY <1>1, <1>2
  <2> QED
    BY <1>1, <2>1, StoredKept DEF Ascending
<1>3. CASE cur[1] = c
  <2>1. /\ mail[c] \in Seq(Nat) /\ mail'[c] = Append(mail[c], cur[2]) /\ shown'[c] = shown[c] /\ Storing(c)
        /\ ~Storing(c)' /\ shown[c] \in Seq(Nat)
    BY <1>1, <1>3, CameNat DEF Storing
  <2>2. \A i \in DOMAIN mail'[c] : \/ i \in DOMAIN mail[c] /\ mail'[c][i] = mail[c][i] /\ i < Len(mail[c]) + 1
                                   \/ i = Len(mail[c]) + 1 /\ mail'[c][i] = cur[2]
    BY <1>1, <2>1
  <2>3. Stored(c) /\ \A i \in DOMAIN mail[c] : i \in Nat
    BY <2>1 DEF Ascending
  <2>4. Asc(mail[c]) /\ Below(mail[c], cur[2]) /\ Below(shown[c], cur[2]) /\ Asc(shown[c])
    BY <2>1, <2>3 DEF Stored
  <2>5. Asc(mail'[c])
    <3>1. /\ \A i, j \in DOMAIN mail[c] : i < j => mail[c][i] < mail[c][j]
          /\ \A i \in DOMAIN mail[c] : mail[c][i] < cur[2] /\ i < Len(mail[c]) + 1
          /\ Len(mail[c]) \in Nat
      BY <2>1, <2>4 DEF Asc, Below
    <3>2. \A i \in DOMAIN mail'[c] : i \in Nat
      BY <2>2, <2>3, <3>1
    <3> QED
      BY <2>2, <3>1, <3>2 DEF Asc
  <2>6. \A i \in DOMAIN mail'[c] : Below(shown[c], mail'[c][i])
    BY <2>2, <2>3, <2>4 DEF Stored
  <2>7. Stored(c)'
    BY <2>1, <2>4, <2>5, <2>6 DEF Stored, Asc
  <2>8. Came(c)' \subseteq Came(c)
    BY <2>1, <2>2 DEF Came
  <2> QED
    BY <2>7, <2>8
<1> QED
  BY <1>2, <1>3

\* stk_chatwin_display() moves the first message of the list into the window.
LEMMA DisplayStep ==
  ASSUME TypeInv, NEW c \in Conv, Ascending(c), NEW d \in Conv, Display(d)
  PROVE  Stored(c)' /\ Came(c)' \subseteq Came(c)
<1>1. /\ UNCHANGED <<pc, cur>> /\ mail[d] # <<>> /\ mail' = [mail EXCEPT ![d] = Tail(mail[d])]
      /\ shown' = [shown EXCEPT ![d] = Append(shown[d], Head(mail[d]))]
      /\ mail \in [Conv -> Seq(Nat)] /\ shown \in [Conv -> Seq(Nat)]
  BY DEF Display, threadVars, TypeInv, MailTypes
<1>2. CASE d # c
  <2>1. mail'[c] = mail[c] /\ shown'[c] = shown[c]
    BY <1>1, <1>2
  <2> QED
    BY <1>1, <2>1, StoredKept DEF Ascending
<1>3. CASE d = c
  <2> DEFINE s == shown[c]
             r == mail[c]
             h == Head(r)
  <2>1. /\ s \in Seq(Nat) /\ r \in Seq(Nat) /\ r # <<>> /\ mail'[c] = Tail(r) /\ shown'[c] = Append(s, h)
        /\ (Storing(c)' <=> Storing(c)) /\ cur' = cur
    BY <1>1, <1>3 DEF Storing
  <2>2. Asc(s) /\ Asc(r) /\ (\A i \in DOMAIN r : Below(s, r[i]))
        /\ (Storing(c) => Below(s, cur[2]) /\ Below(r, cur[2]))
    BY DEF Ascending, Stored
  <2>3. Came(c) = {s[i] : i \in DOMAIN s} \cup {r[i] : i \in DOMAIN r} \cup (IF Storing(c) THEN {cur[2]} ELSE {})
    BY DEF Came
  <2> HIDE DEF s, r, h
  <2>4. h \in Nat /\ 1 \in DOMAIN r /\ h = r[1] /\ \A i \in DOMAIN Tail(r) : i + 1 \in DOMAIN r /\ i \in Nat /\ i > 0 /\ Tail(r)[i] = r[i + 1]
    BY <2>1 DEF h
  <2>5. \A i \in DOMAIN Append(s, h) : \/ i \in DOMAIN s /\ Append(s, h)[i] = s[i] /\ i < Len(s) + 1
                                       \/ i = Len(s) + 1 /\ Append(s, h)[i] = h
    BY <2>1, <2>4
  <2>6. \A i \in DOMAIN s : i \in Nat /\ i < Len(s) + 1
    BY <2>1
  <2>7. Asc(Tail(r)) /\ \A i \in DOMAIN Tail(r) : h < Tail(r)[i]
    BY <2>2, <2>4 DEF Asc
  <2>8. Asc(Append(s, h))
    BY <2>1, <2>2, <2>4, <2>5, <2>6 DEF Asc, Below
  <2>9. \A i \in DOMAIN Tail(r) : Below(Append(s, h), Tail(r)[i])
    BY <2>2, <2>4, <2>5, <2>7 DEF Below
  <2>10. Storing(c) => Below(Append(s, h), cur[2]) /\ Below(Tail(r), cur[2])
    BY <2>2, <2>4, <2>5 DEF Below
  <2>11. Stored(c)'
    BY <2>1, <2>7, <2>8, <2>9, <2>10 DEF Stored, Asc, Below
  <2>12. Came(c)' \subseteq Came(c)
    <3>1. Came(c)' = {Append(s, h)[i] : i \in DOMAIN Append(s, h)} \cup {Tail(r)[i] : i \in DOMAIN Tail(r)}
                       \cup (IF Storing(c) THEN {cur[2]} ELSE {})
      BY <2>1 DEF Came
    <3>2. \A i \in DOMAIN Append(s, h) : Append(s, h)[i] \in Came(c)
      BY <2>3, <2>4, <2>5
    <3>3. \A i \in DOMAIN Tail(r) : Tail(r)[i] \in Came(c)
      BY <2>3, <2>4
    <3> QED
      BY <2>3, <3>1, <3>2, <3>3
  <2> QED
    BY <2>11, <2>12
<1> QED
  BY <1>2, <1>3

\* stk_recv_msg() takes the first packet, before all others of its conversation.
LEMMA ReceiveStep ==
  ASSUME TypeInv, NEW c \in Conv, Ascending(c), Receive
  PROVE  Ascending(c)'
<1>1. PICK n \in 1 .. Len(toCli) : Receives(n)
  BY DEF Receive
<1>2. /\ Head(toCli) = toCli[1] /\ 1 \in DOMAIN toCli /\ pc = "recv" /\ UNCHANGED <<mail, shown, pushed>>
      /\ \A i \in DOMAIN toCli' : i + n \in DOMAIN toCli /\ i \in Nat /\ i > 0 /\ toCli'[i] = toCli[i + n]
      /\ n \in Nat /\ n > 0
  BY <1>1, ReceivesType DEF TypeInv, WireTypes, Receive, Receives, At, histVars
<1>3. \/ UNCHANGED <<pc, cur>>
      \/ Head(toCli)[1] = "msg" /\ pc' = "append" /\ cur' = <<Head(toCli)[2], Head(toCli)[3]>>
  BY DEF Receive
<1>4. Fewer(c)
  BY <1>2 DEF Fewer
<1>5. CASE ~Storing(c)'
  <2>1. Stored(c)' /\ Came(c)' \subseteq Came(c)
    BY <1>2, <1>5 DEF Ascending, Stored, Asc, Below, Came
  <2> QED
    BY <1>2, <1>4, <2>1, ComingKept DEF Ascending
<1>6. CASE Storing(c)'
  <2> DEFINE e == toCli[1][3]
  <2>1. OnWire(1, c) /\ cur' = <<toCli[1][2], e>> /\ pc' = "append" /\ ~Storing(c)
    BY <1>2, <1>3, <1>6 DEF Storing, OnWire
  <2>2. /\ e <= pushed[c] /\ (\A m \in Came(c) : m < e)
        /\ \A j \in DOMAIN toCli : OnWire(j, c) /\ 1 < j => e < toCli[j][3]
    BY <1>2, <2>1 DEF Ascending, Coming
  <2> HIDE DEF e
  <2>3. Below(shown[c], e) /\ Below(mail[c], e)
    BY <2>2, CameNat DEF Below
  <2>4. Stored(c)'
    BY <1>2, <2>1, <2>3 DEF Ascending, Stored, Asc, Below
  <2>5. Came(c)' \subseteq Came(c) \cup {e}
    BY <1>2, <2>1 DEF Came
  <2>6. \A m \in Came(c)' : m <= pushed'[c]
    BY <1>2, <2>2, <2>5 DEF Ascending, Coming
  <2>7. ASSUME NEW i \in DOMAIN toCli', OnWire(i, c)'
        PROVE  /\ toCli'[i][3] <= pushed'[c]
               /\ \A m \in Came(c)' : m < toCli'[i][3]
               /\ \A j \in DOMAIN toCli' : OnWire(j, c)' /\ i < j => toCli'[i][3] < toCli'[j][3]
    <3>1. i + n \in DOMAIN toCli /\ i \in Nat /\ 1 < i + n /\ toCli'[i] = toCli[i + n] /\ OnWire(i + n, c)
      BY <1>2, <2>7 DEF OnWire
    <3>2. ASSUME NEW j \in DOMAIN toCli', OnWire(j, c)', i < j
          PROVE  toCli'[i][3] < toCli'[j][3]
      <4>1. j + n \in DOMAIN toCli /\ i + n < j + n /\ toCli'[j] = toCli[j + n] /\ OnWire(j + n, c)
        BY <1>2, <3>1, <3>2 DEF OnWire
      <4> QED
        BY <3>1, <4>1 DEF Ascending, Coming
    <3>3. toCli[i + n][3] <= pushed[c] /\ \A m \in Came(c) : m < toCli[i + n][3]
      BY <3>1 DEF Ascending, Coming
    <3>4. e < toCli[i + n][3]
      BY <2>2, <3>1
    <3> QED
      BY <1>2, <2>5, <3>1, <3>2, <3>3, <3>4
  <2> QED
    BY <2>4, <2>6, <2>7 DEF Ascending, Coming
<1> QED
  BY <1>5, <1>6

\* A message is sent after all that were sent before.
LEMMA PushStep ==
  ASSUME TypeInv, NEW c \in Conv, Ascending(c), Push(c)
  PROVE  Ascending(c)'
<1> DEFINE p == <<"msg", c, pushed[c] + 1>>
<1>1. /\ pushed[c] \in Nat /\ toCli \in Seq(ToClient) /\ toCli' = Append(toCli, p)
      /\ pushed'[c] = pushed[c] + 1 /\ UNCHANGED <<mail, shown, pc, cur>>
  BY DEF Push, TypeInv, MailTypes, WireTypes, threadVars
<1>2. Stored(c)' /\ Came(c)' = Came(c)
  BY <1>1 DEF Ascending, Stored, Asc, Below, Came, Storing
<1>3. p[1] = "msg" /\ p[2] = c /\ p[3] = pushed[c] + 1
  OBVIOUS
<1> HIDE DEF p
<1>4. /\ \A i \in DOMAIN toCli' : /\ i \in 1 .. Len(toCli) + 1
                                  /\ \/ i \in DOMAIN toCli /\ toCli'[i] = toCli[i]
                                     \/ i = Len(toCli) + 1 /\ toCli'[i] = p
      /\ \A i \in DOMAIN toCli : i \in Nat /\ i < Len(toCli) + 1
      /\ Len(toCli) \in Nat
  BY <1>1
<1>5. \A i \in DOMAIN toCli : OnWire(i, c) => toCli[i][3] \in Nat /\ toCli[i][3] <= pushed[c]
  BY WireNat DEF Ascending, Coming
<1>6. (\A m \in Came(c) : m \in Nat /\ m <= pushed[c]) /\ Coming(c)
  BY CameNat DEF Ascending, Coming
<1>7. \A m \in Came(c)' : m <= pushed'[c]
  BY <1>1, <1>2, <1>6
<1>8. ASSUME NEW i \in DOMAIN toCli', OnWire(i, c)'
      PROVE  /\ toCli'[i][3] <= pushed'[c]
             /\ \A m \in Came(c)' : m < toCli'[i][3]
             /\ \A j \in DOMAIN toCli' : OnWire(j, c)' /\ i < j => toCli'[i][3] < toCli'[j][3]
  <2>1. CASE i \in DOMAIN toCli /\ toCli'[i] = toCli[i]
    <3>1. OnWire(i, c)
      BY <1>8, <2>1 DEF OnWire
    <3>2. toCli[i][3] \in Nat /\ toCli[i][3] <= pushed[c] /\ \A m \in Came(c) : m < toCli[i][3]
      BY <1>5, <1>6, <2>1, <3>1 DEF Coming
    <3>3. ASSUME NEW j \in DOMAIN toCli', OnWire(j, c)', i < j
          PROVE  toCli'[i][3] < toCli'[j][3]
      <4>1. CASE j \in DOMAIN toCli /\ toCli'[j] = toCli[j]
        <5>1. OnWire(j, c)
          BY <3>3, <4>1 DEF OnWire
        <5> QED
          BY <1>6, <2>1, <3>1, <3>3, <4>1, <5>1 DEF Coming
      <4>2. CASE toCli'[j] = p
        BY <1>1, <1>3, <2>1, <3>2, <4>2
      <4> QED
        BY <1>4, <4>1, <4>2
    <3> QED
      BY <1>1, <1>2, <2>1, <3>2, <3>3
  <2>2. CASE i = Len(toCli) + 1 /\ toCli'[i] = p
    <3>1. \A j \in DOMAIN toCli' : ~(i < j)
      BY <1>4, <2>2
    <3> QED
      BY <1>1, <1>2, <1>3, <1>6, <2>2, <3>1
  <2> QED
    BY <1>4, <2>1, <2>2
<1> QED
  BY <1>2, <1>7, <1>8 DEF Ascending, Coming

LEMMA StepAscending ==
  ASSUME TypeInv, [Next]_vars, NEW c \in Conv, Ascending(c)
  PROVE  Ascending(c)'
<1>1. CASE Receive
  BY <1>1, ReceiveStep
<1>2. CASE Push(c)
  BY <1>2, PushStep
<1> SUFFICES ASSUME ~Receive, ~Push(c)
             PROVE  Ascending(c)'
  BY <1>1, <1>2
<1>3. Fewer(c)
  BY FewerFrame
<1>4. pushed'[c] = pushed[c]
  <2>1. CASE AddMsg \/ \E d \in Conv : Display(d)
    BY <2>1 DEF AddMsg, Display, histVars
  <2>2. CASE \E d \in Conv \ {c} : Push(d)
    BY <2>2 DEF Push, TypeInv, MailTypes
  <2> QED
    BY <2>1, <2>2, MailFrame
<1>5. Stored(c)' /\ Came(c)' \subseteq Came(c)
  <2>1. CASE AddMsg
    BY <2>1, AddMsgStep
  <2>2. CASE \E d \in Conv : Display(d)
    BY <2>2, DisplayStep
  <2>3. CASE ~AddMsg /\ ~\E d \in Conv : Display(d)
    <3>1. UNCHANGED <<mail, shown>>
      BY <2>3, MailFrame DEF Push
    <3>2. pc' = "append" => pc = "append" /\ cur' = cur
      BY <2>3, StoringFrame
    <3> QED
      BY <3>1, <3>2, StoredKept DEF Ascending
  <2> QED
    BY <2>1, <2>2, <2>3
<1> QED
  BY <1>3, <1>4, <1>5, ComingKept DEF Ascending

\* The messages of a conversation get into its window in the order in which
\* they were sent, each at most once, whatever was lost with a connection or
\* dropped during a login.
THEOREM InOrderCorrect == Spec => []InOrder
<1> DEFINE Inv == \A c \in Conv : Ascending(c)
<1>1. Init => Inv
  BY InitAscending
<1>2. TypeInv /\ Inv /\ [Next]_vars => Inv'
  BY StepAscending
<1>3. TypeInv /\ Inv => InOrder
  <2> SUFFICES ASSUME TypeInv, Inv, NEW c \in Conv
               PROVE  LET all == shown[c] \o mail[c]
                      IN \A i, j \in DOMAIN all : i < j => all[i] < all[j]
    BY DEF InOrder
  <2> DEFINE s == shown[c]
             r == mail[c]
  <2>1. s \in Seq(Nat) /\ r \in Seq(Nat)
    BY CameNat
  <2>2. Asc(s) /\ Asc(r) /\ \A i \in DOMAIN r : Below(s, r[i])
    BY DEF Ascending, Stored
  <2> HIDE DEF s, r
  <2>3. ASSUME NEW i \in DOMAIN (s \o r), NEW j \in DOMAIN (s \o r), i < j
        PROVE  (s \o r)[i] < (s \o r)[j]
    <3>1. \A k \in DOMAIN (s \o r) :
            /\ k \in Nat /\ Len(s) \in Nat
            /\ \/ k \in DOMAIN s /\ k <= Len(s) /\ (s \o r)[k] = s[k]
               \/ k > Len(s) /\ k - Len(s) \in DOMAIN r /\ (s \o r)[k] = r[k - Len(s)]
      BY <2>1, ConcatElements
    <3>2. CASE i \in DOMAIN s /\ (s \o r)[i] = s[i] /\ j \in DOMAIN s /\ (s \o r)[j] = s[j]
      BY <2>2, <2>3, <3>2 DEF Asc
    <3>3. CASE i \in DOMAIN s /\ (s \o r)[i] = s[i] /\ j - Len(s) \in DOMAIN r /\ (s \o r)[j] = r[j - Len(s)]
      BY <2>2, <3>3 DEF Below
    <3>4. CASE /\ i - Len(s) \in DOMAIN r /\ (s \o r)[i] = r[i - Len(s)]
               /\ j - Len(s) \in DOMAIN r /\ (s \o r)[j] = r[j - Len(s)]
      <4>1. i - Len(s) < j - Len(s)
        BY <2>3, <3>1
      <4> QED
        BY <2>2, <3>4, <4>1 DEF Asc
    <3>5. ~(i > Len(s) /\ j <= Len(s))
      BY <2>3, <3>1
    <3> QED
      BY <3>1, <3>2, <3>3, <3>4, <3>5
  <2> QED
    BY <2>3 DEF s, r
<1> QED
  BY <1>1, <1>2, <1>3, Typed, PTL DEF Spec


-----------------------------------------------------------------------------
(* A login that nothing disturbs                                           *)

\* One login at a time, the server stays, and nothing comes late or in between.
Quiet == ~again /\ exits = 0 /\ Calm

Before == {"top", "claim", "connect", "refused", "made"}
After == {"top2", "recv", "append", "post", "lost", "exit", "ended"}

\* The list has an entry for each id; those before the k-th are complete.
Half(list, ids, k) ==
  Len(list) = Len(ids) /\ \A i \in DOMAIN ids : list[i] = <<ids[i], IF i < k THEN ids[i] ELSE NoOne>>
Empty == buddys = <<>> /\ groups = <<>>
BuddysKnown == cuid \in Users /\ Half(buddys, Others(cuid), Len(UserFile))
Filled == BuddysKnown /\ Half(groups, Groups, Len(Groups) + 1)

\* The requests that remain are about the k-th id and those after it.
Remain(cmd, ids, k) == \A i \in DOMAIN ids : i >= k => todo[i - k + 1] = <<cmd, ids[i]>>

\* What is known when a request is made.
AskingUsers(k) ==
  /\ Half(buddys, Others(cuid), k) /\ Remain("info", Others(cuid), k)
  /\ Len(todo) = Len(UserFile) - k + 1 /\ todo[Len(todo)] = <<"groups", NoOne>>
AskingGroups(k) ==
  /\ Half(groups, Groups, k) /\ Remain("ginfo", Groups, k)
  /\ Len(todo) = Len(Groups) - k + 1
Progress ==
  /\ Cmd \in {"req", "login", "self", "users"} => Empty
  /\ Cmd \notin {"req", "login"} => cuid \in Users
  /\ Cmd \in {"info", "groups"} => groups = <<>> /\ \E k \in 1 .. Len(UserFile) : AskingUsers(k)
  /\ Cmd = "ginfo" => BuddysKnown /\ \E k \in 1 .. Len(Groups) : AskingGroups(k)

\* The present request is on its way to the server, or its answer is back.
Clear == toSrv = <<>> /\ toCli = <<>>
Bound == IF Cmd = "req" THEN bound = NoOne ELSE bound = luid
Right(b) ==
  /\ Cmd = "login" /\ b = "ok" => luid \in Users
  /\ Cmd = "self" => b = luid
  /\ Cmd = "users" => b = Others(luid)
  /\ Cmd = "groups" => b = Groups
  /\ Cmd \in {"info", "ginfo"} => b = Head(todo)[2]
Asked ==
  /\ toCli = <<>> /\ Bound
  /\ Len(toSrv) = 1 /\ toSrv[1][1] = Wire(Cmd) /\ toSrv[1][2] = luid
  /\ Cmd = "self" => toSrv[1][3] = luid
  /\ Cmd \in {"info", "ginfo"} => toSrv[1][3] = Head(todo)[2]
Answered ==
  /\ toSrv = <<>> /\ bound = luid
  /\ Len(toCli) = 1 /\ toCli[1][1] = Wire(Cmd) /\ toCli[1][2] = luid /\ Right(toCli[1][3])

LoginWire ==
  /\ pc \in {"made", "ask", "answer"} => link = "up"
  /\ pc = "made" => Clear /\ bound = NoOne
  /\ pc = "ask" => Clear /\ Bound
  /\ pc = "answer" => Asked \/ Answered

\* The lists are shown, or will be, only when they are complete.
Shows == view = "main" \/ running = "CONNECTED" \/ pc \in After \ {"exit", "ended"}
ShownFilled == Shows => pc \in After /\ Filled
NoChats == pc \notin After => exist = {} /\ \A i \in DOMAIN posted : posted[i] = "socket"
LoginLists ==
  /\ pc \in Before => Empty
  /\ pc \in {"ask", "answer"} => luid = cuid /\ Progress
  /\ pc = "report" => (IF res = "CONNECTED" THEN Filled ELSE Empty)
  /\ pc # "silent"

LoginInv == Quiet => ShownFilled /\ NoChats /\ LoginLists /\ LoginWire

LEMMA InitLoginInv == Init => LoginInv
<1> SUFFICES ASSUME Init
             PROVE  LoginInv
  OBVIOUS
<1>1. pc = "top" /\ Empty /\ exist = {} /\ posted = <<>> /\ view = "form" /\ running = "INITIALIZED"
  BY DEF Init, Empty
<1>2. ShownFilled /\ NoChats
  BY <1>1 DEF ShownFilled, Shows, NoChats, After
<1>3. LoginLists /\ LoginWire
  BY <1>1 DEF LoginLists, LoginWire
<1> QED
  BY <1>2, <1>3 DEF LoginInv

\* The steps of the window, and those of the thread after the login.
Aside ==
  /\ UNCHANGED <<pc, todo, luid, res, buddys, groups, link, toSrv, toCli, bound>>
  /\ cuid' = cuid \/ pc = "top"
  /\ view' = "main" => view = "main" \/ running = "CONNECTED"
  /\ running' = "CONNECTED" => running = "CONNECTED"
  /\ exist' \subseteq exist \/ view = "main" \/ \E i \in DOMAIN posted : posted[i] # "socket"
  /\ \A i \in DOMAIN posted' : \E j \in DOMAIN posted : posted'[i] = posted[j]
Onward ==
  /\ pc \in After /\ pc' \in After /\ (pc = "exit" => pc' = "ended" /\ UNCHANGED running) /\ pc # "ended"
  /\ UNCHANGED <<cuid, buddys, groups, view>>

LEMMA QuietSteps ==
  ASSUME TypeInv, [Next]_vars, Quiet'
  PROVE  /\ Quiet
         /\ \/ Aside \/ Onward \/ SeeRequest \/ Claim \/ Connected \/ Report \/ Silent \/ Ask \/ Answer \/ Serve
            \/ (\E ok \in BOOLEAN : Connect(ok)) \/ (\E c \in Conv : SendMsg(c))
<1>0. /\ posted \in Seq({"socket"} \cup Conv) /\ late \in Nat /\ exits \in Nat /\ pushed \in [Conv -> Nat]
      /\ again \in BOOLEAN
  BY BoundsAssumption DEF TypeInv, WindowTypes, CountTypes, MailTypes
<1>1. posted # <<>> => /\ \A i \in DOMAIN Tail(posted) : i + 1 \in DOMAIN posted /\ Tail(posted)[i] = posted[i + 1]
                       /\ 1 \in DOMAIN posted /\ Head(posted) = posted[1]
  BY <1>0, TailElements
<1>2. CASE SocketMessage
  BY <1>1, <1>2 DEF SocketMessage, Quiet, Calm, Aside, Failures, listVars, threadVars, wireVars, histVars
<1>3. CASE Joined \/ Cancel \/ Quit \/ Corrupt
  BY <1>3 DEF Joined, Cancel, Quit, Corrupt, Quiet, Calm, Aside,
     clientVars, windowVars, listVars, threadVars, wireVars, histVars
<1>4. ASSUME NEW c \in Conv, Display(c) \/ Displayed(c) \/ OpenChat(c) \/ CloseChat(c)
      PROVE  Quiet /\ Aside
  BY <1>4 DEF Display, Displayed, OpenChat, CloseChat, Quiet, Calm, Aside,
     clientVars, windowVars, listVars, threadVars, wireVars, histVars
<1>5. ASSUME NEW c \in Conv, MsgMessage(c)
      PROVE  Quiet /\ Aside
  <2>1. posted[1] # "socket" /\ 1 \in DOMAIN posted
    BY <1>1, <1>5, NamesAssumption DEF MsgMessage
  <2> QED
    BY <1>1, <1>5, <2>1 DEF MsgMessage, Quiet, Calm, Aside, clientVars, listVars, threadVars, wireVars, histVars
<1>6. ASSUME NEW u, NEW p, Submit(u, p) \/ Incomplete(u)
      PROVE  Quiet /\ Aside
  BY <1>0, <1>6 DEF Submit, Incomplete, Quiet, Calm, Aside, windowVars, listVars, threadVars, wireVars
<1>7. CASE Listen \/ RecvTimeout \/ RecvEnd \/ ThreadEnd
  BY <1>7 DEF Listen, RecvTimeout, RecvEnd, ThreadEnd, IsAt, At, Quiet, Calm, Onward, After,
     clientVars, windowVars, listVars, histVars
<1>8. CASE Receive \/ Lost \/ AddMsg \/ MsgEvent
  BY <1>8 DEF Receive, Lost, AddMsg, MsgEvent, IsAt, At, Quiet, Calm, Onward, After, clientVars, windowVars, listVars, histVars
<1>9. CASE SeeRequest \/ Claim \/ Connected \/ Report \/ Silent \/ Ask \/ Answer
  BY <1>9 DEF SeeRequest, Claim, Connected, Report, Silent, Ask, Answer, Quiet, Calm, histVars
<1>10. CASE Serve \/ (\E ok \in BOOLEAN : Connect(ok)) \/ (\E c \in Conv : SendMsg(c))
  BY <1>10 DEF Serve, Connect, SendMsg, Quiet, Calm, histVars
<1>11. CASE Timeout \/ ServerExit
  BY <1>0, <1>11 DEF Timeout, ServerExit, Quiet, Calm
<1>12. ASSUME NEW c \in Conv, Push(c)
       PROVE  FALSE
  <2>1. pushed'[c] = pushed[c] + 1
    BY <1>0, <1>12 DEF Push
  <2>2. pushed'[c] = 0
    BY DEF Quiet, Calm
  <2> QED
    BY <1>0, <2>1, <2>2
<1>13. CASE UNCHANGED vars
  BY <1>13 DEF vars, Quiet, Calm, Aside, clientVars, windowVars, listVars, threadVars, wireVars, histVars
<1> QED
  BY <1>2, <1>3, <1>4, <1>5, <1>6, <1>7, <1>8, <1>9, <1>10, <1>11, <1>12, <1>13 DEF Next, Thread, Window, User

LEMMA Pcs ==
  /\ After \cap Before = {} /\ (After \cup Before) \cap {"ask", "answer", "report", "silent"} = {}
  /\ "made" \in Before /\ "top" \in Before
BY DEF After, Before

\* What the window does changes nothing of the login.
LEMMA AsideKeeps ==
  ASSUME TypeInv, ShownFilled, NoChats, LoginLists, LoginWire, Aside
  PROVE  ShownFilled' /\ NoChats' /\ LoginLists' /\ LoginWire'
<1>1. /\ UNCHANGED <<pc, todo, luid, res, buddys, groups, link, toSrv, toCli, bound>>
      /\ cuid' = cuid \/ pc = "top"
      /\ Shows' => Shows
  BY DEF Aside, Shows
<1>2. ShownFilled'
  <2>1. pc = "top" => ~Shows
    BY Pcs DEF ShownFilled
  <2>2. cuid' = cuid => (Filled' <=> Filled)
    BY <1>1 DEF Filled, BuddysKnown
  <2> QED
    BY <1>1, <2>1, <2>2 DEF ShownFilled
<1>3. NoChats'
  <2> SUFFICES ASSUME pc \notin After
               PROVE  exist' = {} /\ \A i \in DOMAIN posted' : posted'[i] = "socket"
    BY <1>1 DEF NoChats
  <2>1. exist = {} /\ (\A i \in DOMAIN posted : posted[i] = "socket") /\ view # "main"
    BY DEF NoChats, ShownFilled, Shows
  <2> QED
    BY <2>1 DEF Aside
<1>4. Cmd' = Cmd
  BY <1>1 DEF Cmd
<1>5. LoginWire'
  BY <1>1, <1>4 DEF LoginWire, Clear, Bound, Asked, Answered, Right, Wire
<1>6. LoginLists'
  <2>1. (Empty' <=> Empty) /\ (cuid' = cuid => (Filled' <=> Filled))
    BY <1>1 DEF Filled, BuddysKnown, Empty
  <2>2. cuid' = cuid => (Progress' <=> Progress)
    BY <1>1, <1>4 DEF Progress, Empty, BuddysKnown, AskingUsers, AskingGroups, Remain
  <2> QED
    BY <1>1, <2>1, <2>2, Pcs DEF LoginLists
<1> QED
  BY <1>2, <1>3, <1>5, <1>6

\* After the login the lists stay.
LEMMA OnwardKeeps ==
  ASSUME ShownFilled, Onward
  PROVE  ShownFilled' /\ NoChats' /\ LoginLists' /\ LoginWire'
<1>1. pc \in After /\ pc' \in After /\ (pc = "exit" => pc' = "ended" /\ UNCHANGED running) /\ pc # "ended"
      /\ UNCHANGED <<cuid, buddys, groups, view>>
  BY DEF Onward
<1>2. Filled' <=> Filled
  BY <1>1 DEF Filled, BuddysKnown
<1>3. Shows' => Shows
  BY <1>1 DEF Shows
<1>4. pc' \notin Before /\ pc' \notin {"made", "ask", "answer", "report", "silent"}
  BY <1>1, Pcs
<1> QED
  BY <1>1, <1>2, <1>3, <1>4 DEF ShownFilled, NoChats, LoginLists, LoginWire

LEMMA SendMsgKeeps ==
  ASSUME ShownFilled, NoChats, NEW c \in Conv, SendMsg(c)
  PROVE  ShownFilled' /\ NoChats' /\ LoginLists' /\ LoginWire'
<1>1. pc \in After /\ UNCHANGED <<pc, cuid, buddys, groups, view, running, exist, posted>>
  BY DEF SendMsg, NoChats, clientVars, listVars, threadVars, windowVars
<1>2. (Filled' <=> Filled) /\ (Shows' <=> Shows)
  BY <1>1 DEF Filled, BuddysKnown, Shows
<1>3. pc' \notin Before /\ pc' \notin {"made", "ask", "answer", "report", "silent"}
  BY <1>1, Pcs
<1> QED
  BY <1>1, <1>2, <1>3 DEF ShownFilled, NoChats, LoginLists, LoginWire

\* Before an answer is taken, the lists are as they were.
LEMMA StartKeeps ==
  ASSUME TypeInv, ShownFilled, NoChats, LoginLists, LoginWire,
         SeeRequest \/ Claim \/ (\E ok \in BOOLEAN : Connect(ok)) \/ Connected
  PROVE  ShownFilled' /\ NoChats' /\ LoginLists' /\ LoginWire'
<1>1. /\ pc \in Before /\ UNCHANGED <<cuid, buddys, groups, view, exist, posted>>
      /\ running' \in {running, "CONNECTING"}
      /\ pc' \in {"exit", "claim", "connect", "refused", "made", "top", "ask", "report"}
  BY DEF SeeRequest, Claim, Connect, Connected, IsAt, At, Before, clientVars, listVars, windowVars
<1>2. Empty /\ Empty' /\ pc \notin After
  BY <1>1, Pcs DEF LoginLists, Empty
<1>3. ShownFilled'
  BY <1>1, <1>2 DEF ShownFilled, Shows, After
<1>4. NoChats'
  BY <1>1, <1>2 DEF NoChats
<1>5. ASSUME SeeRequest \/ Claim
      PROVE  LoginLists' /\ LoginWire'
  <2>1. pc' \in {"exit", "claim", "connect"}
    BY <1>5 DEF SeeRequest, Claim, IsAt, At
  <2> QED
    BY <1>2, <2>1 DEF LoginLists, LoginWire
<1>6. ASSUME NEW ok \in BOOLEAN, Connect(ok)
      PROVE  LoginLists' /\ LoginWire'
  BY <1>2, <1>6 DEF Connect, IsAt, LoginLists, LoginWire, Clear
<1>7. ASSUME Connected
      PROVE  LoginLists' /\ LoginWire'
  <2>1. CASE pc' = "top"
    BY <1>2, <2>1 DEF LoginLists, LoginWire
  <2>2. CASE pc' = "report"
    <3>1. res' = "CONNECTE_ERR"
      BY <1>7, <2>2 DEF Connected
    <3> QED
      BY <1>2, <2>2, <3>1, Pcs DEF LoginLists, LoginWire
  <2>3. CASE pc' = "ask"
    <3>1. /\ pc = "made" /\ todo' = <<<<"req", NoOne>>>> /\ luid' = cuid
          /\ UNCHANGED <<cuid, link, toSrv, toCli, bound>>
      BY <1>7, <2>3 DEF Connected, clientVars
    <3>2. Cmd' = "req"
      BY <3>1 DEF Cmd
    <3>3. Progress'
      BY <1>2, <3>2 DEF Progress
    <3>4. Clear' /\ Bound' /\ link' = "up"
      BY <3>1, <3>2 DEF LoginWire, Clear, Bound
    <3> QED
      BY <2>3, <3>1, <3>3, <3>4, Pcs DEF LoginLists, LoginWire
  <2> QED
    BY <1>7, <2>1, <2>2, <2>3 DEF Connected
<1> QED
  BY <1>3, <1>4, <1>5, <1>6, <1>7

LEMMA ReportKeeps ==
  ASSUME TypeInv, ShownFilled, NoChats, LoginLists, Report
  PROVE  ShownFilled' /\ NoChats' /\ LoginLists' /\ LoginWire'
<1>1. /\ pc = "report" /\ pc' = (IF res = "CONNECTED" THEN "top2" ELSE "top") /\ running' = res
      /\ posted' = Append(posted, "socket") /\ UNCHANGED <<cuid, buddys, groups, view, exist>>
  BY DEF Report, IsAt, At, listVars
<1>2. (Filled' <=> Filled) /\ (Empty' <=> Empty) /\ (IF res = "CONNECTED" THEN Filled ELSE Empty)
  BY <1>1 DEF Filled, BuddysKnown, Empty, LoginLists
<1>3. ~Shows /\ exist = {} /\ \A i \in DOMAIN posted : posted[i] = "socket"
  BY <1>1, Pcs DEF ShownFilled, NoChats
<1>4. ShownFilled'
  BY <1>1, <1>2, <1>3 DEF ShownFilled, Shows, After
<1>5. NoChats'
  <2>1. posted \in Seq({"socket"} \cup Conv)
    BY DEF TypeInv, WindowTypes
  <2>2. \A i \in DOMAIN posted' : posted'[i] = "socket"
    BY <1>1, <1>3, <2>1, AppendElements
  <2> QED
    BY <1>1, <1>3, <2>2 DEF NoChats
<1>6. LoginLists' /\ LoginWire'
  BY <1>1, <1>2 DEF LoginLists, LoginWire, Before
<1> QED
  BY <1>4, <1>5, <1>6

\* A step of the login itself leaves the window alone.
LEMMA LoginStep ==
  ASSUME ShownFilled, NoChats, pc \in {"ask", "answer"}, UNCHANGED <<view, running, exist, posted>>,
         pc' \in {"ask", "answer", "report"}
  PROVE  ShownFilled' /\ NoChats'
<1>1. pc \notin After /\ pc' \notin After
  BY DEF After
<1>2. ~Shows'
  BY <1>1 DEF ShownFilled, Shows
<1> QED
  BY <1>1, <1>2 DEF ShownFilled, NoChats

LEMMA AskKeeps ==
  ASSUME TypeInv, ShownFilled, NoChats, LoginLists, LoginWire, Ask
  PROVE  ShownFilled' /\ NoChats' /\ LoginLists' /\ LoginWire'
<1>1. /\ pc = "ask" /\ pc' = "answer" /\ luid' = (IF Cmd \in {"self", "users", "groups"} THEN cuid ELSE luid)
      /\ UNCHANGED <<cuid, running, view, exist, posted, todo, res, buddys, groups, link, toCli, bound>>
  BY DEF Ask, IsAt, At, clientVars, listVars, windowVars
<1>2. luid = cuid /\ Progress /\ Clear /\ Bound /\ link = "up"
  BY <1>1 DEF LoginLists, LoginWire
<1>3. luid' = luid /\ Cmd' = Cmd
  BY <1>1, <1>2 DEF Cmd
<1>4. LoginLists'
  <2>1. Progress' <=> Progress
    BY <1>1, <1>3 DEF Progress, Empty, BuddysKnown, AskingUsers, AskingGroups, Remain
  <2> QED
    BY <1>1, <1>2, <1>3, <2>1 DEF LoginLists, Before
<1>5. Asked'
  <2>1. Cmd \in {"req", "login", "self", "users", "groups", "info", "ginfo"}
    BY <1>1, LaterTail, RequestType DEF TypeInv, ThreadTypes, LoggedIn, Later, Cmd
  <2> DEFINE subject == CASE Cmd = "login" -> cpass [] Cmd = "self" -> luid' [] OTHER -> Head(todo)[2]
             r == <<Wire(Cmd), luid', subject>>
  <2>2. (Cmd = "self" => subject = luid') /\ (Cmd \in {"info", "ginfo"} => subject = Head(todo)[2])
    OBVIOUS
  <2>3. r[1] = Wire(Cmd) /\ r[2] = luid' /\ r[3] = subject
    OBVIOUS
  <2>4. toSrv' = Append(toSrv, r)
    BY <1>2 DEF Ask
  <2> HIDE DEF subject, r
  <2>5. Len(toSrv') = 1 /\ toSrv'[1] = r
    BY <1>2, <2>4 DEF Clear
  <2>6. toCli' = <<>> /\ Bound'
    BY <1>1, <1>2, <1>3 DEF Clear, Bound
  <2> QED
    BY <1>1, <1>3, <2>2, <2>3, <2>5, <2>6 DEF Asked
<1>6. LoginWire'
  BY <1>1, <1>2, <1>5 DEF LoginWire
<1> QED
  BY <1>1, <1>4, <1>6, LoginStep

\* The answer is the one to the present request.
LEMMA ServeKeeps ==
  ASSUME TypeInv, ShownFilled, NoChats, LoginLists, LoginWire, Serve
  PROVE  ShownFilled' /\ NoChats' /\ LoginLists' /\ LoginWire'
<1>1. /\ toSrv # <<>>
      /\ UNCHANGED <<pc, todo, luid, res, cuid, buddys, groups, link, view, running, exist, posted>>
  BY DEF Serve, clientVars, listVars, threadVars, windowVars
<1>2. Cmd' = Cmd
  BY <1>1 DEF Cmd
<1>3. ShownFilled' /\ NoChats' /\ LoginLists'
  BY <1>1, <1>2 DEF ShownFilled, Shows, Filled, BuddysKnown, NoChats, LoginLists, Empty, Progress,
     AskingUsers, AskingGroups, Remain
<1>4. CASE pc # "answer"
  <2>1. pc \notin {"made", "ask"}
    BY <1>1 DEF LoginWire, Clear
  <2> QED
    BY <1>1, <1>3, <1>4, <2>1 DEF LoginWire
<1>5. CASE pc = "answer"
  <2>1. Asked /\ link = "up"
    BY <1>1, <1>5 DEF LoginWire, Answered
  <2>2. Cmd \in {"req", "login", "self", "users", "groups", "info", "ginfo"}
    BY <1>5, LaterTail, RequestType DEF TypeInv, ThreadTypes, LoggedIn, Later, Cmd
  <2> DEFINE cmd == toSrv[1][1]
             b == toSrv[1][3]
             p == <<cmd, luid, Body(cmd, luid, b)>>
  <2>3. cmd = Wire(Cmd) /\ toSrv[1][2] = luid /\ toCli = <<>> /\ Len(toSrv) = 1
    BY <2>1 DEF Asked
  <2>4. cmd # "msg" /\ (Cmd = "self" => cmd = "info") /\ (Cmd # "self" => cmd = Cmd)
    BY <2>2, <2>3 DEF Wire
  <2>5. toSrv' = <<>>
    <3>1. toSrv' = Tail(toSrv) /\ toSrv \in Seq(ToServer)
      BY DEF Serve, TypeInv, WireTypes
    <3> QED
      BY <2>3, <3>1
  <2>6. bound' = luid
    <3>1. bound' = IF bound = NoOne THEN luid ELSE bound
      BY <2>3 DEF Serve
    <3> QED
      BY <2>1, <3>1 DEF Asked, Bound
  <2>7. toCli' = Append(toCli, p)
    BY <2>3, <2>4 DEF Serve
  <2>8. Right(p[3])
    <3>1. p[3] = Body(cmd, luid, b)
      OBVIOUS
    <3>2. CASE Cmd = "login"
      <4>1. p[3] = LoginCode(luid, b)
        BY <2>4, <3>1, <3>2 DEF Body
      <4>2. p[3] = "ok" => luid \in Users
        BY <4>1 DEF LoginCode
      <4> HIDE DEF p
      <4> QED
        BY <3>2, <4>2 DEF Right
    <3>3. CASE Cmd = "users"
      <4>1. p[3] = Others(luid)
        BY <2>1, <2>4, <3>1, <3>3 DEF Body, Asked, Bound
      <4> HIDE DEF p
      <4> QED
        BY <3>3, <4>1 DEF Right
    <3>4. CASE Cmd = "groups"
      <4>1. p[3] = Groups
        BY <2>4, <3>1, <3>4 DEF Body
      <4> HIDE DEF p
      <4> QED
        BY <3>4, <4>1 DEF Right
    <3>5. CASE Cmd \in {"self", "info", "ginfo"}
      <4>1. p[3] = b
        BY <2>4, <3>1, <3>5 DEF Body
      <4> HIDE DEF p
      <4> QED
        BY <2>1, <3>5, <4>1 DEF Right, Asked
    <3>6. CASE Cmd = "req"
      <4> HIDE DEF p
      <4> QED
        BY <3>6 DEF Right
    <3> QED
      BY <2>2, <3>2, <3>3, <3>4, <3>5, <3>6
  <2>9. p[1] = Wire(Cmd) /\ p[2] = luid
    BY <2>3
  <2> HIDE DEF p
  <2>10. Len(toCli') = 1 /\ toCli'[1] = p
    BY <2>3, <2>7
  <2>11. toCli'[1][1] = Wire(Cmd) /\ toCli'[1][2] = luid /\ Right(toCli'[1][3])
    BY <2>8, <2>9, <2>10
  <2>12. Answered'
    BY <1>1, <1>2, <2>5, <2>6, <2>10, <2>11 DEF Answered, Wire, Right
  <2> QED
    BY <1>1, <1>3, <1>5, <2>1, <2>12 DEF LoginWire
<1> QED
  BY <1>4, <1>5

-----------------------------------------------------------------------------
(* What an answer adds                                                     *)

LEMMA Remainders ==
  ASSUME NEW n \in Nat, n > 0
  PROVE  \A a, b \in Nat : a < b /\ b < a + n /\ b < n + n => a % n # b % n
<1>1. \A a \in Nat : a < n => a % n = a
  OBVIOUS
<1>2. \A a \in Nat : n <= a /\ a < n + n => a % n = a - n
  OBVIOUS
<1> SUFFICES ASSUME NEW a \in Nat, NEW b \in Nat, a < b, b < a + n, b < n + n
             PROVE  a % n # b % n
  OBVIOUS
<1>3. CASE b < n
  <2>1. a % n = a /\ b % n = b
    BY <1>1, <1>3
  <2> QED
    BY <2>1
<1>4. CASE a < n /\ n <= b
  <2>1. a % n = a /\ b % n = b - n
    BY <1>1, <1>2, <1>4
  <2> QED
    BY <2>1
<1>5. CASE n <= a
  <2>1. a % n = a - n /\ b % n = b - n
    BY <1>2, <1>5
  <2> QED
    BY <2>1
<1> QED
  BY <1>3, <1>4, <1>5

\* The answer to GET_USER has every user but the one who asks, each once.
LEMMA OthersDistinct ==
  ASSUME NEW u \in Users
  PROVE  /\ Len(UserFile) \in Nat \ {0} /\ Len(Others(u)) = Len(UserFile) - 1
         /\ DOMAIN Others(u) = 1 .. Len(UserFile) - 1
         /\ \A j, k \in DOMAIN Others(u) : Others(u)[j] = Others(u)[k] => j = k
<1> DEFINE n == Len(UserFile)
           i == CHOOSE k \in 1 .. n : UserFile[k] = u
           at(k) == (i + k - 1) % n
<1>1. UserFile \in Seq(Users) /\ n \in Nat /\ DOMAIN UserFile = 1 .. n
  BY NamesAssumption
<1>2. n > 0 /\ i \in 1 .. n
  BY <1>1 DEF Users
<1>3. Others(u) = [k \in 1 .. n - 1 |-> UserFile[at(k) + 1]]
  BY DEF Others
<1>4. ASSUME NEW j \in 1 .. n - 1, NEW k \in 1 .. n - 1, j < k
      PROVE  at(j) # at(k) /\ at(j) \in 0 .. n - 1 /\ at(k) \in 0 .. n - 1
  <2> DEFINE a == i + j - 1
             b == i + k - 1
  <2>1. a \in Nat /\ b \in Nat /\ a < b /\ b < a + n /\ b < n + n
    BY <1>1, <1>2, <1>4
  <2>2. a % n # b % n
    <3> HIDE DEF n, a, b
    <3> QED
      BY <1>1, <1>2, <2>1, Remainders
  <2>3. \A m \in Nat : m % n \in 0 .. n - 1
    <3> HIDE DEF n
    <3> QED
      BY <1>1, <1>2
  <2> QED
    BY <2>1, <2>2, <2>3
<1> HIDE DEF n, i, at
<1>5. ASSUME NEW j \in 1 .. n - 1, NEW k \in 1 .. n - 1, j < k
      PROVE  Others(u)[j] # Others(u)[k]
  <2>1. at(j) + 1 \in DOMAIN UserFile /\ at(k) + 1 \in DOMAIN UserFile /\ at(j) + 1 # at(k) + 1
    BY <1>1, <1>4, <1>5
  <2>2. Others(u)[j] = UserFile[at(j) + 1] /\ Others(u)[k] = UserFile[at(k) + 1]
    BY <1>3
  <2> QED
    BY <2>1, <2>2, NamesAssumption
<1>6. DOMAIN Others(u) = 1 .. n - 1 /\ Len(Others(u)) = n - 1
  <2>1. n - 1 \in Nat /\ DOMAIN Others(u) = 1 .. n - 1
    BY <1>1, <1>2, <1>3
  <2>2. Others(u) \in Seq(Users)
    BY OthersType
  <2> QED
    BY <2>1, <2>2
<1>7. \A j, k \in DOMAIN Others(u) : Others(u)[j] = Others(u)[k] => j = k
  <2> SUFFICES ASSUME NEW j \in DOMAIN Others(u), NEW k \in DOMAIN Others(u), j # k
               PROVE  Others(u)[j] # Others(u)[k]
    OBVIOUS
  <2>1. j < k \/ k < j
    BY <1>1, <1>6
  <2> QED
    BY <1>5, <1>6, <2>1
<1> QED
  BY <1>1, <1>2, <1>6, <1>7 DEF n

\* A profile completes the first entry that is not complete.
LEMMA HalfUpdate ==
  ASSUME NEW K, NEW list \in Seq(Entry(K)), NEW ids \in Seq(K), NEW k \in DOMAIN ids, Half(list, ids, k),
         \A i, j \in DOMAIN ids : ids[i] = ids[j] => i = j
  PROVE  Half(Update(list, ids[k]), ids, k + 1)
<1> DEFINE new == Update(list, ids[k])
<1>1. /\ DOMAIN list = 1 .. Len(list) /\ DOMAIN ids = DOMAIN list /\ Len(list) \in Nat /\ k \in Nat
      /\ \A i \in DOMAIN ids : list[i] = <<ids[i], IF i < k THEN ids[i] ELSE NoOne>>
      /\ Len(list) = Len(ids)
  BY DEF Half
<1>2. \A i \in DOMAIN ids : list[i][1] = ids[i]
  BY <1>1
<1>3. \A i \in DOMAIN ids : i # k => new[i] = list[i]
  BY <1>1, <1>2 DEF Update
<1>4. new[k] = <<ids[k], ids[k]>>
  <2>1. \A j \in 1 .. k - 1 : j \in DOMAIN ids /\ j # k
    BY <1>1
  <2>2. \A j \in 1 .. k - 1 : list[j][1] # ids[k]
    BY <1>2, <2>1
  <2> QED
    BY <1>1, <1>2, <2>2 DEF Update
<1>5. ids[k] \in K
  OBVIOUS
<1>6. new \in Seq(Entry(K)) /\ DOMAIN new = DOMAIN list
  <2>1. new \in Seq(Entry(K))
    BY <1>5, UpdateType
  <2>2. DOMAIN new = DOMAIN list
    BY DEF Update
  <2> QED
    BY <2>1, <2>2
<1> HIDE DEF new
<1>7. Len(new) = Len(ids)
  BY <1>1, <1>6
<1>8. ASSUME NEW i \in DOMAIN ids
      PROVE  new[i] = <<ids[i], IF i < k + 1 THEN ids[i] ELSE NoOne>>
  <2>1. CASE i = k
    BY <1>1, <1>4, <2>1
  <2>2. CASE i # k
    <3>1. i < k + 1 <=> i < k
      BY <1>1, <2>2
    <3> QED
      BY <1>1, <1>3, <2>2, <3>1
  <2> QED
    BY <2>1, <2>2
<1> QED
  BY <1>7, <1>8 DEF Half, new

\* New entries are not complete.
LEMMA HalfNew ==
  ASSUME NEW K, NEW ids \in Seq(K)
  PROVE  Half([i \in DOMAIN ids |-> <<ids[i], NoOne>>], ids, 1)
<1>1. DOMAIN ids = 1 .. Len(ids) /\ Len(ids) \in Nat
  OBVIOUS
<1>2. \A i \in DOMAIN ids : ~(i < 1)
  BY <1>1
<1> QED
  BY <1>1, <1>2 DEF Half

\* The present request is about the first of those that remain.
LEMMA RemainNext ==
  ASSUME NEW K, NEW ids \in Seq(K), NEW k \in DOMAIN ids, NEW cmd, todo \in Seq(Requests),
         Remain(cmd, ids, k), Len(todo) >= Len(ids) - k + 1, todo' = Tail(todo)
  PROVE  Head(todo) = <<cmd, ids[k]>> /\ Remain(cmd, ids, k + 1)' /\ Len(todo') = Len(todo) - 1
<1>1. DOMAIN ids = 1 .. Len(ids) /\ Len(ids) \in Nat /\ k \in Nat /\ Len(todo) \in Nat /\ todo # <<>>
  OBVIOUS
<1>2. Head(todo) = <<cmd, ids[k]>>
  <2>1. Head(todo) = todo[1] /\ k - k + 1 = 1 /\ k >= k
    BY <1>1
  <2>2. todo[k - k + 1] = <<cmd, ids[k]>>
    BY <2>1 DEF Remain
  <2> QED
    BY <2>1, <2>2
<1>3. Len(todo') = Len(todo) - 1 /\ \A m \in 1 .. Len(todo) - 1 : todo'[m] = todo[m + 1]
  BY <1>1
<1>4. ASSUME NEW i \in DOMAIN ids, i >= k + 1
      PROVE  todo'[i - (k + 1) + 1] = <<cmd, ids[i]>>
  <2>1. i - (k + 1) + 1 = i - k /\ i - k \in 1 .. Len(todo) - 1 /\ i >= k
    BY <1>1, <1>4
  <2>2. todo'[i - k] = todo[i - k + 1] /\ todo[i - k + 1] = <<cmd, ids[i]>>
    BY <1>3, <2>1 DEF Remain
  <2> QED
    BY <2>1, <2>2
<1> QED
  BY <1>2, <1>3, <1>4 DEF Remain

-----------------------------------------------------------------------------
(* Taking an answer                                                        *)

\* What is received is the answer to the present request, alone.
LEMMA AnswerIs ==
  ASSUME TypeInv, LoginLists, LoginWire, Answer
  PROVE  /\ \E p \in ToClient : p[1] = Wire(Cmd) /\ Right(p[3]) /\ Accept(p[3])
         /\ pc = "answer" /\ luid = cuid /\ Progress /\ link = "up" /\ bound = luid /\ Clear'
         /\ UNCHANGED <<luid, cuid, link, bound, view, running, exist, posted>>
         /\ Cmd \in {"req", "login", "self", "users", "groups", "info", "ginfo"}
<1>1. /\ pc = "answer" /\ luid = cuid /\ Progress /\ link = "up"
      /\ UNCHANGED <<luid, cuid, link, bound, toSrv, view, running, exist, posted>>
  BY DEF Answer, At, LoginLists, LoginWire, clientVars, windowVars
<1>2. toCli # <<>>
  <2>1. toCli \in Seq(ToClient)
    BY DEF TypeInv, WireTypes
  <2>2. \A n \in 1 .. Len(toCli) : toCli # <<>>
    BY <2>1
  <2>3. ~AtEnd
    BY <1>1 DEF AtEnd
  <2> QED
    BY <2>2, <2>3 DEF Answer
<1>3. Answered
  BY <1>1, <1>2 DEF LoginWire, Asked
<1>4. /\ toCli \in Seq(ToClient) /\ Len(toCli) = 1 /\ toSrv = <<>> /\ bound = luid
      /\ toCli[1][1] = Wire(Cmd) /\ toCli[1][2] = luid /\ Right(toCli[1][3])
  BY <1>3 DEF Answered, TypeInv, WireTypes
<1>5. Head(toCli) = toCli[1] /\ toCli[1] \in ToClient
  <2>1. toCli \in Seq(ToClient) /\ toCli # <<>>
    BY <1>2, <1>4
  <2> QED
    BY <2>1, TailElements
<1>6. Receives(1) /\ Accept(toCli[1][3])
  <2>1. \A n \in 1 .. Len(toCli) : n = 1
    BY <1>4
  <2>2. ~AtEnd
    BY <1>1 DEF AtEnd
  <2> QED
    BY <1>4, <1>5, <2>1, <2>2 DEF Answer
<1>7. toCli' = <<>>
  BY <1>4, <1>6 DEF Receives
<1>8. Clear'
  BY <1>1, <1>4, <1>7 DEF Clear
<1>9. Cmd \in {"req", "login", "self", "users", "groups", "info", "ginfo"}
  BY <1>1, LaterTail, RequestType DEF TypeInv, ThreadTypes, LoggedIn, Later, Cmd
<1> QED
  BY <1>1, <1>4, <1>5, <1>6, <1>8, <1>9

\* The next request is to be made.
LEMMA Continues ==
  ASSUME pc' = "ask", Progress', Cmd' # "req", Clear', luid = cuid, link = "up", bound = luid,
         UNCHANGED <<luid, cuid, link, bound>>
  PROVE  LoginLists' /\ LoginWire'
<1>1. pc' \notin Before
  BY DEF Before
<1> QED
  BY <1>1 DEF LoginLists, LoginWire, Bound

\* There is a result.
LEMMA Finishes ==
  ASSUME pc' = "report", IF res' = "CONNECTED" THEN Filled' ELSE Empty'
  PROVE  LoginLists' /\ LoginWire'
<1>1. pc' \notin Before
  BY DEF Before
<1> QED
  BY <1>1 DEF LoginLists, LoginWire

LEMMA OneRequest == \A cmd : <<<<cmd, NoOne>>>> # <<>> /\ Head(<<<<cmd, NoOne>>>>)[1] = cmd
OBVIOUS

\* Before the list of users nothing is known.
LEMMA EarlyAnswer ==
  ASSUME TypeInv, LoginLists, LoginWire, Answer, Cmd \in {"req", "login", "self"}
  PROVE  LoginLists' /\ LoginWire'
<1>1. PICK p \in ToClient : p[1] = Wire(Cmd) /\ Right(p[3]) /\ Accept(p[3])
  BY AnswerIs
<1>2. /\ luid = cuid /\ Progress /\ link = "up" /\ bound = luid /\ Clear'
      /\ UNCHANGED <<luid, cuid, link, bound>>
  BY AnswerIs
<1>3. UNCHANGED <<buddys, groups>> /\ Empty /\ Empty'
  <2>1. UNCHANGED listVars
    BY <1>1 DEF Accept
  <2> QED
    BY <1>2, <2>1 DEF Progress, Empty, listVars
<1>4. ASSUME NEW cmd \in {"login", "self", "users"}, GoOn(<<<<cmd, NoOne>>>>), cmd # "login" => cuid \in Users
      PROVE  LoginLists' /\ LoginWire'
  <2>1. pc' = "ask" /\ Cmd' = cmd
    <3>1. pc' = "ask" /\ todo' = <<<<cmd, NoOne>>>>
      BY <1>4, OneRequest DEF GoOn
    <3> QED
      BY <3>1, OneRequest DEF Cmd
  <2>2. Progress'
    BY <1>2, <1>3, <1>4, <2>1 DEF Progress
  <2> QED
    BY <1>2, <1>4, <2>1, <2>2, Continues
<1>5. CASE Cmd = "req"
  <2>1. GoOn(<<<<"login", NoOne>>>>)
    BY <1>1, <1>5 DEF Accept
  <2> QED
    BY <1>4, <2>1
<1>6. CASE Cmd = "login"
  <2>1. Decide(p[3]) /\ p[3] \in Codes
    BY <1>1, <1>6, PacketType DEF Accept, Wire
  <2>2. CASE p[3] = "ok"
    <3>1. GoOn(<<<<"self", NoOne>>>>)
      BY <2>1, <2>2 DEF Decide
    <3>2. cuid \in Users
      BY <1>1, <1>2, <1>6, <2>2 DEF Right
    <3> QED
      BY <1>4, <3>1, <3>2
  <2>3. CASE p[3] # "ok"
    <3>1. pc' = "report" /\ res' # "CONNECTED"
      BY <2>1, <2>3 DEF Decide, Ends, Codes
    <3> QED
      BY <1>3, <3>1, Finishes
  <2> QED
    BY <2>2, <2>3
<1>7. CASE Cmd = "self"
  <2>1. cuid \in Users /\ cuid # NoOne
    BY <1>2, <1>7, NamesAssumption DEF Progress, Conv
  <2>2. p[3] # NoOne
    BY <1>1, <1>2, <1>7, <2>1 DEF Right
  <2>3. GoOn(<<<<"users", NoOne>>>>)
    BY <1>1, <1>7, <2>2 DEF Accept
  <2> QED
    BY <1>4, <2>1, <2>3
<1> QED
  BY <1>5, <1>6, <1>7

LEMMA ConcatParts ==
  ASSUME NEW S, NEW s \in Seq(S), NEW r \in Seq(S)
  PROVE  /\ s \o r \in Seq(S) /\ Len(s \o r) = Len(s) + Len(r) /\ Len(s) \in Nat
         /\ \A i \in 1 .. Len(s) : (s \o r)[i] = s[i]
         /\ Len(r) > 0 => (s \o r)[Len(s) + 1] = r[1]
<1>1. s \o r \in Seq(S) /\ Len(s \o r) = Len(s) + Len(r) /\ Len(s) \in Nat /\ Len(r) \in Nat
  OBVIOUS
<1>2. \A i \in 1 .. Len(s) + Len(r) : (s \o r)[i] = IF i <= Len(s) THEN s[i] ELSE r[i - Len(s)]
  OBVIOUS
<1> DEFINE n == Len(s)
           m == Len(r)
           t == s \o r
<1>3. n \in Nat /\ m \in Nat /\ \A i \in 1 .. n + m : t[i] = IF i <= n THEN s[i] ELSE r[i - n]
  BY <1>1, <1>2
<1> HIDE DEF n, m, t
<1>4. m > 0 => t[n + 1] = r[n + 1 - n] /\ n + 1 - n = 1
  BY <1>3
<1>5. \A i \in 1 .. n : t[i] = s[i]
  BY <1>3
<1> QED
  BY <1>1, <1>4, <1>5 DEF n, m, t

LEMMA ConcatOne ==
  ASSUME NEW S, NEW s \in Seq(S), NEW r \in Seq(S), Len(r) = 1
  PROVE  /\ s \o r \in Seq(S) /\ Len(s \o r) = Len(s) + 1 /\ (s \o r)[Len(s) + 1] = r[1] /\ s \o r # <<>>
         /\ \A i \in 1 .. Len(s) : (s \o r)[i] = s[i]
<1> DEFINE t == s \o r
           m == Len(r)
<1>1. /\ t \in Seq(S) /\ Len(t) = Len(s) + m /\ Len(s) \in Nat
      /\ \A i \in 1 .. Len(s) : t[i] = s[i]
      /\ m > 0 => t[Len(s) + 1] = r[1]
  BY ConcatParts
<1>2. m = 1
  OBVIOUS
<1> HIDE DEF t, m
<1>3. t # <<>>
  BY <1>1, <1>2
<1> QED
  BY <1>1, <1>2, <1>3 DEF t

\* The list of users is known without profiles, and their profiles are asked for.
LEMMA UsersAnswer ==
  ASSUME TypeInv, LoginLists, LoginWire, Answer, Cmd = "users"
  PROVE  LoginLists' /\ LoginWire'
<1> DEFINE ids == Others(cuid)
           new == [i \in DOMAIN ids |-> <<ids[i], NoOne>>]
           g == <<<<"groups", NoOne>>>>
<1>1. PICK p \in ToClient : p[1] = Wire(Cmd) /\ Right(p[3]) /\ Accept(p[3])
  BY AnswerIs
<1>2. /\ luid = cuid /\ Progress /\ link = "up" /\ bound = luid /\ Clear'
      /\ UNCHANGED <<luid, cuid, link, bound>>
  BY AnswerIs
<1>3. p[3] = ids /\ cuid \in Users /\ buddys = <<>> /\ groups = <<>>
  BY <1>1, <1>2 DEF Right, Progress, Empty
<1>4. /\ buddys' = AddBuddies(ids) /\ groups' = <<>>
      /\ GoOn((IF ids = <<>> THEN <<>> ELSE Profiles(buddys')) \o g)
  BY <1>1, <1>3 DEF Accept
<1>5. /\ ids \in Seq(Users) /\ DOMAIN ids = 1 .. Len(UserFile) - 1 /\ Len(ids) = Len(UserFile) - 1
      /\ Len(UserFile) \in Nat \ {0}
  BY <1>3, OthersType, OthersDistinct
<1> HIDE DEF ids
<1>6. buddys' = new
  <2>1. new \in Seq(Entry(Users))
    <3>1. \A i \in DOMAIN ids : <<ids[i], NoOne>> \in Entry(Users)
      BY <1>5 DEF Entry
    <3> QED
      BY <1>5, <3>1
  <2>2. buddys' = <<>> \o new
    BY <1>3, <1>4 DEF AddBuddies
  <2> HIDE DEF new
  <2> QED
    BY <2>1, <2>2
<1>7. Half(buddys', ids, 1) /\ Len(buddys') = Len(ids) /\ \A i \in DOMAIN ids : buddys'[i][1] = ids[i]
  <2>1. Half(new, ids, 1)
    BY <1>5, HalfNew
  <2> QED
    BY <1>6, <2>1 DEF Half
<1>8. /\ Len(todo') = Len(UserFile) /\ todo'[Len(UserFile)] = <<"groups", NoOne>> /\ todo' # <<>>
      /\ \A i \in DOMAIN ids : todo'[i] = <<"info", ids[i]>>
      /\ todo' \in Seq(Requests)
      /\ pc' = "ask"
  <2>0. g \in Seq(Requests) /\ Len(g) = 1 /\ g[1] = <<"groups", NoOne>>
    <3>1. <<"groups", NoOne>> \in Requests
      BY DEF Requests
    <3> QED
      BY <3>1
  <2>1. CASE ids = <<>>
    <3>1. Len(UserFile) = 1 /\ \A i \in DOMAIN ids : FALSE
      BY <1>5, <2>1
    <3>2. GoOn(g)
      <4>1. <<>> \o g = g
        BY <2>0
      <4> QED
        BY <1>4, <2>1, <4>1
    <3>3. todo' = g /\ pc' = "ask"
      BY <2>0, <3>2 DEF GoOn
    <3> HIDE DEF g
    <3> QED
      BY <2>0, <3>1, <3>3
  <2>2. CASE ids # <<>>
    <3> DEFINE q == Profiles(buddys')
    <3>1. GoOn(q \o g)
      BY <1>4, <2>2
    <3>2. q = [i \in 1 .. Len(ids) |-> <<"info", ids[i]>>]
      BY <1>5, <1>7 DEF Profiles
    <3>3. \A i \in 1 .. Len(ids) : <<"info", ids[i]>> \in Requests
      BY <1>5 DEF Requests
    <3>4. q \in Seq(Requests) /\ Len(q) = Len(ids) /\ \A i \in DOMAIN ids : q[i] = <<"info", ids[i]>>
      BY <1>5, <3>2, <3>3
    <3> HIDE DEF q, g
    <3>5. /\ q \o g \in Seq(Requests) /\ Len(q \o g) = Len(UserFile) /\ q \o g # <<>>
          /\ (q \o g)[Len(UserFile)] = g[1]
          /\ \A i \in DOMAIN ids : (q \o g)[i] = q[i]
      <4>1. /\ q \o g \in Seq(Requests) /\ Len(q \o g) = Len(q) + 1 /\ (q \o g)[Len(q) + 1] = g[1] /\ q \o g # <<>>
            /\ \A i \in 1 .. Len(q) : (q \o g)[i] = q[i]
        BY <2>0, <3>4, ConcatOne
      <4>2. Len(q) + 1 = Len(UserFile) /\ DOMAIN ids = 1 .. Len(q)
        BY <1>5, <3>4
      <4> QED
        BY <4>1, <4>2
    <3>6. todo' = q \o g /\ pc' = "ask"
      BY <3>1, <3>5 DEF GoOn
    <3> QED
      BY <2>0, <3>4, <3>5, <3>6
  <2> QED
    BY <2>1, <2>2
<1>9. Cmd' \in {"info", "groups"}
  <2>1. Head(todo') = todo'[1]
    BY <1>8
  <2>2. CASE 1 \in DOMAIN ids
    <3>1. todo'[1] = <<"info", ids[1]>>
      BY <1>8, <2>2
    <3> QED
      BY <2>1, <3>1 DEF Cmd
  <2>3. CASE Len(UserFile) = 1
    <3>1. todo'[1] = <<"groups", NoOne>>
      BY <1>8, <2>3
    <3> QED
      BY <2>1, <3>1 DEF Cmd
  <2> QED
    BY <1>5, <2>2, <2>3
<1>10. AskingUsers(1)'
  <2>1. Remain("info", ids, 1)'
    <3>1. \A i \in DOMAIN ids : i - 1 + 1 = i
      BY <1>5
    <3> QED
      BY <1>2, <1>8, <3>1 DEF Remain, ids
  <2> QED
    BY <1>2, <1>5, <1>7, <1>8, <2>1 DEF AskingUsers, ids
<1>11. Progress'
  BY <1>2, <1>3, <1>4, <1>5, <1>9, <1>10 DEF Progress
<1> QED
  BY <1>2, <1>8, <1>9, <1>11, Continues

\* A profile completes the entry of the buddy it was asked for.
LEMMA InfoAnswer ==
  ASSUME TypeInv, LoginLists, LoginWire, Answer, Cmd = "info"
  PROVE  LoginLists' /\ LoginWire'
<1>0. PICK ids : ids = Others(cuid)
  OBVIOUS
<1>1. PICK p \in ToClient : p[1] = Wire(Cmd) /\ Right(p[3]) /\ Accept(p[3])
  BY AnswerIs
<1>2. /\ luid = cuid /\ Progress /\ link = "up" /\ bound = luid /\ Clear' /\ pc = "answer"
      /\ UNCHANGED <<luid, cuid, link, bound>>
  BY AnswerIs
<1>3. PICK k \in 1 .. Len(UserFile) : AskingUsers(k)
  BY <1>2 DEF Progress
<1>4. cuid \in Users /\ groups = <<>>
  BY <1>2 DEF Progress
<1>5. /\ ids \in Seq(Users) /\ DOMAIN ids = 1 .. Len(UserFile) - 1 /\ Len(ids) = Len(UserFile) - 1
      /\ Len(UserFile) \in Nat \ {0} /\ \A i, j \in DOMAIN ids : ids[i] = ids[j] => i = j
  BY <1>0, <1>4, OthersType, OthersDistinct
<1>6. todo \in Seq(Requests) /\ todo # <<>> /\ Head(todo) = todo[1]
  BY <1>2 DEF TypeInv, ThreadTypes
<1>7. /\ Half(buddys, ids, k) /\ Remain("info", ids, k) /\ Len(todo) = Len(UserFile) - k + 1
      /\ todo[Len(todo)] = <<"groups", NoOne>>
  BY <1>0, <1>3 DEF AskingUsers
<1>8. k \in DOMAIN ids
  <2>1. k # Len(UserFile)
    <3>1. ASSUME k = Len(UserFile)
          PROVE  FALSE
      <4>1. Len(todo) = 1
        BY <1>5, <1>7, <3>1
      <4>2. Head(todo) = <<"groups", NoOne>>
        <5>1. todo[1] = <<"groups", NoOne>>
          BY <1>7, <4>1
        <5> QED
          BY <1>6, <5>1
      <4> QED
        BY <4>2 DEF Cmd
    <3> QED
      BY <3>1
  <2> QED
    BY <1>5, <2>1
<1>9. Len(todo) >= Len(ids) - k + 1 /\ Len(todo) - 1 = Len(UserFile) - (k + 1) + 1 /\ Len(todo) - 1 > 0
      /\ k + 1 \in 1 .. Len(UserFile) /\ k + 1 > k
      /\ k \in Nat
  BY <1>5, <1>7, <1>8
<1>10. p[3] = Head(todo)[2]
  BY <1>1 DEF Right
<1>11. GoOn(Tail(todo)) /\ groups' = <<>> /\ buddys' = (IF p[3] = NoOne THEN buddys ELSE Update(buddys, p[3]))
  BY <1>1, <1>4 DEF Accept
<1>12. /\ todo' = Tail(todo) /\ p[3] = ids[k] /\ Remain("info", ids, k + 1)' /\ Len(todo') = Len(todo) - 1
       /\ ids[k] \in Users /\ ids[k] # NoOne
  <2>1. todo' = Tail(todo)
    BY <1>11 DEF GoOn
  <2>2. ids[k] \in Users /\ ids[k] # NoOne
    BY <1>5, <1>8, NamesAssumption DEF Conv
  <2>3. Head(todo) = <<"info", ids[k]>> /\ Remain("info", ids, k + 1)' /\ Len(todo') = Len(todo) - 1
    BY <1>5, <1>6, <1>7, <1>8, <1>9, <2>1, RemainNext
  <2> QED
    BY <1>10, <2>1, <2>2, <2>3
<1>13. /\ todo' \in Seq(Requests) /\ todo' # <<>> /\ Head(todo') = todo'[1]
       /\ \A i \in DOMAIN todo' : todo'[i] = todo[i + 1]
       /\ Len(todo) \in Nat /\ DOMAIN todo' = 1 .. Len(todo')
  <2>1. todo' \in Seq(Requests) /\ \A i \in DOMAIN todo' : todo'[i] = todo[i + 1]
    BY <1>6, <1>12, TailElements
  <2>2. Len(todo') > 0
    BY <1>9, <1>12
  <2>3. todo' # <<>>
    BY <2>2
  <2> QED
    BY <1>6, <2>1, <2>3
<1>14. pc' = "ask"
  BY <1>11, <1>12, <1>13 DEF GoOn
<1>15. Half(buddys', ids, k + 1)
  <2>1. buddys' = Update(buddys, ids[k]) /\ buddys \in Seq(Entry(Users))
    BY <1>11, <1>12 DEF TypeInv, ListTypes
  <2> QED
    BY <1>5, <1>7, <1>8, <2>1, HalfUpdate
<1>16. todo'[Len(todo')] = <<"groups", NoOne>>
  <2>1. Len(todo') \in DOMAIN todo' /\ Len(todo') + 1 = Len(todo)
    BY <1>9, <1>12, <1>13
  <2> QED
    BY <1>7, <1>13, <2>1
<1>17. AskingUsers(k + 1)'
  <2>1. ids' = ids /\ ids = Others(cuid) /\ Others(cuid)' = Others(cuid)
    BY <1>0, <1>2
  <2> QED
    BY <1>9, <1>12, <1>15, <1>16, <2>1 DEF AskingUsers, Remain
<1>18. Cmd' \in {"info", "groups"}
  <2>1. CASE k + 1 \in DOMAIN ids
    <3>1. PICK m : m = k + 1
      OBVIOUS
    <3>2. m - m + 1 = 1 /\ m >= m /\ m \in DOMAIN ids
      BY <1>9, <2>1, <3>1
    <3>3. todo'[m - m + 1] = <<"info", ids[m]>>
      <4>1. Remain("info", ids, m)'
        BY <1>12, <3>1
      <4> QED
        BY <3>2, <4>1 DEF Remain
    <3>4. Head(todo') = <<"info", ids[m]>>
      BY <1>13, <3>2, <3>3
    <3> QED
      BY <3>4 DEF Cmd
  <2>2. CASE k + 1 = Len(UserFile)
    <3>1. Len(todo) - 1 = 1
      <4>1. Len(UserFile) - (k + 1) = 0
        BY <1>9, <2>2
      <4>2. Len(todo) - 1 = Len(UserFile) - (k + 1) + 1
        BY <1>9
      <4>3. 0 + 1 = 1
        OBVIOUS
      <4> QED
        BY <4>1, <4>2, <4>3, Zenon
    <3>2. Len(todo') = 1
      BY <1>12, <3>1
    <3>3. Head(todo') = <<"groups", NoOne>>
      BY <1>13, <1>16, <3>2
    <3> QED
      BY <3>3 DEF Cmd
  <2> QED
    BY <1>5, <1>9, <2>1, <2>2
<1>19. Progress'
  BY <1>2, <1>4, <1>9, <1>11, <1>17, <1>18 DEF Progress
<1> QED
  BY <1>2, <1>14, <1>18, <1>19, Continues

\* With every profile, the groups are known without members.
LEMMA GroupsAnswer ==
  ASSUME TypeInv, LoginLists, LoginWire, Answer, Cmd = "groups"
  PROVE  LoginLists' /\ LoginWire'
<1> DEFINE new == [i \in DOMAIN Groups |-> <<Groups[i], NoOne>>]
           q == [i \in DOMAIN Groups |-> <<"ginfo", Groups[i]>>]
<1>1. PICK p \in ToClient : p[1] = Wire(Cmd) /\ Right(p[3]) /\ Accept(p[3])
  BY AnswerIs
<1>2. /\ luid = cuid /\ Progress /\ link = "up" /\ bound = luid /\ Clear' /\ pc = "answer"
      /\ UNCHANGED <<luid, cuid, link, bound>>
  BY AnswerIs
<1>3. PICK k \in 1 .. Len(UserFile) : AskingUsers(k)
  BY <1>2 DEF Progress
<1>4. cuid \in Users
  BY <1>2 DEF Progress
<1>5. todo \in Seq(Requests) /\ todo # <<>> /\ Head(todo) = todo[1]
  BY <1>2 DEF TypeInv, ThreadTypes
<1>6. k = Len(UserFile)
  <2>1. ASSUME k # Len(UserFile)
        PROVE  FALSE
    <3>1. DOMAIN Others(cuid) = 1 .. Len(UserFile) - 1 /\ Len(UserFile) \in Nat
      BY <1>4, OthersDistinct
    <3>2. k \in DOMAIN Others(cuid) /\ k - k + 1 = 1 /\ k >= k
      BY <2>1, <3>1
    <3>3. todo[k - k + 1] = <<"info", Others(cuid)[k]>>
      BY <1>3, <3>2 DEF AskingUsers, Remain
    <3> QED
      BY <1>5, <3>2, <3>3 DEF Cmd
  <2> QED
    BY <2>1
<1>7. BuddysKnown
  BY <1>3, <1>4, <1>6 DEF AskingUsers, BuddysKnown
<1>8. p[3] = Groups
  BY <1>1 DEF Right
<1>9. groups' = new /\ GoOn(q) /\ UNCHANGED buddys
  BY <1>1, <1>8 DEF Accept
<1>10. BuddysKnown'
  BY <1>2, <1>7, <1>9 DEF BuddysKnown
<1>11. Groups \in Seq(Gids) /\ Len(Groups) \in Nat /\ DOMAIN Groups = 1 .. Len(Groups)
  BY NamesAssumption
<1>12. Half(groups', Groups, 1)
  BY <1>9, <1>11, HalfNew
<1>13. q \in Seq(Requests) /\ Len(q) = Len(Groups) /\ \A i \in DOMAIN Groups : q[i] = <<"ginfo", Groups[i]>>
  <2>1. \A i \in DOMAIN Groups : <<"ginfo", Groups[i]>> \in Requests
    BY <1>11 DEF Requests
  <2> QED
    BY <1>11, <2>1
<1> HIDE DEF q, new
<1>14. CASE Groups = <<>>
  <2>1. q = <<>> /\ Len(Groups) = 0
    BY <1>11, <1>13, <1>14
  <2>2. pc' = "report" /\ res' = "CONNECTED"
    BY <1>9, <2>1 DEF GoOn
  <2>3. Half(groups', Groups, Len(Groups) + 1)
    BY <1>12, <2>1
  <2> QED
    BY <1>10, <2>2, <2>3, Finishes DEF Filled
<1>15. CASE Groups # <<>>
  <2>1. Len(Groups) > 0 /\ q # <<>> /\ 1 \in DOMAIN Groups
    BY <1>11, <1>13, <1>15
  <2>2. pc' = "ask" /\ todo' = q
    BY <1>9, <2>1 DEF GoOn
  <2>3. Head(q) = q[1] /\ q[1] = <<"ginfo", Groups[1]>>
    BY <1>13, <2>1
  <2>4. Cmd' = "ginfo"
    BY <2>2, <2>3 DEF Cmd
  <2>5. AskingGroups(1)'
    <3>1. \A i \in DOMAIN Groups : i - 1 + 1 = i
      BY <1>11
    <3> QED
      BY <1>11, <1>12, <1>13, <2>2, <3>1 DEF AskingGroups, Remain
  <2>6. 1 \in 1 .. Len(Groups)
    BY <1>11, <2>1
  <2>7. Progress'
    BY <1>2, <1>4, <1>10, <2>4, <2>5, <2>6 DEF Progress
  <2> QED
    BY <1>2, <2>2, <2>4, <2>7, Continues
<1> QED
  BY <1>14, <1>15


LEMMA Counting ==
  \A a, n, k \in Nat : a - 1 = n - (k + 1) + 1 => (a - 1 = 0 => k + 1 = n + 1) /\ (a - 1 > 0 => k + 1 \in 1 .. n)
OBVIOUS

\* The members complete the entry of the group they were asked for.
LEMMA GinfoAnswer ==
  ASSUME TypeInv, LoginLists, LoginWire, Answer, Cmd = "ginfo"
  PROVE  LoginLists' /\ LoginWire'
<1>1. PICK p \in ToClient : p[1] = Wire(Cmd) /\ Right(p[3]) /\ Accept(p[3])
  BY AnswerIs
<1>2. /\ luid = cuid /\ Progress /\ link = "up" /\ bound = luid /\ Clear' /\ pc = "answer"
      /\ UNCHANGED <<luid, cuid, link, bound>>
  BY AnswerIs
<1>3. PICK k \in 1 .. Len(Groups) : AskingGroups(k)
  BY <1>2 DEF Progress
<1>4. BuddysKnown /\ cuid \in Users
  BY <1>2 DEF Progress
<1>5. /\ Groups \in Seq(Gids) /\ Len(Groups) \in Nat /\ DOMAIN Groups = 1 .. Len(Groups)
      /\ \A i, j \in DOMAIN Groups : Groups[i] = Groups[j] => i = j
  BY NamesAssumption
<1>6. todo \in Seq(Requests) /\ todo # <<>> /\ groups \in Seq(Entry(Gids))
  BY <1>2 DEF TypeInv, ThreadTypes, ListTypes
<1>7. Half(groups, Groups, k) /\ Remain("ginfo", Groups, k) /\ Len(todo) = Len(Groups) - k + 1
  BY <1>3 DEF AskingGroups
<1>8. /\ k \in Nat /\ k \in DOMAIN Groups /\ Len(todo) >= Len(Groups) - k + 1
      /\ Len(todo) - 1 = Len(Groups) - (k + 1) + 1
  BY <1>5, <1>7
<1>9. p[3] = Head(todo)[2]
  BY <1>1 DEF Right
<1>10. GoOn(Tail(todo)) /\ groups' = Update(groups, p[3]) /\ UNCHANGED buddys
  BY <1>1, <1>9 DEF Accept
<1>11. /\ todo' = Tail(todo) /\ Head(todo) = <<"ginfo", Groups[k]>>
       /\ Remain("ginfo", Groups, k + 1)' /\ Len(todo') = Len(todo) - 1
  <2>1. todo' = Tail(todo)
    BY <1>10 DEF GoOn
  <2> QED
    BY <1>5, <1>6, <1>7, <1>8, <2>1, RemainNext
<1>12. Half(groups', Groups, k + 1)
  <2>1. groups' = Update(groups, Groups[k])
    BY <1>9, <1>10, <1>11
  <2> QED
    BY <1>5, <1>6, <1>7, <1>8, <2>1, HalfUpdate
<1>13. BuddysKnown'
  BY <1>2, <1>4, <1>10 DEF BuddysKnown
<1>14. todo' \in Seq(Requests)
  BY <1>6, <1>11, TailElements
<1>15. CASE todo' = <<>>
  <2>1. pc' = "report" /\ res' = "CONNECTED"
    BY <1>10, <1>11, <1>15 DEF GoOn
  <2>2. Len(todo) - 1 = 0
    BY <1>11, <1>15
  <2>3. k + 1 = Len(Groups) + 1
    <3>1. Len(todo) \in Nat
      BY <1>6
    <3> QED
      BY <1>5, <1>8, <2>2, <3>1, Counting
  <2>4. Half(groups', Groups, Len(Groups) + 1)
    BY <1>12, <2>3
  <2> QED
    BY <1>13, <2>1, <2>4, Finishes DEF Filled
<1>16. CASE todo' # <<>>
  <2>1. pc' = "ask"
    BY <1>10, <1>11, <1>16 DEF GoOn
  <2>2. Len(todo') \in Nat /\ Len(todo') # 0
    BY <1>14, <1>16
  <2>3. PICK m : m = k + 1
    OBVIOUS
  <2>4. m \in 1 .. Len(Groups) /\ m \in DOMAIN Groups /\ m >= m /\ m - m + 1 = 1
    <3>1. Len(todo) \in Nat /\ Len(todo) - 1 > 0
      BY <1>6, <1>11, <2>2
    <3>2. k + 1 \in 1 .. Len(Groups)
      BY <1>5, <1>8, <3>1, Counting
    <3> QED
      BY <1>5, <2>3, <3>2
  <2>5. AskingGroups(m)'
    BY <1>8, <1>11, <1>12, <2>3 DEF AskingGroups
  <2>6. Cmd' = "ginfo"
    <3>1. todo'[m - m + 1] = <<"ginfo", Groups[m]>>
      <4>1. Remain("ginfo", Groups, m)'
        BY <1>11, <2>3
      <4> QED
        BY <2>4, <4>1 DEF Remain
    <3>2. Head(todo') = todo'[1]
      BY <1>14, <1>16
    <3>3. Head(todo') = <<"ginfo", Groups[m]>>
      BY <2>4, <3>1, <3>2
    <3> QED
      BY <3>3 DEF Cmd
  <2>7. Progress'
    BY <1>2, <1>4, <1>13, <2>4, <2>5, <2>6 DEF Progress
  <2> QED
    BY <1>2, <2>1, <2>6, <2>7, Continues
<1> QED
  BY <1>15, <1>16

LEMMA AnswerKeeps ==
  ASSUME TypeInv, ShownFilled, NoChats, LoginLists, LoginWire, Answer
  PROVE  ShownFilled' /\ NoChats' /\ LoginLists' /\ LoginWire'
<1>1. /\ pc = "answer" /\ UNCHANGED <<view, running, exist, posted>>
      /\ Cmd \in {"req", "login", "self", "users", "groups", "info", "ginfo"}
  BY AnswerIs
<1>2. LoginLists' /\ LoginWire'
  BY <1>1, EarlyAnswer, UsersAnswer, InfoAnswer, GroupsAnswer, GinfoAnswer
<1>3. pc' \in {"ask", "report"}
  <2>1. pc' \in {"ask", "report", "silent"}
    <3>1. Goes
      BY AnswerStep
    <3> QED
      BY <3>1 DEF Goes
  <2> QED
    BY <1>2, <2>1 DEF LoginLists
<1> QED
  BY <1>1, <1>2, <1>3, LoginStep

LEMMA StepLoginInv == TypeInv /\ LoginInv /\ [Next]_vars => LoginInv'
<1> SUFFICES ASSUME TypeInv, LoginInv, [Next]_vars, Quiet'
             PROVE  ShownFilled' /\ NoChats' /\ LoginLists' /\ LoginWire'
  BY DEF LoginInv
<1>1. ShownFilled /\ NoChats /\ LoginLists /\ LoginWire
  BY QuietSteps DEF LoginInv
<1>2. ~Silent
  BY <1>1 DEF Silent, IsAt, At, LoginLists
<1> QED
  BY <1>1, <1>2, QuietSteps, AsideKeeps, OnwardKeeps, SendMsgKeeps, StartKeeps, ReportKeeps, AskKeeps,
     ServeKeeps, AnswerKeeps

LEMMA HalfDone ==
  ASSUME NEW list, NEW ids, NEW k, Half(list, ids, k), \A i \in DOMAIN ids : i < k,
         list \in Seq(Entry(Conv)), NEW n \in Nat, DOMAIN ids = 1 .. n, Len(ids) = n
  PROVE  list = [i \in 1 .. n |-> <<ids[i], ids[i]>>]
<1>1. DOMAIN list = 1 .. n /\ list = [i \in DOMAIN list |-> list[i]]
  BY DEF Half
<1>2. \A i \in 1 .. n : list[i] = <<ids[i], ids[i]>>
  BY DEF Half
<1> QED
  BY <1>1, <1>2

\* When nothing came late and nothing came in between, the lists that the
\* window shows are complete: every other user once, with his profile, and
\* every group with its members.
THEOREM LoginCompleteCorrect == Spec => []LoginComplete
<1>1. Init => LoginInv
  BY InitLoginInv
<1>2. TypeInv /\ LoginInv /\ [Next]_vars => LoginInv'
  BY StepLoginInv
<1>3. TypeInv /\ LoginInv => LoginComplete
  <2> SUFFICES ASSUME TypeInv, LoginInv, view = "main", Quiet
               PROVE  /\ buddys = [i \in 1 .. Len(UserFile) - 1 |-> <<Others(cuid)[i], Others(cuid)[i]>>]
                      /\ groups = [i \in DOMAIN Groups |-> <<Groups[i], Groups[i]>>]
    BY DEF LoginComplete, Quiet
  <2>1. BuddysKnown /\ Half(groups, Groups, Len(Groups) + 1)
    BY DEF LoginInv, ShownFilled, Shows, Filled
  <2>2. /\ Len(UserFile) - 1 \in Nat /\ DOMAIN Others(cuid) = 1 .. Len(UserFile) - 1
        /\ Len(Others(cuid)) = Len(UserFile) - 1 /\ \A i \in DOMAIN Others(cuid) : i < Len(UserFile)
        /\ Half(buddys, Others(cuid), Len(UserFile))
    BY <2>1, OthersDistinct DEF BuddysKnown
  <2>3. buddys \in Seq(Entry(Conv)) /\ groups \in Seq(Entry(Conv))
    <3>1. Entry(Users) \subseteq Entry(Conv) /\ Entry(Gids) \subseteq Entry(Conv)
      BY DEF Entry, Conv
    <3>2. buddys \in Seq(Entry(Users)) /\ groups \in Seq(Entry(Gids))
      BY DEF TypeInv, ListTypes
    <3> QED
      BY <3>1, <3>2
  <2>4. Groups \in Seq(Gids) /\ Len(Groups) \in Nat /\ DOMAIN Groups = 1 .. Len(Groups)
        /\ \A i \in DOMAIN Groups : i < Len(Groups) + 1
    BY NamesAssumption
  <2>5. buddys = [i \in 1 .. Len(UserFile) - 1 |-> <<Others(cuid)[i], Others(cuid)[i]>>]
    BY <2>2, <2>3, HalfDone
  <2>6. groups = [i \in DOMAIN Groups |-> <<Groups[i], Groups[i]>>]
    BY <2>1, <2>3, <2>4, HalfDone
  <2> QED
    BY <2>5, <2>6
<1> QED
  BY <1>1, <1>2, <1>3, Typed, PTL DEF Spec

=============================================================================
