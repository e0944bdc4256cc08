----------------------------- MODULE StkServerPy -----------------------------
(***************************************************************************)
(* The Python server (stkserver/python): stk_main() with the window, its    *)
(* update thread, the accept loop stk_socket(), and one stk_socket_thread() *)
(* for each connection.  They share socklist, updateinfo, and, since it is  *)
(* a class attribute of StkPacket, the packet that was parsed last.         *)
(*                                                                          *)
(* A packet is [cmd, uid, data], with the connection it comes from and its  *)
(* number there, which no code looks at.  A thread that meets an exception  *)
(* ends there and cleans nothing up.                                        *)
(***************************************************************************)
EXTENDS Naturals, Sequences, FiniteSets, SequencesExt

CONSTANTS
  Conns,      \* the connections, each with its thread
  Uids,       \* the uids that clients use
  Registered, \* those in the users file
  Members,    \* the members of the group, in the order of the groups file
  None,       \* an absent value
  Who,        \* bound: the uids each client may have
  MaxMsg      \* bound: packets each client sends once it is logged in

ASSUME NamesAssumption ==
  /\ Registered \subseteq Uids /\ None \notin Conns \cup Uids
  /\ Conns \cap {"never", "left"} = {} /\ "group" \notin Uids
  /\ Members \in Seq(Registered)
  /\ \A i, j \in DOMAIN Members : Members[i] = Members[j] => i = j
ASSUME BoundsAssumption == Who \in [Conns -> SUBSET Uids] /\ MaxMsg \in [Conns -> Nat]

VARIABLES
  \* the clients
  phase,      \* where each is: "none", "req", "login", "in" or "gone"
  user, good, \* who it says it is, and whether it knows the password
  out,        \* the packet it has sent
  sends,      \* how many it has sent since its login
  \* the threads
  th,         \* where each is
  pkt,        \* the packet it will read, or has read, from StkPacket.sp
  uid,        \* the uid in the packet before
  self,       \* client.uid
  state,      \* client.state
  to,         \* the members a group message has yet to go to
  \* shared data and the window
  ready,      \* stk_main() has filled socklist
  socklist,   \* partial function: "never", "left" or the connection
  updateinfo, \* the window's updates: <<uid, online>>
  shows,      \* what the window shows
  upc, at,    \* where the update thread is, and its place in updateinfo
  exiting, running, accepting,
  \* history
  mixed,      \* a thread has read the packet of another
  overlap,    \* users that two connections have named at a time
  lost,       \* users whose entry stk_main() has replaced
  overtaken   \* users of whom a later update was shown first

clientVars == <<phase, user, good, out, sends>>
threadVars == <<th, pkt, uid, self, state, to>>
windowVars == <<shows, upc, at, exiting, running, accepting>>
histVars   == <<mixed, overlap, lost, overtaken>>
vars == <<clientVars, threadVars, ready, socklist, updateinfo, windowVars, histVars>>

Packets == [cmd : {"req", "login", "ask", "msg", "gmsg"}, uid : Uids,
            data : Uids \cup BOOLEAN \cup {None}, from : Conns]

TypeOK ==
  /\ \A c \in Conns :
       /\ phase[c] \in {"none", "req", "login", "in", "gone"}
       /\ user[c] \in Uids \cup {None} /\ good[c] \in BOOLEAN
       /\ out[c] \in Packets \cup {None} /\ pkt[c] \in Packets \cup {None}
       /\ sends[c] \in 0 .. MaxMsg[c]
       /\ th[c] \in {"none", "recv", "parsed", "taken", "notify", "group", "leave", "left",
                     "ended", "dead"}
       /\ self[c] \in Uids \cup {None} /\ state[c] \in BOOLEAN
       /\ to[c] \in Seq(Uids)
       /\ uid[c] \in Uids \cup {None}
  /\ DOMAIN socklist \subseteq Uids
  /\ \A u \in DOMAIN socklist : socklist[u] \in Conns \cup {"never", "left"}
  /\ updateinfo \in Seq(Uids \X BOOLEAN) /\ shows \in [Registered -> BOOLEAN]
  /\ upc \in {"sleep", "loop", "ended"} /\ at \in Nat \ {0}
  /\ {ready, exiting, running, accepting, mixed} \subseteq BOOLEAN
  /\ overlap \cup lost \cup overtaken \subseteq Uids

Init ==
  /\ phase = [c \in Conns |-> "none"] /\ user = [c \in Conns |-> None]
  /\ good = [c \in Conns |-> FALSE] /\ out = [c \in Conns |-> None]
  /\ sends = [c \in Conns |-> 0]
  /\ th = [c \in Conns |-> "none"] /\ pkt = [c \in Conns |-> None] /\ uid = [c \in Conns |-> None]
  /\ self = [c \in Conns |-> None] /\ state = [c \in Conns |-> FALSE] /\ to = [c \in Conns |-> <<>>]
  /\ ready = FALSE /\ socklist = [u \in {} |-> "never"] /\ updateinfo = <<>>
  /\ shows = [u \in Registered |-> FALSE] /\ upc = "sleep" /\ at = 1
  /\ exiting = FALSE /\ running = TRUE /\ accepting = TRUE
  /\ mixed = FALSE /\ overlap = {} /\ lost = {} /\ overtaken = {}

-----------------------------------------------------------------------------
(* The clients                                                             *)

Packet(c, cmd, data) == [cmd |-> cmd, uid |-> user[c], data |-> data, from |-> c]

\* The accept loop starts a thread; the client sends REQ_LOGIN.
Connect(c, u, knows) ==
  /\ accepting /\ phase[c] = "none"
  /\ phase' = [phase EXCEPT ![c] = "req"]
  /\ user' = [user EXCEPT ![c] = u]
  /\ good' = [good EXCEPT ![c] = knows]
  /\ out' = [out EXCEPT ![c] = [cmd |-> "req", uid |-> u, data |-> None, from |-> c]]
  /\ th' = [th EXCEPT ![c] = "recv"]
  /\ UNCHANGED <<sends, pkt, uid, self, state, to, ready, socklist, updateinfo, windowVars, histVars>>

\* A logged-in client asks, or sends a message to a user or to the group.
Send(c, cmd, data) ==
  /\ phase[c] = "in" /\ out[c] = None /\ sends[c] < MaxMsg[c]
  /\ out' = [out EXCEPT ![c] = Packet(c, cmd, data)]
  /\ sends' = [sends EXCEPT ![c] = @ + 1]
  /\ UNCHANGED <<phase, user, good, threadVars, ready, socklist, updateinfo, windowVars, histVars>>

Leave(c) ==
  /\ phase[c] \in {"req", "login", "in"}
  /\ phase' = [phase EXCEPT ![c] = "gone"]
  /\ UNCHANGED <<user, good, out, sends, threadVars, ready, socklist, updateinfo, windowVars, histVars>>

-----------------------------------------------------------------------------
(* The thread of a connection                                              *)

IsAt(c, here, there) == th[c] = here /\ th' = [th EXCEPT ![c] = there]

\* recv() and StkPacket(buf): the fields go to StkPacket.sp, from which this thread
\* and any other that has parsed a packet and not yet read it will read them.
Recv(c) ==
  /\ IsAt(c, "recv", "parsed") /\ out[c] # None
  /\ pkt' = [d \in Conns |-> IF d = c \/ th[d] = "parsed" THEN out[c] ELSE pkt[d]]
  /\ out' = [out EXCEPT ![c] = None]
  /\ UNCHANGED <<phase, user, good, sends, uid, self, state, to, ready, socklist, updateinfo,
                 windowVars, histVars>>

\* Command, uid and data are read, whosever they are by now.
Take(c) ==
  /\ IsAt(c, "parsed", "taken")
  /\ uid' = [uid EXCEPT ![c] = pkt[c].uid]
  /\ mixed' = (mixed \/ pkt[c].from # c)
  /\ UNCHANGED <<clientVars, pkt, self, state, to, ready, socklist, updateinfo, windowVars,
                 overlap, lost, overtaken>>

\* A handler, after which nothing of the packet is used but its uid.
Handles(c, cmd) ==
  /\ th[c] = "taken" /\ pkt[c].cmd = cmd
  /\ pkt' = [pkt EXCEPT ![c] = None]

\* The answer is sent, which raises when the client has reset the connection.
Answers(c) ==
  \/ th' = [th EXCEPT ![c] = "recv"]
  \/ phase[c] = "gone" /\ th' = [th EXCEPT ![c] = "dead"]

\* The client goes on to `there`, with the packet it sends from there.
Client(c, here, there, packet) ==
  IF phase[c] = here
  THEN phase' = [phase EXCEPT ![c] = there] /\ out' = [out EXCEPT ![c] = packet]
  ELSE UNCHANGED <<phase, out>>

\* stk_set_client(), which stores the socket under str(uid) where nobody looks,
\* and stk_reqlog_ack().
ReqLogin(c) ==
  /\ Handles(c, "req")
  /\ self' = [self EXCEPT ![c] = pkt[c].uid]
  /\ overlap' = overlap \cup {self[d] : d \in {e \in Conns \ {c} :
                   self[e] = pkt[c].uid /\ th[e] \notin {"ended", "dead"}}}
  /\ Answers(c)
  /\ Client(c, "req", "login", Packet(c, "login", good[c]))
  /\ UNCHANGED <<user, good, sends, uid, state, to, ready, socklist, updateinfo,
                 windowVars, mixed, lost, overtaken>>

\* The password in the packet is that of the client's user.
Password(c) == pkt[c].data = TRUE /\ pkt[c].uid = self[c]

\* Mutant: any password will do.
LoginOkAny(c) == self[c] \in Registered /\ ~state[c]

\* What stk_login_ack() tests; only this connection's state is looked at.
LoginOk(c) == self[c] \in Registered /\ ~state[c] /\ Password(c)

\* Mutant: an entry that is there is kept.
LoginKeeps(c) ==
  /\ Handles(c, "login") /\ LoginOk(c)
  /\ state' = [state EXCEPT ![c] = TRUE]
  /\ socklist' = IF self[c] \in DOMAIN socklist THEN socklist
                 ELSE [u \in DOMAIN socklist \cup {self[c]} |-> IF u = self[c] THEN c ELSE socklist[u]]
  /\ th' = [th EXCEPT ![c] = "notify"]
  /\ UNCHANGED <<clientVars, uid, self, to, ready, updateinfo, windowVars, histVars>>

\* stk_login_ack(): the entry first,
Login(c) ==
  /\ Handles(c, "login") /\ LoginOk(c)
  /\ state' = [state EXCEPT ![c] = TRUE]
  /\ socklist' = [u \in DOMAIN socklist \cup {self[c]} |-> IF u = self[c] THEN c ELSE socklist[u]]
  /\ th' = [th EXCEPT ![c] = "notify"]
  /\ UNCHANGED <<clientVars, uid, self, to, ready, updateinfo, windowVars, histVars>>

\* then the window, then the client.
Notify(c) ==
  /\ th[c] = "notify"
  /\ updateinfo' = Append(updateinfo, <<self[c], TRUE>>)
  /\ Answers(c)
  /\ Client(c, "login", "in", None)
  /\ UNCHANGED <<user, good, sends, pkt, uid, self, state, to, ready, socklist,
                 windowVars, histVars>>

\* A login that is refused; the client closes the connection.
Refuse(c) ==
  /\ Handles(c, "login") /\ ~LoginOk(c)
  /\ Answers(c)
  /\ Client(c, "login", "gone", None)
  /\ UNCHANGED <<user, good, sends, uid, self, state, to, ready, socklist, updateinfo,
                 windowVars, histVars>>

\* GET_USER, GET_USER_INFO, GET_GROUP and GET_GROUP_INFO read and answer.
Ask(c) ==
  /\ Handles(c, "ask")
  /\ Answers(c)
  /\ UNCHANGED <<clientVars, uid, self, state, to, ready, socklist, updateinfo, windowVars, histVars>>

-----------------------------------------------------------------------------
(* Messages                                                                *)

Dies(c) == th' = [th EXCEPT ![c] = "dead"]

\* psock.send(): raises on None, and may raise when the receiver is gone; a
\* user outside socklist is a KeyError.
Gives(c, v, next) ==
  \/ v \in DOMAIN socklist /\ socklist[v] \in Conns /\ th' = [th EXCEPT ![c] = next]
  \/ v \in DOMAIN socklist /\ socklist[v] \in Conns /\ phase[socklist[v]] = "gone" /\ Dies(c)
  \/ (v \in DOMAIN socklist => socklist[v] = "left") /\ Dies(c)

\* The entry that says 'is not online'.
Never(v) == v \in DOMAIN socklist /\ socklist[v] = "never"

\* stk_sendmsg_ack()
SendMsg(c) ==
  /\ Handles(c, "msg")
  /\ IF Never(pkt[c].data) THEN th' = [th EXCEPT ![c] = "recv"] ELSE Gives(c, pkt[c].data, "recv")
  /\ UNCHANGED <<clientVars, uid, self, state, to, ready, socklist, updateinfo, windowVars, histVars>>

\* stk_sendgmsg_ack(): one member after the other.
SendGroup(c) ==
  /\ Handles(c, "gmsg")
  /\ th' = [th EXCEPT ![c] = "group"]
  /\ to' = [to EXCEPT ![c] = Members]
  /\ UNCHANGED <<clientVars, uid, self, state, ready, socklist, updateinfo, windowVars, histVars>>

\* The sender is passed over, and so is who has never been online.
Member(c) ==
  /\ th[c] = "group" /\ to[c] # <<>>
  /\ to' = [to EXCEPT ![c] = Tail(@)]
  /\ LET v == Head(to[c])
     IN IF v = self[c] \/ Never(v) THEN UNCHANGED th ELSE Gives(c, v, "group")
  /\ UNCHANGED <<clientVars, pkt, uid, self, state, ready, socklist, updateinfo, windowVars, histVars>>

GroupDone(c) ==
  /\ IsAt(c, "group", "recv") /\ to[c] = <<>>
  /\ UNCHANGED <<clientVars, pkt, uid, self, state, to, ready, socklist, updateinfo, windowVars, histVars>>

-----------------------------------------------------------------------------
(* The end of a thread                                                     *)

\* recv() returns '' or raises an error.
End(c) ==
  /\ IsAt(c, "recv", "leave") /\ out[c] = None /\ phase[c] = "gone"
  /\ UNCHANGED <<clientVars, pkt, uid, self, state, to, ready, socklist, updateinfo, windowVars, histVars>>

\* Mutant: the entry is not cleared.
ClearNot(c) ==
  /\ IsAt(c, "leave", "left")
  /\ UNCHANGED <<clientVars, pkt, uid, self, state, to, ready, socklist, updateinfo, windowVars, histVars>>

\* The entry of the uid in the last packet is overwritten, whosever it is by now;
\* without a packet the name uid is unbound.
Clear(c) ==
  /\ th[c] = "leave"
  /\ IF uid[c] = None
     THEN th' = [th EXCEPT ![c] = "dead"] /\ UNCHANGED socklist
     ELSE /\ th' = [th EXCEPT ![c] = "left"]
          /\ socklist' = [u \in DOMAIN socklist \cup {uid[c]} |->
                            IF u = uid[c] THEN "left" ELSE socklist[u]]
  /\ UNCHANGED <<clientVars, pkt, uid, self, state, to, ready, updateinfo, windowVars, histVars>>

Gone(c) ==
  /\ IsAt(c, "left", "ended")
  /\ updateinfo' = Append(updateinfo, <<uid[c], FALSE>>)
  /\ UNCHANGED <<clientVars, pkt, uid, self, state, to, ready, socklist, windowVars, histVars>>

-----------------------------------------------------------------------------
(* The window                                                              *)

\* stk_main() makes socklist from the users file, for threads that may run already.
Start ==
  /\ ~ready
  /\ ready' = TRUE
  /\ lost' = {u \in DOMAIN socklist : socklist[u] \in Conns}
  /\ socklist' = [u \in Registered |-> "never"]
  /\ UNCHANGED <<clientVars, threadVars, updateinfo, windowVars, mixed, overlap, overtaken>>

\* stk_update_thread() after its second of sleep.
Wake ==
  /\ ready /\ upc = "sleep"
  /\ \/ exiting /\ upc' = "ended"
     \/ ~exiting /\ updateinfo # <<>> /\ upc' = "loop"
  /\ UNCHANGED <<clientVars, threadVars, ready, socklist, updateinfo, shows, at, exiting, running, accepting,
                 histVars>>

\* One round of the for loop: the update is shown and the first one equal to it
\* is removed from the list, in which the next round goes one place further.
Update ==
  /\ upc = "loop" /\ at <= Len(updateinfo)
  /\ LET info == updateinfo[at]
     IN /\ shows' = [u \in Registered |-> IF u = info[1] THEN info[2] ELSE shows[u]]
        /\ updateinfo' = RemoveFirst(updateinfo, info)
        /\ overtaken' = IF \E i \in 1 .. at - 1 : updateinfo[i][1] = info[1]
                        THEN overtaken \cup {info[1]} ELSE overtaken
  /\ at' = at + 1
  /\ UNCHANGED <<clientVars, threadVars, ready, socklist, upc, exiting, running, accepting,
                 mixed, overlap, lost>>

PassDone ==
  /\ upc = "loop" /\ at > Len(updateinfo)
  /\ upc' = "sleep" /\ at' = 1
  /\ UNCHANGED <<clientVars, threadVars, ready, socklist, updateinfo, shows, exiting, running, accepting,
                 histVars>>

\* The window is closed.
Close ==
  /\ ready /\ ~exiting
  /\ exiting' = TRUE
  /\ UNCHANGED <<clientVars, threadVars, ready, socklist, updateinfo, shows, upc, at, running, accepting,
                 histVars>>

\* main_func() has joined the window's threads.  It sets the name `running` of
\* its own module; stksocket has another, and its threads never see this one.
Stop ==
  /\ upc = "ended" /\ running
  /\ running' = FALSE
  /\ UNCHANGED <<clientVars, threadVars, ready, socklist, updateinfo, shows, upc, at, exiting, accepting,
                 histVars>>

\* accept() has timed out.
AcceptEnd ==
  /\ accepting /\ ~running
  /\ accepting' = FALSE
  /\ UNCHANGED <<clientVars, threadVars, ready, socklist, updateinfo, shows, upc, at, exiting, running,
                 histVars>>

-----------------------------------------------------------------------------
Thread(c) ==
  \/ Recv(c) \/ Take(c) \/ ReqLogin(c) \/ Login(c) \/ Notify(c) \/ Refuse(c) \/ Ask(c)
  \/ SendMsg(c) \/ SendGroup(c) \/ Member(c) \/ GroupDone(c) \/ End(c) \/ Clear(c) \/ Gone(c)

Window == Start \/ Wake \/ Update \/ PassDone \/ Stop \/ AcceptEnd

Clients ==
  \E c \in Conns :
    \/ \E u \in Who[c], knows \in BOOLEAN : Connect(c, u, knows)
    \/ Send(c, "ask", None) \/ Send(c, "gmsg", None) \/ \E v \in Uids \ {user[c]} : Send(c, "msg", v)
    \/ Leave(c)

Next == (\E c \in Conns : Thread(c)) \/ Window \/ Clients \/ Close

Spec == Init /\ [][Next]_vars

-----------------------------------------------------------------------------
(* Properties                                                              *)

\* An entry of socklist is a connection that has logged in as its user and that
\* has not ended, whoever has come and gone, unless threads have mixed up packets.
EntryIsOwn ==
  ~mixed =>
    \A u \in DOMAIN socklist :
      LET c == socklist[u]
      IN c \in Conns => /\ self[c] = u /\ user[c] = u /\ good[c]
                        /\ th[c] \notin {"left", "ended"}

\* Messages for a user who is logged in go to his connection, as long as its thread
\* lives, unless another connection has named him, with or without the password,
\* or he logged in before stk_main() filled socklist.
Reachable ==
  ~mixed =>
    \A c \in Conns :
      state[c] /\ th[c] \notin {"left", "ended", "dead"} /\ self[c] \notin overlap \cup lost =>
        socklist[self[c]] = c

\* When the updates are used up, the window shows who is in socklist, except
\* for users of whom two updates were shown in the wrong order.
WindowAgrees ==
  ~mixed /\ ready /\ updateinfo = <<>> =>
    \A u \in Registered \ (overlap \cup lost \cup overtaken) :
      (\A c \in Conns : th[c] \in {"notify", "left"} => self[c] # u)
        => shows[u] = (socklist[u] \in Conns)

=============================================================================
