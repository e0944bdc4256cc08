------------------------ MODULE StkServerPy_proofs -------------------------
(***************************************************************************)
(* What the threads of StkServerPy agree on while none of them has read    *)
(* the packet of another, for any number of connections and users.         *)
(***************************************************************************)
EXTENDS StkServerPy, WellFoundedInduction, TLAPS

-----------------------------------------------------------------------------
(* Type correctness                                                        *)

ThreadAt == {"none", "recv", "parsed", "taken", "notify", "group", "leave", "left", "ended", "dead"}

\* The types of the variables the proofs speak of, as functions.
Types ==
  /\ phase \in [Conns -> {"none", "req", "login", "in", "gone"}]
  /\ user \in [Conns -> Uids \cup {None}] /\ good \in [Conns -> BOOLEAN]
  /\ out \in [Conns -> Packets \cup {None}] /\ pkt \in [Conns -> Packets \cup {None}]
  /\ th \in [Conns -> ThreadAt]
  /\ uid \in [Conns -> Uids \cup {None}] /\ self \in [Conns -> Uids \cup {None}]
  /\ state \in [Conns -> BOOLEAN] /\ to \in [Conns -> Seq(Uids)]
  /\ DOMAIN socklist \subseteq Uids
  /\ \A u \in DOMAIN socklist : socklist[u] \in Conns \cup {"never", "left"}
  /\ mixed \in BOOLEAN

\* A connected client has a uid; a thread that parses a packet has one, and one
\* that has logged its client in knows who he is.
Shape ==
  \A c \in Conns :
    /\ phase[c] # "none" => user[c] \in Uids
    /\ th[c] \in {"parsed", "taken"} => pkt[c] \in Packets
    /\ th[c] = "left" => uid[c] \in Uids
    /\ th[c] = "notify" => self[c] \in Registered

TypeInv == Types /\ Shape

LEMMA InitTypeInv == Init => TypeInv
<1> SUFFICES ASSUME Init
             PROVE  TypeInv
  OBVIOUS
<1>1. Types
  <2>1. DOMAIN socklist = {} /\ <<>> \in Seq(Uids)
    BY DEF Init
  <2> QED
    BY <2>1 DEF Init, Types, ThreadAt
<1>2. Shape
  BY DEF Init, Shape
<1> QED
  BY <1>1, <1>2 DEF TypeInv

\* What a client sends is a packet.
LEMMA PacketType ==
  ASSUME NEW c \in Conns, user[c] \in Uids,
         NEW cmd \in {"req", "login", "ask", "msg", "gmsg"},
         NEW data \in Uids \cup BOOLEAN \cup {None}
  PROVE  Packet(c, cmd, data) \in Packets
BY DEF Packet, Packets

LEMMA ClientType ==
  ASSUME TypeInv, NEW c \in Conns, NEW here \in {"req", "login"},
         NEW there \in {"login", "in", "gone"},
         NEW packet \in Packets \cup {None}, Client(c, here, there, packet)
  PROVE  /\ phase' \in [Conns -> {"none", "req", "login", "in", "gone"}]
         /\ out' \in [Conns -> Packets \cup {None}]
         /\ \A d \in Conns : phase'[d] # "none" => phase[d] # "none"
BY DEF Client, TypeInv, Types

\* The types are kept.
LEMMA StepTypeInv ==
  ASSUME TypeInv, [Next]_vars
  PROVE  TypeInv'
<1> USE NamesAssumption, BoundsAssumption
    DEF TypeInv, Types, Shape, Packets, ThreadAt, clientVars, threadVars, windowVars, histVars
<1>1. ASSUME NEW c \in Conns, NEW u \in Who[c], NEW knows \in BOOLEAN, Connect(c, u, knows)
      PROVE  TypeInv'
  BY <1>1 DEF Connect
<1>2. ASSUME NEW c \in Conns, NEW cmd \in {"ask", "msg", "gmsg"}, NEW data \in Uids \cup {None},
             Send(c, cmd, data)
      PROVE  TypeInv'
  BY <1>2 DEF Send, Packet
<1>3. ASSUME NEW c \in Conns, Leave(c)
      PROVE  TypeInv'
  BY <1>3 DEF Leave
<1>4. ASSUME NEW c \in Conns, Recv(c)
      PROVE  TypeInv'
  BY <1>4 DEF Recv, IsAt
<1>5. ASSUME NEW c \in Conns, Take(c)
      PROVE  TypeInv'
  BY <1>5 DEF Take, IsAt
<1>6. ASSUME NEW c \in Conns, ReqLogin(c)
      PROVE  TypeInv'
  <2>1. PICK x \in {"recv", "dead"} : th' = [th EXCEPT ![c] = x]
    BY <1>6 DEF ReqLogin, Answers
  <2>2. pkt[c].uid \in Uids /\ self' = [self EXCEPT ![c] = pkt[c].uid]
    BY <1>6 DEF ReqLogin, Handles
  <2>3. CASE phase[c] = "req"
    <3>1. Packet(c, "login", good[c]) \in Packets
      BY <2>3, PacketType
    <3>2. /\ phase' = [phase EXCEPT ![c] = "login"]
          /\ out' = [out EXCEPT ![c] = Packet(c, "login", good[c])]
      BY <1>6, <2>3 DEF ReqLogin, Client
    <3> QED
      BY <1>6, <2>1, <2>2, <2>3, <3>1, <3>2 DEF ReqLogin, Handles
  <2>4. CASE phase[c] # "req"
    BY <1>6, <2>1, <2>2, <2>4 DEF ReqLogin, Handles, Client
  <2> QED
    BY <2>3, <2>4
<1>7. ASSUME NEW c \in Conns, Login(c)
      PROVE  TypeInv'
  BY <1>7 DEF Login, Handles, LoginOk, Password
<1>8. ASSUME NEW c \in Conns, Notify(c)
      PROVE  TypeInv'
  <2>1. PICK x \in {"recv", "dead"} : th' = [th EXCEPT ![c] = x]
    BY <1>8 DEF Notify, Answers
  <2>2. /\ phase' \in [Conns -> {"none", "req", "login", "in", "gone"}]
        /\ out' \in [Conns -> Packets \cup {None}]
        /\ \A d \in Conns : phase'[d] # "none" => phase[d] # "none"
    BY <1>8, ClientType DEF Notify
  <2>3. /\ UNCHANGED <<user, good, uid, self, state, to, socklist, mixed>>
        /\ pkt' = pkt \/ (th[c] = "taken" /\ pkt' = [pkt EXCEPT ![c] = None])
    BY <1>8 DEF Notify, Handles
  <2>4. Types'
    <3>1. th' \in [Conns -> ThreadAt]
      BY <2>1
    <3>2. pkt' \in [Conns -> Packets \cup {None}]
      BY <2>3
    <3> QED
      BY <2>2, <2>3, <3>1, <3>2
  <2>5. Shape'
    BY <2>1, <2>2, <2>3
  <2> QED
    BY <2>4, <2>5
<1>9. ASSUME NEW c \in Conns, Refuse(c)
      PROVE  TypeInv'
  <2>1. PICK x \in {"recv", "dead"} : th' = [th EXCEPT ![c] = x]
    BY <1>9 DEF Refuse, Answers
  <2>2. /\ phase' \in [Conns -> {"none", "req", "login", "in", "gone"}]
        /\ out' \in [Conns -> Packets \cup {None}]
        /\ \A d \in Conns : phase'[d] # "none" => phase[d] # "none"
    BY <1>9, ClientType DEF Refuse
  <2>3. /\ UNCHANGED <<user, good, uid, self, state, to, socklist, mixed>>
        /\ pkt' = pkt \/ (th[c] = "taken" /\ pkt' = [pkt EXCEPT ![c] = None])
    BY <1>9 DEF Refuse, Handles
  <2>4. Types'
    <3>1. th' \in [Conns -> ThreadAt]
      BY <2>1
    <3>2. pkt' \in [Conns -> Packets \cup {None}]
      BY <2>3
    <3> QED
      BY <2>2, <2>3, <3>1, <3>2
  <2>5. Shape'
    BY <2>1, <2>2, <2>3
  <2> QED
    BY <2>4, <2>5
<1>10. ASSUME NEW c \in Conns, Ask(c)
       PROVE  TypeInv'
  <2>1. PICK x \in {"recv", "dead"} : th' = [th EXCEPT ![c] = x]
    BY <1>10 DEF Ask, Answers
  <2> QED
    BY <1>10, <2>1 DEF Ask, Handles
<1>11. ASSUME NEW c \in Conns, SendMsg(c)
       PROVE  TypeInv'
  <2>1. PICK x \in {"recv", "dead"} : th' = [th EXCEPT ![c] = x]
    BY <1>11 DEF SendMsg, Gives, Dies
  <2> QED
    BY <1>11, <2>1 DEF SendMsg, Handles
<1>12. ASSUME NEW c \in Conns, SendGroup(c)
       PROVE  TypeInv'
  BY <1>12 DEF SendGroup, Handles
<1>13. ASSUME NEW c \in Conns, Member(c)
       PROVE  TypeInv'
  <2>1. PICK x \in {"group", "dead"} : th' = [th EXCEPT ![c] = x]
    BY <1>13 DEF Member, Gives, Dies, Types
  <2> QED
    BY <1>13, <2>1 DEF Member
<1>14. ASSUME NEW c \in Conns, GroupDone(c)
       PROVE  TypeInv'
  BY <1>14 DEF GroupDone, IsAt
<1>15. ASSUME NEW c \in Conns, End(c)
       PROVE  TypeInv'
  BY <1>15 DEF End, IsAt
<1>16. ASSUME NEW c \in Conns, Clear(c)
       PROVE  TypeInv'
  <2>1. CASE uid[c] = None
    <3>1. th' = [th EXCEPT ![c] = "dead"] /\ UNCHANGED socklist
      BY <1>16, <2>1 DEF Clear
    <3> QED
      BY <1>16, <3>1 DEF Clear
  <2>2. CASE uid[c] # None
    <3>1. /\ th' = [th EXCEPT ![c] = "left"] /\ uid[c] \in Uids
          /\ socklist' = [u \in DOMAIN socklist \cup {uid[c]} |->
                            IF u = uid[c] THEN "left" ELSE socklist[u]]
      BY <1>16, <2>2 DEF Clear
    <3>2. DOMAIN socklist' \subseteq Uids
      BY <3>1
    <3>3. \A u \in DOMAIN socklist' : socklist'[u] \in Conns \cup {"never", "left"}
      BY <3>1
    <3> QED
      BY <1>16, <3>1, <3>2, <3>3 DEF Clear
  <2> QED
    BY <2>1, <2>2
<1>17. ASSUME NEW c \in Conns, Gone(c)
       PROVE  TypeInv'
  BY <1>17 DEF Gone, IsAt
<1>18. CASE Start
  BY <1>18 DEF Start
<1>19. CASE Wake
  BY <1>19 DEF Wake
<1>20. CASE Update
  BY <1>20 DEF Update
<1>21. CASE PassDone
  BY <1>21 DEF PassDone
<1>22. CASE Stop
  BY <1>22 DEF Stop
<1>23. CASE AcceptEnd
  BY <1>23 DEF AcceptEnd
<1>24. CASE Close
  BY <1>24 DEF Close
<1>25. CASE UNCHANGED vars
  BY <1>25 DEF vars
<1> HIDE NamesAssumption, BoundsAssumption
    DEF TypeInv, Types, Shape, Packets, ThreadAt, clientVars, threadVars, windowVars, histVars
<1> QED
  BY <1>1, <1>2, <1>3, <1>4, <1>5, <1>6, <1>7, <1>8, <1>9, <1>10, <1>11, <1>12, <1>13, <1>14,
    <1>15, <1>16, <1>17, <1>18, <1>19, <1>20, <1>21, <1>22, <1>23, <1>24, <1>25
  DEF Next, Thread, Window, Clients

-----------------------------------------------------------------------------
(* Whose packet a thread reads                                             *)

\* A packet tells the truth about the client it comes from; a client that has
\* not been given its answer has only asked to log in.
About(p) ==
  /\ phase[p.from] # "none" /\ p.uid = user[p.from]
  /\ p.cmd = "login" => p.data = good[p.from]
  /\ self[p.from] = None => p.cmd = "req"

PacketInv ==
  \A c \in Conns :
    /\ out[c] # None => out[c].from = c /\ About(out[c])
    /\ th[c] \in {"parsed", "taken"} => About(pkt[c])
    /\ phase[c] \in {"login", "in"} => self[c] # None
    /\ phase[c] = "none" => self[c] = None /\ uid[c] = None /\ th[c] = "none"

\* While no packets have been mixed up, a thread reads those of its own client
\* only, and all its variables name his user.
OwnPackets ==
  ~mixed => \A c \in Conns :
    /\ th[c] = "taken" => pkt[c].from = c
    /\ uid[c] # None => uid[c] = user[c]
    /\ self[c] # None => self[c] = user[c]
    /\ uid[c] # None /\ th[c] # "taken" => self[c] # None

OwnInv == PacketInv /\ OwnPackets /\ EntryIsOwn

LEMMA InitOwnInv == Init => OwnInv
BY NamesAssumption DEF Init, OwnInv, PacketInv, OwnPackets, EntryIsOwn

\* Packets are made of what the client is, which does not change.
LEMMA StepPacketInv ==
  ASSUME TypeInv, PacketInv, [Next]_vars
  PROVE  PacketInv'
<1> USE NamesAssumption
    DEF TypeInv, Types, Shape, ThreadAt, About, PacketInv, clientVars, threadVars, windowVars,
      histVars, Packets
<1>1. ASSUME NEW c \in Conns, NEW u \in Who[c], NEW knows \in BOOLEAN, Connect(c, u, knows)
      PROVE  PacketInv'
  BY <1>1 DEF Connect
<1>2. ASSUME NEW c \in Conns, NEW cmd \in {"ask", "msg", "gmsg"}, NEW data \in Uids \cup {None},
             Send(c, cmd, data)
      PROVE  PacketInv'
  BY <1>2 DEF Send, Packet
<1>3. ASSUME NEW c \in Conns, Leave(c)
      PROVE  PacketInv'
  BY <1>3 DEF Leave
<1>4. ASSUME NEW c \in Conns, Recv(c)
      PROVE  PacketInv'
  BY <1>4 DEF Recv, IsAt
<1>5. ASSUME NEW c \in Conns, Take(c)
      PROVE  PacketInv'
  BY <1>5 DEF Take, IsAt
<1>6. ASSUME NEW c \in Conns, ReqLogin(c)
      PROVE  PacketInv'
  <2>1. PICK x \in {"recv", "dead"} : th' = [th EXCEPT ![c] = x]
    BY <1>6 DEF ReqLogin, Answers
  <2> QED
    BY <1>6, <2>1 DEF ReqLogin, Handles, Client, Packet
<1>7. ASSUME NEW c \in Conns, Login(c)
      PROVE  PacketInv'
  BY <1>7 DEF Login, Handles, LoginOk, Password
<1>8. ASSUME NEW c \in Conns, Notify(c)
      PROVE  PacketInv'
  <2>1. PICK x \in {"recv", "dead"} : th' = [th EXCEPT ![c] = x]
    BY <1>8 DEF Notify, Answers
  <2> QED
    BY <1>8, <2>1 DEF Notify, Client
<1>9. ASSUME NEW c \in Conns, Refuse(c)
      PROVE  PacketInv'
  <2>1. PICK x \in {"recv", "dead"} : th' = [th EXCEPT ![c] = x]
    BY <1>9 DEF Refuse, Answers
  <2> QED
    BY <1>9, <2>1 DEF Refuse, Handles, Client
<1>10. ASSUME NEW c \in Conns, Ask(c)
       PROVE  PacketInv'
  <2>1. PICK x \in {"recv", "dead"} : th' = [th EXCEPT ![c] = x]
    BY <1>10 DEF Ask, Answers
  <2> QED
    BY <1>10, <2>1 DEF Ask, Handles
<1>11. ASSUME NEW c \in Conns, SendMsg(c)
       PROVE  PacketInv'
  <2>1. PICK x \in {"recv", "dead"} : th' = [th EXCEPT ![c] = x]
    BY <1>11 DEF SendMsg, Gives, Dies
  <2> QED
    BY <1>11, <2>1 DEF SendMsg, Handles
<1>12. ASSUME NEW c \in Conns, SendGroup(c)
       PROVE  PacketInv'
  BY <1>12 DEF SendGroup, Handles
<1>13. ASSUME NEW c \in Conns, Member(c)
       PROVE  PacketInv'
  <2>1. PICK x \in {"group", "dead"} : th' = [th EXCEPT ![c] = x]
    BY <1>13 DEF Member, Gives, Dies, Types
  <2> QED
    BY <1>13, <2>1 DEF Member
<1>14. ASSUME NEW c \in Conns, GroupDone(c)
       PROVE  PacketInv'
  BY <1>14 DEF GroupDone, IsAt
<1>15. ASSUME NEW c \in Conns, End(c)
       PROVE  PacketInv'
  BY <1>15 DEF End, IsAt
<1>16. ASSUME NEW c \in Conns, Clear(c)
       PROVE  PacketInv'
  BY <1>16 DEF Clear
<1>17. ASSUME NEW c \in Conns, Gone(c)
       PROVE  PacketInv'
  BY <1>17 DEF Gone, IsAt
<1>18. CASE Start
  BY <1>18 DEF Start
<1>19. CASE Wake
  BY <1>19 DEF Wake
<1>20. CASE Update
  BY <1>20 DEF Update
<1>21. CASE PassDone
  BY <1>21 DEF PassDone
<1>22. CASE Stop
  BY <1>22 DEF Stop
<1>23. CASE AcceptEnd
  BY <1>23 DEF AcceptEnd
<1>24. CASE Close
  BY <1>24 DEF Close
<1>25. CASE UNCHANGED vars
  BY <1>25 DEF vars
<1> HIDE NamesAssumption
    DEF TypeInv, Types, Shape, ThreadAt, About, PacketInv, clientVars, threadVars, windowVars,
      histVars, Packets
<1> QED
  BY <1>1, <1>2, <1>3, <1>4, <1>5, <1>6, <1>7, <1>8, <1>9, <1>10, <1>11, <1>12, <1>13, <1>14,
    <1>15, <1>16, <1>17, <1>18, <1>19, <1>20, <1>21, <1>22, <1>23, <1>24, <1>25
  DEF Next, Thread, Window, Clients

\* Reading the packet of another is what mixed remembers.
LEMMA StepOwnPackets ==
  ASSUME TypeInv, PacketInv, OwnPackets, [Next]_vars
  PROVE  OwnPackets'
<1> USE NamesAssumption
    DEF TypeInv, Types, Shape, ThreadAt, About, PacketInv, clientVars, threadVars, windowVars,
      histVars, OwnPackets, Packets
<1>1. ASSUME NEW c \in Conns, NEW u \in Who[c], NEW knows \in BOOLEAN, Connect(c, u, knows)
      PROVE  OwnPackets'
  BY <1>1 DEF Connect
<1>2. ASSUME NEW c \in Conns, NEW cmd \in {"ask", "msg", "gmsg"}, NEW data \in Uids \cup {None},
             Send(c, cmd, data)
      PROVE  OwnPackets'
  BY <1>2 DEF Send, Packet
<1>3. ASSUME NEW c \in Conns, Leave(c)
      PROVE  OwnPackets'
  BY <1>3 DEF Leave
<1>4. ASSUME NEW c \in Conns, Recv(c)
      PROVE  OwnPackets'
  BY <1>4 DEF Recv, IsAt
<1>5. ASSUME NEW c \in Conns, Take(c)
      PROVE  OwnPackets'
  <2>1. th[c] = "parsed" /\ pkt[c] \in Packets /\ uid' = [uid EXCEPT ![c] = pkt[c].uid]
    BY <1>5 DEF Take, IsAt
  <2>2. pkt[c].from = c => pkt[c].uid = user[c]
    BY <2>1
  <2>3. ~mixed' => ~mixed /\ pkt[c].from = c
    BY <1>5 DEF Take
  <2>4. th' = [th EXCEPT ![c] = "taken"] /\ UNCHANGED <<user, self, pkt>>
    BY <1>5 DEF Take, IsAt
  <2> QED
    BY <2>1, <2>2, <2>3, <2>4
<1>6. ASSUME NEW c \in Conns, ReqLogin(c)
      PROVE  OwnPackets'
  <2>1. PICK x \in {"recv", "dead"} : th' = [th EXCEPT ![c] = x]
    BY <1>6 DEF ReqLogin, Answers
  <2> QED
    BY <1>6, <2>1 DEF ReqLogin, Handles, Client, Packet
<1>7. ASSUME NEW c \in Conns, Login(c)
      PROVE  OwnPackets'
  BY <1>7 DEF Login, Handles, LoginOk, Password
<1>8. ASSUME NEW c \in Conns, Notify(c)
      PROVE  OwnPackets'
  <2>1. PICK x \in {"recv", "dead"} : th' = [th EXCEPT ![c] = x]
    BY <1>8 DEF Notify, Answers
  <2> QED
    BY <1>8, <2>1 DEF Notify, Client
<1>9. ASSUME NEW c \in Conns, Refuse(c)
      PROVE  OwnPackets'
  <2>1. PICK x \in {"recv", "dead"} : th' = [th EXCEPT ![c] = x]
    BY <1>9 DEF Refuse, Answers
  <2> QED
    BY <1>9, <2>1 DEF Refuse, Handles, Client
<1>10. ASSUME NEW c \in Conns, Ask(c)
       PROVE  OwnPackets'
  <2>1. PICK x \in {"recv", "dead"} : th' = [th EXCEPT ![c] = x]
    BY <1>10 DEF Ask, Answers
  <2> QED
    BY <1>10, <2>1 DEF Ask, Handles
<1>11. ASSUME NEW c \in Conns, SendMsg(c)
       PROVE  OwnPackets'
  <2>1. PICK x \in {"recv", "dead"} : th' = [th EXCEPT ![c] = x]
    BY <1>11 DEF SendMsg, Gives, Dies
  <2> QED
    BY <1>11, <2>1 DEF SendMsg, Handles
<1>12. ASSUME NEW c \in Conns, SendGroup(c)
       PROVE  OwnPackets'
  BY <1>12 DEF SendGroup, Handles
<1>13. ASSUME NEW c \in Conns, Member(c)
       PROVE  OwnPackets'
  <2>1. PICK x \in {"group", "dead"} : th' = [th EXCEPT ![c] = x]
    BY <1>13 DEF Member, Gives, Dies, Types
  <2> QED
    BY <1>13, <2>1 DEF Member
<1>14. ASSUME NEW c \in Conns, GroupDone(c)
       PROVE  OwnPackets'
  BY <1>14 DEF GroupDone, IsAt
<1>15. ASSUME NEW c \in Conns, End(c)
       PROVE  OwnPackets'
  BY <1>15 DEF End, IsAt
<1>16. ASSUME NEW c \in Conns, Clear(c)
       PROVE  OwnPackets'
  BY <1>16 DEF Clear
<1>17. ASSUME NEW c \in Conns, Gone(c)
       PROVE  OwnPackets'
  BY <1>17 DEF Gone, IsAt
<1>18. CASE Start
  BY <1>18 DEF Start
<1>19. CASE Wake
  BY <1>19 DEF Wake
<1>20. CASE Update
  BY <1>20 DEF Update
<1>21. CASE PassDone
  BY <1>21 DEF PassDone
<1>22. CASE Stop
  BY <1>22 DEF Stop
<1>23. CASE AcceptEnd
  BY <1>23 DEF AcceptEnd
<1>24. CASE Close
  BY <1>24 DEF Close
<1>25. CASE UNCHANGED vars
  BY <1>25 DEF vars
<1> HIDE NamesAssumption
    DEF TypeInv, Types, Shape, ThreadAt, About, PacketInv, clientVars, threadVars, windowVars,
      histVars, OwnPackets, Packets
<1> QED
  BY <1>1, <1>2, <1>3, <1>4, <1>5, <1>6, <1>7, <1>8, <1>9, <1>10, <1>11, <1>12, <1>13, <1>14,
    <1>15, <1>16, <1>17, <1>18, <1>19, <1>20, <1>21, <1>22, <1>23, <1>24, <1>25
  DEF Next, Thread, Window, Clients

\* Only a login with its client's password makes a connection an entry, and only
\* the end of its thread ends it.
LEMMA StepEntryIsOwn ==
  ASSUME TypeInv, PacketInv, OwnPackets, EntryIsOwn, [Next]_vars
  PROVE  EntryIsOwn'
<1> USE NamesAssumption
    DEF TypeInv, Types, Shape, ThreadAt, About, PacketInv, clientVars, threadVars, windowVars,
      histVars, OwnPackets, EntryIsOwn, Packets
<1>1. ASSUME NEW c \in Conns, NEW u \in Who[c], NEW knows \in BOOLEAN, Connect(c, u, knows)
      PROVE  EntryIsOwn'
  BY <1>1 DEF Connect
<1>2. ASSUME NEW c \in Conns, NEW cmd \in {"ask", "msg", "gmsg"}, NEW data \in Uids \cup {None},
             Send(c, cmd, data)
      PROVE  EntryIsOwn'
  BY <1>2 DEF Send, Packet
<1>3. ASSUME NEW c \in Conns, Leave(c)
      PROVE  EntryIsOwn'
  BY <1>3 DEF Leave
<1>4. ASSUME NEW c \in Conns, Recv(c)
      PROVE  EntryIsOwn'
  BY <1>4 DEF Recv, IsAt
<1>5. ASSUME NEW c \in Conns, Take(c)
      PROVE  EntryIsOwn'
  BY <1>5 DEF Take, IsAt
<1>6. ASSUME NEW c \in Conns, ReqLogin(c)
      PROVE  EntryIsOwn'
  <2>1. PICK x \in {"recv", "dead"} : th' = [th EXCEPT ![c] = x]
    BY <1>6 DEF ReqLogin, Answers
  <2> QED
    BY <1>6, <2>1 DEF ReqLogin, Handles, Client, Packet
<1>7. ASSUME NEW c \in Conns, Login(c)
      PROVE  EntryIsOwn'
  BY <1>7 DEF Login, Handles, LoginOk, Password
<1>8. ASSUME NEW c \in Conns, Notify(c)
      PROVE  EntryIsOwn'
  <2>1. PICK x \in {"recv", "dead"} : th' = [th EXCEPT ![c] = x]
    BY <1>8 DEF Notify, Answers
  <2> QED
    BY <1>8, <2>1 DEF Notify, Client
<1>9. ASSUME NEW c \in Conns, Refuse(c)
      PROVE  EntryIsOwn'
  <2>1. PICK x \in {"recv", "dead"} : th' = [th EXCEPT ![c] = x]
    BY <1>9 DEF Refuse, Answers
  <2> QED
    BY <1>9, <2>1 DEF Refuse, Handles, Client
<1>10. ASSUME NEW c \in Conns, Ask(c)
       PROVE  EntryIsOwn'
  <2>1. PICK x \in {"recv", "dead"} : th' = [th EXCEPT ![c] = x]
    BY <1>10 DEF Ask, Answers
  <2> QED
    BY <1>10, <2>1 DEF Ask, Handles
<1>11. ASSUME NEW c \in Conns, SendMsg(c)
       PROVE  EntryIsOwn'
  <2>1. PICK x \in {"recv", "dead"} : th' = [th EXCEPT ![c] = x]
    BY <1>11 DEF SendMsg, Gives, Dies
  <2> QED
    BY <1>11, <2>1 DEF SendMsg, Handles
<1>12. ASSUME NEW c \in Conns, SendGroup(c)
       PROVE  EntryIsOwn'
  BY <1>12 DEF SendGroup, Handles
<1>13. ASSUME NEW c \in Conns, Member(c)
       PROVE  EntryIsOwn'
  <2>1. PICK x \in {"group", "dead"} : th' = [th EXCEPT ![c] = x]
    BY <1>13 DEF Member, Gives, Dies, Types
  <2> QED
    BY <1>13, <2>1 DEF Member
<1>14. ASSUME NEW c \in Conns, GroupDone(c)
       PROVE  EntryIsOwn'
  BY <1>14 DEF GroupDone, IsAt
<1>15. ASSUME NEW c \in Conns, End(c)
       PROVE  EntryIsOwn'
  BY <1>15 DEF End, IsAt
<1>16. ASSUME NEW c \in Conns, Clear(c)
       PROVE  EntryIsOwn'
  BY <1>16 DEF Clear
<1>17. ASSUME NEW c \in Conns, Gone(c)
       PROVE  EntryIsOwn'
  BY <1>17 DEF Gone, IsAt
<1>18. CASE Start
  BY <1>18 DEF Start
<1>19. CASE Wake
  BY <1>19 DEF Wake
<1>20. CASE Update
  BY <1>20 DEF Update
<1>21. CASE PassDone
  BY <1>21 DEF PassDone
<1>22. CASE Stop
  BY <1>22 DEF Stop
<1>23. CASE AcceptEnd
  BY <1>23 DEF AcceptEnd
<1>24. CASE Close
  BY <1>24 DEF Close
<1>25. CASE UNCHANGED vars
  BY <1>25 DEF vars
<1> HIDE NamesAssumption
    DEF TypeInv, Types, Shape, ThreadAt, About, PacketInv, clientVars, threadVars, windowVars,
      histVars, OwnPackets, EntryIsOwn, Packets
<1> QED
  BY <1>1, <1>2, <1>3, <1>4, <1>5, <1>6, <1>7, <1>8, <1>9, <1>10, <1>11, <1>12, <1>13, <1>14,
    <1>15, <1>16, <1>17, <1>18, <1>19, <1>20, <1>21, <1>22, <1>23, <1>24, <1>25
  DEF Next, Thread, Window, Clients

-----------------------------------------------------------------------------
(* Who can be reached                                                      *)

\* Two live connections with one uid have been noted as overlapping.
OverlapInv ==
  \A c, d \in Conns :
    /\ c # d /\ self[c] = self[d] /\ self[c] # None
    /\ th[c] \notin {"ended", "dead"} /\ th[d] \notin {"ended", "dead"}
    => self[c] \in overlap

\* Reachable, with the entry there to be read.
HasEntry ==
  /\ ~ready => lost = {}
  /\ ~mixed => \A c \in Conns : state[c] =>
       /\ self[c] # None
       /\ th[c] \notin {"left", "ended", "dead"} /\ self[c] \notin overlap \cup lost
            => self[c] \in DOMAIN socklist /\ socklist[self[c]] = c

\* A connection that names a live connection's uid adds it to overlap.
LEMMA StepOverlapInv ==
  ASSUME TypeInv, PacketInv, OverlapInv, [Next]_vars
  PROVE  OverlapInv'
<1> USE NamesAssumption
    DEF TypeInv, Types, Shape, ThreadAt, PacketInv, OverlapInv, clientVars, threadVars,
      windowVars, histVars
<1>1. ASSUME NEW c \in Conns, NEW u \in Who[c], NEW knows \in BOOLEAN, Connect(c, u, knows)
      PROVE  OverlapInv'
  BY <1>1 DEF Connect
<1>2. ASSUME NEW c \in Conns, NEW cmd \in {"ask", "msg", "gmsg"}, NEW data \in Uids \cup {None},
             Send(c, cmd, data)
      PROVE  OverlapInv'
  BY <1>2 DEF Send, Packet
<1>3. ASSUME NEW c \in Conns, Leave(c)
      PROVE  OverlapInv'
  BY <1>3 DEF Leave
<1>4. ASSUME NEW c \in Conns, Recv(c)
      PROVE  OverlapInv'
  BY <1>4 DEF Recv, IsAt
<1>5. ASSUME NEW c \in Conns, Take(c)
      PROVE  OverlapInv'
  BY <1>5 DEF Take, IsAt
<1>6. ASSUME NEW c \in Conns, ReqLogin(c)
      PROVE  OverlapInv'
  <2>1. PICK x \in {"recv", "dead"} : th' = [th EXCEPT ![c] = x]
    BY <1>6 DEF ReqLogin, Answers
  <2> QED
    BY <1>6, <2>1 DEF ReqLogin, Handles, Client, Packet
<1>7. ASSUME NEW c \in Conns, Login(c)
      PROVE  OverlapInv'
  BY <1>7 DEF Login, Handles, LoginOk, Password
<1>8. ASSUME NEW c \in Conns, Notify(c)
      PROVE  OverlapInv'
  <2>1. PICK x \in {"recv", "dead"} : th' = [th EXCEPT ![c] = x]
    BY <1>8 DEF Notify, Answers
  <2> QED
    BY <1>8, <2>1 DEF Notify, Client
<1>9. ASSUME NEW c \in Conns, Refuse(c)
      PROVE  OverlapInv'
  <2>1. PICK x \in {"recv", "dead"} : th' = [th EXCEPT ![c] = x]
    BY <1>9 DEF Refuse, Answers
  <2> QED
    BY <1>9, <2>1 DEF Refuse, Handles, Client
<1>10. ASSUME NEW c \in Conns, Ask(c)
       PROVE  OverlapInv'
  <2>1. PICK x \in {"recv", "dead"} : th' = [th EXCEPT ![c] = x]
    BY <1>10 DEF Ask, Answers
  <2> QED
    BY <1>10, <2>1 DEF Ask, Handles
<1>11. ASSUME NEW c \in Conns, SendMsg(c)
       PROVE  OverlapInv'
  <2>1. PICK x \in {"recv", "dead"} : th' = [th EXCEPT ![c] = x]
    BY <1>11 DEF SendMsg, Gives, Dies
  <2> QED
    BY <1>11, <2>1 DEF SendMsg, Handles
<1>12. ASSUME NEW c \in Conns, SendGroup(c)
       PROVE  OverlapInv'
  BY <1>12 DEF SendGroup, Handles
<1>13. ASSUME NEW c \in Conns, Member(c)
       PROVE  OverlapInv'
  <2>1. PICK x \in {"group", "dead"} : th' = [th EXCEPT ![c] = x]
    BY <1>13 DEF Member, Gives, Dies, Types
  <2> QED
    BY <1>13, <2>1 DEF Member
<1>14. ASSUME NEW c \in Conns, GroupDone(c)
       PROVE  OverlapInv'
  BY <1>14 DEF GroupDone, IsAt
<1>15. ASSUME NEW c \in Conns, End(c)
       PROVE  OverlapInv'
  BY <1>15 DEF End, IsAt
<1>16. ASSUME NEW c \in Conns, Clear(c)
       PROVE  OverlapInv'
  <2>1. PICK x \in {"dead", "left"} : th' = [th EXCEPT ![c] = x]
    BY <1>16 DEF Clear
  <2> QED
    BY <1>16, <2>1 DEF Clear
<1>17. ASSUME NEW c \in Conns, Gone(c)
       PROVE  OverlapInv'
  BY <1>17 DEF Gone, IsAt
<1>18. CASE Start
  BY <1>18 DEF Start
<1>19. CASE Wake
  BY <1>19 DEF Wake
<1>20. CASE Update
  BY <1>20 DEF Update
<1>21. CASE PassDone
  BY <1>21 DEF PassDone
<1>22. CASE Stop
  BY <1>22 DEF Stop
<1>23. CASE AcceptEnd
  BY <1>23 DEF AcceptEnd
<1>24. CASE Close
  BY <1>24 DEF Close
<1>25. CASE UNCHANGED vars
  BY <1>25 DEF vars
<1> HIDE NamesAssumption
    DEF TypeInv, Types, Shape, ThreadAt, PacketInv, OverlapInv, clientVars, threadVars,
      windowVars, histVars
<1> QED
  BY <1>1, <1>2, <1>3, <1>4, <1>5, <1>6, <1>7, <1>8, <1>9, <1>10, <1>11, <1>12, <1>13, <1>14,
    <1>15, <1>16, <1>17, <1>18, <1>19, <1>20, <1>21, <1>22, <1>23, <1>24, <1>25
  DEF Next, Thread, Window, Clients

\* The entry of a live, logged-in connection is replaced by a connection that has
\* named its user, or by the table stk_main() makes.
LEMMA StepHasEntry ==
  ASSUME TypeInv, PacketInv, OwnPackets, OverlapInv, HasEntry, [Next]_vars
  PROVE  HasEntry'
<1> USE NamesAssumption
    DEF TypeInv, Types, Shape, ThreadAt, About, PacketInv, OwnPackets, OverlapInv, HasEntry,
      Packets, clientVars, threadVars, windowVars, histVars
<1>1. ASSUME NEW c \in Conns, NEW u \in Who[c], NEW knows \in BOOLEAN, Connect(c, u, knows)
      PROVE  HasEntry'
  BY <1>1 DEF Connect
<1>2. ASSUME NEW c \in Conns, NEW cmd \in {"ask", "msg", "gmsg"}, NEW data \in Uids \cup {None},
             Send(c, cmd, data)
      PROVE  HasEntry'
  BY <1>2 DEF Send, Packet
<1>3. ASSUME NEW c \in Conns, Leave(c)
      PROVE  HasEntry'
  BY <1>3 DEF Leave
<1>4. ASSUME NEW c \in Conns, Recv(c)
      PROVE  HasEntry'
  BY <1>4 DEF Recv, IsAt
<1>5. ASSUME NEW c \in Conns, Take(c)
      PROVE  HasEntry'
  BY <1>5 DEF Take, IsAt
<1>6. ASSUME NEW c \in Conns, ReqLogin(c)
      PROVE  HasEntry'
  <2>1. PICK x \in {"recv", "dead"} : th' = [th EXCEPT ![c] = x]
    BY <1>6 DEF ReqLogin, Answers
  <2> QED
    BY <1>6, <2>1 DEF ReqLogin, Handles, Client, Packet
<1>7. ASSUME NEW c \in Conns, Login(c)
      PROVE  HasEntry'
  <2> SUFFICES ASSUME ~mixed', NEW d \in Conns, state'[d]
               PROVE  /\ self'[d] # None
                      /\ th'[d] \notin {"left", "ended", "dead"}
                           /\ self'[d] \notin overlap' \cup lost'
                         => self'[d] \in DOMAIN socklist' /\ socklist'[self'[d]] = d
    BY <1>7 DEF HasEntry, Login, Clear, Start
  <2>1. /\ th[c] = "taken" /\ th' = [th EXCEPT ![c] = "notify"] /\ self[c] \in Uids
        /\ state' = [state EXCEPT ![c] = TRUE]
        /\ socklist' = [u \in DOMAIN socklist \cup {self[c]} |->
                          IF u = self[c] THEN c ELSE socklist[u]]
        /\ UNCHANGED <<self, overlap, lost, mixed>>
    BY <1>7 DEF Login, Handles, LoginOk
  <2>2. CASE d = c
    BY <2>1, <2>2
  <2>3. CASE d # c /\ self[d] = self[c]
    BY <2>1, <2>3
  <2>4. CASE d # c /\ self[d] # self[c]
    BY <2>1, <2>4
  <2> QED
    BY <2>2, <2>3, <2>4
<1>8. ASSUME NEW c \in Conns, Notify(c)
      PROVE  HasEntry'
  <2>1. PICK x \in {"recv", "dead"} : th' = [th EXCEPT ![c] = x]
    BY <1>8 DEF Notify, Answers
  <2> QED
    BY <1>8, <2>1 DEF Notify, Client
<1>9. ASSUME NEW c \in Conns, Refuse(c)
      PROVE  HasEntry'
  <2>1. PICK x \in {"recv", "dead"} : th' = [th EXCEPT ![c] = x]
    BY <1>9 DEF Refuse, Answers
  <2> QED
    BY <1>9, <2>1 DEF Refuse, Handles, Client
<1>10. ASSUME NEW c \in Conns, Ask(c)
       PROVE  HasEntry'
  <2>1. PICK x \in {"recv", "dead"} : th' = [th EXCEPT ![c] = x]
    BY <1>10 DEF Ask, Answers
  <2> QED
    BY <1>10, <2>1 DEF Ask, Handles
<1>11. ASSUME NEW c \in Conns, SendMsg(c)
       PROVE  HasEntry'
  <2>1. PICK x \in {"recv", "dead"} : th' = [th EXCEPT ![c] = x]
    BY <1>11 DEF SendMsg, Gives, Dies
  <2> QED
    BY <1>11, <2>1 DEF SendMsg, Handles
<1>12. ASSUME NEW c \in Conns, SendGroup(c)
       PROVE  HasEntry'
  BY <1>12 DEF SendGroup, Handles
<1>13. ASSUME NEW c \in Conns, Member(c)
       PROVE  HasEntry'
  <2>1. PICK x \in {"group", "dead"} : th' = [th EXCEPT ![c] = x]
    BY <1>13 DEF Member, Gives, Dies, Types
  <2> QED
    BY <1>13, <2>1 DEF Member
<1>14. ASSUME NEW c \in Conns, GroupDone(c)
       PROVE  HasEntry'
  BY <1>14 DEF GroupDone, IsAt
<1>15. ASSUME NEW c \in Conns, End(c)
       PROVE  HasEntry'
  BY <1>15 DEF End, IsAt
<1>16. ASSUME NEW c \in Conns, Clear(c)
       PROVE  HasEntry'
  <2> SUFFICES ASSUME ~mixed', NEW d \in Conns, state'[d]
               PROVE  /\ self'[d] # None
                      /\ th'[d] \notin {"left", "ended", "dead"}
                           /\ self'[d] \notin overlap' \cup lost'
                         => self'[d] \in DOMAIN socklist' /\ socklist'[self'[d]] = d
    BY <1>16 DEF HasEntry, Login, Clear, Start
  <2>1. UNCHANGED <<self, state, overlap, lost, mixed, user>> /\ th[c] = "leave"
    BY <1>16 DEF Clear
  <2>2. CASE uid[c] = None
    <3>1. th' = [th EXCEPT ![c] = "dead"] /\ UNCHANGED socklist
      BY <1>16, <2>2 DEF Clear
    <3> QED
      BY <2>1, <3>1
  <2>3. CASE uid[c] # None
    <3>0. self[c] = uid[c]
      BY <2>1, <2>3 DEF OwnPackets
    <3>1. /\ th' = [th EXCEPT ![c] = "left"]
          /\ socklist' = [u \in DOMAIN socklist \cup {uid[c]} |->
                            IF u = uid[c] THEN "left" ELSE socklist[u]]
      BY <1>16, <2>1, <2>3 DEF Clear
    <3>2. CASE d = c
      BY <2>1, <3>1, <3>2
    <3>3. CASE d # c /\ self[d] = self[c]
      <4>0. th'[d] = th[d] /\ self[c] # None /\ th[c] = "leave"
        BY <2>1, <2>3, <3>0, <3>1, <3>3
      <4>1. th[d] \notin {"ended", "dead"} => self[d] \in overlap
        BY ONLY <3>3, <4>0, OverlapInv, c \in Conns, d \in Conns DEF OverlapInv
      <4> QED
        BY <2>1, <3>3, <4>0, <4>1
    <3>4. CASE d # c /\ self[d] # self[c]
      BY <2>1, <3>0, <3>1, <3>4
    <3> QED
      BY <3>2, <3>3, <3>4
  <2> QED
    BY <2>2, <2>3
<1>17. ASSUME NEW c \in Conns, Gone(c)
       PROVE  HasEntry'
  BY <1>17 DEF Gone, IsAt
<1>18. CASE Start
  <2> SUFFICES ASSUME ~mixed', NEW d \in Conns, state'[d]
               PROVE  /\ self'[d] # None
                      /\ th'[d] \notin {"left", "ended", "dead"}
                           /\ self'[d] \notin overlap' \cup lost'
                         => self'[d] \in DOMAIN socklist' /\ socklist'[self'[d]] = d
    BY <1>18 DEF HasEntry, Login, Clear, Start
  <2>1. /\ UNCHANGED <<th, self, state, overlap, mixed>>
        /\ lost' = {u \in DOMAIN socklist : socklist[u] \in Conns}
        /\ lost = {}
    BY <1>18 DEF Start, HasEntry
  <2> QED
    BY <2>1
<1>19. CASE Wake
  BY <1>19 DEF Wake
<1>20. CASE Update
  BY <1>20 DEF Update
<1>21. CASE PassDone
  BY <1>21 DEF PassDone
<1>22. CASE Stop
  BY <1>22 DEF Stop
<1>23. CASE AcceptEnd
  BY <1>23 DEF AcceptEnd
<1>24. CASE Close
  BY <1>24 DEF Close
<1>25. CASE UNCHANGED vars
  BY <1>25 DEF vars
<1> HIDE NamesAssumption
    DEF TypeInv, Types, Shape, ThreadAt, About, PacketInv, OwnPackets, OverlapInv, HasEntry,
      Packets, clientVars, threadVars, windowVars, histVars
<1> QED
  BY <1>1, <1>2, <1>3, <1>4, <1>5, <1>6, <1>7, <1>8, <1>9, <1>10, <1>11, <1>12, <1>13, <1>14,
    <1>15, <1>16, <1>17, <1>18, <1>19, <1>20, <1>21, <1>22, <1>23, <1>24, <1>25
  DEF Next, Thread, Window, Clients

-----------------------------------------------------------------------------
(* Sequences                                                               *)

\* A set of numbers that is not empty has a least one.
LEMMA Least ==
  ASSUME NEW I, I \subseteq Nat, I # {}
  PROVE  Min(I) \in I /\ \A y \in I : Min(I) <= y
<1>1. IsWellFoundedOn(OpToRel(<, Nat), Nat)
  BY NatLessThanWellFounded
<1>2. PICK x \in I : \A y \in I : <<y, x>> \notin OpToRel(<, Nat)
  BY <1>1, WFMin
<1>3. \A y \in I : ~(y < x)
  BY <1>2 DEF OpToRel
<1>4. \A y \in I : x <= y
  BY <1>3
<1> QED
  BY <1>4 DEF Min

LEMMA Joined ==
  ASSUME NEW S, NEW s \in Seq(S), NEW r \in Seq(S)
  PROVE  /\ s \o r \in Seq(S) /\ Len(s \o r) = Len(s) + Len(r)
         /\ \A i \in 1 .. Len(s) + Len(r) : (s \o r)[i] = IF i <= Len(s) THEN s[i] ELSE r[i - Len(s)]
OBVIOUS

\* Without its j-th element, the elements after it move up.
LEMMA RemoveElements ==
  ASSUME NEW S, NEW s \in Seq(S), NEW j \in 1 .. Len(s)
  PROVE  /\ RemoveAt(s, j) \in Seq(S) /\ Len(RemoveAt(s, j)) = Len(s) - 1
         /\ \A i \in 1 .. Len(s) - 1 : RemoveAt(s, j)[i] = IF i < j THEN s[i] ELSE s[i + 1]
<1> DEFINE a == SubSeq(s, 1, j - 1)
           b == SubSeq(s, j + 1, Len(s))
<1>1. Len(s) \in Nat /\ j \in Nat
  OBVIOUS
<1>2. a \in Seq(S) /\ Len(a) = j - 1 /\ \A i \in 1 .. j - 1 : a[i] = s[i]
  OBVIOUS
<1>3. b \in Seq(S) /\ Len(b) = Len(s) - j /\ \A i \in 1 .. Len(s) - j : b[i] = s[i + j]
  OBVIOUS
<1> HIDE DEF a, b
<1>4. /\ a \o b \in Seq(S) /\ Len(a \o b) = Len(s) - 1
      /\ \A i \in 1 .. Len(s) - 1 : (a \o b)[i] = IF i < j THEN a[i] ELSE b[i - (j - 1)]
  <2>1. Len(a) + Len(b) = Len(s) - 1 /\ \A i \in 1 .. Len(s) - 1 : i <= Len(a) <=> i < j
    BY <1>1, <1>2, <1>3
  <2>2. /\ a \o b \in Seq(S) /\ Len(a \o b) = Len(a) + Len(b)
        /\ \A i \in 1 .. Len(a) + Len(b) : (a \o b)[i] = IF i <= Len(a) THEN a[i] ELSE b[i - Len(a)]
    BY <1>2, <1>3, Joined
  <2>3. \A i \in 1 .. Len(s) - 1 : (a \o b)[i] = IF i < j THEN a[i] ELSE b[i - Len(a)]
    BY <2>1, <2>2
  <2> QED
    BY <1>2, <2>1, <2>2, <2>3
<1>5. \A i \in 1 .. Len(s) - 1 : (a \o b)[i] = IF i < j THEN s[i] ELSE s[i + 1]
  <2> SUFFICES ASSUME NEW i \in 1 .. Len(s) - 1
               PROVE  (a \o b)[i] = IF i < j THEN s[i] ELSE s[i + 1]
    OBVIOUS
  <2>1. CASE i < j
    BY <1>1, <1>2, <1>4, <2>1
  <2>2. CASE ~(i < j)
    <3>1. i - (j - 1) \in 1 .. Len(s) - j /\ (i - (j - 1)) + j = i + 1
      BY <1>1, <2>2
    <3> QED
      BY <1>3, <1>4, <2>2, <3>1
  <2> QED
    BY <2>1, <2>2
<1>6. RemoveAt(s, j) = a \o b
  BY DEF RemoveAt, a, b
<1> QED
  BY <1>4, <1>5, <1>6

\* remove() takes away the m-th element, or an equal one before it.
LEMMA FirstRemoved ==
  ASSUME NEW S, NEW s \in Seq(S), NEW m \in 1 .. Len(s)
  PROVE  \E j \in 1 .. m : s[j] = s[m] /\ RemoveFirst(s, s[m]) = RemoveAt(s, j)
<1> DEFINE I == {i \in 1 .. Len(s) : s[i] = s[m]}
<1>1. RemoveFirst(s, s[m]) = RemoveAt(s, Min(I))
  BY DEF RemoveFirst, SelectInSeq
<1>2. Min(I) \in I /\ Min(I) <= m
  <2>1. I \subseteq Nat /\ m \in I
    OBVIOUS
  <2> QED
    BY <2>1, Least
<1>3. Min(I) \in 1 .. m /\ s[Min(I)] = s[m]
  BY <1>2
<1> QED
  BY <1>1, <1>3

-----------------------------------------------------------------------------
(* What the window shows                                                   *)

\* What the update thread reads and writes.
UpdateTypes ==
  /\ updateinfo \in Seq(Uids \X BOOLEAN) /\ at \in Nat \ {0}
  /\ shows \in [Registered -> BOOLEAN] /\ ready \in BOOLEAN

\* An entry changes before the update that tells of it is in the list.
Waiting == {"notify", "left"}
Pending(u) == \E c \in Conns : th[c] \in Waiting /\ self[c] = u
Online(u) == u \in DOMAIN socklist /\ socklist[u] \in Conns

\* What the window will show of u when the updates are used up.
LastIs(s, u, b) ==
  \E i \in DOMAIN s : s[i] = <<u, b>> /\ \A m \in DOMAIN s : m > i => s[m][1] # u
Unmentioned(s, u) == \A i \in DOMAIN s : s[i][1] # u
Final(u, b) == LastIs(updateinfo, u, b) \/ (shows[u] = b /\ Unmentioned(updateinfo, u))
Agreed(u) == IF Online(u) THEN Final(u, TRUE) ELSE Final(u, FALSE)

\* What will be shown is right, unless an update is still to be put in the list,
\* which will be right in its turn.
Shown ==
  ~mixed => \A u \in Registered \ (overlap \cup lost \cup overtaken) : ~Pending(u) => Agreed(u)
Entries ==
  ~mixed => \A c \in Conns :
    /\ th[c] = "left" /\ self[c] \notin overlap
         => ~(self[c] \in DOMAIN socklist /\ socklist[self[c]] \in Conns)
    /\ th[c] = "notify" => state[c]
Table == ready => Registered \subseteq DOMAIN socklist
WindowInv == Shown /\ Entries /\ Table

\* The steps that have nothing to do with the window.
Calm ==
  /\ UNCHANGED <<ready, socklist, updateinfo, shows, state, lost, overtaken>> /\ at' \in {at, 1}
  /\ mixed => mixed'
  /\ overlap \subseteq overlap'
  /\ \A c \in Conns : /\ th[c] \in Waiting \/ th'[c] \in Waiting => th'[c] = th[c] /\ self'[c] = self[c]

LEMMA CalmSteps ==
  ASSUME TypeInv, PacketInv, [Next]_vars
  PROVE  \/ Calm \/ Start \/ Update
         \/ \E c \in Conns : Login(c) \/ Notify(c) \/ Clear(c) \/ Gone(c)
<1> USE DEF TypeInv, Types, Calm, Waiting, clientVars, threadVars, windowVars, histVars
<1>1. ASSUME NEW c \in Conns, NEW u \in Who[c], NEW knows \in BOOLEAN, Connect(c, u, knows)
      PROVE  Calm
  BY <1>1 DEF Connect, PacketInv
<1>2. ASSUME NEW c \in Conns, NEW cmd \in {"ask", "msg", "gmsg"}, NEW data \in Uids \cup {None},
             Send(c, cmd, data)
      PROVE  Calm
  BY <1>2 DEF Send
<1>3. ASSUME NEW c \in Conns, Leave(c)
      PROVE  Calm
  BY <1>3 DEF Leave
<1>4. ASSUME NEW c \in Conns, Recv(c)
      PROVE  Calm
  BY <1>4 DEF Recv, IsAt
<1>5. ASSUME NEW c \in Conns, Take(c)
      PROVE  Calm
  BY <1>5 DEF Take, IsAt
<1>6. ASSUME NEW c \in Conns, ReqLogin(c)
      PROVE  Calm
  <2>1. PICK x \in {"recv", "dead"} : th' = [th EXCEPT ![c] = x]
    BY <1>6 DEF ReqLogin, Answers
  <2> QED
    BY <1>6, <2>1 DEF ReqLogin, Handles
<1>7. ASSUME NEW c \in Conns, Refuse(c) \/ Ask(c)
      PROVE  Calm
  <2>1. PICK x \in {"recv", "dead"} : th' = [th EXCEPT ![c] = x]
    BY <1>7 DEF Refuse, Ask, Answers
  <2> QED
    BY <1>7, <2>1 DEF Refuse, Ask, Handles
<1>8. ASSUME NEW c \in Conns, SendMsg(c)
      PROVE  Calm
  <2>1. PICK x \in {"recv", "dead"} : th' = [th EXCEPT ![c] = x]
    BY <1>8 DEF SendMsg, Gives, Dies
  <2> QED
    BY <1>8, <2>1 DEF SendMsg, Handles
<1>9. ASSUME NEW c \in Conns, SendGroup(c)
      PROVE  Calm
  BY <1>9 DEF SendGroup, Handles
<1>10. ASSUME NEW c \in Conns, Member(c)
       PROVE  Calm
  <2>1. PICK x \in {"group", "dead"} : th' = [th EXCEPT ![c] = x]
    BY <1>10 DEF Member, Gives, Dies
  <2> QED
    BY <1>10, <2>1 DEF Member
<1>11. ASSUME NEW c \in Conns, GroupDone(c) \/ End(c)
       PROVE  Calm
  BY <1>11 DEF GroupDone, End, IsAt
<1>12. CASE Wake \/ PassDone \/ Stop \/ AcceptEnd \/ Close
  BY <1>12 DEF Wake, PassDone, Stop, AcceptEnd, Close
<1>13. CASE UNCHANGED vars
  BY <1>13 DEF vars
<1> HIDE DEF TypeInv, Types, Calm, Waiting, clientVars, threadVars, windowVars, histVars
<1> QED
  BY <1>1, <1>2, <1>3, <1>4, <1>5, <1>6, <1>7, <1>8, <1>9, <1>10, <1>11, <1>12, <1>13
  DEF Next, Thread, Window, Clients

LEMMA CalmWindow ==
  ASSUME WindowInv, Calm
  PROVE  WindowInv'
<1>1. /\ UNCHANGED <<ready, socklist, updateinfo, shows, state, lost, overtaken>> /\ (~mixed' => ~mixed)
      /\ overlap \subseteq overlap'
      /\ \A c \in Conns : th[c] \in Waiting \/ th'[c] \in Waiting => th'[c] = th[c] /\ self'[c] = self[c]
  BY DEF Calm
<1>2. \A u : Pending(u)' <=> Pending(u)
  BY <1>1 DEF Pending
<1>3. \A u : Agreed(u)' <=> Agreed(u)
  BY <1>1 DEF Agreed, Final, LastIs, Unmentioned, Online
<1>4. \A c \in Conns : th'[c] \in {"left", "notify"} => th'[c] = th[c] /\ self'[c] = self[c]
  BY <1>1 DEF Waiting
<1>5. \A u : Online(u)' <=> Online(u)
  BY <1>1 DEF Online
<1>6. Entries'
  <2>1. Entries
    BY DEF WindowInv
  <2> QED
    BY <1>1, <1>4, <2>1 DEF Entries
<1>7. Shown' /\ Table'
  BY <1>1, <1>2, <1>3 DEF WindowInv, Shown, Table
<1> QED
  BY <1>6, <1>7 DEF WindowInv

LEMMA StepUpdateTypes ==
  ASSUME TypeInv, PacketInv, UpdateTypes, [Next]_vars
  PROVE  UpdateTypes'
<1> USE DEF UpdateTypes
<1>1. CASE Calm
  BY <1>1 DEF Calm
<1>2. CASE Start
  BY <1>2 DEF Start, windowVars
<1>3. CASE Update
  <2>1. at \in 1 .. Len(updateinfo) /\ updateinfo[at] \in Uids \X BOOLEAN
    BY <1>3 DEF Update
  <2>2. /\ updateinfo' = RemoveFirst(updateinfo, updateinfo[at]) /\ at' = at + 1 /\ ready' = ready
        /\ shows' = [u \in Registered |-> IF u = updateinfo[at][1] THEN updateinfo[at][2] ELSE shows[u]]
    BY <1>3 DEF Update
  <2>3. PICK j \in 1 .. at : RemoveFirst(updateinfo, updateinfo[at]) = RemoveAt(updateinfo, j)
    BY <2>1, FirstRemoved
  <2>4. j \in 1 .. Len(updateinfo)
    BY <2>1
  <2>5. updateinfo' \in Seq(Uids \X BOOLEAN)
    BY <2>2, <2>3, <2>4, RemoveElements
  <2>6. shows' \in [Registered -> BOOLEAN]
    BY <2>1, <2>2
  <2> QED
    BY <2>2, <2>5, <2>6
<1>4. ASSUME NEW c \in Conns, Login(c) \/ Clear(c)
      PROVE  UpdateTypes'
  BY <1>4 DEF Login, Clear, windowVars
<1>5. ASSUME NEW c \in Conns, Notify(c) \/ Gone(c)
      PROVE  UpdateTypes'
  <2>1. PICK info \in Uids \X BOOLEAN : updateinfo' = Append(updateinfo, info)
    BY <1>5, NamesAssumption DEF Notify, Gone, IsAt, TypeInv, Shape
  <2>2. updateinfo' \in Seq(Uids \X BOOLEAN)
    BY <2>1
  <2> QED
    BY <1>5, <2>2 DEF Notify, Gone, windowVars
<1> QED
  BY <1>1, <1>2, <1>3, <1>4, <1>5, CalmSteps

\* An entry is changed before the window hears of it.
LEMMA LoginWindow ==
  ASSUME TypeInv, OverlapInv, WindowInv, NEW c \in Conns, Login(c)
  PROVE  WindowInv'
<1>1. /\ th[c] = "taken" /\ th' = [th EXCEPT ![c] = "notify"] /\ self[c] \in Registered /\ self[c] # None
      /\ state' = [state EXCEPT ![c] = TRUE]
      /\ socklist' = [u \in DOMAIN socklist \cup {self[c]} |-> IF u = self[c] THEN c ELSE socklist[u]]
      /\ UNCHANGED <<self, ready, updateinfo, shows, mixed, overlap, lost, overtaken>>
  BY NamesAssumption DEF Login, Handles, LoginOk, windowVars, histVars
<1>2. th'[c] = "notify" /\ state'[c] /\ \A d \in Conns : d # c => th'[d] = th[d] /\ state'[d] = state[d]
  BY <1>1 DEF TypeInv, Types
<1>3. \A u : u = self[c] => Pending(u)'
  BY <1>1, <1>2 DEF Pending, Waiting
<1>4. \A u : u # self[c] => (Pending(u)' <=> Pending(u))
  <2>1. \A d \in Conns : self[d] # self[c] => d # c
    OBVIOUS
  <2> QED
    BY <1>1, <1>2, <2>1 DEF Pending
<1>5. \A u : u # self[c] => (Online(u)' <=> Online(u))
  BY <1>1 DEF Online
<1>6. \A u : u # self[c] => (Agreed(u)' <=> Agreed(u))
  BY <1>1, <1>5 DEF Agreed, Final, LastIs, Unmentioned
<1>e. Entries
  BY DEF WindowInv
<1>7. ASSUME ~mixed, NEW d \in Conns, th'[d] = "left", self[d] \notin overlap
      PROVE  ~(self[d] \in DOMAIN socklist' /\ socklist'[self[d]] \in Conns)
  <2>1. d # c /\ th[d] = "left"
    BY <1>2, <1>7
  <2>2. self[d] # self[c]
    BY <1>1, <1>7, <2>1 DEF OverlapInv
  <2>3. ~(self[d] \in DOMAIN socklist /\ socklist[self[d]] \in Conns)
    BY <1>7, <1>e, <2>1 DEF Entries
  <2> QED
    BY <1>1, <2>2, <2>3
<1>8. ~mixed => \A d \in Conns : th'[d] = "notify" => state'[d]
  BY <1>2 DEF WindowInv, Shown, Entries, Table
<1>9. ready => Registered \subseteq DOMAIN socklist'
  BY <1>1 DEF WindowInv, Shown, Entries, Table
<1>10. ~mixed => \A u \in Registered \ (overlap \cup lost \cup overtaken) : ~Pending(u)' => Agreed(u)'
  <2>1. Shown
    BY DEF WindowInv
  <2> QED
    BY <1>3, <1>4, <1>6, <2>1 DEF Shown
<1>11. \A d \in Conns : self'[d] = self[d]
  BY <1>1
<1>12. ~mixed' => \A u \in Registered \ (overlap' \cup lost' \cup overtaken') : ~Pending(u)' => Agreed(u)'
  BY <1>1, <1>10
<1>13. Shown'
  BY <1>12 DEF Shown
<1>14. Table'
  BY <1>1, <1>9 DEF Table
<1>15. Entries'
  BY <1>1, <1>7, <1>8, <1>11 DEF Entries
<1> QED
  BY <1>13, <1>14, <1>15 DEF WindowInv

LEMMA ClearWindow ==
  ASSUME TypeInv, OwnPackets, WindowInv, NEW c \in Conns, Clear(c)
  PROVE  WindowInv'
<1>1. /\ th[c] = "leave" /\ UNCHANGED <<uid, at, self, state, ready, updateinfo, shows, mixed, overlap, lost, overtaken>>
  BY DEF Clear, windowVars, histVars
<1>2. CASE uid[c] = None
  <2>1. UNCHANGED socklist /\ th' = [th EXCEPT ![c] = "dead"]
    BY <1>2 DEF Clear
  <2>2. Calm
    BY <1>1, <2>1 DEF Calm, Waiting, TypeInv, Types
  <2> QED
    BY <2>2, CalmWindow
<1>3. CASE uid[c] # None
  <2>1. /\ th' = [th EXCEPT ![c] = "left"]
        /\ socklist' = [u \in DOMAIN socklist \cup {uid[c]} |-> IF u = uid[c] THEN "left" ELSE socklist[u]]
    BY <1>3 DEF Clear
  <2>2. th'[c] = "left" /\ \A d \in Conns : d # c => th'[d] = th[d]
    BY <2>1 DEF TypeInv, Types
  <2>3. \A u : u # uid[c] => (Online(u)' <=> Online(u))
    BY <2>1 DEF Online
  <2>4. ~Online(uid[c])'
    BY <1>1, <2>1, NamesAssumption DEF Online
  <2>5. \A u : u # uid[c] => (Agreed(u)' <=> Agreed(u))
    BY <1>1, <2>3 DEF Agreed, Final, LastIs, Unmentioned
  <2>6. ~mixed => self[c] = uid[c]
    BY <1>1, <1>3 DEF OwnPackets
  <2>7. ~mixed => Pending(uid[c])'
    BY <1>1, <2>2, <2>6 DEF Pending, Waiting
  <2>8. \A u : Pending(u) => Pending(u)'
    BY <1>1, <2>2 DEF Pending, Waiting
  <2>9. ~mixed => \A u \in Registered \ (overlap \cup lost \cup overtaken) : ~Pending(u)' => Agreed(u)'
    BY <1>1, <2>5, <2>7, <2>8 DEF WindowInv, Shown, Entries, Table
  <2>e. Entries
    BY DEF WindowInv
  <2>10. ASSUME ~mixed, NEW d \in Conns, th'[d] = "left", self[d] \notin overlap
         PROVE  ~(self[d] \in DOMAIN socklist' /\ socklist'[self[d]] \in Conns)
    <3>1. CASE self[d] = uid[c]
      BY <2>1, <3>1, NamesAssumption
    <3>2. CASE self[d] # uid[c]
      <4>1. d # c /\ th[d] = "left"
        BY <2>2, <2>6, <2>10, <3>2
      <4>2. ~(self[d] \in DOMAIN socklist /\ socklist[self[d]] \in Conns)
        BY <2>10, <2>e, <4>1 DEF Entries
      <4> QED
        BY <2>1, <3>2, <4>2
    <3> QED
      BY <3>1, <3>2
  <2>11. ~mixed => \A d \in Conns : th'[d] = "notify" => state[d]
    BY <2>2 DEF WindowInv, Shown, Entries, Table
  <2>12. ready => Registered \subseteq DOMAIN socklist'
    BY <2>1 DEF WindowInv, Shown, Entries, Table
  <2>13. \A d \in Conns : self'[d] = self[d]
    BY <1>1
  <2> QED
    BY <1>1, <2>9, <2>10, <2>11, <2>12, <2>13 DEF WindowInv, Shown, Entries, Table, Online
<1> QED
  BY <1>2, <1>3

\* stk_main() forgets who is logged in already, and says so in lost.
LEMMA StartWindow ==
  ASSUME TypeInv, HasEntry, WindowInv, Start
  PROVE  WindowInv'
<1>1. /\ ~ready /\ ready' = TRUE /\ lost' = {u \in DOMAIN socklist : socklist[u] \in Conns}
      /\ socklist' = [u \in Registered |-> "never"]
      /\ UNCHANGED <<th, self, state, updateinfo, shows, mixed, overlap, overtaken>>
  BY DEF Start, threadVars, windowVars
<1>2. lost = {}
  BY <1>1 DEF HasEntry
<1>3. \A u : ~Online(u)'
  BY <1>1, NamesAssumption DEF Online
<1>4. \A u : u \notin lost' => ~Online(u)
  BY <1>1 DEF Online
<1>5. \A u : Pending(u)' <=> Pending(u)
  BY <1>1 DEF Pending
<1>6. \A u : u \notin lost' => (Agreed(u)' <=> Agreed(u))
  BY <1>1, <1>3, <1>4 DEF Agreed, Final, LastIs, Unmentioned
<1>7. ~mixed => \A u \in Registered \ (overlap \cup lost' \cup overtaken) : ~Pending(u)' => Agreed(u)'
  BY <1>2, <1>5, <1>6 DEF WindowInv, Shown, Entries, Table
<1>8. \A d \in Conns : ~Online(self[d])'
  BY <1>3 DEF Online
<1>9. Registered \subseteq DOMAIN socklist'
  BY <1>1
<1> QED
  BY <1>1, <1>7, <1>8, <1>9 DEF WindowInv, Shown, Entries, Table, Online

\* An update of another user changes nothing, whichever is removed.
LEMMA RemoveOther ==
  ASSUME NEW s \in Seq(Uids \X BOOLEAN), NEW j \in 1 .. Len(s), NEW t, t = RemoveAt(s, j),
         NEW u, s[j][1] # u
  PROVE  /\ Unmentioned(t, u) <=> Unmentioned(s, u)
         /\ \A b : LastIs(t, u, b) <=> LastIs(s, u, b)
<1>1. /\ DOMAIN s = 1 .. Len(s) /\ DOMAIN t = 1 .. Len(s) - 1 /\ Len(s) \in Nat /\ j \in Nat
      /\ \A i \in 1 .. Len(s) - 1 : t[i] = IF i < j THEN s[i] ELSE s[i + 1]
  <2>1. /\ t \in Seq(Uids \X BOOLEAN) /\ Len(t) = Len(s) - 1
        /\ \A i \in 1 .. Len(s) - 1 : t[i] = IF i < j THEN s[i] ELSE s[i + 1]
    BY RemoveElements
  <2>2. DOMAIN t = 1 .. Len(t) /\ DOMAIN s = 1 .. Len(s)
    BY <2>1
  <2> QED
    BY <2>1, <2>2
<1>2. \A i \in DOMAIN t : i < j => i \in DOMAIN s /\ t[i] = s[i]
  BY <1>1
<1>3. \A i \in DOMAIN t : ~(i < j) => i + 1 \in DOMAIN s /\ t[i] = s[i + 1]
  BY <1>1
<1>4. \A i \in DOMAIN s : i < j => i \in DOMAIN t
  BY <1>1
<1>5. \A i \in DOMAIN s : i > j => i - 1 \in DOMAIN t /\ ~(i - 1 < j) /\ t[i - 1] = s[i]
  BY <1>1
<1>6. \A i \in DOMAIN s : i < j \/ i > j \/ i = j
  BY <1>1
<1>7. (\A i \in DOMAIN t : t[i][1] # u) <=> (\A i \in DOMAIN s : s[i][1] # u)
  BY <1>2, <1>3, <1>4, <1>5, <1>6
<1>8. ASSUME NEW b, NEW i \in DOMAIN t, t[i] = <<u, b>>, \A m \in DOMAIN t : m > i => t[m][1] # u
      PROVE  \E h \in DOMAIN s : s[h] = <<u, b>> /\ \A m \in DOMAIN s : m > h => s[m][1] # u
  <2>1. CASE i < j
    <3>1. i \in DOMAIN s /\ s[i] = <<u, b>>
      BY <1>2, <1>8, <2>1
    <3>2. ASSUME NEW m \in DOMAIN s, m > i
          PROVE  s[m][1] # u
      <4>1. CASE m < j
        BY <1>2, <1>4, <1>8, <3>2, <4>1
      <4>2. CASE m > j
        <5>1. m - 1 > i
          BY <1>1, <2>1, <4>2
        <5> QED
          BY <1>5, <1>8, <4>2, <5>1
      <4> QED
        BY <1>6, <4>1, <4>2
    <3> QED
      BY <3>1, <3>2
  <2>2. CASE ~(i < j)
    <3>1. i + 1 \in DOMAIN s /\ s[i + 1] = <<u, b>>
      BY <1>3, <1>8, <2>2
    <3>2. ASSUME NEW m \in DOMAIN s, m > i + 1
          PROVE  s[m][1] # u
      <4>1. m > j /\ m - 1 > i
        BY <1>1, <2>2, <3>2
      <4> QED
        BY <1>5, <1>8, <4>1
    <3> QED
      BY <3>1, <3>2
  <2> QED
    BY <2>1, <2>2
<1>9. ASSUME NEW b, NEW i \in DOMAIN s, s[i] = <<u, b>>, \A m \in DOMAIN s : m > i => s[m][1] # u
      PROVE  \E h \in DOMAIN t : t[h] = <<u, b>> /\ \A m \in DOMAIN t : m > h => t[m][1] # u
  <2>1. i # j
    BY <1>9
  <2>2. CASE i < j
    <3>1. i \in DOMAIN t /\ t[i] = <<u, b>>
      BY <1>2, <1>4, <1>9, <2>2
    <3>2. ASSUME NEW m \in DOMAIN t, m > i
          PROVE  t[m][1] # u
      <4>1. CASE m < j
        BY <1>2, <1>9, <3>2, <4>1
      <4>2. CASE ~(m < j)
        <5>1. m + 1 > i
          BY <1>1, <3>2
        <5> QED
          BY <1>3, <1>9, <4>2, <5>1
      <4> QED
        BY <4>1, <4>2
    <3> QED
      BY <3>1, <3>2
  <2>3. CASE i > j
    <3>1. i - 1 \in DOMAIN t /\ t[i - 1] = <<u, b>>
      BY <1>5, <1>9, <2>3
    <3>2. ASSUME NEW m \in DOMAIN t, m > i - 1
          PROVE  t[m][1] # u
      <4>1. ~(m < j) /\ m + 1 > i
        BY <1>1, <2>3, <3>2
      <4> QED
        BY <1>3, <1>9, <4>1
    <3> QED
      BY <3>1, <3>2
  <2> QED
    BY <1>6, <2>1, <2>2, <2>3
<1> QED
  BY <1>7, <1>8, <1>9 DEF LastIs, Unmentioned

\* An update that no earlier one of its user precedes is shown and removed; what
\* is shown in the end stays the same.
LEMMA RemoveOwn ==
  ASSUME NEW s \in Seq(Uids \X BOOLEAN), NEW j \in 1 .. Len(s), NEW t, t = RemoveAt(s, j),
         NEW u, NEW b, \A i \in 1 .. j - 1 : s[i][1] # u,
         LastIs(s, u, b)
  PROVE  LastIs(t, u, b) \/ (s[j][2] = b /\ Unmentioned(t, u))
<1>1. /\ DOMAIN s = 1 .. Len(s) /\ DOMAIN t = 1 .. Len(s) - 1 /\ Len(s) \in Nat /\ j \in Nat
      /\ \A i \in 1 .. Len(s) - 1 : t[i] = IF i < j THEN s[i] ELSE s[i + 1]
  <2>1. /\ t \in Seq(Uids \X BOOLEAN) /\ Len(t) = Len(s) - 1
        /\ \A i \in 1 .. Len(s) - 1 : t[i] = IF i < j THEN s[i] ELSE s[i + 1]
    BY RemoveElements
  <2>2. DOMAIN t = 1 .. Len(t) /\ DOMAIN s = 1 .. Len(s)
    BY <2>1
  <2> QED
    BY <2>1, <2>2
<1>2. \A i \in DOMAIN t : i < j => i \in 1 .. j - 1 /\ t[i] = s[i]
  BY <1>1
<1>3. \A i \in DOMAIN t : ~(i < j) => i + 1 \in DOMAIN s /\ t[i] = s[i + 1]
  BY <1>1
<1>4. \A i \in DOMAIN s : i > j => i - 1 \in DOMAIN t /\ ~(i - 1 < j) /\ t[i - 1] = s[i]
  BY <1>1
<1>5. PICK i \in DOMAIN s : s[i] = <<u, b>> /\ \A m \in DOMAIN s : m > i => s[m][1] # u
  BY DEF LastIs
<1>6. i = j \/ i > j
  <2>1. i \notin 1 .. j - 1
    BY <1>5
  <2> QED
    BY <1>1, <2>1
<1>7. CASE i = j
  <2>1. s[j][2] = b
    BY <1>5, <1>7
  <2>2. ASSUME NEW m \in DOMAIN t
        PROVE  t[m][1] # u
    <3>1. CASE m < j
      BY <1>2, <3>1
    <3>2. CASE ~(m < j)
      <4>1. m + 1 > i
        BY <1>1, <1>7, <3>2
      <4> QED
        BY <1>3, <1>5, <3>2, <4>1
    <3> QED
      BY <3>1, <3>2
  <2> QED
    BY <2>1, <2>2 DEF Unmentioned
<1>8. CASE i > j
  <2>1. i - 1 \in DOMAIN t /\ t[i - 1] = <<u, b>>
    BY <1>4, <1>5, <1>8
  <2>2. ASSUME NEW m \in DOMAIN t, m > i - 1
        PROVE  t[m][1] # u
    <3>1. ~(m < j) /\ m + 1 > i
      BY <1>1, <1>8, <2>2
    <3> QED
      BY <1>3, <1>5, <3>1
  <2> QED
    BY <2>1, <2>2 DEF LastIs
<1> QED
  BY <1>6, <1>7, <1>8

\* Notify() and Gone() append the update that the entry has waited for.
LEMMA AppendFinal ==
  ASSUME UpdateTypes, NEW u \in Uids, NEW b \in BOOLEAN, updateinfo' = Append(updateinfo, <<u, b>>),
         UNCHANGED shows
  PROVE  /\ Final(u, b)'
         /\ \A v \in Registered : v # u => \A x : Final(v, x) => Final(v, x)'
<1>1. updateinfo \in Seq(Uids \X BOOLEAN) /\ <<u, b>> \in Uids \X BOOLEAN
  BY DEF UpdateTypes
<1>2. /\ DOMAIN updateinfo = 1 .. Len(updateinfo) /\ Len(updateinfo) \in Nat
      /\ DOMAIN updateinfo' = 1 .. Len(updateinfo) + 1
      /\ \A i \in DOMAIN updateinfo : i \in DOMAIN updateinfo' /\ updateinfo'[i] = updateinfo[i]
      /\ Len(updateinfo) + 1 \in DOMAIN updateinfo' /\ updateinfo'[Len(updateinfo) + 1] = <<u, b>>
  BY <1>1
<1>3. \A i \in DOMAIN updateinfo' : i \in DOMAIN updateinfo \/ i = Len(updateinfo) + 1
  BY <1>2
<1>4. \A i \in DOMAIN updateinfo' : ~(i > Len(updateinfo) + 1)
  BY <1>2
<1>5. Final(u, b)'
  BY <1>2, <1>4 DEF Final, LastIs, Unmentioned
<1>6. ASSUME NEW v \in Registered, v # u, NEW x, Final(v, x)
      PROVE  Final(v, x)'
  <2>1. updateinfo'[Len(updateinfo) + 1][1] # v
    BY <1>2, <1>6
  <2>2. \A i \in DOMAIN updateinfo' : i \in DOMAIN updateinfo => updateinfo'[i] = updateinfo[i]
    BY <1>2
  <2>3. CASE \E i \in DOMAIN updateinfo :
               updateinfo[i] = <<v, x>> /\ \A j \in DOMAIN updateinfo : j > i => updateinfo[j][1] # v
    <3>1. PICK i \in DOMAIN updateinfo :
               updateinfo[i] = <<v, x>> /\ \A j \in DOMAIN updateinfo : j > i => updateinfo[j][1] # v
      BY <2>3
    <3>2. i \in DOMAIN updateinfo' /\ updateinfo'[i] = <<v, x>>
      BY <1>2, <3>1
    <3>3. \A j \in DOMAIN updateinfo' : j > i => updateinfo'[j][1] # v
      BY <1>3, <2>1, <2>2, <3>1
    <3> QED
      BY <3>2, <3>3 DEF Final, LastIs, Unmentioned
  <2>4. CASE shows[v] = x /\ \A i \in DOMAIN updateinfo : updateinfo[i][1] # v
    <3>1. \A j \in DOMAIN updateinfo' : updateinfo'[j][1] # v
      BY <1>3, <2>1, <2>2, <2>4
    <3> QED
      BY <2>4, <3>1 DEF Final, LastIs, Unmentioned
  <2> QED
    BY <1>6, <2>3, <2>4 DEF Final, LastIs, Unmentioned
<1> QED
  BY <1>5, <1>6

LEMMA AppendWindow ==
  ASSUME TypeInv, OwnPackets, HasEntry, UpdateTypes, WindowInv, NEW c \in Conns, Notify(c) \/ Gone(c)
  PROVE  WindowInv'
<1>1. UNCHANGED <<self, state, ready, socklist, shows, mixed, overlap, lost, overtaken>>
  BY DEF Notify, Gone, windowVars, histVars
<1>2. th[c] \in {"notify", "left"} /\ th'[c] \notin {"notify", "left"}
      /\ \A d \in Conns : d # c => th'[d] = th[d]
  BY DEF Notify, Gone, IsAt, Answers, TypeInv, Types
<1>3. \A d \in Conns : th'[d] \in {"notify", "left"} => th'[d] = th[d]
  BY <1>2
<1>4. Table'
  BY <1>1 DEF WindowInv, Table
<1>5. \A d \in Conns : self'[d] = self[d]
  BY <1>1
<1>6. Entries
  BY DEF WindowInv
<1>7. Entries'
  BY <1>1, <1>3, <1>5, <1>6 DEF Entries, Online
<1> SUFFICES ASSUME ~mixed, NEW u \in Registered \ (overlap \cup lost \cup overtaken), ~Pending(u)'
             PROVE  Agreed(u)'
  BY <1>1, <1>4, <1>7 DEF WindowInv, Shown
<1>8. Online(u)' <=> Online(u)
  BY <1>1 DEF Online
<1>9. CASE Notify(c)
  <2>1. th[c] = "notify" /\ updateinfo' = Append(updateinfo, <<self[c], TRUE>>) /\ self[c] \in Uids
    BY <1>9, NamesAssumption DEF Notify, TypeInv, Shape
  <2>2. CASE u = self[c]
    <3>1. Final(u, TRUE)'
      BY <1>1, <2>1, <2>2, AppendFinal
    <3>2. state[c] /\ th[c] \notin {"left", "ended", "dead"} /\ self[c] \notin overlap \cup lost
      BY <1>6, <2>1, <2>2 DEF Entries
    <3>3. self[c] \in DOMAIN socklist /\ socklist[self[c]] = c
      BY <3>2 DEF HasEntry
    <3>4. Online(u)
      BY <2>2, <3>3 DEF Online
    <3> QED
      BY <1>8, <3>1, <3>4 DEF Agreed
  <2>3. CASE u # self[c]
    <3>1. Final(u, TRUE) => Final(u, TRUE)'
      BY <1>1, <2>1, <2>3, AppendFinal
    <3>2. Final(u, FALSE) => Final(u, FALSE)'
      BY <1>1, <2>1, <2>3, AppendFinal
    <3>3. ~Pending(u)
      BY <1>1, <1>2, <2>3 DEF Pending, Waiting
    <3>4. Agreed(u)
      BY <3>3 DEF WindowInv, Shown
    <3> QED
      BY <1>8, <3>1, <3>2, <3>4 DEF Agreed
  <2> QED
    BY <2>2, <2>3
<1>10. CASE Gone(c)
  <2>1. th[c] = "left" /\ updateinfo' = Append(updateinfo, <<uid[c], FALSE>>) /\ uid[c] \in Uids
    BY <1>10, NamesAssumption DEF Gone, IsAt, TypeInv, Shape
  <2>0. self[c] = uid[c]
    BY <2>1, NamesAssumption DEF OwnPackets
  <2>2. CASE u = uid[c]
    <3>1. Final(u, FALSE)'
      BY <1>1, <2>1, <2>2, AppendFinal
    <3>2. ~Online(u)
      <4>1. self[c] \notin overlap
        BY <2>0, <2>2
      <4> QED
        BY <1>6, <2>0, <2>1, <2>2, <4>1 DEF Entries, Online
    <3> QED
      BY <1>8, <3>1, <3>2 DEF Agreed
  <2>3. CASE u # uid[c]
    <3>1. Final(u, TRUE) => Final(u, TRUE)'
      BY <1>1, <2>1, <2>3, AppendFinal
    <3>2. Final(u, FALSE) => Final(u, FALSE)'
      BY <1>1, <2>1, <2>3, AppendFinal
    <3>3. ~Pending(u)
      BY <1>1, <1>2, <2>0, <2>3 DEF Pending, Waiting
    <3>4. Agreed(u)
      BY <3>3 DEF WindowInv, Shown
    <3> QED
      BY <1>8, <3>1, <3>2, <3>4 DEF Agreed
  <2> QED
    BY <2>2, <2>3
<1> QED
  BY <1>9, <1>10

LEMMA UpdateWindow ==
  ASSUME UpdateTypes, WindowInv, Update
  PROVE  WindowInv'
<1>1. /\ UNCHANGED <<th, self, state, ready, socklist, mixed, overlap, lost>>
      /\ updateinfo' = RemoveFirst(updateinfo, updateinfo[at])
      /\ shows' = [u \in Registered |-> IF u = updateinfo[at][1] THEN updateinfo[at][2] ELSE shows[u]]
      /\ overtaken' = IF \E i \in 1 .. at - 1 : updateinfo[i][1] = updateinfo[at][1]
                      THEN overtaken \cup {updateinfo[at][1]} ELSE overtaken
  BY DEF Update, threadVars
<1>2. at \in 1 .. Len(updateinfo) /\ at \in Nat /\ updateinfo \in Seq(Uids \X BOOLEAN)
      /\ updateinfo[at] \in Uids \X BOOLEAN /\ updateinfo[at] = <<updateinfo[at][1], updateinfo[at][2]>>
  BY DEF Update, UpdateTypes
<1>3. PICK j \in 1 .. at : updateinfo[j] = updateinfo[at] /\ updateinfo' = RemoveAt(updateinfo, j)
  BY <1>1, <1>2, FirstRemoved
<1>4. j \in 1 .. Len(updateinfo)
  BY <1>2
<1>5. overtaken \subseteq overtaken' /\ (updateinfo[at][1] \notin overtaken' => \A i \in 1 .. at - 1 : updateinfo[i][1] # updateinfo[at][1])
  BY <1>1
<1>6. (\A u : Pending(u)' <=> Pending(u)) /\ \A u : Online(u)' <=> Online(u)
  BY <1>1 DEF Pending, Online
<1>7. Table' /\ Entries'
  <2>1. \A d \in Conns : self'[d] = self[d]
    BY <1>1
  <2> QED
    BY <1>1, <2>1 DEF WindowInv, Table, Entries, Online
<1>8. ASSUME NEW u \in Registered, u \notin overtaken', NEW b, Final(u, b)
      PROVE  Final(u, b)'
  <2>1. CASE u # updateinfo[at][1]
    <3>1. updateinfo[j][1] # u /\ shows'[u] = shows[u]
      BY <1>1, <1>3, <2>1
    <3>2. \A t : t = RemoveAt(updateinfo, j) =>
            (Unmentioned(t, u) <=> Unmentioned(updateinfo, u)) /\ (LastIs(t, u, b) <=> LastIs(updateinfo, u, b))
      BY <1>2, <1>4, <3>1, RemoveOther
    <3>3. (Unmentioned(updateinfo', u) <=> Unmentioned(updateinfo, u))
          /\ (LastIs(updateinfo', u, b) <=> LastIs(updateinfo, u, b))
      BY <1>3, <3>2
    <3> QED
      BY <1>8, <3>1, <3>3 DEF Final
  <2>2. CASE u = updateinfo[at][1]
    <3>1. \A i \in 1 .. at - 1 : updateinfo[i][1] # u
      BY <1>5, <1>8, <2>2
    <3>2. j = at
      <4>1. j \notin 1 .. at - 1
        BY <1>3, <2>2, <3>1
      <4> QED
        BY <1>2, <4>1
    <3>3. at \in DOMAIN updateinfo /\ updateinfo[at][1] = u
      BY <1>2, <2>2
    <3>4. LastIs(updateinfo, u, b)
      BY <1>8, <3>3 DEF Final, Unmentioned
    <3>5. updateinfo[j] = <<u, updateinfo[at][2]>> /\ \A i \in 1 .. j - 1 : updateinfo[i][1] # u
      BY <1>2, <2>2, <3>1, <3>2
    <3>6. shows'[u] = updateinfo[at][2]
      BY <1>1, <2>2
    <3>7. \A t : t = RemoveAt(updateinfo, j) =>
            LastIs(t, u, b) \/ (updateinfo[j][2] = b /\ Unmentioned(t, u))
      <4>1. updateinfo \in Seq(Uids \X BOOLEAN)
        BY <1>2
      <4>2. \A i \in 1 .. j - 1 : updateinfo[i][1] # u
        BY <3>5
      <4> QED
        BY <4>1, <4>2, <1>4, <3>4, RemoveOwn
    <3>8. LastIs(updateinfo', u, b) \/ (updateinfo[at][2] = b /\ Unmentioned(updateinfo', u))
      BY <1>3, <3>2, <3>7
    <3> QED
      BY <3>6, <3>8 DEF Final
  <2> QED
    BY <2>1, <2>2
<1> SUFFICES ASSUME ~mixed, NEW u \in Registered \ (overlap \cup lost \cup overtaken'), ~Pending(u)
             PROVE  Agreed(u)'
  BY <1>1, <1>6, <1>7 DEF WindowInv, Shown
<1>9. Agreed(u)
  BY <1>5 DEF WindowInv, Shown
<1>10. (Final(u, TRUE) => Final(u, TRUE)') /\ (Final(u, FALSE) => Final(u, FALSE)')
  BY <1>8
<1> QED
  BY <1>6, <1>9, <1>10 DEF Agreed

-----------------------------------------------------------------------------
(* The rest of the types                                                   *)

\* What no other argument speaks of: the clients' counts, the flags of the window,
\* and the histories.
OtherTypes ==
  /\ sends \in [Conns -> Nat] /\ \A c \in Conns : sends[c] <= MaxMsg[c]
  /\ upc \in {"sleep", "loop", "ended"}
  /\ exiting \in BOOLEAN /\ running \in BOOLEAN /\ accepting \in BOOLEAN
  /\ overlap \subseteq Uids /\ lost \subseteq Uids /\ overtaken \subseteq Uids

LEMMA InitOtherTypes == Init => OtherTypes /\ UpdateTypes
<1> SUFFICES ASSUME Init
             PROVE  OtherTypes /\ UpdateTypes
  OBVIOUS
<1>1. OtherTypes
  <2>1. \A c \in Conns : MaxMsg[c] \in Nat /\ 0 \in Nat /\ 0 <= MaxMsg[c]
    BY BoundsAssumption
  <2>2. sends = [c \in Conns |-> 0]
    BY DEF Init
  <2>3. sends \in [Conns -> Nat] /\ \A c \in Conns : sends[c] <= MaxMsg[c]
    BY <2>1, <2>2
  <2> QED
    BY <2>3 DEF Init, OtherTypes
<1>2. <<>> \in Seq(Uids \X BOOLEAN) /\ 1 \in Nat \ {0}
  OBVIOUS
<1>3. UpdateTypes
  BY <1>2 DEF Init, UpdateTypes
<1> QED
  BY <1>1, <1>3

LEMMA StepOtherTypes ==
  ASSUME TypeInv, UpdateTypes, OtherTypes, [Next]_vars
  PROVE  OtherTypes'
<1> USE BoundsAssumption DEF OtherTypes, windowVars, histVars, clientVars, threadVars
<1>1. ASSUME NEW c \in Conns, Recv(c) \/ Login(c) \/ Notify(c) \/ Refuse(c) \/ Ask(c) \/ SendMsg(c)
      PROVE  OtherTypes'
  BY <1>1 DEF Recv, Login, Notify, Refuse, Ask, SendMsg
<1>2. ASSUME NEW c \in Conns,
             SendGroup(c) \/ Member(c) \/ GroupDone(c) \/ End(c) \/ Clear(c) \/ Gone(c) \/ Take(c)
      PROVE  OtherTypes'
  BY <1>2 DEF SendGroup, Member, GroupDone, End, Clear, Gone, Take
<1>3. ASSUME NEW c \in Conns, ReqLogin(c)
      PROVE  OtherTypes'
  <2>1. pkt[c].uid \in Uids
    BY <1>3 DEF ReqLogin, Handles, TypeInv, Shape, Packets
  <2>2. overlap' \subseteq overlap \cup {pkt[c].uid}
    BY <1>3 DEF ReqLogin
  <2> QED
    BY <1>3, <2>1, <2>2 DEF ReqLogin
<1>4. CASE Start
  <2>1. lost' \subseteq DOMAIN socklist
    BY <1>4 DEF Start
  <2> QED
    BY <1>4, <2>1 DEF Start, TypeInv, Types
<1>5. CASE Update
  <2>1. updateinfo[at] \in Uids \X BOOLEAN
    BY <1>5 DEF Update, UpdateTypes
  <2>2. overtaken' \subseteq overtaken \cup {updateinfo[at][1]}
    BY <1>5 DEF Update
  <2> QED
    BY <1>5, <2>1, <2>2 DEF Update
<1>6. CASE Wake \/ PassDone \/ Stop \/ AcceptEnd \/ Close
  BY <1>6 DEF Wake, PassDone, Stop, AcceptEnd, Close
<1>7. ASSUME NEW c \in Conns, NEW u, NEW knows, Connect(c, u, knows)
      PROVE  OtherTypes'
  BY <1>7 DEF Connect
<1>8. ASSUME NEW c \in Conns, NEW cmd, NEW data, Send(c, cmd, data)
      PROVE  OtherTypes'
  BY <1>8 DEF Send
<1>9. ASSUME NEW c \in Conns, Leave(c)
      PROVE  OtherTypes'
  BY <1>9 DEF Leave
<1>10. CASE UNCHANGED vars
  BY <1>10 DEF vars
<1> QED
  BY <1>1, <1>2, <1>3, <1>4, <1>5, <1>6, <1>7, <1>8, <1>9, <1>10 DEF Next, Thread, Window, Clients

-----------------------------------------------------------------------------
(* Theorems                                                                *)

LEMMA OwnInvCorrect == Spec => [](TypeInv /\ OwnInv)
<1>1. TypeInv /\ OwnInv /\ [Next]_vars => TypeInv' /\ OwnInv'
  BY StepTypeInv, StepPacketInv, StepOwnPackets, StepEntryIsOwn DEF OwnInv
<1> QED
  BY <1>1, InitTypeInv, InitOwnInv, PTL DEF Spec

\* Every variable keeps its type, whoever reads whose packet.
THEOREM TypeCorrect == Spec => []TypeOK
<1>1. TypeInv /\ OwnInv /\ UpdateTypes /\ OtherTypes /\ [Next]_vars => (UpdateTypes /\ OtherTypes)'
  BY StepUpdateTypes, StepOtherTypes DEF OwnInv
<1>2. TypeInv /\ UpdateTypes /\ OtherTypes => TypeOK
  BY BoundsAssumption DEF TypeInv, Types, ThreadAt, UpdateTypes, OtherTypes, TypeOK
<1> QED
  BY <1>1, <1>2, InitOtherTypes, OwnInvCorrect, PTL DEF Spec

\* Unless threads have mixed up packets, a connection in socklist has logged in
\* with the password of the user it is the entry of, and its thread has not ended.
THEOREM EntryIsOwnCorrect == Spec => []EntryIsOwn
<1>1. OwnInv => EntryIsOwn
  BY DEF OwnInv
<1> QED
  BY <1>1, OwnInvCorrect, PTL

\* Unless threads have mixed up packets, messages for a user who is logged in go
\* to his connection until another names him.
THEOREM ReachableCorrect == Spec => []Reachable
<1>1. Init => OverlapInv /\ HasEntry
  BY DEF Init, OverlapInv, HasEntry
<1>2. TypeInv /\ OwnInv /\ OverlapInv /\ HasEntry /\ [Next]_vars => (OverlapInv /\ HasEntry)'
  BY StepOverlapInv, StepHasEntry DEF OwnInv
<1>3. HasEntry => Reachable
  BY DEF HasEntry, Reachable
<1> QED
  BY <1>1, <1>2, <1>3, OwnInvCorrect, PTL DEF Spec

\* Unless threads have mixed up packets, the window shows who is online when the
\* updates are used up, whatever the update thread skips in the list it changes,
\* except for users whose updates it took in the wrong order.
THEOREM WindowAgreesCorrect == Spec => []WindowAgrees
<1>1. Init => OverlapInv /\ HasEntry /\ UpdateTypes /\ WindowInv
  <2> SUFFICES ASSUME Init
               PROVE  OverlapInv /\ HasEntry /\ UpdateTypes /\ WindowInv
    OBVIOUS
  <2>1. OverlapInv /\ HasEntry
    BY DEF Init, OverlapInv, HasEntry
  <2>2. UpdateTypes /\ DOMAIN updateinfo = {}
    <3>1. DOMAIN <<>> = {}
      OBVIOUS
    <3> QED
      BY <3>1, InitOtherTypes DEF Init
  <2>3. \A u : ~Online(u)
    BY DEF Init, Online
  <2>4. \A u \in Registered : Agreed(u)
    BY <2>2, <2>3 DEF Init, Agreed, Final, LastIs, Unmentioned
  <2>5. Entries /\ Table
    BY DEF Init, Entries, Table
  <2> QED
    BY <2>1, <2>2, <2>4, <2>5 DEF WindowInv, Shown
<1>2. TypeInv /\ OwnInv /\ OverlapInv /\ HasEntry /\ [Next]_vars => (OverlapInv /\ HasEntry)'
  BY StepOverlapInv, StepHasEntry DEF OwnInv
<1>3. TypeInv /\ OwnInv /\ UpdateTypes /\ [Next]_vars => UpdateTypes'
  BY StepUpdateTypes DEF OwnInv
<1>4. TypeInv /\ OwnInv /\ OverlapInv /\ HasEntry /\ UpdateTypes /\ WindowInv /\ [Next]_vars => WindowInv'
  BY CalmSteps, CalmWindow, StartWindow, LoginWindow, ClearWindow, AppendWindow, UpdateWindow DEF OwnInv
<1>5. UpdateTypes /\ WindowInv => WindowAgrees
  <2> SUFFICES ASSUME UpdateTypes, WindowInv, ~mixed, ready, updateinfo = <<>>,
                      NEW u \in Registered \ (overlap \cup lost \cup overtaken),
                      \A c \in Conns : th[c] \in {"notify", "left"} => self[c] # u
               PROVE  shows[u] = (socklist[u] \in Conns)
    BY DEF WindowAgrees
  <2>1. ~Pending(u) /\ u \in DOMAIN socklist
    BY DEF Pending, Waiting, WindowInv, Table
  <2>2. Agreed(u)
    BY <2>1 DEF WindowInv, Shown
  <2>3. \A b : Final(u, b) => shows[u] = b
    BY DEF Final, LastIs, Unmentioned
  <2>4. Online(u) <=> socklist[u] \in Conns
    BY <2>1 DEF Online
  <2>5. CASE Online(u)
    BY <2>2, <2>3, <2>4, <2>5 DEF Agreed
  <2>6. CASE ~Online(u)
    <3>1. Final(u, FALSE) /\ socklist[u] \notin Conns
      BY <2>2, <2>4, <2>6 DEF Agreed
    <3>2. shows[u] = FALSE
      BY <2>3, <3>1
    <3>3. (socklist[u] \in Conns) = FALSE
      BY <3>1
    <3> QED
      BY <3>2, <3>3
  <2> QED
    BY <2>5, <2>6
<1> QED
  BY <1>1, <1>2, <1>3, <1>4, <1>5, OwnInvCorrect, PTL DEF Spec

=============================================================================
