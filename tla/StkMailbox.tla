---------------------------- MODULE StkMailbox ----------------------------
(***************************************************************************)
(* The mailboxes of the Linux and GTK servers node by node: stk_add_msg()  *)
(* and stk_get_msg() on the singly linked lists of chat_message, whose     *)
(* last node points to itself.  The lists of all users share the heap, so  *)
(* a node one mailbox has freed may be the next one another mailbox gets.  *)
(*                                                                         *)
(* At most one caller is inside the mailbox of a user, as in the runs of   *)
(* StkServer that do not end in undefined behaviour.                       *)
(***************************************************************************)
EXTENDS Naturals, Sequences

CONSTANTS
  Users,    \* whose mailboxes
  Callers,  \* the threads and handlers that use them
  Data,     \* messages
  None,     \* no message
  Nodes,    \* the addresses malloc() can return (bound)
  Null      \* the NULL pointer

ASSUME NullAssumption == Null \notin Nodes
ASSUME NoneAssumption == None \notin Data

VARIABLES
  used,   \* the nodes malloc() has returned and free() has not
  next,   \* the next field of a node
  msg,    \* its message
  head,   \* chatmsg of a user
  num,    \* msg_num
  pc,     \* where a caller is in stk_add_msg() or stk_get_msg()
  of,     \* the user whose mailbox it is in
  node,   \* its new node
  tmp,    \* its walking pointer
  got,    \* the message it was last given
  chain   \* history: the nodes of each mailbox, oldest first

heapVars == <<used, next, msg>>
vars == <<heapVars, head, num, pc, of, node, tmp, got, chain>>

TypeOK ==
  /\ used \subseteq Nodes
  /\ next \in [Nodes -> Nodes]
  /\ msg \in [Nodes -> Data \cup {None}]
  /\ head \in [Users -> Nodes \cup {Null}]
  /\ num \in [Users -> Nat]
  /\ pc \in [Callers -> {"idle", "link", "walk", "inc", "take", "dec", "free"}]
  /\ of \in [Callers -> Users]
  /\ node \in [Callers -> Nodes \cup {Null}]
  /\ tmp \in [Callers -> Nodes \cup {Null}]
  /\ got \in [Callers -> Data \cup {None}]
  /\ chain \in [Users -> Seq(Nodes)]

Init ==
  /\ used = {}
  /\ next = [n \in Nodes |-> n]
  /\ msg = [n \in Nodes |-> None]
  /\ head = [u \in Users |-> Null]
  /\ num = [u \in Users |-> 0]
  /\ pc = [c \in Callers |-> "idle"]
  /\ of \in [Callers -> Users]
  /\ node = [c \in Callers |-> Null]
  /\ tmp = [c \in Callers |-> Null]
  /\ got = [c \in Callers |-> None]
  /\ chain = [u \in Users |-> <<>>]

\* Nobody is inside the mailbox of u.
Alone(u) == \A c \in Callers : pc[c] # "idle" => of[c] # u

Go(c, where) == pc' = [pc EXCEPT ![c] = where]

\* The function returns; its local pointers are gone.
Return(c) ==
  /\ Go(c, "idle")
  /\ node' = [node EXCEPT ![c] = Null]
  /\ tmp' = [tmp EXCEPT ![c] = Null]

-----------------------------------------------------------------------------
(* stk_add_msg                                                             *)

\* The node and its copy of the message are allocated; nothing happens at all
\* when malloc() fails.
AddMalloc(c, u, d, n) ==
  /\ pc[c] = "idle" /\ Alone(u) /\ n \notin used
  /\ used' = used \cup {n}
  /\ msg' = [msg EXCEPT ![n] = d]
  /\ next' = [next EXCEPT ![n] = n]
  /\ node' = [node EXCEPT ![c] = n]
  /\ of' = [of EXCEPT ![c] = u]
  /\ Go(c, "link")
  /\ UNCHANGED <<head, num, tmp, got, chain>>

\* Mutant: only the pointer is looked at.
EmptyByHead(u) == head[u] = Null

\* An emptied mailbox keeps its head pointer, so both fields are looked at.
Empty(u) == head[u] = Null \/ num[u] = 0

AddFirst(c) ==
  /\ pc[c] = "link" /\ Empty(of[c])
  /\ head' = [head EXCEPT ![of[c]] = node[c]]
  /\ chain' = [chain EXCEPT ![of[c]] = Append(@, node[c])]
  /\ Go(c, "inc")
  /\ UNCHANGED <<heapVars, num, of, node, tmp, got>>

AddWalk(c) ==
  /\ pc[c] = "link" /\ ~Empty(of[c])
  /\ tmp' = [tmp EXCEPT ![c] = head[of[c]]]
  /\ Go(c, "walk")
  /\ UNCHANGED <<heapVars, head, num, of, node, got, chain>>

AddStep(c) ==
  /\ pc[c] = "walk" /\ next[tmp[c]] # tmp[c]
  /\ tmp' = [tmp EXCEPT ![c] = next[tmp[c]]]
  /\ UNCHANGED <<heapVars, head, num, pc, of, node, got, chain>>

AddLast(c) ==
  /\ pc[c] = "walk" /\ next[tmp[c]] = tmp[c]
  /\ next' = [next EXCEPT ![tmp[c]] = node[c]]
  /\ chain' = [chain EXCEPT ![of[c]] = Append(@, node[c])]
  /\ Go(c, "inc")
  /\ UNCHANGED <<used, msg, head, num, of, node, tmp, got>>

AddCount(c) ==
  /\ pc[c] = "inc"
  /\ num' = [num EXCEPT ![of[c]] = @ + 1]
  /\ Return(c)
  /\ UNCHANGED <<heapVars, head, of, got, chain>>

-----------------------------------------------------------------------------
(* stk_get_msg                                                             *)

\* stk_deliver_msg() calls it while msg_num > 0, so that the list's head is
\* never NULL and the return of -1 never taken.
GetStart(c, u) ==
  /\ pc[c] = "idle" /\ Alone(u) /\ num[u] > 0
  /\ of' = [of EXCEPT ![c] = u]
  /\ tmp' = [tmp EXCEPT ![c] = head[u]]
  /\ Go(c, "take")
  /\ UNCHANGED <<heapVars, head, num, node, got, chain>>

\* The message is copied and its node unlinked; the last node of a list leaves
\* its own address in chatmsg.
GetUnlink(c) ==
  /\ pc[c] = "take"
  /\ got' = [got EXCEPT ![c] = msg[tmp[c]]]
  /\ head' = [head EXCEPT ![of[c]] = next[tmp[c]]]
  /\ chain' = [chain EXCEPT ![of[c]] = Tail(@)]
  /\ Go(c, "dec")
  /\ UNCHANGED <<heapVars, num, of, node, tmp>>

\* msg_num--; at 0 chatmsg is compared with NULL, not set to it.
GetCount(c) ==
  /\ pc[c] = "dec"
  /\ num' = [num EXCEPT ![of[c]] = @ - 1]
  /\ Go(c, "free")
  /\ UNCHANGED <<heapVars, head, of, node, tmp, got, chain>>

\* Mutant: the node is not freed.
GetFreeForgot(c) ==
  /\ pc[c] = "free"
  /\ Return(c)
  /\ UNCHANGED <<heapVars, head, num, of, got, chain>>

GetFree(c) ==
  /\ pc[c] = "free"
  /\ used' = used \ {tmp[c]}
  /\ Return(c)
  /\ UNCHANGED <<next, msg, head, num, of, got, chain>>

-----------------------------------------------------------------------------
\* What a caller does once it is in a mailbox.
Work(c) ==
  \/ AddFirst(c) \/ AddWalk(c) \/ AddStep(c) \/ AddLast(c) \/ AddCount(c)
  \/ GetUnlink(c) \/ GetCount(c) \/ GetFree(c)

Next ==
  \E c \in Callers :
    \/ \E u \in Users :
         \/ \E d \in Data, n \in Nodes : AddMalloc(c, u, d, n)
         \/ GetStart(c, u)
    \/ Work(c)

Spec == Init /\ [][Next]_vars

-----------------------------------------------------------------------------
(* Properties                                                              *)

\* The nodes from chatmsg on are the mailbox, and the last points to itself.
Chained ==
  \A u \in Users :
    LET k == Len(chain[u]) IN
      /\ k > 0 => head[u] = chain[u][1] /\ next[chain[u][k]] = chain[u][k]
      /\ \A i \in 1 .. k - 1 : next[chain[u][i]] = chain[u][i + 1]

\* msg_num counts them, but for the node a caller has just linked or unlinked.
Counted ==
  \A u \in Users :
    /\ (\A c \in Callers : of[c] = u => pc[c] \notin {"inc", "dec"}) => num[u] = Len(chain[u])
    /\ \A c \in Callers : of[c] = u /\ pc[c] = "inc" => num[u] + 1 = Len(chain[u])
    /\ \A c \in Callers : of[c] = u /\ pc[c] = "dec" => num[u] = Len(chain[u]) + 1

\* The list in memory is the mailbox, whatever chatmsg still points to when the
\* mailbox is empty.
Linked == Chained /\ Counted

\* No pointer to a freed node is ever followed, although an emptied mailbox
\* keeps one and the node may by now be in another mailbox.
MemSafe ==
  \A c \in Callers :
    /\ pc[c] \in {"walk", "take", "dec", "free"} => tmp[c] \in used
    /\ pc[c] = "walk" => next[tmp[c]] \in used

\* A node is in the hands of a caller, or in a mailbox.
Holds(c, n) ==
  \/ pc[c] \in {"link", "walk"} /\ node[c] = n
  \/ pc[c] \in {"dec", "free"} /\ tmp[c] = n
OnList(u, n) == \E i \in 1 .. Len(chain[u]) : chain[u][i] = n

\* Every allocated node is somewhere, and no freed node is anywhere.
Accounted ==
  \A n \in Nodes :
    n \in used <=> (\E c \in Callers : Holds(c, n)) \/ (\E u \in Users : OnList(u, n))

\* A node is in one place only.
Once ==
  \A n \in Nodes :
    /\ \A c \in Callers, u \in Users : ~(Holds(c, n) /\ OnList(u, n))
    /\ \A c, e \in Callers : Holds(c, n) /\ Holds(e, n) => c = e
    /\ \A u, v \in Users : OnList(u, n) /\ OnList(v, n) => u = v

Distinct ==
  \A u \in Users : \A i, j \in 1 .. Len(chain[u]) : chain[u][i] = chain[u][j] => i = j

\* No node is lost, and none is in two places.
NoLeak == Accounted /\ Once /\ Distinct

\* The messages of a mailbox.
Messages(u) == [i \in 1 .. Len(chain[u]) |-> msg[chain[u][i]]]
Mail == [u \in Users |-> Messages(u)]

\* The mailboxes are the queues StkServer takes them for.
Fifo == INSTANCE StkFifo WITH mail <- Mail
IsFifo == Fifo!Spec
=============================================================================
