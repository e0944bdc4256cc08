------------------------------ MODULE StkFifo ------------------------------
(***************************************************************************)
(* What stk_add_msg() and stk_get_msg() promise, and what StkServer takes  *)
(* for granted: each user's mailbox is a queue of messages, kept apart     *)
(* from every other user's.                                                *)
(***************************************************************************)
EXTENDS Sequences

CONSTANTS
  Users,    \* whose mailboxes
  Callers,  \* the threads and handlers that use them
  Data,     \* messages
  None      \* no message

VARIABLES
  mail,  \* the messages in each mailbox, oldest first
  got    \* the message each caller was last given

Init ==
  /\ mail = [u \in Users |-> <<>>]
  /\ got = [c \in Callers |-> None]

\* A message is queued behind all others.
Add(u, d) ==
  /\ mail' = [mail EXCEPT ![u] = Append(@, d)]
  /\ UNCHANGED got

\* A caller is given the oldest message, which leaves the mailbox.
Get(c, u) ==
  /\ mail[u] # <<>>
  /\ got' = [got EXCEPT ![c] = Head(mail[u])]
  /\ mail' = [mail EXCEPT ![u] = Tail(@)]

Next ==
  \E u \in Users :
    \/ \E d \in Data : Add(u, d)
    \/ \E c \in Callers : Get(c, u)

Spec == Init /\ [][Next]_<<mail, got>>
=============================================================================
