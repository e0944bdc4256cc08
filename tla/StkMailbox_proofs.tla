------------------------- MODULE StkMailbox_proofs -------------------------
(***************************************************************************)
(* For any users, callers, messages and heap: the linked mailboxes follow  *)
(* no freed node, lose none, and implement the queues of StkFifo.          *)
(***************************************************************************)
EXTENDS StkMailbox, TLAPS

-----------------------------------------------------------------------------
(* Sequences seen through a function: what the refinement mapping does     *)

Mapped(f, s) == [i \in 1 .. Len(s) |-> f[s[i]]]

LEMMA MapAppend ==
  ASSUME NEW S, NEW s \in Seq(S), NEW n \in S, NEW f
  PROVE  Mapped(f, Append(s, n)) = Append(Mapped(f, s), f[n])
BY DEF Mapped

LEMMA MapTail ==
  ASSUME NEW S, NEW s \in Seq(S), s # <<>>, NEW f
  PROVE  /\ Mapped(f, Tail(s)) = Tail(Mapped(f, s))
         /\ Mapped(f, s) # <<>> /\ Head(Mapped(f, s)) = f[s[1]]
BY DEF Mapped

LEMMA AppendParts ==
  ASSUME NEW S, NEW s \in Seq(S), NEW n \in S
  PROVE  /\ Append(s, n) \in Seq(S)
         /\ Len(Append(s, n)) = Len(s) + 1
         /\ Len(s) \in Nat
         /\ \A i \in 1 .. Len(s) : Append(s, n)[i] = s[i]
         /\ Append(s, n)[Len(s) + 1] = n
OBVIOUS

LEMMA TailParts ==
  ASSUME NEW S, NEW s \in Seq(S), s # <<>>
  PROVE  /\ Tail(s) \in Seq(S)
         /\ Len(Tail(s)) = Len(s) - 1
         /\ Len(s) \in Nat /\ Len(s) > 0
         /\ \A i \in 1 .. Len(s) - 1 : Tail(s)[i] = s[i + 1]
OBVIOUS

-----------------------------------------------------------------------------
(* The inductive invariant                                                 *)

\* What a caller inside a mailbox knows.  It is there alone;
Exclusive ==
  \A c, e \in Callers : pc[c] # "idle" /\ pc[e] # "idle" /\ of[c] = of[e] => c = e
\* its new node holds a message and points to itself;
NewNode ==
  \A c \in Callers : pc[c] \in {"link", "walk"} =>
    node[c] \in Nodes /\ next[node[c]] = node[c] /\ msg[node[c]] \in Data
\* its walk is on a node of the list, which is not moved under it;
Walking == \A c \in Callers : pc[c] = "walk" => OnList(of[c], tmp[c])
\* what it takes is the first node of the list;
Taking ==
  \A c \in Callers : pc[c] = "take" => chain[of[c]] # <<>> /\ tmp[c] = chain[of[c]][1]
\* and what it has unlinked is a node.
Taken == \A c \in Callers : pc[c] \in {"dec", "free"} => tmp[c] \in Nodes

Inside == Exclusive /\ NewNode /\ Walking /\ Taking /\ Taken

Inv == TypeOK /\ Inside /\ NoLeak /\ Linked

\* Every mailbox starts empty.
LEMMA InitInv == Init => Inv
BY DEF Init, Inv, TypeOK, Inside, NoLeak, Accounted, Once, Distinct, Linked, Chained,
   Counted, Holds, OnList, Exclusive, NewNode, Walking, Taking, Taken

\* What the proofs use of the type of a mailbox.
LEMMA ChainSeq ==
  ASSUME TypeOK, NEW u \in Users
  PROVE  /\ chain[u] \in Seq(Nodes) /\ Len(chain[u]) \in Nat
         /\ \A i \in 1 .. Len(chain[u]) : chain[u][i] \in Nodes
BY DEF TypeOK

\* A node of a list is a node, and is allocated.
LEMMA OnListNode ==
  ASSUME Inv, NEW u \in Users, NEW n, OnList(u, n)
  PROVE  n \in Nodes /\ n \in used
<1>1. n \in Nodes
  BY DEF Inv, TypeOK, OnList
<1> QED
  BY <1>1 DEF Inv, NoLeak, Accounted

\* The new node was in no mailbox and in nobody's hands.
LEMMA AddMallocInv ==
  ASSUME Inv, NEW c \in Callers, NEW u \in Users, NEW d \in Data, NEW n \in Nodes,
         AddMalloc(c, u, d, n)
  PROVE  Inv'
<1> USE NullAssumption DEF Inv, Inside, NoLeak, Linked, AddMalloc, Go
<1>type. TypeOK'
  BY DEF TypeOK
<1>2. \A v \in Users : \A m : OnList(v, m)' <=> OnList(v, m)
  BY DEF OnList
<1>3. \A e \in Callers, m \in Nodes : Holds(e, m)' <=> IF e = c THEN m = n ELSE Holds(e, m)
  BY DEF Holds, TypeOK
<1>4. /\ \A v \in Users : ~OnList(v, n)
      /\ \A e \in Callers : ~Holds(e, n)
  BY DEF Accounted
<1>acc. Accounted'
  BY <1>2, <1>3, <1>4 DEF Accounted, Holds
<1>once. Once'
  BY <1>2, <1>3, <1>4 DEF Once
<1>dist. Distinct'
  BY DEF Distinct
<1>excl. Exclusive'
  BY DEF Exclusive, Alone, TypeOK
<1>new. NewNode'
  <2>1. \A e \in Callers : pc[e] \in {"link", "walk"} => node[e] # n
    BY <1>4 DEF Holds
  <2> QED
    BY <2>1 DEF NewNode, TypeOK
<1>walk. Walking'
  BY <1>2 DEF Walking, OnList, TypeOK
<1>take. Taking'
  BY DEF Taking, TypeOK
<1>taken. Taken'
  BY DEF Taken, TypeOK
<1>chained. Chained'
  <2>1. \A v \in Users : \A i \in 1 .. Len(chain[v]) : next'[chain[v][i]] = next[chain[v][i]]
    BY <1>4, ChainSeq DEF OnList, TypeOK
  <2> QED
    BY <2>1, ChainSeq DEF Chained
<1>counted. Counted'
  BY DEF Counted, TypeOK, Alone
<1> QED
  BY <1>type, <1>excl, <1>new, <1>walk, <1>take, <1>taken, <1>acc, <1>once, <1>dist,
     <1>chained, <1>counted

\* The node moves from the caller's hands to the empty mailbox.
LEMMA AddFirstInv ==
  ASSUME Inv, NEW c \in Callers,
         AddFirst(c)
  PROVE  Inv'
<1> USE NullAssumption DEF Inv, Inside, NoLeak, Linked, AddFirst, Empty, Go, heapVars
<1> DEFINE u == of[c]
           n == node[c]
<1>1. /\ u \in Users /\ n \in Nodes /\ next[n] = n
      /\ chain' = [chain EXCEPT ![u] = Append(@, n)]
  BY DEF TypeOK, NewNode
<1>e. \A e \in Callers : pc[e] # "idle" /\ e # c => of[e] # u
  BY DEF Exclusive
<1>num. num[u] = Len(chain[u])
  BY <1>1, <1>e DEF Counted
<1>2. /\ chain[u] \in Seq(Nodes) /\ Len(chain[u]) \in Nat
      /\ chain'[u] \in Seq(Nodes) /\ Len(chain'[u]) = Len(chain[u]) + 1
      /\ \A i \in 1 .. Len(chain[u]) : chain'[u][i] = chain[u][i] /\ chain[u][i] \in Nodes
      /\ chain'[u][Len(chain[u]) + 1] = n
      /\ \A v \in Users : v # u => chain'[v] = chain[v]
  BY <1>1, AppendParts DEF TypeOK
<1>type. TypeOK'
  BY <1>1, <1>2 DEF TypeOK
<1>3. \A v \in Users : \A m : OnList(v, m)' <=> OnList(v, m) \/ (v = u /\ m = n)
  BY <1>2 DEF OnList
<1>h. \A m \in Nodes : Holds(c, m) <=> m = n
  BY DEF Holds
<1>4. \A e \in Callers, m \in Nodes : Holds(e, m)' <=> e # c /\ Holds(e, m)
  BY DEF Holds, TypeOK
<1>5. Holds(c, n) /\ \A v \in Users : ~OnList(v, n)
  BY <1>1, <1>h DEF Once
<1>acc. Accounted'
  <2>1. \A m \in Nodes : (\E e \in Callers : Holds(e, m)') <=> (\E e \in Callers : Holds(e, m)) /\ m # n
    BY <1>1, <1>4, <1>h DEF Once
  <2>2. \A m \in Nodes : (\E v \in Users : OnList(v, m)') <=> (\E v \in Users : OnList(v, m)) \/ m = n
    BY <1>1, <1>3
  <2>3. n \in used
    BY <1>1, <1>5 DEF Accounted
  <2> QED
    BY <2>1, <2>2, <2>3 DEF Accounted
<1>once. Once'
  BY <1>1, <1>3, <1>4, <1>5 DEF Once
<1>dist. Distinct'
  <2>1. \A i \in 1 .. Len(chain[u]) : chain[u][i] # n
    BY <1>1, <1>5 DEF OnList
  <2> QED
    BY <1>2, <2>1 DEF Distinct
<1>excl. Exclusive'
  BY DEF Exclusive, TypeOK
<1>walk. Walking'
  <2>1. ASSUME NEW e \in Callers, pc'[e] = "walk"
        PROVE  OnList(of[e], tmp[e])'
    <3>1. OnList(of[e], tmp[e]) /\ of[e] \in Users
      BY <2>1 DEF Walking, TypeOK
    <3> QED
      BY <1>3, <3>1 DEF OnList
  <2> QED
    BY <2>1 DEF Walking
<1>take. Taking'
  <2>1. \A e \in Callers : pc'[e] = "take" => e # c /\ pc[e] = "take" /\ of[e] \in Users
    BY DEF TypeOK
  <2>2. \A e \in Callers : pc'[e] = "take" => chain'[of[e]] = chain[of[e]]
    BY <1>2, <1>e, <2>1
  <2> QED
    BY <2>1, <2>2 DEF Taking
<1>taken. Taken'
  BY DEF Taken, TypeOK
<1>counted. Counted'
  <2>1. \A e \in Callers : e # c => pc'[e] = pc[e]
    BY DEF TypeOK
  <2>2. \A v \in Users : num[v] \in Nat /\ Len(chain[v]) \in Nat
    BY ChainSeq DEF TypeOK
  <2>3. pc'[c] = "inc"
    BY DEF TypeOK
  <2> QED
    BY <1>1, <1>2, <1>e, <1>num, <2>1, <2>2, <2>3 DEF Counted
<1>new. NewNode'
  BY DEF NewNode, TypeOK
<1>6. Len(chain[u]) = 0
  <2>1. CASE head[u] = Null
    BY <1>1, <1>2, <2>1 DEF Chained
  <2>2. CASE num[u] = 0
    BY <1>num, <2>2
  <2> QED
    BY <2>1, <2>2
<1>chained. Chained'
  <2>1. ASSUME NEW v \in Users
        PROVE  LET k == Len(chain'[v]) IN
                 /\ k > 0 => head'[v] = chain'[v][1] /\ next'[chain'[v][k]] = chain'[v][k]
                 /\ \A i \in 1 .. k - 1 : next'[chain'[v][i]] = chain'[v][i + 1]
    <3>1. CASE v = u
      <4>1. head'[u] = n
        BY <1>1 DEF TypeOK
      <4> QED
        BY <1>1, <1>2, <1>6, <3>1, <4>1
    <3>2. CASE v # u
      <4>1. chain'[v] = chain[v] /\ head'[v] = head[v]
        BY <1>1, <1>2, <3>2 DEF TypeOK
      <4> QED
        BY <4>1 DEF Chained
    <3> QED
      BY <3>1, <3>2
  <2> QED
    BY <2>1 DEF Chained
<1> QED
  BY <1>type, <1>excl, <1>new, <1>walk, <1>take, <1>taken, <1>acc, <1>once, <1>dist,
     <1>chained, <1>counted

\* The mailbox is not empty, so that its head is a node of the list.
LEMMA AddWalkInv ==
  ASSUME Inv, NEW c \in Callers,
         AddWalk(c)
  PROVE  Inv'
<1> USE NullAssumption DEF Inv, Inside, NoLeak, Linked, AddWalk, Empty, Go, heapVars
<1>2. \A v \in Users : \A m : OnList(v, m)' <=> OnList(v, m)
  BY DEF OnList
<1>on. OnList(of[c], head[of[c]])
  <2>1. of[c] \in Users /\ num[of[c]] \in Nat /\ Len(chain[of[c]]) \in Nat
    BY ChainSeq DEF TypeOK
  <2>2. num[of[c]] = Len(chain[of[c]])
    BY <2>1 DEF Counted, Exclusive
  <2>3. head[of[c]] = chain[of[c]][1] /\ 1 \in 1 .. Len(chain[of[c]])
    BY <2>1, <2>2 DEF Chained
  <2> QED
    BY <2>3 DEF OnList
<1>type. TypeOK'
  BY DEF TypeOK
<1>3. \A e \in Callers, m \in Nodes : Holds(e, m)' <=> Holds(e, m)
  BY DEF Holds, TypeOK
<1>acc. Accounted'
  BY <1>2, <1>3 DEF Accounted
<1>once. Once'
  BY <1>2, <1>3 DEF Once
<1>dist. Distinct'
  BY DEF Distinct
<1>excl. Exclusive'
  BY DEF Exclusive, TypeOK
<1>new. NewNode'
  BY DEF NewNode, TypeOK
<1>walk. Walking'
  <2>1. ASSUME NEW e \in Callers, pc'[e] = "walk"
        PROVE  OnList(of[e], tmp[e])'
    <3>1. CASE e = c
      <4>1. tmp'[c] = head[of[c]] /\ of'[c] = of[c] /\ of[c] \in Users
        BY DEF TypeOK
      <4> QED
        BY <1>on, <3>1, <4>1 DEF OnList
    <3>2. CASE e # c
      <4>1. OnList(of[e], tmp[e]) /\ of[e] \in Users /\ tmp'[e] = tmp[e]
        BY <2>1, <3>2 DEF Walking, TypeOK
      <4> QED
        BY <4>1 DEF OnList
    <3> QED
      BY <3>1, <3>2
  <2> QED
    BY <2>1 DEF Walking
<1>take. Taking'
  BY DEF Taking, TypeOK
<1>taken. Taken'
  BY DEF Taken, TypeOK
<1>chained. Chained'
  BY DEF Chained
<1>counted. Counted'
  BY DEF Counted, TypeOK
<1> QED
  BY <1>type, <1>excl, <1>new, <1>walk, <1>take, <1>taken, <1>acc, <1>once, <1>dist,
     <1>chained, <1>counted

\* A node that does not point to itself is not the last: the next is on the list.
LEMMA AddStepInv ==
  ASSUME Inv, NEW c \in Callers,
         AddStep(c)
  PROVE  Inv'
<1> USE NullAssumption DEF Inv, Inside, NoLeak, Linked, AddStep, Go, heapVars
<1>2. \A v \in Users : \A m : OnList(v, m)' <=> OnList(v, m)
  BY DEF OnList
<1>1. OnList(of[c], tmp[c]) /\ of[c] \in Users /\ tmp[c] \in Nodes /\ next[tmp[c]] \in Nodes
  BY OnListNode DEF Walking, TypeOK
<1>on. OnList(of[c], next[tmp[c]])
  <2>1. PICK i \in 1 .. Len(chain[of[c]]) : chain[of[c]][i] = tmp[c]
    BY <1>1 DEF OnList
  <2>2. Len(chain[of[c]]) \in Nat
    BY <1>1, ChainSeq
  <2>3. i # Len(chain[of[c]])
    BY <1>1, <2>1, <2>2 DEF Chained
  <2>4. i + 1 \in 1 .. Len(chain[of[c]]) /\ next[tmp[c]] = chain[of[c]][i + 1]
    BY <1>1, <2>1, <2>2, <2>3 DEF Chained
  <2> QED
    BY <2>4 DEF OnList
<1>type. TypeOK'
  BY <1>1 DEF TypeOK
<1>3. \A e \in Callers, m \in Nodes : Holds(e, m)' <=> Holds(e, m)
  BY DEF Holds, TypeOK
<1>acc. Accounted'
  BY <1>2, <1>3 DEF Accounted
<1>once. Once'
  BY <1>2, <1>3 DEF Once
<1>dist. Distinct'
  BY DEF Distinct
<1>excl. Exclusive'
  BY DEF Exclusive, TypeOK
<1>new. NewNode'
  BY DEF NewNode, TypeOK
<1>walk. Walking'
  <2>1. ASSUME NEW e \in Callers, pc'[e] = "walk"
        PROVE  OnList(of[e], tmp[e])'
    <3>1. CASE e = c
      <4>1. tmp'[c] = next[tmp[c]] /\ of'[c] = of[c] /\ of[c] \in Users
        BY DEF TypeOK
      <4> QED
        BY <1>on, <3>1, <4>1 DEF OnList
    <3>2. CASE e # c
      <4>1. OnList(of[e], tmp[e]) /\ of[e] \in Users /\ tmp'[e] = tmp[e]
        BY <2>1, <3>2 DEF Walking, TypeOK
      <4> QED
        BY <4>1 DEF OnList
    <3> QED
      BY <3>1, <3>2
  <2> QED
    BY <2>1 DEF Walking
<1>take. Taking'
  BY DEF Taking, TypeOK
<1>taken. Taken'
  BY DEF Taken, TypeOK
<1>chained. Chained'
  BY DEF Chained
<1>counted. Counted'
  BY DEF Counted, TypeOK
<1> QED
  BY <1>type, <1>excl, <1>new, <1>walk, <1>take, <1>taken, <1>acc, <1>once, <1>dist,
     <1>chained, <1>counted

\* The walk has ended on the list's last node, the only one that changes.
LEMMA AddLastInv ==
  ASSUME Inv, NEW c \in Callers,
         AddLast(c)
  PROVE  Inv'
<1> USE NullAssumption DEF Inv, Inside, NoLeak, Linked, AddLast, Go
<1> DEFINE u == of[c]
           n == node[c]
<1>1. /\ u \in Users /\ n \in Nodes /\ next[n] = n
      /\ chain' = [chain EXCEPT ![u] = Append(@, n)]
  BY DEF TypeOK, NewNode
<1>e. \A e \in Callers : pc[e] # "idle" /\ e # c => of[e] # u
  BY DEF Exclusive
<1>num. num[u] = Len(chain[u])
  BY <1>1, <1>e DEF Counted
<1>2. /\ chain[u] \in Seq(Nodes) /\ Len(chain[u]) \in Nat
      /\ chain'[u] \in Seq(Nodes) /\ Len(chain'[u]) = Len(chain[u]) + 1
      /\ \A i \in 1 .. Len(chain[u]) : chain'[u][i] = chain[u][i] /\ chain[u][i] \in Nodes
      /\ chain'[u][Len(chain[u]) + 1] = n
      /\ \A v \in Users : v # u => chain'[v] = chain[v]
  BY <1>1, AppendParts DEF TypeOK
<1>type. TypeOK'
  BY <1>1, <1>2 DEF TypeOK
<1>3. \A v \in Users : \A m : OnList(v, m)' <=> OnList(v, m) \/ (v = u /\ m = n)
  BY <1>2 DEF OnList
<1>h. \A m \in Nodes : Holds(c, m) <=> m = n
  BY DEF Holds
<1>4. \A e \in Callers, m \in Nodes : Holds(e, m)' <=> e # c /\ Holds(e, m)
  BY DEF Holds, TypeOK
<1>5. Holds(c, n) /\ \A v \in Users : ~OnList(v, n)
  BY <1>1, <1>h DEF Once
<1>acc. Accounted'
  <2>1. \A m \in Nodes : (\E e \in Callers : Holds(e, m)') <=> (\E e \in Callers : Holds(e, m)) /\ m # n
    BY <1>1, <1>4, <1>h DEF Once
  <2>2. \A m \in Nodes : (\E v \in Users : OnList(v, m)') <=> (\E v \in Users : OnList(v, m)) \/ m = n
    BY <1>1, <1>3
  <2>3. n \in used
    BY <1>1, <1>5 DEF Accounted
  <2> QED
    BY <2>1, <2>2, <2>3 DEF Accounted
<1>once. Once'
  BY <1>1, <1>3, <1>4, <1>5 DEF Once
<1>dist. Distinct'
  <2>1. \A i \in 1 .. Len(chain[u]) : chain[u][i] # n
    BY <1>1, <1>5 DEF OnList
  <2> QED
    BY <1>2, <2>1 DEF Distinct
<1>excl. Exclusive'
  BY DEF Exclusive, TypeOK
<1>walk. Walking'
  <2>1. ASSUME NEW e \in Callers, pc'[e] = "walk"
        PROVE  OnList(of[e], tmp[e])'
    <3>1. OnList(of[e], tmp[e]) /\ of[e] \in Users
      BY <2>1 DEF Walking, TypeOK
    <3> QED
      BY <1>3, <3>1 DEF OnList
  <2> QED
    BY <2>1 DEF Walking
<1>take. Taking'
  <2>1. \A e \in Callers : pc'[e] = "take" => e # c /\ pc[e] = "take" /\ of[e] \in Users
    BY DEF TypeOK
  <2>2. \A e \in Callers : pc'[e] = "take" => chain'[of[e]] = chain[of[e]]
    BY <1>2, <1>e, <2>1
  <2> QED
    BY <2>1, <2>2 DEF Taking
<1>taken. Taken'
  BY DEF Taken, TypeOK
<1>counted. Counted'
  <2>1. \A e \in Callers : e # c => pc'[e] = pc[e]
    BY DEF TypeOK
  <2>2. \A v \in Users : num[v] \in Nat /\ Len(chain[v]) \in Nat
    BY ChainSeq DEF TypeOK
  <2>3. pc'[c] = "inc"
    BY DEF TypeOK
  <2> QED
    BY <1>1, <1>2, <1>e, <1>num, <2>1, <2>2, <2>3 DEF Counted
<1>6. tmp[c] = chain[u][Len(chain[u])] /\ Len(chain[u]) > 0
  <2>1. PICK i \in 1 .. Len(chain[u]) : chain[u][i] = tmp[c]
    BY DEF Walking, OnList
  <2>2. CASE i < Len(chain[u])
    <3>1. next[chain[u][i]] = chain[u][i + 1]
      BY <1>1, <1>2, <2>1, <2>2 DEF Chained
    <3> QED
      BY <1>1, <1>2, <2>1, <2>2, <3>1 DEF Distinct
  <2> QED
    BY <1>1, <1>2, <2>1, <2>2
<1>7. tmp[c] \in Nodes /\ OnList(u, tmp[c]) /\ tmp[c] # n
  BY <1>1, <1>5, OnListNode DEF Walking
<1>8. /\ next'[tmp[c]] = n
      /\ \A m \in Nodes : m # tmp[c] => next'[m] = next[m]
  BY <1>7 DEF TypeOK
<1>new. NewNode'
  <2>1. \A e \in Callers : pc[e] \in {"link", "walk"} => node[e] # tmp[c]
    BY <1>1, <1>7 DEF Once, Holds
  <2>2. \A e \in Callers : pc'[e] \in {"link", "walk"} => pc[e] \in {"link", "walk"}
    BY DEF TypeOK
  <2> QED
    BY <1>8, <2>1, <2>2 DEF NewNode
<1>chained. Chained'
  <2>1. \A v \in Users : \A i \in 1 .. Len(chain[v]) :
          chain[v][i] = tmp[c] => v = u /\ i = Len(chain[u])
    <3>1. ASSUME NEW v \in Users, NEW i \in 1 .. Len(chain[v]), chain[v][i] = tmp[c]
          PROVE  v = u
      BY <1>1, <1>7, <3>1 DEF Once, OnList
    <3>2. ASSUME NEW i \in 1 .. Len(chain[u]), chain[u][i] = tmp[c]
          PROVE  i = Len(chain[u])
      BY <1>1, <1>2, <1>6, <3>2 DEF Distinct
    <3> QED
      BY <3>1, <3>2
  <2>3. ASSUME NEW v \in Users
        PROVE  LET k == Len(chain'[v]) IN
                 /\ k > 0 => head'[v] = chain'[v][1] /\ next'[chain'[v][k]] = chain'[v][k]
                 /\ \A i \in 1 .. k - 1 : next'[chain'[v][i]] = chain'[v][i + 1]
    <3>1. CASE v = u
      <4> DEFINE k == Len(chain[u])
      <4>1. head'[u] = chain'[u][1]
        BY <1>1, <1>2, <1>6 DEF Chained
      <4>2. next'[n] = n
        BY <1>1, <1>7, <1>8
      <4>3. \A i \in 1 .. k - 1 : next'[chain'[u][i]] = chain'[u][i + 1]
        <5>1. \A i \in 1 .. k - 1 : chain[u][i] # tmp[c] /\ chain[u][i] \in Nodes
          BY <1>1, <1>2, <2>1
        <5>2. \A i \in 1 .. k - 1 : next[chain[u][i]] = chain[u][i + 1]
          BY <1>1 DEF Chained
        <5>3. \A i \in 1 .. k - 1 : i \in 1 .. k /\ i + 1 \in 1 .. k
          BY <1>2
        <5>4. ASSUME NEW i \in 1 .. k - 1
              PROVE  next'[chain'[u][i]] = chain'[u][i + 1]
          <6>1. chain'[u][i] = chain[u][i] /\ chain'[u][i + 1] = chain[u][i + 1]
            BY <1>2, <5>3
          <6> QED
            BY <1>8, <5>1, <5>2, <6>1
        <5> QED
          BY <5>4
      <4>4. next'[chain'[u][k]] = chain'[u][k + 1]
        BY <1>2, <1>6, <1>8
      <4>5. \A i \in 1 .. k : next'[chain'[u][i]] = chain'[u][i + 1]
        BY <1>2, <4>3, <4>4
      <4>6. Len(chain'[u]) = k + 1 /\ chain'[u][k + 1] = n /\ k \in Nat
        BY <1>2
      <4> HIDE DEF k, AddLast
      <4> QED
        BY <3>1, <4>1, <4>2, <4>5, <4>6
    <3>2. CASE v # u
      <4>1. chain'[v] = chain[v] /\ Len(chain[v]) \in Nat
        BY <1>2, <3>2, ChainSeq
      <4>2. \A i \in 1 .. Len(chain[v]) : next'[chain[v][i]] = next[chain[v][i]]
        BY <1>8, <2>1, <3>2, ChainSeq
      <4>3. head' = head
        OBVIOUS
      <4> HIDE DEF AddLast
      <4> QED
        BY <4>1, <4>2, <4>3 DEF Chained
    <3> QED
      BY <3>1, <3>2
  <2> QED
    BY <2>3 DEF Chained
<1> QED
  BY <1>type, <1>excl, <1>new, <1>walk, <1>take, <1>taken, <1>acc, <1>once, <1>dist,
     <1>chained, <1>counted

\* The count catches up with the list.
LEMMA AddCountInv ==
  ASSUME Inv, NEW c \in Callers,
         AddCount(c)
  PROVE  Inv'
<1> USE NullAssumption DEF Inv, Inside, NoLeak, Linked, AddCount, Return, Go, heapVars
<1>2. \A v \in Users : \A m : OnList(v, m)' <=> OnList(v, m)
  BY DEF OnList
<1>type. TypeOK'
  BY DEF TypeOK
<1>3. \A e \in Callers, m \in Nodes : Holds(e, m)' <=> Holds(e, m)
  BY DEF Holds, TypeOK
<1>acc. Accounted'
  BY <1>2, <1>3 DEF Accounted
<1>once. Once'
  BY <1>2, <1>3 DEF Once
<1>dist. Distinct'
  BY DEF Distinct
<1>excl. Exclusive'
  BY DEF Exclusive, TypeOK
<1>new. NewNode'
  BY DEF NewNode, TypeOK
<1>walk. Walking'
  <2>1. ASSUME NEW e \in Callers, pc'[e] = "walk"
        PROVE  OnList(of[e], tmp[e])'
    <3>1. tmp'[e] = tmp[e] /\ OnList(of[e], tmp[e]) /\ of[e] \in Users
      BY <2>1 DEF Walking, TypeOK
    <3> QED
      BY <2>1, <3>1 DEF OnList
  <2> QED
    BY <2>1 DEF Walking
<1>take. Taking'
  BY DEF Taking, TypeOK
<1>taken. Taken'
  BY DEF Taken, TypeOK
<1>chained. Chained'
  BY DEF Chained
<1>counted. Counted'
  <2>0. of[c] \in Users /\ \A v \in Users : num[v] \in Nat /\ Len(chain[v]) \in Nat
    BY ChainSeq DEF TypeOK
  <2>1. \A e \in Callers : of[e] = of[c] /\ e # c => pc[e] = "idle"
    BY DEF Exclusive
  <2>2. \A e \in Callers : e # c => pc'[e] = pc[e]
    BY DEF TypeOK
  <2>3. pc'[c] = "idle"
    BY DEF TypeOK
  <2>4. num[of[c]] + 1 = Len(chain[of[c]])
    BY <2>0 DEF Counted
  <2>5. num'[of[c]] = Len(chain[of[c]])
    BY <2>0, <2>4 DEF TypeOK
  <2>6. \A v \in Users : v # of[c] => num'[v] = num[v]
    BY DEF TypeOK
  <2> QED
    BY <2>0, <2>1, <2>2, <2>3, <2>5, <2>6 DEF Counted
<1> QED
  BY <1>type, <1>excl, <1>new, <1>walk, <1>take, <1>taken, <1>acc, <1>once, <1>dist,
     <1>chained, <1>counted

\* A count above 0 means that chatmsg is the list's first node.
LEMMA GetStartInv ==
  ASSUME Inv, NEW c \in Callers, NEW u \in Users,
         GetStart(c, u)
  PROVE  Inv'
<1> USE NullAssumption DEF Inv, Inside, NoLeak, Linked, GetStart, Alone, Go, heapVars
<1>2. \A v \in Users : \A m : OnList(v, m)' <=> OnList(v, m)
  BY DEF OnList
<1>1. num[u] = Len(chain[u]) /\ Len(chain[u]) \in Nat /\ Len(chain[u]) > 0
  BY ChainSeq DEF Counted
<1>type. TypeOK'
  BY <1>1 DEF TypeOK, Chained
<1>3. \A e \in Callers, m \in Nodes : Holds(e, m)' <=> Holds(e, m)
  BY DEF Holds, TypeOK
<1>acc. Accounted'
  BY <1>2, <1>3 DEF Accounted
<1>once. Once'
  BY <1>2, <1>3 DEF Once
<1>dist. Distinct'
  BY DEF Distinct
<1>excl. Exclusive'
  BY DEF Exclusive, TypeOK
<1>new. NewNode'
  BY DEF NewNode, TypeOK
<1>walk. Walking'
  <2>1. ASSUME NEW e \in Callers, pc'[e] = "walk"
        PROVE  OnList(of[e], tmp[e])'
    <3>1. of'[e] = of[e] /\ tmp'[e] = tmp[e] /\ OnList(of[e], tmp[e]) /\ of[e] \in Users
      BY <2>1 DEF Walking, TypeOK
    <3> QED
      BY <2>1, <3>1 DEF OnList
  <2> QED
    BY <2>1 DEF Walking
<1>take. Taking'
  <2>1. pc'[c] = "take" /\ of'[c] = u /\ tmp'[c] = head[u]
    BY DEF TypeOK
  <2>2. chain[u] # <<>> /\ head[u] = chain[u][1]
    BY <1>1, ChainSeq DEF Chained
  <2>3. \A e \in Callers : e # c => pc'[e] = pc[e] /\ of'[e] = of[e] /\ tmp'[e] = tmp[e]
    BY DEF TypeOK
  <2> QED
    BY <2>1, <2>2, <2>3 DEF Taking
<1>taken. Taken'
  BY DEF Taken, TypeOK
<1>chained. Chained'
  BY DEF Chained
<1>counted. Counted'
  BY DEF Counted, TypeOK
<1> QED
  BY <1>type, <1>excl, <1>new, <1>walk, <1>take, <1>taken, <1>acc, <1>once, <1>dist,
     <1>chained, <1>counted

\* The first node moves from the mailbox to the caller's hands.
LEMMA GetUnlinkInv ==
  ASSUME Inv, NEW c \in Callers,
         GetUnlink(c)
  PROVE  Inv'
<1> USE NullAssumption DEF Inv, Inside, NoLeak, Linked, GetUnlink, Go, heapVars
<1> DEFINE u == of[c]
           n == tmp[c]
<1>1. /\ u \in Users /\ chain[u] \in Seq(Nodes) /\ chain[u] # <<>> /\ n = chain[u][1]
      /\ chain' = [chain EXCEPT ![u] = Tail(@)]
  BY DEF TypeOK, Taking
<1>e. \A e \in Callers : pc[e] # "idle" /\ e # c => of[e] # u
  BY DEF Exclusive
<1>num. num[u] = Len(chain[u])
  BY <1>1, <1>e DEF Counted
<1>2. /\ chain'[u] \in Seq(Nodes) /\ Len(chain'[u]) = Len(chain[u]) - 1
      /\ Len(chain[u]) \in Nat /\ Len(chain[u]) > 0
      /\ \A i \in 1 .. Len(chain[u]) - 1 : chain'[u][i] = chain[u][i + 1]
      /\ \A v \in Users : v # u => chain'[v] = chain[v]
  BY <1>1, TailParts DEF TypeOK
<1>3. n \in Nodes /\ OnList(u, n)
  BY <1>1, <1>2 DEF OnList
<1>type. TypeOK'
  BY <1>1, <1>2, <1>3 DEF TypeOK
<1>d. \A i, j \in 1 .. Len(chain[u]) : chain[u][i] = chain[u][j] => i = j
  BY <1>1 DEF Distinct
<1>4. \A v \in Users : \A m : OnList(v, m)' <=> OnList(v, m) /\ ~(v = u /\ m = n)
  <2>1. ASSUME NEW v \in Users, v = u, NEW m, NEW i \in 1 .. Len(chain[v]),
               chain[v][i] = m, m # n
        PROVE  OnList(v, m)'
    <3>1. i # 1 /\ i - 1 \in 1 .. Len(chain'[v]) /\ chain'[v][i - 1] = m
      BY <1>1, <1>2, <2>1
    <3> QED
      BY <3>1 DEF OnList
  <2>2. ASSUME NEW v \in Users, v = u, NEW m, NEW i \in 1 .. Len(chain'[v]),
               chain'[v][i] = m
        PROVE  OnList(v, m) /\ m # n
    <3>1. i + 1 \in 1 .. Len(chain[v]) /\ chain[v][i + 1] = m /\ i + 1 # 1
      BY <1>1, <1>2, <2>2
    <3>2. 1 \in 1 .. Len(chain[v])
      BY <1>2, <2>2
    <3> QED
      BY <1>1, <1>d, <2>2, <3>1, <3>2 DEF OnList
  <2>3. ASSUME NEW v \in Users, v = u, NEW m
        PROVE  OnList(v, m)' <=> OnList(v, m) /\ m # n
    <3>1. ASSUME OnList(v, m)'
          PROVE  OnList(v, m) /\ m # n
      <4>1. PICK i \in 1 .. Len(chain'[v]) : chain'[v][i] = m
        BY <3>1 DEF OnList
      <4> QED
        BY <2>2, <2>3, <4>1
    <3>2. ASSUME OnList(v, m), m # n
          PROVE  OnList(v, m)'
      <4>1. PICK i \in 1 .. Len(chain[v]) : chain[v][i] = m
        BY <3>2 DEF OnList
      <4> QED
        BY <2>1, <2>3, <3>2, <4>1
    <3> QED
      BY <3>1, <3>2
  <2>4. \A v \in Users : \A m : v # u => (OnList(v, m)' <=> OnList(v, m))
    BY <1>2 DEF OnList
  <2> QED
    BY <2>3, <2>4
<1>5. \A e \in Callers, m \in Nodes : Holds(e, m)' <=> IF e = c THEN m = n ELSE Holds(e, m)
  BY DEF Holds, TypeOK
<1>6. \A m \in Nodes : ~Holds(c, m)
  BY DEF Holds
<1>7. \A v \in Users, e \in Callers : ~Holds(e, n) /\ (OnList(v, n) => v = u)
  BY <1>1, <1>3 DEF Once
<1>acc. Accounted'
  <2>1. \A m \in Nodes : (\E e \in Callers : Holds(e, m)') <=> (\E e \in Callers : Holds(e, m)) \/ m = n
    BY <1>5, <1>6
  <2>2. \A m \in Nodes : (\E v \in Users : OnList(v, m)') <=> (\E v \in Users : OnList(v, m)) /\ m # n
    BY <1>1, <1>4, <1>7
  <2>3. n \in used
    BY <1>1, <1>3 DEF Accounted
  <2> QED
    BY <2>1, <2>2, <2>3 DEF Accounted
<1>once. Once'
  BY <1>1, <1>3, <1>4, <1>5, <1>6, <1>7 DEF Once
<1>dist. Distinct'
  <2>1. \A i, j \in 1 .. Len(chain'[u]) : chain'[u][i] = chain'[u][j] => i = j
    <3>1. ASSUME NEW i \in 1 .. Len(chain'[u]), NEW j \in 1 .. Len(chain'[u]),
                 chain'[u][i] = chain'[u][j]
          PROVE  i = j
      <4>1. i + 1 \in 1 .. Len(chain[u]) /\ j + 1 \in 1 .. Len(chain[u])
        BY <1>2
      <4>2. chain[u][i + 1] = chain[u][j + 1]
        BY <1>2, <3>1
      <4> QED
        BY <1>d, <4>1, <4>2
    <3> QED
      BY <3>1
  <2> QED
    BY <1>2, <2>1 DEF Distinct
<1>o. \A e \in Callers : e # c => pc'[e] = pc[e] /\ of[e] \in Users
  BY DEF TypeOK
<1>c. pc'[c] = "dec"
  BY DEF TypeOK
<1>excl. Exclusive'
  BY DEF Exclusive, TypeOK
<1>new. NewNode'
  BY DEF NewNode, TypeOK
<1>walk. Walking'
  <2>1. ASSUME NEW e \in Callers, pc'[e] = "walk"
        PROVE  OnList(of[e], tmp[e])'
    <3>1. OnList(of[e], tmp[e]) /\ of[e] \in Users /\ of[e] # u
      BY <1>o, <1>c, <1>e, <2>1 DEF Walking
    <3> QED
      BY <1>2, <3>1 DEF OnList
  <2> QED
    BY <2>1 DEF Walking
<1>take. Taking'
  <2>1. \A e \in Callers : pc'[e] = "take" => pc[e] = "take" /\ chain'[of[e]] = chain[of[e]]
    BY <1>2, <1>e, <1>o, <1>c
  <2>2. of' = of /\ tmp' = tmp
    BY <1>o
  <2>3. ASSUME NEW e \in Callers, pc'[e] = "take"
        PROVE  chain'[of'[e]] # <<>> /\ tmp'[e] = chain'[of'[e]][1]
    <3>1. chain[of[e]] # <<>> /\ tmp[e] = chain[of[e]][1]
      BY <2>1, <2>3 DEF Taking
    <3> QED
      BY <2>1, <2>2, <2>3, <3>1
  <2> QED
    BY <2>3 DEF Taking
<1>taken. Taken'
  BY <1>3, <1>o DEF Taken
<1>chained. Chained'
  <2>0. \A i \in 1 .. Len(chain[u]) - 1 : next[chain[u][i]] = chain[u][i + 1]
    BY <1>1 DEF Chained
  <2>0b. next[chain[u][Len(chain[u])]] = chain[u][Len(chain[u])]
    BY <1>1, <1>2 DEF Chained
  <2>h. head'[u] = next[n] /\ \A v \in Users : v # u => head'[v] = head[v]
    BY <1>1 DEF TypeOK
  <2>1. Len(chain'[u]) > 0 => head'[u] = chain'[u][1]
    BY <1>1, <1>2, <2>0, <2>h
  <2>2. Len(chain'[u]) > 0 => next[chain'[u][Len(chain'[u])]] = chain'[u][Len(chain'[u])]
    BY <1>2, <2>0b
  <2>3. \A i \in 1 .. Len(chain'[u]) - 1 : next[chain'[u][i]] = chain'[u][i + 1]
    BY <1>2, <2>0
  <2>4. \A v \in Users : v # u => chain'[v] = chain[v]
    BY <1>2
  <2>5. next' = next
    BY DEF heapVars
  <2> HIDE DEF u, GetUnlink
  <2> QED
    BY <2>h, <2>1, <2>2, <2>3, <2>4, <2>5 DEF Chained
<1>counted. Counted'
  <2>1. \A v \in Users : num[v] \in Nat /\ Len(chain[v]) \in Nat
    BY ChainSeq DEF TypeOK
  <2> QED
    BY <1>1, <1>2, <1>e, <1>num, <1>o, <1>c, <2>1 DEF Counted
<1> QED
  BY <1>type, <1>excl, <1>new, <1>walk, <1>take, <1>taken, <1>acc, <1>once, <1>dist,
     <1>chained, <1>counted

\* The count catches up with the list.
LEMMA GetCountInv ==
  ASSUME Inv, NEW c \in Callers,
         GetCount(c)
  PROVE  Inv'
<1> USE NullAssumption DEF Inv, Inside, NoLeak, Linked, GetCount, Go, heapVars
<1>2. \A v \in Users : \A m : OnList(v, m)' <=> OnList(v, m)
  BY DEF OnList
<1>type. TypeOK'
  <2>1. of[c] \in Users /\ num[of[c]] = Len(chain[of[c]]) + 1 /\ Len(chain[of[c]]) \in Nat
    BY ChainSeq DEF TypeOK, Counted
  <2> QED
    BY <2>1 DEF TypeOK
<1>3. \A e \in Callers, m \in Nodes : Holds(e, m)' <=> Holds(e, m)
  BY DEF Holds, TypeOK
<1>acc. Accounted'
  BY <1>2, <1>3 DEF Accounted
<1>once. Once'
  BY <1>2, <1>3 DEF Once
<1>dist. Distinct'
  BY DEF Distinct
<1>excl. Exclusive'
  BY DEF Exclusive, TypeOK
<1>new. NewNode'
  BY DEF NewNode, TypeOK
<1>walk. Walking'
  BY <1>2 DEF Walking, TypeOK
<1>take. Taking'
  BY DEF Taking, TypeOK
<1>taken. Taken'
  BY DEF Taken, TypeOK
<1>chained. Chained'
  BY DEF Chained
<1>counted. Counted'
  <2>0. of[c] \in Users /\ \A v \in Users : num[v] \in Nat /\ Len(chain[v]) \in Nat
    BY ChainSeq DEF TypeOK
  <2>1. \A e \in Callers : of[e] = of[c] /\ e # c => pc[e] = "idle"
    BY DEF Exclusive
  <2>2. \A e \in Callers : e # c => pc'[e] = pc[e]
    BY DEF TypeOK
  <2>3. pc'[c] = "free"
    BY DEF TypeOK
  <2>4. num[of[c]] = Len(chain[of[c]]) + 1
    BY <2>0 DEF Counted
  <2>5. num'[of[c]] = Len(chain[of[c]])
    BY <2>0, <2>4 DEF TypeOK
  <2>6. \A v \in Users : v # of[c] => num'[v] = num[v]
    BY DEF TypeOK
  <2> QED
    BY <2>0, <2>1, <2>2, <2>3, <2>5, <2>6 DEF Counted
<1> QED
  BY <1>type, <1>excl, <1>new, <1>walk, <1>take, <1>taken, <1>acc, <1>once, <1>dist,
     <1>chained, <1>counted

\* The freed node is in no mailbox, whatever the heads of empty ones point to.
LEMMA GetFreeInv ==
  ASSUME Inv, NEW c \in Callers,
         GetFree(c)
  PROVE  Inv'
<1> USE NullAssumption DEF Inv, Inside, NoLeak, Linked, GetFree, Return, Go
<1>type. TypeOK'
  BY DEF TypeOK
<1>2. \A v \in Users : \A m : OnList(v, m)' <=> OnList(v, m)
  BY DEF OnList
<1>3. \A e \in Callers, m \in Nodes : Holds(e, m)' <=> e # c /\ Holds(e, m)
  BY DEF Holds, TypeOK
<1>4. tmp[c] \in Nodes /\ \A m \in Nodes : Holds(c, m) <=> m = tmp[c]
  BY DEF Holds, Taken
<1>acc. Accounted'
  <2>1. \A m \in Nodes : (\E e \in Callers : Holds(e, m)') <=> (\E e \in Callers : Holds(e, m)) /\ m # tmp[c]
    BY <1>3, <1>4 DEF Once
  <2>2. \A v \in Users : ~OnList(v, tmp[c])
    BY <1>4 DEF Once
  <2> QED
    BY <1>2, <2>1, <2>2 DEF Accounted
<1>once. Once'
  BY <1>2, <1>3 DEF Once
<1>dist. Distinct'
  BY DEF Distinct
<1>excl. Exclusive'
  BY DEF Exclusive, TypeOK
<1>new. NewNode'
  BY DEF NewNode, TypeOK
<1>walk. Walking'
  <2>1. ASSUME NEW e \in Callers, pc'[e] = "walk"
        PROVE  OnList(of[e], tmp[e])'
    <3>1. tmp'[e] = tmp[e] /\ OnList(of[e], tmp[e]) /\ of[e] \in Users
      BY <2>1 DEF Walking, TypeOK
    <3> QED
      BY <2>1, <3>1 DEF OnList
  <2> QED
    BY <2>1 DEF Walking
<1>take. Taking'
  BY DEF Taking, TypeOK
<1>taken. Taken'
  BY DEF Taken, TypeOK
<1>chained. Chained'
  BY DEF Chained
<1>counted. Counted'
  BY DEF Counted, TypeOK
<1> QED
  BY <1>type, <1>excl, <1>new, <1>walk, <1>take, <1>taken, <1>acc, <1>once, <1>dist,
     <1>chained, <1>counted

LEMMA StepInv ==
  ASSUME Inv, [Next]_vars
  PROVE  Inv'
<1>1. CASE UNCHANGED vars
  BY <1>1 DEF Inv, vars, heapVars, TypeOK, Inside, NoLeak, Accounted, Once, Distinct,
     Linked, Chained, Counted, Holds, OnList,
     Exclusive, NewNode, Walking, Taking, Taken
<1>2. CASE Next
  BY <1>2, AddMallocInv, AddFirstInv, AddWalkInv, AddStepInv, AddLastInv, AddCountInv,
     GetStartInv, GetUnlinkInv, GetCountInv, GetFreeInv DEF Next, Work
<1> QED
  BY <1>1, <1>2

LEMMA InvCorrect == Spec => []Inv
BY InitInv, StepInv, PTL DEF Spec

-----------------------------------------------------------------------------
(* Theorems                                                                *)

\* The list in memory is the mailbox, in the order its messages were added.
THEOREM LinkedCorrect == Spec => []Linked
BY InvCorrect, PTL DEF Inv

\* No node is lost or in two places, across all mailboxes.
THEOREM NoLeakCorrect == Spec => []NoLeak
BY InvCorrect, PTL DEF Inv

\* stk_add_msg() and stk_get_msg() never follow a pointer to a freed node,
\* although an emptied mailbox keeps one in chatmsg.
THEOREM MemSafeCorrect == Spec => []MemSafe
<1>1. Inv => MemSafe
  <2> SUFFICES ASSUME Inv, NEW c \in Callers
               PROVE  /\ pc[c] \in {"walk", "take", "dec", "free"} => tmp[c] \in used
                      /\ pc[c] = "walk" => next[tmp[c]] \in used
    BY DEF MemSafe
  <2> DEFINE u == of[c]
  <2>0. /\ u \in Users /\ chain[u] \in Seq(Nodes) /\ Len(chain[u]) \in Nat
        /\ \A n : OnList(u, n) => n \in used
    BY ChainSeq, OnListNode DEF Inv, TypeOK
  <2>1. CASE pc[c] = "walk"
    <3>1. OnList(u, tmp[c])
      BY <2>1 DEF Inv, Inside, Walking
    <3>2. PICK i \in 1 .. Len(chain[u]) : chain[u][i] = tmp[c]
      BY <3>1 DEF OnList
    <3>3. OnList(u, next[tmp[c]])
      <4>1. CASE i = Len(chain[u])
        <5>1. next[tmp[c]] = tmp[c]
          BY <2>0, <3>2, <4>1 DEF Inv, Linked, Chained
        <5> QED
          BY <3>1, <5>1
      <4>2. CASE i # Len(chain[u])
        <5>1. i + 1 \in 1 .. Len(chain[u]) /\ next[tmp[c]] = chain[u][i + 1]
          BY <2>0, <3>2, <4>2 DEF Inv, Linked, Chained
        <5> QED
          BY <5>1 DEF OnList
      <4> QED
        BY <4>1, <4>2
    <3> QED
      BY <2>0, <2>1, <3>1, <3>3
  <2>2. CASE pc[c] = "take"
    <3>1. OnList(u, tmp[c])
      <4>1. chain[u] # <<>> /\ tmp[c] = chain[u][1]
        BY <2>2 DEF Inv, Inside, Taking
      <4> QED
        BY <2>0, <4>1 DEF OnList
    <3> QED
      BY <2>0, <2>2, <3>1
  <2>3. CASE pc[c] \in {"dec", "free"}
    BY <2>3 DEF Inv, Inside, Taken, NoLeak, Accounted, Holds
  <2>4. CASE pc[c] \notin {"walk", "take", "dec", "free"}
    BY <2>4
  <2> QED
    BY <2>1, <2>2, <2>3, <2>4
<1> QED
  BY <1>1, InvCorrect, PTL

-----------------------------------------------------------------------------
(* The mailboxes implement StkFifo                                         *)

LEMMA InitFifo == Init => Fifo!Init
BY DEF Init, Fifo!Init, Mail, Messages

\* The refinement mapping in the terms of the lemmas on sequences.
LEMMA MessagesMapped == \A u \in Users : Messages(u) = Mapped(msg, chain[u])
BY DEF Messages, Mapped

\* A node linked by a caller is one more message at the end of the queue.
LEMMA LinkFifo ==
  ASSUME Inv, NEW c \in Callers, pc[c] \in {"link", "walk"}, msg' = msg, got' = got,
         chain' = [chain EXCEPT ![of[c]] = Append(@, node[c])]
  PROVE  Fifo!Next
<1>0. of[c] \in Users /\ node[c] \in Nodes /\ msg[node[c]] \in Data
  BY DEF Inv, TypeOK, Inside, NewNode
<1>1. PICK u \in Users, n \in Nodes, d \in Data : u = of[c] /\ n = node[c] /\ d = msg[n]
  BY <1>0
<1>2. chain[u] \in Seq(Nodes) /\ chain \in [Users -> Seq(Nodes)]
  BY DEF Inv, TypeOK
<1>3. Messages(u)' = Append(Messages(u), d)
  <2>1. chain'[u] = Append(chain[u], n)
    BY <1>1, <1>2
  <2>2. Messages(u)' = Mapped(msg, chain'[u])
    BY DEF Messages, Mapped
  <2>3. Mapped(msg, Append(chain[u], n)) = Append(Mapped(msg, chain[u]), msg[n])
    BY <1>2, MapAppend
  <2> QED
    BY <1>1, <2>1, <2>2, <2>3, MessagesMapped
<1>4. \A v \in Users : v # u => Messages(v)' = Messages(v)
  BY <1>1, <1>2 DEF Messages
<1>5. Fifo!Add(u, d)
  <2>1. Mail' = [Mail EXCEPT ![u] = Append(@, d)]
    BY <1>3, <1>4 DEF Mail
  <2> QED
    BY <2>1 DEF Fifo!Add
<1> QED
  BY <1>5 DEF Fifo!Next

\* A node unlinked by a caller is the queue's oldest message, given to him.
LEMMA UnlinkFifo ==
  ASSUME Inv, NEW c \in Callers, GetUnlink(c)
  PROVE  Fifo!Next
<1>0. of[c] \in Users
  BY DEF Inv, TypeOK
<1>1. PICK u \in Users : u = of[c]
  BY <1>0
<1>2. /\ chain[u] \in Seq(Nodes) /\ chain[u] # <<>> /\ tmp[c] = chain[u][1]
      /\ chain \in [Users -> Seq(Nodes)] /\ msg' = msg
  BY <1>1 DEF Inv, TypeOK, Inside, Taking, GetUnlink, heapVars
<1>3. Messages(u)' = Tail(Messages(u))
  <2>1. chain'[u] = Tail(chain[u])
    BY <1>1, <1>2 DEF GetUnlink
  <2>2. Messages(u)' = Mapped(msg, chain'[u])
    BY <1>2 DEF Messages, Mapped
  <2> QED
    BY <1>2, <2>1, <2>2, MapTail, MessagesMapped
<1>4. \A v \in Users : v # u => Messages(v)' = Messages(v)
  BY <1>1, <1>2 DEF Messages, GetUnlink
<1>5. Messages(u) # <<>> /\ Head(Messages(u)) = msg[tmp[c]]
  BY <1>2, MapTail, MessagesMapped
<1>6. Fifo!Get(c, u)
  <2>1. Mail' = [Mail EXCEPT ![u] = Tail(@)] /\ Mail[u] = Messages(u)
    BY <1>3, <1>4 DEF Mail
  <2>2. got' = [got EXCEPT ![c] = msg[tmp[c]]]
    BY DEF GetUnlink
  <2> QED
    BY <1>5, <2>1, <2>2 DEF Fifo!Get
<1> QED
  BY <1>6 DEF Fifo!Next

\* A node that is allocated is in no mailbox, so that filling it changes none.
LEMMA MallocFifo ==
  ASSUME Inv, NEW c \in Callers, NEW u \in Users, NEW d \in Data, NEW n \in Nodes,
         AddMalloc(c, u, d, n)
  PROVE  Mail' = Mail
<1>1. \A v \in Users : \A i \in 1 .. Len(chain[v]) : chain[v][i] # n /\ chain[v][i] \in Nodes
  BY ChainSeq DEF AddMalloc, Inv, NoLeak, Accounted, OnList
<1>2. \A v \in Users : Messages(v)' = Messages(v)
  BY <1>1 DEF AddMalloc, Inv, TypeOK, Messages
<1> QED
  BY <1>2 DEF Mail

LEMMA StepFifo ==
  ASSUME Inv, [Next]_vars
  PROVE  [Fifo!Next]_<<Mail, got>>
<1>1. ASSUME NEW c \in Callers, NEW u \in Users, NEW d \in Data, NEW n \in Nodes,
             AddMalloc(c, u, d, n)
      PROVE  UNCHANGED <<Mail, got>>
  BY <1>1, MallocFifo DEF AddMalloc
<1>2. ASSUME NEW c \in Callers, AddFirst(c) \/ AddLast(c)
      PROVE  Fifo!Next
  BY <1>2, LinkFifo DEF AddFirst, AddLast, heapVars
<1>3. ASSUME NEW c \in Callers, GetUnlink(c)
      PROVE  Fifo!Next
  BY <1>3, UnlinkFifo
<1>4. ASSUME msg' = msg, chain' = chain, got' = got
      PROVE  UNCHANGED <<Mail, got>>
  BY <1>4 DEF Mail, Messages
<1>5. ASSUME NEW c \in Callers,
             \/ AddWalk(c) \/ AddStep(c) \/ AddCount(c) \/ GetCount(c) \/ GetFree(c)
             \/ \E u \in Users : GetStart(c, u)
      PROVE  UNCHANGED <<Mail, got>>
  BY <1>4, <1>5 DEF AddWalk, AddStep, AddCount, GetCount, GetFree, GetStart, heapVars
<1>6. CASE UNCHANGED vars
  BY <1>4, <1>6 DEF vars, heapVars
<1> QED
  BY <1>1, <1>2, <1>3, <1>5, <1>6 DEF Next, Work

\* The mailboxes are queues: messages come out in the order they went in, each
\* once, and never from another user's mailbox.
THEOREM FifoCorrect == Spec => IsFifo
<1>1. Inv /\ [Next]_vars => [Fifo!Next]_<<Mail, got>>
  BY StepFifo
<1> QED
  BY <1>1, InitFifo, InvCorrect, PTL DEF Spec, IsFifo, Fifo!Spec
=============================================================================
