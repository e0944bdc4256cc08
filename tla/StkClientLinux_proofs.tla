------------------------ MODULE StkClientLinux_proofs ------------------------
(***************************************************************************)
(* The Linux server's directory and the Linux client that fetches it, for  *)
(* any files: what the answers say of users and groups, what the client    *)
(* has when it reaches its prompt, and when it crashes there.              *)
(***************************************************************************)
EXTENDS StkClientLinux, FiniteSetTheorems, WellFoundedInduction, TLAPS

-----------------------------------------------------------------------------
(* Induction over the natural numbers, for a set S of them: 0 .. m with the *)
(* least m outside S is minimal among such intervals.                       *)
LEMMA Induction ==
  ASSUME NEW S, 0 \in S, \A n \in Nat : n \in S => n + 1 \in S
  PROVE  Nat \subseteq S
<1> DEFINE T == {0 .. n : n \in Nat \ S}
           R == StrictSubsetOrdering(Nat)
<1>1. SUFFICES ASSUME NEW m \in Nat, m \notin S PROVE FALSE
  OBVIOUS
<1>2. T # {} /\ T \subseteq FiniteSubsetsOf(Nat)
  <2>1. \A n \in Nat : IsFiniteSet(0 .. n) /\ 0 .. n \in SUBSET Nat
    BY FS_Interval
  <2> QED
    BY <1>1, <2>1 DEF FiniteSubsetsOf
<1>3. \A x, y \in Nat : x < y => <<0 .. x, 0 .. y>> \in R
  <2> SUFFICES ASSUME NEW x \in Nat, NEW y \in Nat, x < y
               PROVE  0 .. x \subseteq 0 .. y /\ 0 .. x # 0 .. y
    BY DEF StrictSubsetOrdering
  <2>1. y \in 0 .. y /\ y \notin 0 .. x
    OBVIOUS
  <2> QED
    BY <2>1
<1>4. \E U \in T : \A V \in T : ~(<<V, U>> \in R)
  <2>1. IsWellFoundedOn(R, FiniteSubsetsOf(Nat))
    BY FS_StrictSubsetOrderingWellFounded
  <2> HIDE DEF T, R
  <2> QED
    BY <1>2, <2>1, WFMin
<1>5. PICK x \in Nat \ S : \A V \in T : ~(<<V, 0 .. x>> \in R)
  <2> HIDE DEF R
  <2> QED
    BY <1>4
<1>6. x # 0 /\ x - 1 \in Nat /\ x - 1 < x /\ x - 1 + 1 = x
  BY <1>5
<1>7. x - 1 \in S
  <2> HIDE DEF R
  <2> QED
    BY <1>3, <1>5, <1>6
<1> QED
  BY <1>5, <1>6, <1>7

-----------------------------------------------------------------------------
(* Rings                                                                   *)

\* The entry after p: the next, or the first after the last.
LEMMA NextEntry ==
  ASSUME NEW n \in Nat, NEW p \in 0 .. n, n > 0
  PROVE  NextInRing(n, p) = IF p = n THEN 1 ELSE p + 1
<1>1. CASE p = n
  <2>1. (p + 1) % (n + 1) = 0
    BY <1>1
  <2> QED
    BY <1>1, <2>1 DEF NextInRing
<1>2. CASE p # n
  <2>1. p + 1 \in Nat /\ 0 <= p + 1 /\ p + 1 < n + 1
    BY <1>2
  <2>2. (p + 1) % (n + 1) = p + 1
    BY <2>1
  <2> QED
    BY <1>2, <2>1, <2>2 DEF NextInRing
<1> QED
  BY <1>1, <1>2

\* The entry j steps after p.
After(n, p, j) == IF p + j <= n THEN p + j ELSE p + j - n

\* A walk of at most n steps visits the entries one after the other.
LEMMA WalkVisits ==
  ASSUME NEW n \in Nat, NEW p \in 0 .. n, NEW k \in 0 .. n
  PROVE  Walk(n, p, k) = [j \in 1 .. k |-> After(n, p, j)]
<1> DEFINE F(at) == [j \in 0 .. k |-> IF j = 0 THEN p ELSE NextInRing(n, at[j - 1])]
           at == CHOOSE f : f = F(f)
           way == [j \in 0 .. k |-> After(n, p, j)]
<1>0. \A j \in 0 .. k : After(n, p, j) \in 0 .. n /\ (j = 0 => After(n, p, j) = p)
  BY DEF After
<1>1. \A j \in 1 .. k : NextInRing(n, After(n, p, j - 1)) = After(n, p, j)
  <2> SUFFICES ASSUME NEW j \in 1 .. k
               PROVE  NextInRing(n, After(n, p, j - 1)) = After(n, p, j)
    OBVIOUS
  <2>1. j - 1 \in 0 .. k /\ n > 0
    OBVIOUS
  <2>2. NextInRing(n, After(n, p, j - 1))
          = IF After(n, p, j - 1) = n THEN 1 ELSE After(n, p, j - 1) + 1
    BY <1>0, <2>1, NextEntry
  <2> QED
    BY <2>1, <2>2 DEF After
<1>2. way = F(way)
  <2>1. \A j \in 0 .. k : way[j] = IF j = 0 THEN p ELSE NextInRing(n, way[j - 1])
    <3> SUFFICES ASSUME NEW j \in 0 .. k
                 PROVE  way[j] = IF j = 0 THEN p ELSE NextInRing(n, way[j - 1])
      OBVIOUS
    <3>1. j # 0 => j \in 1 .. k /\ j - 1 \in 0 .. k
      OBVIOUS
    <3> QED
      BY <1>0, <1>1, <3>1
  <2> QED
    BY <2>1
<1>3. at = F(at)
  <2> HIDE DEF F, way
  <2> QED
    BY <1>2
<1>4. \A j \in Nat : j <= k => at[j] = After(n, p, j)
  <2> DEFINE S == {j \in Nat : j <= k => at[j] = After(n, p, j)}
  <2>0. at = [j \in 0 .. k |-> IF j = 0 THEN p ELSE NextInRing(n, at[j - 1])]
    BY <1>3
  <2> HIDE DEF at
  <2>1. 0 \in S
    <3>1. 0 \in 0 .. k
      OBVIOUS
    <3> QED
      BY <1>0, <2>0, <3>1
  <2>2. ASSUME NEW j \in Nat, j \in S
        PROVE  j + 1 \in S
    <3> SUFFICES ASSUME j + 1 <= k PROVE at[j + 1] = After(n, p, j + 1)
      OBVIOUS
    <3>1. j + 1 \in 1 .. k /\ j + 1 \in 0 .. k /\ j + 1 # 0 /\ j + 1 - 1 = j /\ at[j] = After(n, p, j)
      BY <2>2
    <3>2. at[j + 1] = NextInRing(n, at[j])
      BY <2>0, <3>1
    <3> QED
      BY <1>1, <3>1, <3>2
  <2>3. Nat \subseteq S
    <3> HIDE DEF S
    <3> QED
      BY <2>1, <2>2, Induction
  <2> QED
    BY <2>3
<1>5. Walk(n, p, k) = [j \in 1 .. k |-> at[j]]
  BY DEF Walk
<1> QED
  <2> HIDE DEF at
  <2>1. \A j \in 1 .. k : at[j] = After(n, p, j)
    BY <1>4
  <2> QED
    BY <1>5, <2>1

\* First() finds an entry with the id if there is one.
LEMMA FirstFinds ==
  ASSUME NEW ids, NEW n \in Nat, DOMAIN ids = 1 .. n, NEW id
  PROVE  /\ First(ids, id) # 0 <=> \E p \in 1 .. n : ids[p] = id
         /\ First(ids, id) # 0 => First(ids, id) \in 1 .. n /\ ids[First(ids, id)] = id
<1>1. CASE \E p \in 1 .. n : ids[p] = id
  <2> DEFINE none == {m \in Nat : \A p \in 1 .. n : p <= m => ids[p] # id}
  <2>1. \E p \in DOMAIN ids : ids[p] = id /\ \A q \in 1 .. p - 1 : ids[q] # id
    <3> SUFFICES ASSUME \A p \in 1 .. n : ids[p] = id => \E q \in 1 .. p - 1 : ids[q] = id
                 PROVE  FALSE
      OBVIOUS
    <3>1. 0 \in none
      OBVIOUS
    <3>2. ASSUME NEW m \in Nat, m \in none PROVE m + 1 \in none
      <4> SUFFICES ASSUME NEW p \in 1 .. n, p <= m + 1 PROVE ids[p] # id
        OBVIOUS
      <4>1. \A q \in 1 .. p - 1 : q \in 1 .. n /\ q <= m
        OBVIOUS
      <4> QED
        BY <3>2, <4>1
    <3>3. Nat \subseteq none
      <4> HIDE DEF none
      <4> QED
        BY <3>1, <3>2, Induction
    <3> QED
      BY <1>1, <3>3
  <2> QED
    BY <1>1, <2>1 DEF First
<1>2. CASE ~ \E p \in 1 .. n : ids[p] = id
  BY <1>2 DEF First
<1> QED
  BY <1>1, <1>2

-----------------------------------------------------------------------------
(* What GET_USER answers                                                   *)

\* The answer names every user but the asker, each once.
LEMMA OthersAll ==
  ASSUME NEW n \in Nat, Len(users) = n, DOMAIN users = 1 .. n, NEW c \in 1 .. n
  PROVE  /\ Others(c) = [k \in 1 .. n - 1 |-> users[After(n, c, k)].uid]
         /\ \A k \in 1 .. n - 1 : After(n, c, k) \in (1 .. n) \ {c}
         /\ \A j, k \in 1 .. n - 1 : After(n, c, j) = After(n, c, k) => j = k
         /\ \A q \in (1 .. n) \ {c} : \E k \in 1 .. n - 1 : q = After(n, c, k)
<1>1. Walk(n, c, n - 1) = [j \in 1 .. n - 1 |-> After(n, c, j)]
  BY WalkVisits
<1>2. Others(c) = [k \in 1 .. n - 1 |-> users[After(n, c, k)].uid]
  BY <1>1 DEF Others
<1>3. \A k \in 1 .. n - 1 : After(n, c, k) \in (1 .. n) \ {c}
  BY DEF After
<1>4. \A j, k \in 1 .. n - 1 : After(n, c, j) = After(n, c, k) => j = k
  BY DEF After
<1>5. ASSUME NEW q \in (1 .. n) \ {c}
      PROVE  \E k \in 1 .. n - 1 : q = After(n, c, k)
  <2>1. CASE c < q
    <3>1. q - c \in 1 .. n - 1 /\ After(n, c, q - c) = q
      BY <2>1 DEF After
    <3> QED
      BY <3>1
  <2>2. CASE q < c
    <3>1. q - c + n \in 1 .. n - 1 /\ After(n, c, q - c + n) = q
      BY <2>2 DEF After
    <3> QED
      BY <3>1
  <2> QED
    BY <2>1, <2>2
<1> QED
  BY <1>2, <1>3, <1>4, <1>5

-----------------------------------------------------------------------------
(* What stk_init_mygroup() finds                                           *)

\* A user's groups after k of the groups in stk_groups.
Mine(f, uid, k) ==
  /\ f \in Seq(Gids) /\ Len(f) <= k
  /\ IsInjective(f)
  /\ Range(f) = {groups[p].gid : p \in {q \in 1 .. k : uid \in Range(groups[q].members)}}

\* They are the groups that list him, each once, when no two have the same gid.
LEMMA MyGroupsMine ==
  ASSUME NEW n \in Nat, Len(groups) = n, groups \in Seq([gid : Gids, members : Seq(Uids)]),
         \A p, q \in 1 .. n : groups[p].gid = groups[q].gid => p = q,
         NEW uid
  PROVE  Mine(MyGroups(uid), uid, n)
<1> DEFINE Step(k, f) ==
             IF uid \in Range(groups[k].members) THEN Append(f, groups[k].gid) ELSE f
           G(f) == [k \in 0 .. n |-> IF k = 0 THEN <<>> ELSE Step(k, f[k - 1])]
           mine == CHOOSE f : f = G(f)
           S == {k \in Nat : k <= n =>
                   \E f : f = [j \in 0 .. k |-> IF j = 0 THEN <<>> ELSE Step(j, f[j - 1])]}
<1>1. MyGroups(uid) = mine[n]
  <2> DEFINE ring == Walk(n, 0, n)
             H(f) == [k \in 0 .. n |->
                        IF k = 0 THEN <<>>
                        ELSE IF uid \in Range(groups[ring[k]].members)
                             THEN Append(f[k - 1], groups[ring[k]].gid)
                             ELSE f[k - 1]]
  <2>1. MyGroups(uid) = (CHOOSE f : f = H(f))[n]
    BY DEF MyGroups
  <2>2. \A k \in 1 .. n : ring[k] = k
    BY WalkVisits DEF After
  <2>3. \A f : H(f) = G(f)
    <3> HIDE DEF ring
    <3> QED
      BY <2>2
  <2> HIDE DEF H, G
  <2> QED
    BY <2>1, <2>3
<1>2. \E f : f = G(f)
  <2> HIDE DEF Step
  <2>1. 0 \in S
    <3>1. [j \in 0 .. 0 |-> <<>>] = [j \in 0 .. 0 |-> IF j = 0 THEN <<>> ELSE Step(j, [i \in 0 .. 0 |-> <<>>][j - 1])]
      OBVIOUS
    <3> QED
      BY <3>1
  <2>2. ASSUME NEW k \in Nat, k \in S PROVE k + 1 \in S
    <3> SUFFICES ASSUME k + 1 <= n
                 PROVE  \E f : f = [j \in 0 .. k + 1 |-> IF j = 0 THEN <<>> ELSE Step(j, f[j - 1])]
      OBVIOUS
    <3>1. PICK f : f = [j \in 0 .. k |-> IF j = 0 THEN <<>> ELSE Step(j, f[j - 1])]
      BY <2>2
    <3> DEFINE g == [j \in 0 .. k + 1 |-> IF j = k + 1 THEN Step(j, f[k]) ELSE f[j]]
    <3>2. \A j \in 0 .. k + 1 : g[j] = IF j = 0 THEN <<>> ELSE Step(j, g[j - 1])
      <4> SUFFICES ASSUME NEW j \in 0 .. k + 1
                   PROVE  g[j] = IF j = 0 THEN <<>> ELSE Step(j, g[j - 1])
        OBVIOUS
      <4>1. CASE j = k + 1
        <5>1. g[j] = Step(j, f[k]) /\ g[j - 1] = f[k] /\ j # 0
          BY <4>1
        <5> QED
          BY <5>1
      <4>2. CASE j = 0
        <5>1. f[0] = <<>> /\ g[0] = f[0]
          BY <3>1
        <5> QED
          BY <4>2, <5>1
      <4>3. CASE j \in 1 .. k
        <5>1. g[j] = f[j] /\ g[j - 1] = f[j - 1] /\ f[j] = Step(j, f[j - 1]) /\ j # 0
          <6>1. j \in 0 .. k /\ j # 0 /\ j # k + 1 /\ j - 1 \in 0 .. k + 1 /\ j - 1 # k + 1
            BY <4>3
          <6>2. f[j] = Step(j, f[j - 1])
            BY <3>1, <6>1
          <6> QED
            BY <6>1, <6>2
        <5> QED
          BY <5>1
      <4> QED
        BY <4>1, <4>2, <4>3
    <3>3. g = [j \in 0 .. k + 1 |-> IF j = 0 THEN <<>> ELSE Step(j, g[j - 1])]
      BY <3>2
    <3> HIDE DEF g
    <3> QED
      BY <3>3
  <2>3. n \in S
    <3> HIDE DEF S
    <3> QED
      BY <2>1, <2>2, Induction
  <2> QED
    BY <2>3
<1>3. mine = G(mine)
  <2> HIDE DEF G
  <2> QED
    BY <1>2
<1> HIDE DEF mine
<1> HIDE DEF G, S
<1>0. \A k \in 1 .. n : groups[k].gid \in Gids
  <2> DEFINE R == [gid : Gids, members : Seq(Uids)]
  <2>1. groups \in Seq(R)
    OBVIOUS
  <2>2. \A k \in 1 .. n : groups[k] \in R
    <3> HIDE DEF R
    <3> QED
      BY <2>1
  <2> QED
    BY <2>2
<1>4. ASSUME NEW k \in 1 .. n, NEW f, Mine(f, uid, k - 1)
      PROVE  Mine(Step(k, f), uid, k)
  <2>1. groups[k].gid \in Gids /\ k - 1 \in Nat
    BY <1>0
  <2>2. CASE uid \in Range(groups[k].members)
    <3> DEFINE g == Append(f, groups[k].gid)
    <3>1. /\ g \in Seq(Gids) /\ Len(g) = Len(f) + 1 /\ Len(f) \in Nat
          /\ DOMAIN f = 1 .. Len(f) /\ DOMAIN g = 1 .. Len(f) + 1
          /\ \A i \in 1 .. Len(f) : g[i] = f[i]
          /\ g[Len(f) + 1] = groups[k].gid
      BY <1>4, <2>1 DEF Mine
    <3>2. groups[k].gid \notin Range(f)
      BY <1>4 DEF Mine
    <3> HIDE DEF g
    <3>3. IsInjective(g)
      <4>1. \A i, j \in 1 .. Len(f) : f[i] = f[j] => i = j
        BY <1>4, <3>1 DEF Mine, IsInjective
      <4>2. \A i \in 1 .. Len(f) : f[i] # groups[k].gid
        BY <3>1, <3>2 DEF Range
      <4>3. \A i \in DOMAIN g : i \in 1 .. Len(f) \/ i = Len(f) + 1
        BY <3>1
      <4> QED
        BY <3>1, <4>1, <4>2, <4>3 DEF IsInjective
    <3>4. Range(g) = Range(f) \cup {groups[k].gid}
      <4>1. \A i \in DOMAIN g : i \in 1 .. Len(f) \/ i = Len(f) + 1
        BY <3>1
      <4>2. Len(f) + 1 \in DOMAIN g /\ \A i \in 1 .. Len(f) : i \in DOMAIN g
        BY <3>1
      <4>3. Range(g) = {g[i] : i \in DOMAIN g} /\ Range(f) = {f[i] : i \in 1 .. Len(f)}
        BY <3>1 DEF Range
      <4>4. \A v \in Range(g) : v \in Range(f) \/ v = groups[k].gid
        BY <3>1, <4>1, <4>3
      <4>5. groups[k].gid \in Range(g)
        BY <3>1, <4>2, <4>3
      <4>6. ASSUME NEW v \in Range(f) PROVE v \in Range(g)
        <5>1. PICK i \in 1 .. Len(f) : v = f[i]
          BY <4>3
        <5>2. i \in DOMAIN g /\ v = g[i]
          BY <3>1, <4>2, <5>1
        <5> QED
          BY <4>3, <5>2
      <4> QED
        BY <4>4, <4>5, <4>6
    <3>5. Range(g) = {groups[p].gid : p \in {q \in 1 .. k : uid \in Range(groups[q].members)}}
      <4> DEFINE A == {q \in 1 .. k - 1 : uid \in Range(groups[q].members)}
                 B == {q \in 1 .. k : uid \in Range(groups[q].members)}
      <4>1. B = A \cup {k}
        BY <2>2
      <4>2. Range(f) = {groups[p].gid : p \in A}
        BY <1>4 DEF Mine
      <4> HIDE DEF A
      <4>3. Range(g) = {groups[p].gid : p \in A \cup {k}}
        BY <3>4, <4>2
      <4> QED
        BY <4>1, <4>3
    <3> QED
      <4>1. Len(g) <= k
        BY <1>4, <3>1 DEF Mine
      <4> QED
        BY <2>2, <3>1, <3>3, <3>5, <4>1 DEF Mine, g
  <2>3. CASE uid \notin Range(groups[k].members)
    <3>1. {q \in 1 .. k : uid \in Range(groups[q].members)}
            = {q \in 1 .. k - 1 : uid \in Range(groups[q].members)}
      BY <2>3
    <3>2. f \in Seq(Gids) => Len(f) \in Nat
      OBVIOUS
    <3>3. Step(k, f) = f
      BY <2>3
    <3> HIDE DEF Step
    <3>4. f \in Seq(Gids) /\ Len(f) <= k - 1 /\ IsInjective(f)
      BY <1>4 DEF Mine
    <3>5. Len(f) <= k
      BY <3>2, <3>4
    <3>6. Range(f) = {groups[p].gid : p \in {q \in 1 .. k : uid \in Range(groups[q].members)}}
      BY <1>4, <3>1 DEF Mine
    <3> QED
      BY <3>3, <3>4, <3>5, <3>6 DEF Mine
  <2> QED
    BY <2>2, <2>3
<1> DEFINE T == {k \in Nat : k <= n => Mine(mine[k], uid, k)}
<1>5. 0 \in T
  <2>1. mine[0] = <<>>
    BY <1>3 DEF G
  <2>2. IsInjective(<<>>) /\ Range(<<>>) = {} /\ Len(<<>>) = 0 /\ <<>> \in Seq(Gids)
    BY DEF IsInjective, Range
  <2>3. {groups[p].gid : p \in {q \in 1 .. 0 : uid \in Range(groups[q].members)}} = {}
    OBVIOUS
  <2>4. Mine(<<>>, uid, 0)
    BY <2>2, <2>3 DEF Mine
  <2> QED
    BY <2>1, <2>4
<1>6. ASSUME NEW k \in Nat, k \in T PROVE k + 1 \in T
  <2> SUFFICES ASSUME k + 1 <= n PROVE Mine(mine[k + 1], uid, k + 1)
    OBVIOUS
  <2>1. k + 1 \in 1 .. n /\ k + 1 \in 0 .. n /\ k + 1 # 0 /\ k + 1 - 1 = k
    OBVIOUS
  <2>2. Mine(mine[k], uid, k)
    BY <1>6
  <2>3. mine[k + 1] = Step(k + 1, mine[k])
    <3> HIDE DEF Step
    <3> QED
      BY <1>3, <2>1 DEF G
  <2> HIDE DEF Step
  <2> QED
    BY <1>4, <2>1, <2>2, <2>3
<1>7. n \in T
  <2> HIDE DEF T
  <2> QED
    BY <1>5, <1>6, Induction
<1> QED
  BY <1>1, <1>7

-----------------------------------------------------------------------------
(* The directory's invariant                                               *)

\* The groups of the file that list a user.
Listing(uid) == {gfile[p].gid : p \in {q \in DOMAIN gfile : Lists(q, uid)}}

\* stk_groups is the part of the file that has been read, and
GroupsRead ==
  /\ Len(groups) <= Len(gfile)
  /\ \A p \in DOMAIN groups : groups[p] = gfile[p]
  /\ phase # "groups" /\ phase # "crashed" => Len(groups) = Len(gfile)

\* so is stk_users, which is begun when the groups are there, with each user's
\* groups.
UsersRead ==
  /\ Len(users) <= Len(ufile)
  /\ \A i \in DOMAIN users :
       /\ users[i].uid = ufile[i]
       /\ Len(users[i].groups) <= Len(gfile)
       /\ IsInjective(users[i].groups)
       /\ Range(users[i].groups) = Listing(ufile[i])
  /\ users # <<>> => Len(groups) = Len(gfile)
  /\ phase = "serving" => Len(users) = Len(ufile)

\* Nothing is answered before.
AfterStartup == reply.cmd # "none" => phase \in {"serving", "crashed"} /\ Len(groups) = Len(gfile)

DirectoryInv == TypeOK /\ GroupsRead /\ UsersRead /\ AfterStartup /\ GroupsAgree

UserRec == [uid : Uids, groups : Seq(Gids)]
GroupRec == [gid : Gids, members : Seq(Uids)]
Entry == [gid : Gids \cup {NoId}, members : Seq(Uids)]

\* The files and the lists are sequences, without two entries of one id.
LEMMA Files ==
  ASSUME TypeOK, GroupsRead
  PROVE  /\ Len(ufile) \in Nat \ {0} /\ DOMAIN ufile = 1 .. Len(ufile) /\ ufile \in Seq(Uids)
         /\ \A i, j \in DOMAIN ufile : ufile[i] = ufile[j] => i = j
         /\ \A i \in DOMAIN ufile : ufile[i] # NoId
         /\ Len(gfile) \in Nat /\ DOMAIN gfile = 1 .. Len(gfile) /\ Len(gfile) <= 1024
         /\ gfile \in Seq(Entry)
         /\ \A p, q \in DOMAIN gfile : gfile[p].gid = gfile[q].gid => p = q
         /\ Len(groups) \in Nat /\ DOMAIN groups = 1 .. Len(groups) /\ groups \in Seq(GroupRec)
         /\ \A p, q \in DOMAIN groups : groups[p].gid = groups[q].gid => p = q
         /\ Len(users) \in Nat /\ DOMAIN users = 1 .. Len(users) /\ users \in Seq(UserRec)
<1>1. ufile \in Seq(Uids) /\ gfile \in Seq(Entry)
  <2>1. UserFiles \subseteq Seq(Uids) /\ GroupFiles \subseteq Seq(Entry)
    BY FilesAssumption DEF Entry
  <2>2. ufile \in UserFiles /\ gfile \in GroupFiles
    BY DEF TypeOK
  <2> QED
    BY <2>1, <2>2
<1>2. users \in Seq(UserRec) /\ groups \in Seq(GroupRec)
  BY DEF TypeOK, UserRec, GroupRec
<1>3. /\ \A i, j \in DOMAIN ufile : ufile[i] = ufile[j] => i = j
      /\ \A i \in DOMAIN ufile : ufile[i] # NoId
      /\ ufile # <<>>
  BY FilesAssumption DEF TypeOK, IsInjective, Range
<1>4. /\ \A p, q \in DOMAIN gfile : gfile[p].gid = gfile[q].gid => p = q
      /\ Len(gfile) <= 1024
  <2>1. IsInjective([i \in DOMAIN gfile |-> gfile[i].gid]) /\ Len(gfile) <= 1024
    BY FilesAssumption DEF TypeOK
  <2> QED
    BY <2>1 DEF IsInjective
<1>5. \A p, q \in DOMAIN groups : groups[p].gid = groups[q].gid => p = q
  <2>1. \A p \in DOMAIN groups : groups[p] = gfile[p] /\ p \in DOMAIN gfile
    BY <1>1, <1>2 DEF GroupsRead
  <2> QED
    BY <1>4, <2>1
<1> QED
  BY <1>1, <1>2, <1>3, <1>4, <1>5

LEMMA InitDirectory == Init => DirectoryInv
<1> SUFFICES ASSUME Init PROVE DirectoryInv
  OBVIOUS
<1>1. TypeOK
  <2>1. <<>> \in Seq(Uids \cup Gids) /\ <<>> \in Seq([uid : Uids, groups : Seq(Gids)])
        /\ <<>> \in Seq([gid : Gids, members : Seq(Uids)])
    OBVIOUS
  <2> QED
    BY <2>1 DEF Init, TypeOK, NoReply
<1>2. Len(gfile) \in Nat /\ Len(ufile) \in Nat
  BY FilesAssumption DEF Init
<1>3. GroupsRead /\ UsersRead
  BY <1>2 DEF Init, GroupsRead, UsersRead
<1>4. AfterStartup /\ GroupsAgree
  BY DEF Init, AfterStartup, GroupsAgree, NoReply
<1> QED
  BY <1>1, <1>3, <1>4 DEF DirectoryInv

\* Nothing is answered during startup.
LEMMA StartupSilent ==
  ASSUME DirectoryInv, phase \in {"groups", "users"}, reply' = reply
  PROVE  AfterStartup' /\ GroupsAgree'
<1>1. reply.cmd = "none"
  BY DEF DirectoryInv, AfterStartup
<1> QED
  BY <1>1 DEF AfterStartup, GroupsAgree

LEMMA LoadGroupDirectory == DirectoryInv /\ LoadGroup => DirectoryInv'
<1> SUFFICES ASSUME DirectoryInv, LoadGroup PROVE DirectoryInv'
  OBVIOUS
<1> DEFINE g == gfile[Len(groups) + 1]
<1>1. /\ phase = "groups" /\ Len(groups) < Len(gfile) /\ g.gid # NoId
      /\ groups' = Append(groups, g)
      /\ ufile' = ufile /\ gfile' = gfile /\ users' = users /\ phase' = phase /\ reply' = reply
  BY DEF LoadGroup
<1>2. TypeOK /\ GroupsRead /\ UsersRead
  BY DEF DirectoryInv
<1>3. /\ Len(gfile) \in Nat /\ DOMAIN gfile = 1 .. Len(gfile) /\ gfile \in Seq(Entry)
      /\ Len(groups) \in Nat /\ DOMAIN groups = 1 .. Len(groups) /\ groups \in Seq(GroupRec)
  BY <1>2, Files
<1>4. g \in GroupRec
  <2>1. g \in Entry
    BY <1>1, <1>3
  <2> QED
    BY <1>1, <2>1 DEF Entry, GroupRec
<1> HIDE DEF g
<1>5. /\ groups' \in Seq(GroupRec) /\ Len(groups') = Len(groups) + 1
      /\ DOMAIN groups' = 1 .. Len(groups) + 1
      /\ \A p \in 1 .. Len(groups) : groups'[p] = groups[p]
      /\ groups'[Len(groups) + 1] = g
  BY <1>1, <1>3, <1>4
<1>6. TypeOK'
  BY <1>1, <1>2, <1>5 DEF TypeOK, GroupRec
<1>7. GroupsRead'
  <2>1. ASSUME NEW p \in DOMAIN groups' PROVE groups'[p] = gfile[p]
    <3>1. p \in 1 .. Len(groups) \/ p = Len(groups) + 1
      BY <1>3, <1>5
    <3> QED
      BY <1>2, <1>3, <1>5, <3>1 DEF GroupsRead, g
  <2>2. Len(groups') <= Len(gfile)
    BY <1>1, <1>3, <1>5
  <2> QED
    BY <1>1, <2>1, <2>2 DEF GroupsRead
<1>8. UsersRead'
  <2>0. users # <<>> => Len(groups) = Len(gfile)
    BY <1>2 DEF UsersRead
  <2>1. users = <<>>
    <3>1. Len(groups) < Len(gfile)
      BY <1>1
    <3>2. Len(groups) \in Nat /\ Len(gfile) \in Nat
      BY <1>3
    <3>3. Len(groups) # Len(gfile)
      BY <3>1, <3>2
    <3> QED
      BY <2>0, <3>3
  <2>2. Len(ufile) \in Nat
    BY <1>2, Files
  <2> QED
    BY <1>1, <2>1, <2>2 DEF UsersRead
<1> QED
  BY <1>1, <1>6, <1>7, <1>8, StartupSilent DEF DirectoryInv

LEMMA LoadUserDirectory == DirectoryInv /\ LoadUser => DirectoryInv'
<1> SUFFICES ASSUME DirectoryInv, LoadUser PROVE DirectoryInv'
  OBVIOUS
<1> DEFINE uid == ufile[Len(users) + 1]
           u == [uid |-> uid, groups |-> MyGroups(uid)]
<1>1. /\ phase = "users" /\ Len(users) < Len(ufile) /\ users' = Append(users, u)
      /\ ufile' = ufile /\ gfile' = gfile /\ groups' = groups /\ phase' = phase /\ reply' = reply
  BY DEF LoadUser
<1>2. TypeOK /\ GroupsRead /\ UsersRead
  BY DEF DirectoryInv
<1>3. /\ Len(gfile) \in Nat /\ DOMAIN gfile = 1 .. Len(gfile)
      /\ Len(groups) \in Nat /\ DOMAIN groups = 1 .. Len(groups) /\ groups \in Seq(GroupRec)
      /\ \A p, q \in DOMAIN groups : groups[p].gid = groups[q].gid => p = q
      /\ Len(users) \in Nat /\ DOMAIN users = 1 .. Len(users) /\ users \in Seq(UserRec)
      /\ ufile \in Seq(Uids) /\ Len(ufile) \in Nat
  BY <1>2, Files
<1>4. Len(groups) = Len(gfile) /\ \A p \in 1 .. Len(gfile) : groups[p] = gfile[p]
  BY <1>1, <1>2, <1>3 DEF GroupsRead
<1>5. Mine(MyGroups(uid), uid, Len(groups))
  BY <1>3, MyGroupsMine DEF GroupRec
<1>6. /\ MyGroups(uid) \in Seq(Gids) /\ Len(MyGroups(uid)) <= Len(gfile) /\ IsInjective(MyGroups(uid))
      /\ Range(MyGroups(uid)) = Listing(uid)
  <2>1. {groups[p].gid : p \in {q \in 1 .. Len(groups) : uid \in Range(groups[q].members)}} = Listing(uid)
    BY <1>3, <1>4 DEF Listing, Lists
  <2> QED
    BY <1>4, <1>5, <2>1 DEF Mine
<1>7. uid \in Uids
  BY <1>1, <1>3
<1>8. u \in UserRec /\ u.uid = uid /\ u.groups = MyGroups(uid)
  BY <1>6, <1>7 DEF UserRec
<1> HIDE DEF u
<1>9. /\ users' \in Seq(UserRec) /\ Len(users') = Len(users) + 1
      /\ DOMAIN users' = 1 .. Len(users) + 1
      /\ \A i \in 1 .. Len(users) : users'[i] = users[i]
      /\ users'[Len(users) + 1] = u
  BY <1>1, <1>3, <1>8
<1>10. TypeOK'
  BY <1>1, <1>2, <1>9 DEF TypeOK, UserRec
<1>11. GroupsRead'
  BY <1>1, <1>2 DEF GroupsRead
<1>12. UsersRead'
  <2>1. ASSUME NEW i \in DOMAIN users'
        PROVE  /\ users'[i].uid = ufile[i] /\ Len(users'[i].groups) <= Len(gfile)
               /\ IsInjective(users'[i].groups) /\ Range(users'[i].groups) = Listing(ufile[i])
    <3>1. CASE i \in 1 .. Len(users)
      BY <1>2, <1>3, <1>9, <3>1 DEF UsersRead
    <3>2. CASE i = Len(users) + 1
      BY <1>6, <1>8, <1>9, <3>2
    <3> QED
      BY <1>3, <1>9, <3>1, <3>2
  <2>2. Len(users') <= Len(ufile)
    BY <1>1, <1>3, <1>9
  <2>3. \A v : Listing(v)' = Listing(v)
    BY <1>1 DEF Listing, Lists
  <2> QED
    BY <1>1, <1>4, <2>1, <2>2, <2>3 DEF UsersRead
<1> QED
  BY <1>1, <1>10, <1>11, <1>12, StartupSilent DEF DirectoryInv

\* The steps that only go on, or end the process.
LEMMA PhaseDirectory ==
  ASSUME DirectoryInv, UNCHANGED <<ufile, gfile, users, groups, reply>>,
         \/ phase = "groups" /\ Len(groups) = Len(gfile) /\ phase' = "users"
         \/ phase = "users" /\ Len(users) = Len(ufile) /\ phase' = "serving"
         \/ phase \in {"groups", "serving"} /\ phase' = "crashed"
         \/ phase' = phase
  PROVE  DirectoryInv'
<1>1. TypeOK'
  BY DEF DirectoryInv, TypeOK
<1>2. GroupsRead'
  BY DEF DirectoryInv, GroupsRead
<1>3. \A v : Listing(v)' = Listing(v)
  BY DEF Listing, Lists
<1>4. UsersRead'
  BY <1>3 DEF DirectoryInv, UsersRead
<1>5. AfterStartup' /\ GroupsAgree'
  BY DEF DirectoryInv, AfterStartup, GroupsAgree, Lists
<1> QED
  BY <1>1, <1>2, <1>4, <1>5 DEF DirectoryInv

\* An answer changes nothing else.
LEMMA AnswerDirectory ==
  ASSUME DirectoryInv, NEW cmd \in {"user", "user_info", "group", "group_info"}, NEW c \in DOMAIN users,
         NEW id \in Uids \cup Gids \cup {NoId}, NEW num \in Nat, NEW ids \in Seq(Uids \cup Gids),
         Answer(cmd, c, id, num, ids), GroupsAgree'
  PROVE  DirectoryInv'
<1>1. /\ phase = "serving" /\ UNCHANGED <<ufile, gfile, users, groups, phase>>
      /\ reply' = [cmd |-> cmd, who |-> users[c].uid, id |-> id, num |-> num, ids |-> ids]
  BY DEF Answer
<1>2. TypeOK /\ GroupsRead /\ UsersRead
  BY DEF DirectoryInv
<1>3. users[c].uid \in Uids
  <2>1. users[c] \in UserRec
    BY <1>2, Files
  <2> QED
    BY <2>1 DEF UserRec
<1>4. TypeOK'
  BY <1>1, <1>2, <1>3 DEF TypeOK
<1>5. GroupsRead' /\ AfterStartup'
  BY <1>1, <1>2 DEF GroupsRead, AfterStartup
<1>6. \A v : Listing(v)' = Listing(v)
  BY <1>1 DEF Listing, Lists
<1>7. UsersRead'
  BY <1>1, <1>2, <1>6 DEF UsersRead
<1> QED
  BY <1>4, <1>5, <1>7 DEF DirectoryInv

\* What the directory knows of a user when all is loaded.
LEMMA Loaded ==
  ASSUME DirectoryInv, phase = "serving"
  PROVE  /\ Len(users) = Len(ufile) /\ Len(users) \in Nat /\ DOMAIN users = 1 .. Len(users)
         /\ Len(groups) = Len(gfile) /\ DOMAIN groups = DOMAIN gfile
         /\ \A p \in DOMAIN gfile : groups[p] = gfile[p] /\ groups[p] \in GroupRec
         /\ \A c \in DOMAIN users :
              /\ users[c].uid = ufile[c] /\ users[c].groups \in Seq(Gids)
              /\ Len(users[c].groups) \in Nat /\ users[c].uid \in Uids
<1>1. TypeOK /\ GroupsRead /\ UsersRead
  BY DEF DirectoryInv
<1>2. /\ Len(users) = Len(ufile) /\ Len(groups) = Len(gfile)
      /\ \A c \in DOMAIN users : users[c].uid = ufile[c]
      /\ \A p \in DOMAIN groups : groups[p] = gfile[p]
  BY <1>1 DEF UsersRead, GroupsRead
<1>3. /\ Len(users) \in Nat /\ DOMAIN users = 1 .. Len(users) /\ users \in Seq(UserRec)
      /\ DOMAIN groups = 1 .. Len(groups) /\ groups \in Seq(GroupRec) /\ DOMAIN gfile = 1 .. Len(gfile)
  BY <1>1, Files
<1>4. \A c \in DOMAIN users : users[c] \in UserRec
  BY <1>3
<1>5. \A p \in DOMAIN groups : groups[p] \in GroupRec
  BY <1>3
<1>6. \A c \in DOMAIN users :
        users[c].groups \in Seq(Gids) /\ Len(users[c].groups) \in Nat /\ users[c].uid \in Uids
  BY <1>4 DEF UserRec
<1> QED
  BY <1>2, <1>3, <1>5, <1>6

LEMMA OthersType ==
  ASSUME DirectoryInv, phase = "serving", NEW c \in DOMAIN users
  PROVE  /\ Others(c) \in Seq(Uids) /\ Len(Others(c)) = Len(ufile) - 1
         /\ DOMAIN Others(c) = 1 .. Len(ufile) - 1
         /\ \A i \in DOMAIN Others(c) : Others(c)[i] # ufile[c]
         /\ \A i, j \in DOMAIN Others(c) : Others(c)[i] = Others(c)[j] => i = j
         /\ Range(Others(c)) = Range(ufile) \ {ufile[c]}
<1> DEFINE n == Len(users)
<1>1. /\ Len(users) = Len(ufile) /\ n \in Nat /\ DOMAIN users = 1 .. n
      /\ \A q \in 1 .. n : users[q].uid = ufile[q] /\ users[q].uid \in Uids
      /\ \A i, j \in 1 .. n : ufile[i] = ufile[j] => i = j
      /\ DOMAIN ufile = 1 .. n /\ n > 0
  <2>1. TypeOK /\ GroupsRead
    BY DEF DirectoryInv
  <2>2. /\ Len(ufile) \in Nat \ {0} /\ DOMAIN ufile = 1 .. Len(ufile)
        /\ \A i, j \in DOMAIN ufile : ufile[i] = ufile[j] => i = j
    BY <2>1, Files
  <2>3. /\ Len(users) = Len(ufile) /\ DOMAIN users = 1 .. Len(users)
        /\ \A q \in DOMAIN users : users[q].uid = ufile[q] /\ users[q].uid \in Uids
    BY Loaded
  <2> QED
    BY <2>2, <2>3
<1> HIDE DEF n
<1>2. /\ Others(c) = [k \in 1 .. n - 1 |-> users[After(n, c, k)].uid]
      /\ \A k \in 1 .. n - 1 : After(n, c, k) \in (1 .. n) \ {c}
      /\ \A j, k \in 1 .. n - 1 : After(n, c, j) = After(n, c, k) => j = k
      /\ \A q \in (1 .. n) \ {c} : \E k \in 1 .. n - 1 : q = After(n, c, k)
  BY <1>1, OthersAll DEF n
<1>3. \A k \in 1 .. n - 1 : Others(c)[k] = ufile[After(n, c, k)] /\ Others(c)[k] \in Uids
  BY <1>1, <1>2
<1>4. Others(c) \in Seq(Uids) /\ Len(Others(c)) = n - 1 /\ DOMAIN Others(c) = 1 .. n - 1
  <2>1. n - 1 \in Nat
    BY <1>1
  <2>2. Others(c) \in [1 .. n - 1 -> Uids]
    BY <1>2, <1>3
  <2> QED
    BY <2>1, <2>2
<1>5. \A i \in 1 .. n - 1 : Others(c)[i] # ufile[c]
  BY <1>1, <1>2, <1>3
<1>6. \A i, j \in 1 .. n - 1 : Others(c)[i] = Others(c)[j] => i = j
  BY <1>1, <1>2, <1>3
<1>7. Range(Others(c)) = Range(ufile) \ {ufile[c]}
  <2>1. ASSUME NEW v \in Range(Others(c)) PROVE v \in Range(ufile) \ {ufile[c]}
    <3>1. PICK k \in 1 .. n - 1 : v = Others(c)[k]
      BY <1>4 DEF Range
    <3>2. v = ufile[After(n, c, k)] /\ After(n, c, k) \in DOMAIN ufile /\ v # ufile[c]
      BY <1>1, <1>2, <1>3, <1>5, <3>1
    <3> QED
      BY <3>2 DEF Range
  <2>2. ASSUME NEW v \in Range(ufile) \ {ufile[c]} PROVE v \in Range(Others(c))
    <3>1. PICK q \in 1 .. n : v = ufile[q]
      BY <1>1 DEF Range
    <3>2. q \in (1 .. n) \ {c}
      BY <3>1
    <3>3. PICK k \in 1 .. n - 1 : q = After(n, c, k)
      BY <1>2, <3>2
    <3>4. v = Others(c)[k] /\ k \in DOMAIN Others(c)
      BY <1>3, <1>4, <3>1, <3>3
    <3> QED
      BY <3>4 DEF Range
  <2> QED
    BY <2>1, <2>2
<1> QED
  BY <1>1, <1>4, <1>5, <1>6, <1>7

LEMMA GetUserDirectory ==
  ASSUME DirectoryInv, NEW c \in DOMAIN users, GetUser(c)
  PROVE  DirectoryInv'
<1>1. Answer("user", c, NoId, Len(users) - 1, Others(c)) /\ phase = "serving"
  BY DEF GetUser, Answer
<1>2. Others(c) \in Seq(Uids \cup Gids) /\ Len(users) - 1 \in Nat
  <2>1. Others(c) \in Seq(Uids) /\ Len(users) \in Nat /\ DOMAIN users = 1 .. Len(users)
    BY <1>1, OthersType, Loaded
  <2> QED
    BY <2>1
<1>3. GroupsAgree'
  BY <1>1 DEF Answer, GroupsAgree
<1> QED
  BY <1>1, <1>2, <1>3, AnswerDirectory

LEMMA GetUserInfoDirectory ==
  ASSUME DirectoryInv, NEW c \in DOMAIN users, NEW uid \in Uids \cup {NoId}, GetUserInfo(c, uid)
  PROVE  DirectoryInv'
<1> DEFINE id == IF FindUser(uid) = 0 THEN NoId ELSE uid
<1>1. Answer("user_info", c, id, 0, <<>>)
  BY DEF GetUserInfo
<1>2. id \in Uids \cup Gids \cup {NoId} /\ <<>> \in Seq(Uids \cup Gids)
  OBVIOUS
<1> HIDE DEF id
<1>3. GroupsAgree'
  BY <1>1 DEF Answer, GroupsAgree
<1> QED
  BY <1>1, <1>2, <1>3, AnswerDirectory

LEMMA GetGroupDirectory ==
  ASSUME DirectoryInv, NEW c \in DOMAIN users, GetGroup(c)
  PROVE  DirectoryInv'
<1> DEFINE ids == users[c].groups
<1>1. Answer("group", c, NoId, Len(ids), ids) /\ phase = "serving"
  BY DEF GetGroup, Answer
<1>2. Len(ids) \in Nat /\ ids \in Seq(Gids) /\ users[c].uid = ufile[c]
  BY <1>1, Loaded
<1>3. IsInjective(ids) /\ Range(ids) = Listing(ufile[c])
  BY DEF DirectoryInv, UsersRead
<1> HIDE DEF ids
<1>4. ids \in Seq(Uids \cup Gids)
  BY <1>2
<1>5. GroupsAgree'
  <2>1. reply'.cmd = "group" /\ reply'.num = Len(ids) /\ reply'.ids = ids /\ reply'.who = ufile[c] /\ gfile' = gfile
    BY <1>1, <1>2 DEF Answer
  <2>2. {gfile[p].gid : p \in {q \in DOMAIN gfile : Lists(q, reply.who)}}' = Listing(ufile[c])
    BY <2>1 DEF Listing, Lists
  <2> QED
    BY <1>3, <2>1, <2>2 DEF GroupsAgree
<1> QED
  BY <1>1, <1>2, <1>4, <1>5, AnswerDirectory

LEMMA GetGroupInfoDirectory ==
  ASSUME DirectoryInv, NEW c \in DOMAIN users, NEW gid \in Gids, GetGroupInfo(c, gid)
  PROVE  DirectoryInv'
<1> DEFINE at == FindGroup(gid)
           g == groups[at]
<1>1. Answer("group_info", c, gid, Len(g.members), g.members) /\ phase = "serving" /\ at # 0
  BY DEF GetGroupInfo, Answer
<1>2. /\ Len(groups) \in Nat /\ DOMAIN groups = 1 .. Len(groups) /\ DOMAIN groups = DOMAIN gfile
      /\ \A p \in DOMAIN gfile : groups[p] = gfile[p] /\ groups[p] \in GroupRec
      /\ \A p, q \in DOMAIN gfile : gfile[p].gid = gfile[q].gid => p = q
  BY <1>1, Loaded, Files DEF DirectoryInv
<1>3. at \in DOMAIN gfile /\ groups[at].gid = gid
  <2> DEFINE gids == [p \in DOMAIN groups |-> groups[p].gid]
  <2>1. DOMAIN gids = 1 .. Len(groups) /\ at = First(gids, gid)
    BY <1>2 DEF FindGroup
  <2>2. at \in 1 .. Len(groups) /\ gids[at] = gid
    <3> HIDE DEF gids, at
    <3> QED
      BY <1>1, <1>2, <2>1, FirstFinds
  <2> QED
    BY <1>2, <2>2
<1> HIDE DEF at
<1>4. /\ g = gfile[at] /\ g.gid = gid /\ g \in GroupRec
      /\ g.members \in Seq(Uids) /\ Len(g.members) \in Nat
      /\ [gid |-> gid, members |-> g.members] = g
  <2>1. g = gfile[at] /\ g.gid = gid /\ g \in GroupRec
    BY <1>2, <1>3
  <2> HIDE DEF g
  <2> QED
    BY <2>1 DEF GroupRec
<1>5. g.members \in Seq(Uids \cup Gids) /\ gid \in Uids \cup Gids \cup {NoId}
  BY <1>4
<1>6. GroupsAgree'
  <2>1. /\ reply'.cmd = "group_info" /\ reply'.id = gid /\ reply'.ids = g.members
        /\ gfile' = gfile /\ users' = users
    BY <1>1 DEF Answer
  <2>2. [gid |-> gid, members |-> g.members] \in Range(gfile)
    BY <1>3, <1>4 DEF Range
  <2>3. ASSUME NEW u \in Range(users)
        PROVE  u.uid \in Range(g.members) <=> gid \in Range(u.groups)
    <3>1. PICK i \in DOMAIN users : u = users[i]
      BY DEF Range
    <3>2. u.uid = ufile[i] /\ Range(u.groups) = Listing(ufile[i])
      BY <3>1 DEF DirectoryInv, UsersRead
    <3>3. gid \in Listing(ufile[i]) <=> \E p \in DOMAIN gfile : Lists(p, ufile[i]) /\ gfile[p].gid = gid
      BY DEF Listing
    <3>4. \A p \in DOMAIN gfile : gfile[p].gid = gid <=> p = at
      BY <1>2, <1>3, <1>4
    <3>5. Lists(at, ufile[i]) <=> ufile[i] \in Range(g.members)
      BY <1>4 DEF Lists
    <3> QED
      BY <1>3, <3>2, <3>3, <3>4, <3>5
  <2> HIDE DEF g
  <2> QED
    BY <2>1, <2>2, <2>3 DEF GroupsAgree
<1> QED
  BY <1>1, <1>4, <1>5, <1>6, AnswerDirectory

LEMMA NextDirectory == DirectoryInv /\ [Next]_vars => DirectoryInv'
<1> SUFFICES ASSUME DirectoryInv, [Next]_vars PROVE DirectoryInv'
  OBVIOUS
<1>1. CASE LoadGroup
  BY <1>1, LoadGroupDirectory
<1>2. CASE LoadGroupNoKey
  BY <1>2, PhaseDirectory DEF LoadGroupNoKey
<1>3. CASE GroupsLoaded
  BY <1>3, PhaseDirectory DEF GroupsLoaded
<1>4. CASE LoadUser
  BY <1>4, LoadUserDirectory
<1>5. CASE UsersLoaded
  BY <1>5, PhaseDirectory DEF UsersLoaded
<1>6. ASSUME NEW c \in DOMAIN users, GetUser(c) PROVE DirectoryInv'
  BY <1>6, GetUserDirectory
<1>7. ASSUME NEW c \in DOMAIN users, GetGroup(c) PROVE DirectoryInv'
  BY <1>7, GetGroupDirectory
<1>8. ASSUME NEW c \in DOMAIN users, NEW uid \in Uids, GetUserInfo(c, uid) PROVE DirectoryInv'
  BY <1>8, GetUserInfoDirectory
<1>9. ASSUME NEW c \in DOMAIN users, NEW gid \in Gids, GetGroupInfo(c, gid) PROVE DirectoryInv'
  BY <1>9, GetGroupInfoDirectory
<1>10. ASSUME NEW c \in DOMAIN users, NEW gid \in Gids, GetGroupInfoUnknown(c, gid) PROVE DirectoryInv'
  BY <1>10, PhaseDirectory DEF GetGroupInfoUnknown
<1>11. CASE UNCHANGED vars
  BY <1>11, PhaseDirectory DEF vars
<1> QED
  BY <1>1, <1>2, <1>3, <1>4, <1>5, <1>6, <1>7, <1>8, <1>9, <1>10, <1>11 DEF Next, Ask

\* GET_GROUP and GET_GROUP_INFO answer with what the groups file says, and agree
\* with each other: startup has given each user the groups that list him.
THEOREM DirectoryCorrect == Spec => []GroupsAgree
<1>1. Spec => []DirectoryInv
  BY InitDirectory, NextDirectory, PTL DEF Spec
<1>2. DirectoryInv => GroupsAgree
  BY DEF DirectoryInv
<1> QED
  BY <1>1, <1>2, PTL

-----------------------------------------------------------------------------
(* The client's invariant                                                  *)

Known == FindUser(me) # 0

\* The packets on their way.
Questions == ({"req", "login", "users", "group"} \X (Uids \cup {NoId})) \cup ({"user_info"} \X Uids)
Answers == ({"req", "msg"} \X {NoId}) \cup ({"login"} \X {"ok", "pass", "again", "uid"})
             \cup ({"user_info"} \X (Uids \cup {NoId}))
             \cup ({"users"} \X Seq(Uids)) \cup ({"group"} \X Seq(Gids))
WireTypeOK == toSrv \in Seq(Questions) /\ toCli \in Seq(Answers)

\* The server serves while a client runs; a client that does not run has no
\* connection.
Running ==
  /\ pc # "off" => phase = "serving"
  /\ pc \in {"off", "ended", "crashed"} => link = "none"
  /\ link = "none" => toSrv = <<>> /\ toCli = <<>>
  /\ link = "closed" => exits > 0 
  /\ pc = "off" => sent = 0

\* A request for the directory is from a user there is, and one for his groups
\* is a line he typed.
Requests ==
  \A i \in DOMAIN toSrv :
    /\ toSrv[i][1] \in {"users", "user_info", "group"} => Known
    /\ toSrv[i][1] = "group" => sent > 0

\* What the server answers is what the directory says of the user.
Truthful ==
  \A i \in DOMAIN toCli :
    /\ toCli[i][1] = "login" /\ toCli[i][2] = "ok" => Known
    /\ toCli[i][1] = "users" => Known /\ toCli[i][2] = Others(FindUser(me))
    /\ toCli[i][1] = "group" => Known /\ sent > 0 /\ toCli[i][2] = users[FindUser(me)].groups

\* The list is the server's, with right profiles;
BuddyList ==
  /\ Known
  /\ Len(buddys) = Len(ufile) - 1
  /\ \A i \in DOMAIN buddys :
       /\ buddys[i][1] = Others(FindUser(me))[i]
       /\ buddys[i][2] \in {NoId, buddys[i][1]}

\* the requests that remain are for those of the last buddies.
Remain ==
  /\ Len(todo) <= Len(buddys)
  /\ \A i \in DOMAIN todo : todo[i] = <<"info", buddys[Len(buddys) - Len(todo) + i][1]>>

\* How far the client has come with its requests.
Progress ==
  /\ pc \in {"ask", "answer"} =>
       \/ todo = <<<<"req", me>>>>
       \/ todo = <<<<"login", me>>>>
       \/ Known /\ todo = <<<<"self", me>>, <<"users", NoId>>>>
       \/ Known /\ todo = <<<<"users", NoId>>>>
       \/ BuddyList /\ Remain /\ todo # <<>>
  /\ Prompt => BuddyList /\ todo = <<>>

\* While no message has come in between and the server stays, the wire holds the
\* present request or its answer, and
Calm == ~early /\ exits = 0
Wired ==
  Calm =>
    /\ pc = "ask" => toSrv = <<>> /\ toCli = <<>>
    /\ pc = "answer" =>
         \/ toSrv = <<<<Wire(Cmd), Head(todo)[2]>>>> /\ toCli = <<>>
         \/ /\ toSrv = <<>> /\ Len(toCli) = 1 /\ toCli[1][1] = Wire(Cmd)
            /\ Cmd = "info" => toCli[1][2] = Head(todo)[2]

\* the profiles up to the present one are there.
Filled ==
  Calm /\ (Prompt \/ (pc \in {"ask", "answer"} /\ Cmd = "info")) =>
    \A i \in 1 .. Len(buddys) - Len(todo) : buddys[i][2] = buddys[i][1]

ClientInv ==
  /\ ClientTypeOK /\ WireTypeOK /\ Running /\ Requests /\ Truthful /\ Progress /\ Wired
  /\ Filled /\ CrashesGroupless

LEMMA InitClient == ClientInit => ClientInv
<1> SUFFICES ASSUME ClientInit PROVE ClientInv
  OBVIOUS
<1>1. ClientTypeOK
  <2>1. 0 \in 0 .. MaxPush /\ 0 \in 0 .. MaxSend /\ 0 \in 0 .. MaxExit
    BY ClientAssumption
  <2>2. /\ <<>> \in Seq({"req", "login", "self", "users", "info"} \X (Uids \cup {NoId}))
        /\ <<>> \in Seq(Uids \X (Uids \cup {NoId}))
    OBVIOUS
  <2> QED
    BY <2>1, <2>2 DEF ClientInit, ClientTypeOK
<1>2. WireTypeOK
  BY DEF ClientInit, WireTypeOK
<1>3. Running /\ Requests /\ Truthful
  BY DEF ClientInit, Running, Requests, Truthful
<1>4. Progress /\ Wired /\ Filled /\ CrashesGroupless
  BY DEF ClientInit, Progress, Prompt, Wired, Filled, CrashesGroupless
<1> QED
  BY <1>1, <1>2, <1>3, <1>4 DEF ClientInv

\* The user who asks is an entry of the server's list.
LEMMA KnownUser ==
  ASSUME DirectoryInv, phase = "serving"
  PROVE  /\ Known => FindUser(me) \in DOMAIN users /\ users[FindUser(me)].uid = me
                       /\ ufile[FindUser(me)] = me /\ me \in Uids
         /\ \A v \in Range(ufile) : FindUser(v) # 0
<1> DEFINE uids == [p \in DOMAIN users |-> users[p].uid]
           n == Len(users)
<1>1. /\ Len(users) = Len(ufile) /\ n \in Nat /\ DOMAIN users = 1 .. n
      /\ \A c \in DOMAIN users : users[c].uid = ufile[c] /\ users[c].uid \in Uids
  BY Loaded
<1>2. DOMAIN ufile = 1 .. n
  <2>1. TypeOK /\ GroupsRead
    BY DEF DirectoryInv
  <2>2. DOMAIN ufile = 1 .. Len(ufile)
    BY <2>1, Files
  <2> QED
    BY <1>1, <2>2
<1>3. DOMAIN uids = 1 .. n /\ \A v : FindUser(v) = First(uids, v)
  BY <1>1 DEF FindUser
<1> HIDE DEF n
<1>4. \A v : /\ FindUser(v) # 0 <=> \E p \in 1 .. n : uids[p] = v
             /\ FindUser(v) # 0 => FindUser(v) \in 1 .. n /\ uids[FindUser(v)] = v
  <2> HIDE DEF uids
  <2> QED
    BY <1>1, <1>3, FirstFinds DEF n
<1>5. Known => /\ FindUser(me) \in DOMAIN users /\ users[FindUser(me)].uid = me
               /\ ufile[FindUser(me)] = me /\ me \in Uids
  <2> SUFFICES ASSUME FindUser(me) # 0
               PROVE  /\ FindUser(me) \in DOMAIN users /\ users[FindUser(me)].uid = me
                      /\ ufile[FindUser(me)] = me /\ me \in Uids
    BY DEF Known
  <2> DEFINE c == FindUser(me)
  <2>1. c \in 1 .. n /\ uids[c] = me
    BY <1>4
  <2> HIDE DEF c
  <2>2. c \in DOMAIN users /\ users[c].uid = me
    BY <1>1, <2>1 DEF n
  <2>3. ufile[c] = me /\ me \in Uids
    BY <1>1, <2>2
  <2> QED
    BY <2>2, <2>3 DEF c
<1>6. ASSUME NEW v \in Range(ufile) PROVE FindUser(v) # 0
  <2>1. PICK p \in 1 .. n : v = ufile[p]
    BY <1>2 DEF Range
  <2>2. uids[p] = v
    BY <1>1, <2>1 DEF n
  <2> QED
    BY <1>4, <2>1, <2>2
<1> QED
  BY <1>5, <1>6

\* The directory's answers about users depend on the lists only.
LEMMA SameLists ==
  ASSUME UNCHANGED <<ufile, gfile, users, me>>
  PROVE  /\ Known' = Known /\ FindUser(me)' = FindUser(me)
         /\ Others(FindUser(me))' = Others(FindUser(me))
         /\ users[FindUser(me)]' = users[FindUser(me)]
         /\ \A p, v : Lists(p, v)' = Lists(p, v)
<1>1. FindUser(me)' = FindUser(me)
  BY DEF FindUser, First
<1>2. Others(FindUser(me))' = Others(FindUser(me))
  BY <1>1 DEF Others, Walk, NextInRing
<1> QED
  BY <1>1, <1>2 DEF Known, Lists

-----------------------------------------------------------------------------
(* Steps that leave the wire alone                                         *)

\* Requests and answers stay what they were when a step only takes some away.
LEMMA LessWire ==
  ASSUME ClientInv, UNCHANGED <<ufile, gfile, users, me>>, sent' >= sent,
         WireTypeOK',
         \A i \in DOMAIN toSrv' : \E j \in DOMAIN toSrv : toSrv'[i] = toSrv[j],
         \A i \in DOMAIN toCli' : \E j \in DOMAIN toCli : toCli'[i] = toCli[j],
         sent \in Nat, sent' \in Nat
  PROVE  Requests' /\ Truthful'
<1>1. Known' = Known /\ Others(FindUser(me))' = Others(FindUser(me))
      /\ users[FindUser(me)]' = users[FindUser(me)]
  BY SameLists
<1>2. sent > 0 => sent' > 0
  OBVIOUS
<1>3. Requests'
  <2> SUFFICES ASSUME NEW i \in DOMAIN toSrv'
               PROVE  /\ toSrv'[i][1] \in {"users", "user_info", "group"} => Known'
                      /\ toSrv'[i][1] = "group" => sent' > 0
    BY DEF Requests
  <2>1. PICK j \in DOMAIN toSrv : toSrv'[i] = toSrv[j]
    OBVIOUS
  <2>2. /\ toSrv[j][1] \in {"users", "user_info", "group"} => Known
        /\ toSrv[j][1] = "group" => sent > 0
    BY DEF ClientInv, Requests
  <2> QED
    BY <1>1, <1>2, <2>1, <2>2
<1>4. Truthful'
  <2> SUFFICES ASSUME NEW i \in DOMAIN toCli'
               PROVE  /\ toCli'[i][1] = "login" /\ toCli'[i][2] = "ok" => Known'
                      /\ toCli'[i][1] = "users" => Known' /\ toCli'[i][2] = Others(FindUser(me))'
                      /\ toCli'[i][1] = "group" =>
                           Known' /\ sent' > 0 /\ toCli'[i][2] = (users[FindUser(me)].groups)'
    BY DEF Truthful
  <2>1. PICK j \in DOMAIN toCli : toCli'[i] = toCli[j]
    OBVIOUS
  <2>2. /\ toCli[j][1] = "login" /\ toCli[j][2] = "ok" => Known
        /\ toCli[j][1] = "users" => Known /\ toCli[j][2] = Others(FindUser(me))
        /\ toCli[j][1] = "group" => Known /\ sent > 0 /\ toCli[j][2] = users[FindUser(me)].groups
    BY DEF ClientInv, Truthful
  <2>3. (users[FindUser(me)].groups)' = users[FindUser(me)].groups
    BY <1>1
  <2> QED
    BY <1>1, <1>2, <2>1, <2>2, <2>3
<1> QED
  BY <1>3, <1>4

-----------------------------------------------------------------------------
(* Steps that end the client                                               *)

LEMMA Ending ==
  ASSUME ClientInv, pc # "off", NEW how \in {"ended", "crashed"}, Exits(how),
         phase' = phase, ClientTypeOK', CrashesGroupless'
  PROVE  ClientInv'
<1>1. pc' = how /\ link' = "none" /\ toSrv' = <<>> /\ toCli' = <<>>
  BY DEF Exits
<1>2. WireTypeOK'
  BY <1>1 DEF WireTypeOK
<1>3. Running'
  BY <1>1 DEF ClientInv, Running
<1>4. Requests' /\ Truthful'
  BY <1>1 DEF Requests, Truthful
<1>5. Progress' /\ Wired' /\ Filled'
  BY <1>1 DEF Progress, Prompt, Wired, Filled
<1> QED
  BY <1>2, <1>3, <1>4, <1>5 DEF ClientInv

LEMMA TypeExitClient == ClientInv /\ TypeExit => ClientInv'
<1> SUFFICES ASSUME ClientInv, TypeExit PROVE ClientInv'
  OBVIOUS
<1>1. /\ pc = "select" /\ Exits("ended")
      /\ UNCHANGED <<vars, me, todo, buddys, friend, online, histVars>>
  BY DEF TypeExit
<1>2. ClientTypeOK'
  BY <1>1 DEF ClientInv, ClientTypeOK, Exits, histVars
<1>3. CrashesGroupless'
  BY <1>1 DEF CrashesGroupless, Exits
<1> QED
  BY <1>1, <1>2, <1>3, Ending DEF vars

LEMMA ServerClosedClient == ClientInv /\ ServerClosed => ClientInv'
<1> SUFFICES ASSUME ClientInv, ServerClosed PROVE ClientInv'
  OBVIOUS
<1>1. /\ pc = "select" /\ Exits("ended")
      /\ UNCHANGED <<vars, me, todo, buddys, friend, online, histVars>>
  BY DEF ServerClosed
<1>2. ClientTypeOK'
  BY <1>1 DEF ClientInv, ClientTypeOK, Exits, histVars
<1>3. CrashesGroupless'
  BY <1>1 DEF CrashesGroupless, Exits
<1> QED
  BY <1>1, <1>2, <1>3, Ending DEF vars

-----------------------------------------------------------------------------
(* Before the client runs                                                  *)

LEMMA OthersClient == ClientInv /\ OthersNext => ClientInv'
<1> SUFFICES ASSUME ClientInv, OthersNext PROVE ClientInv'
  OBVIOUS
<1>1. pc = "off" /\ UNCHANGED <<pc, me, todo, buddys, friend, wireVars, histVars>>
  BY DEF OthersNext, clientVars
<1>2. toSrv = <<>> /\ toCli = <<>> /\ Running /\ ClientTypeOK /\ WireTypeOK
  BY <1>1 DEF ClientInv, Running
<1>3. ClientTypeOK' /\ WireTypeOK' /\ Running'
  BY <1>1, <1>2 DEF ClientTypeOK, WireTypeOK, Running, wireVars, histVars
<1>4. Requests' /\ Truthful'
  BY <1>1, <1>2 DEF Requests, Truthful, wireVars
<1>5. Progress' /\ Wired' /\ Filled' /\ CrashesGroupless'
  BY <1>1 DEF Progress, Prompt, Wired, Filled, CrashesGroupless
<1> QED
  BY <1>3, <1>4, <1>5 DEF ClientInv

LEMMA StartClient ==
  ASSUME ClientInv, NEW uid \in Uids \cup {NoId}, NEW ok \in BOOLEAN, Start(uid, ok)
  PROVE  ClientInv'
<1>1. /\ pc = "off" /\ phase = "serving" /\ me' = uid
      /\ UNCHANGED <<vars, buddys, friend, toSrv, toCli, online, histVars>>
      /\ \/ pc' = "ask" /\ link' = "up" /\ todo' = <<<<"req", uid>>>>
         \/ pc' = "ended" /\ link' = link /\ todo' = todo
  BY DEF Start
<1>2. toSrv = <<>> /\ toCli = <<>> /\ link = "none" /\ Running /\ ClientTypeOK /\ WireTypeOK
  BY <1>1 DEF ClientInv, Running
<1>3. ClientTypeOK'
  <2>1. <<<<"req", uid>>>> \in Seq({"req", "login", "self", "users", "info"} \X (Uids \cup {NoId}))
    OBVIOUS
  <2> QED
    BY <1>1, <1>2, <2>1 DEF ClientTypeOK, histVars
<1>4. WireTypeOK' /\ Running'
  BY <1>1, <1>2 DEF WireTypeOK, Running, vars, histVars
<1>5. Requests' /\ Truthful'
  BY <1>1, <1>2 DEF Requests, Truthful
<1>6. CrashesGroupless' /\ (Prompt' = FALSE)
  BY <1>1 DEF CrashesGroupless, Prompt
<1>7. Progress' /\ Wired' /\ Filled'
  <2>1. CASE pc' = "ask" /\ todo' = <<<<"req", uid>>>>
    <3>1. Cmd' = "req"
      BY <2>1 DEF Cmd
    <3> QED
      BY <1>1, <1>2, <1>6, <2>1, <3>1 DEF Progress, Wired, Filled
  <2>2. CASE pc' = "ended"
    BY <1>6, <2>2 DEF Progress, Wired, Filled
  <2> QED
    BY <1>1, <2>1, <2>2
<1> QED
  BY <1>3, <1>4, <1>5, <1>6, <1>7 DEF ClientInv

-----------------------------------------------------------------------------
(* The prompt                                                              *)

\* At the prompt the list does not change.
LEMMA AtPrompt ==
  ASSUME ClientInv, UNCHANGED <<vars, me, todo, buddys>>, Prompt, Prompt', early' = early, exits' = exits
  PROVE  Progress' /\ Wired' /\ Filled' /\ CrashesGroupless'
<1>1. pc' \in {"select", "choose", "chat"}
  BY DEF Prompt
<1>2. Others(FindUser(me))' = Others(FindUser(me)) /\ Known' = Known
  BY SameLists DEF vars
<1>3. BuddyList /\ todo = <<>> /\ Filled
  BY DEF ClientInv, Progress
<1>4. BuddyList'
  BY <1>2, <1>3 DEF BuddyList, vars
<1>5. Progress'
  BY <1>1, <1>3, <1>4 DEF Progress
<1>6. Wired' /\ CrashesGroupless'
  BY <1>1 DEF Wired, CrashesGroupless
<1>7. Filled'
  BY <1>3 DEF Filled, Calm
<1> QED
  BY <1>5, <1>6, <1>7

LEMMA PromptClient ==
  ASSUME ClientInv,
         \/ TypeChat \/ TypeQuit
         \/ \E uid \in Uids : Choose(uid)
  PROVE  ClientInv'
<1>1. /\ UNCHANGED <<vars, me, todo, buddys, wireVars, histVars>>
      /\ Prompt /\ Prompt' /\ friend' \in Uids \cup {friend} /\ pc # "off"
  BY DEF TypeChat, TypeQuit, Choose, Prompt
<1>2. Progress' /\ Wired' /\ Filled' /\ CrashesGroupless'
  BY <1>1, AtPrompt DEF histVars
<1>3. ClientTypeOK'
  BY <1>1 DEF ClientInv, ClientTypeOK, Prompt, wireVars, histVars
<1>4. WireTypeOK' /\ Running'
  BY <1>1 DEF ClientInv, WireTypeOK, Running, Prompt, vars, wireVars, histVars
<1>5. Requests' /\ Truthful'
  <2>1. sent \in Nat
    BY DEF ClientInv, ClientTypeOK
  <2> QED
    BY <1>1, <1>4, <2>1, LessWire DEF vars, wireVars, histVars
<1> QED
  BY <1>2, <1>3, <1>4, <1>5 DEF ClientInv

\* A request on its way to the server.
LEMMA Requested ==
  ASSUME ClientInv, UNCHANGED <<ufile, gfile, users, me, toCli>>, sent' \in Nat, sent' >= sent,
         NEW packet \in Questions, toSrv' = Append(toSrv, packet),
         packet[1] \in {"users", "user_info", "group"} => Known,
         packet[1] = "group" => sent' > 0
  PROVE  WireTypeOK' /\ Requests' /\ Truthful'
<1>1. toSrv \in Seq(Questions) /\ toCli \in Seq(Answers) /\ sent \in Nat
  BY DEF ClientInv, WireTypeOK, ClientTypeOK
<1>2. /\ toSrv' \in Seq(Questions) /\ DOMAIN toSrv' = 1 .. Len(toSrv) + 1 /\ Len(toSrv) \in Nat
      /\ \A i \in 1 .. Len(toSrv) : toSrv'[i] = toSrv[i]
      /\ toSrv'[Len(toSrv) + 1] = packet
      /\ DOMAIN toSrv = 1 .. Len(toSrv)
  <2> HIDE DEF Questions
  <2> QED
    BY <1>1
<1>3. WireTypeOK'
  BY <1>1, <1>2 DEF WireTypeOK
<1>4. Known' = Known
  BY SameLists
<1>5. Requests'
  <2> SUFFICES ASSUME NEW i \in DOMAIN toSrv'
               PROVE  /\ toSrv'[i][1] \in {"users", "user_info", "group"} => Known'
                      /\ toSrv'[i][1] = "group" => sent' > 0
    BY DEF Requests
  <2>1. CASE i = Len(toSrv) + 1
    BY <1>2, <1>4, <2>1
  <2>2. CASE i \in 1 .. Len(toSrv)
    <3>1. /\ toSrv[i][1] \in {"users", "user_info", "group"} => Known
          /\ toSrv[i][1] = "group" => sent > 0
      BY <1>2, <2>2 DEF ClientInv, Requests
    <3>2. sent > 0 => sent' > 0
      BY <1>1
    <3>3. toSrv'[i] = toSrv[i]
      BY <1>2, <2>2
    <3> QED
      BY <1>4, <3>1, <3>2, <3>3
  <2> QED
    BY <1>2, <2>1, <2>2
<1>6. Truthful'
  <2>1. /\ Others(FindUser(me))' = Others(FindUser(me))
        /\ (users[FindUser(me)].groups)' = users[FindUser(me)].groups
    BY SameLists
  <2>2. sent > 0 => sent' > 0
    BY <1>1
  <2> SUFFICES ASSUME NEW i \in DOMAIN toCli
               PROVE  /\ toCli[i][1] = "login" /\ toCli[i][2] = "ok" => Known'
                      /\ toCli[i][1] = "users" => Known' /\ toCli[i][2] = Others(FindUser(me))'
                      /\ toCli[i][1] = "group" =>
                           Known' /\ sent' > 0 /\ toCli[i][2] = (users[FindUser(me)].groups)'
    BY DEF Truthful
  <2>3. /\ toCli[i][1] = "login" /\ toCli[i][2] = "ok" => Known
        /\ toCli[i][1] = "users" => Known /\ toCli[i][2] = Others(FindUser(me))
        /\ toCli[i][1] = "group" => Known /\ sent > 0 /\ toCli[i][2] = users[FindUser(me)].groups
    BY DEF ClientInv, Truthful
  <2> QED
    BY <1>4, <2>1, <2>2, <2>3
<1> QED
  BY <1>3, <1>5, <1>6

LEMMA TypeLineClient == ClientInv /\ TypeLine => ClientInv'
<1> SUFFICES ASSUME ClientInv, TypeLine PROVE ClientInv'
  OBVIOUS
<1> DEFINE packet == <<"group", friend>>
<1>1. /\ pc = "chat" /\ sent < MaxSend /\ sent' = sent + 1 /\ Send(packet, "chat")
      /\ UNCHANGED <<vars, me, todo, buddys, friend, online, pushed, early, exits>>
  BY DEF TypeLine
<1>2. ClientTypeOK /\ WireTypeOK /\ Running /\ Progress /\ sent \in Nat /\ MaxSend \in Nat
      /\ Known /\ friend \in Uids \cup {NoId} /\ sent' \in 0 .. MaxSend
  <2>1. ClientTypeOK /\ WireTypeOK /\ Running /\ Progress
    BY DEF ClientInv
  <2>2. sent \in 0 .. MaxSend /\ MaxSend \in Nat /\ friend \in Uids \cup {NoId}
    BY <2>1, ClientAssumption DEF ClientTypeOK
  <2>3. Known
    BY <1>1, <2>1 DEF Progress, Prompt, BuddyList
  <2>4. sent' \in 0 .. MaxSend
    BY <1>1, <2>2
  <2> QED
    BY <2>1, <2>2, <2>3, <2>4
<1>3. packet \in Questions /\ packet[1] = "group"
  BY <1>2 DEF Questions
<1> HIDE DEF packet
<1>4. CASE Exits("ended") /\ link = "closed"
  <2>1. ClientTypeOK'
    BY <1>1, <1>2, <1>4 DEF ClientTypeOK, Exits
  <2>2. CrashesGroupless'
    BY <1>4 DEF CrashesGroupless, Exits
  <2> QED
    BY <1>1, <1>4, <2>1, <2>2, Ending DEF vars
<1>5. CASE pc' = "chat" /\ link' = link /\ link # "none" /\ toCli' = toCli
  <2>1. ClientTypeOK'
    BY <1>1, <1>2, <1>5 DEF ClientTypeOK
  <2>2. Progress' /\ Wired' /\ Filled' /\ CrashesGroupless'
    BY <1>1, <1>5, AtPrompt DEF Prompt
  <2>3. Running'
    BY <1>1, <1>2, <1>5 DEF Running, vars
  <2>4. CASE toSrv' = Append(toSrv, packet)
    <3>1. sent' > 0 /\ sent' \in Nat /\ sent' >= sent
      BY <1>1, <1>2
    <3>2. WireTypeOK' /\ Requests' /\ Truthful'
      BY <1>1, <1>2, <1>3, <1>5, <2>4, <3>1, Requested DEF vars
    <3> QED
      BY <2>1, <2>2, <2>3, <3>2 DEF ClientInv
  <2>5. CASE toSrv' = toSrv
    <3>1. WireTypeOK' /\ sent' \in Nat /\ sent' >= sent
      BY <1>1, <1>2, <1>5, <2>5 DEF WireTypeOK
    <3>2. Requests' /\ Truthful'
      BY <1>1, <1>2, <1>5, <2>5, <3>1, LessWire DEF vars
    <3> QED
      BY <2>1, <2>2, <2>3, <3>1, <3>2 DEF ClientInv
  <2>6. toSrv' = Append(toSrv, packet) \/ toSrv' = toSrv
    BY <1>1, <1>5 DEF Send, Exits
  <2> QED
    BY <2>4, <2>5, <2>6
<1> QED
  BY <1>1, <1>4, <1>5 DEF Send

LEMMA SendRequestClient == DirectoryInv /\ ClientInv /\ SendRequest => ClientInv'
<1> SUFFICES ASSUME DirectoryInv, ClientInv, SendRequest PROVE ClientInv'
  OBVIOUS
<1> DEFINE packet == <<Wire(Cmd), Head(todo)[2]>>
<1>1. /\ pc = "ask" /\ Send(packet, "answer")
      /\ UNCHANGED <<vars, me, todo, buddys, friend, online, histVars>>
  BY DEF SendRequest
<1>2. /\ ClientTypeOK /\ WireTypeOK /\ Running /\ Progress /\ Wired /\ Filled /\ sent \in Nat
      /\ UNCHANGED <<sent, pushed, early, exits>> /\ Known' = Known
      /\ Others(FindUser(me))' = Others(FindUser(me))
  BY <1>1, SameLists DEF ClientInv, ClientTypeOK, histVars, vars
<1>3. todo # <<>> /\ (Cmd \in {"self", "users", "info"} => Known)
  <2>1. CASE BuddyList /\ Remain /\ todo # <<>>
    BY <2>1 DEF BuddyList
  <2> QED
    BY <1>1, <1>2, <2>1 DEF Progress, Cmd
<1>4. /\ packet \in Questions
      /\ packet[1] # "group"
      /\ packet[1] \in {"users", "user_info"} => Known
  <2> DEFINE R == {"req", "login", "self", "users", "info"} \X (Uids \cup {NoId})
  <2>1. Head(todo) \in R
    <3>1. todo \in Seq(R)
      BY <1>2 DEF ClientTypeOK
    <3> HIDE DEF R
    <3> QED
      BY <1>3, <3>1
  <2>2. Cmd \in {"req", "login", "self", "users", "info"} /\ Head(todo)[2] \in Uids \cup {NoId}
    BY <2>1 DEF Cmd
  <2>3. Cmd = "self" => Head(todo)[2] \in Uids
    <3>1. Cmd = "self" => Head(todo)[2] = me
      <4>1. CASE BuddyList /\ Remain /\ todo # <<>>
        <5>1. Head(todo) = todo[1] /\ 1 \in DOMAIN todo
          BY <1>2, <4>1 DEF ClientTypeOK
        <5> QED
          BY <4>1, <5>1 DEF Remain, Cmd
      <4> QED
        BY <1>1, <1>2, <4>1 DEF Progress, Cmd
    <3>2. phase = "serving"
      BY <1>1, <1>2 DEF Running
    <3> QED
      BY <1>3, <3>1, <3>2, KnownUser
  <2>4. Cmd = "info" => Head(todo)[2] \in Uids
    <3> SUFFICES ASSUME Cmd = "info" PROVE Head(todo)[2] \in Uids
      OBVIOUS
    <3>1. BuddyList /\ Remain
      BY <1>1, <1>2 DEF Progress, Cmd
    <3>2. Head(todo) = todo[1] /\ 1 \in DOMAIN todo /\ Len(todo) \in Nat /\ Len(todo) > 0
      BY <1>2, <1>3 DEF ClientTypeOK
    <3> DEFINE i == Len(buddys) - Len(todo) + 1
               B == Uids \X (Uids \cup {NoId})
    <3>3. Head(todo) = <<"info", buddys[i][1]>> /\ Len(todo) <= Len(buddys)
      BY <3>1, <3>2 DEF Remain
    <3>4. buddys \in Seq(B)
      BY <1>2 DEF ClientTypeOK
    <3>5. buddys[i] \in B
      <4> HIDE DEF B
      <4> QED
        BY <3>2, <3>3, <3>4
    <3> QED
      BY <3>3, <3>5
  <2> QED
    BY <1>3, <2>2, <2>3, <2>4 DEF Wire, Questions
<1> HIDE DEF packet
<1>5. CASE Exits("ended") /\ link = "closed"
  <2>1. ClientTypeOK'
    BY <1>1, <1>2, <1>5 DEF ClientTypeOK, Exits
  <2>2. CrashesGroupless'
    BY <1>5 DEF CrashesGroupless, Exits
  <2> QED
    BY <1>1, <1>5, <2>1, <2>2, Ending DEF vars
<1>6. CASE pc' = "answer" /\ link' = link /\ link # "none" /\ toCli' = toCli
  <2>1. ClientTypeOK'
    BY <1>1, <1>2, <1>6 DEF ClientTypeOK
  <2>2. Running'
    BY <1>1, <1>2, <1>6 DEF Running, vars
  <2>3. Progress' /\ Filled' /\ CrashesGroupless'
    <3>1. BuddyList' = BuddyList /\ Remain' = Remain /\ Cmd' = Cmd
      BY <1>1, <1>2 DEF BuddyList, Remain, Cmd, vars
    <3>2. Progress'
      BY <1>1, <1>2, <1>6, <3>1 DEF Progress, Prompt
    <3>3. Filled'
      BY <1>1, <1>2, <1>6, <3>1 DEF Filled, Prompt, Calm
    <3> QED
      BY <1>6, <3>2, <3>3 DEF CrashesGroupless
  <2>4. CASE toSrv' = Append(toSrv, packet)
    <3>1. WireTypeOK' /\ Requests' /\ Truthful'
      BY <1>1, <1>2, <1>4, <1>6, <2>4, Requested DEF vars
    <3>2. Wired'
      <4>1. Cmd' = Cmd /\ packet = <<Wire(Cmd), Head(todo)[2]>> /\ todo' = todo
        BY <1>1 DEF Cmd, packet
      <4>2. Wire(Cmd)' = Wire(Cmd)
        BY <4>1 DEF Wire
      <4>3. Calm => toSrv = <<>> /\ toCli = <<>>
        BY <1>1, <1>2 DEF Wired
      <4>4. Calm => toSrv' = <<packet>>
        BY <2>4, <4>3
      <4>5. Calm' = Calm
        BY <1>2 DEF Calm
      <4> QED
        BY <1>6, <4>1, <4>2, <4>3, <4>4, <4>5 DEF Wired
    <3> QED
      BY <2>1, <2>2, <2>3, <3>1, <3>2 DEF ClientInv
  <2>5. CASE toSrv' = toSrv /\ link = "closed"
    <3>1. WireTypeOK' /\ sent' \in Nat /\ sent' >= sent
      BY <1>1, <1>2, <1>6, <2>5 DEF WireTypeOK
    <3>2. Requests' /\ Truthful'
      BY <1>1, <1>2, <1>6, <2>5, <3>1, LessWire DEF vars
    <3>3. Wired'
      BY <1>2, <2>5 DEF Running, Wired, Calm
    <3> QED
      BY <2>1, <2>2, <2>3, <3>1, <3>2, <3>3 DEF ClientInv
  <2>6. toSrv' = Append(toSrv, packet) \/ (toSrv' = toSrv /\ link = "closed")
    BY <1>1, <1>6 DEF Send, Exits
  <2> QED
    BY <2>4, <2>5, <2>6
<1> QED
  BY <1>1, <1>5, <1>6 DEF Send

\* recv() takes the first packets away.
LEMMA Received ==
  ASSUME ClientInv, NEW n \in 1 .. Len(toCli), Receives(n)
  PROVE  /\ toCli' \in Seq(Answers)
         /\ \A i \in DOMAIN toCli' : \E j \in DOMAIN toCli : toCli'[i] = toCli[j]
         /\ Len(toCli) = 1 => toCli' = <<>>
<1>1. toCli \in Seq(Answers) /\ toCli' = SubSeq(toCli, n + 1, Len(toCli))
  BY DEF ClientInv, WireTypeOK, Receives
<1> HIDE DEF Answers
<1>2. /\ toCli' \in Seq(Answers) /\ Len(toCli') = Len(toCli) - n
      /\ \A i \in 1 .. Len(toCli) - n : toCli'[i] = toCli[i + n]
      /\ DOMAIN toCli' = 1 .. Len(toCli) - n /\ DOMAIN toCli = 1 .. Len(toCli)
  BY <1>1
<1>3. \A i \in 1 .. Len(toCli) - n : i + n \in DOMAIN toCli
  BY <1>1
<1>4. ASSUME NEW i \in DOMAIN toCli' PROVE \E j \in DOMAIN toCli : toCli'[i] = toCli[j]
  BY <1>2, <1>3
<1>5. Len(toCli) = 1 => Len(toCli') = 0
  BY <1>1, <1>2
<1> QED
  BY <1>2, <1>4, <1>5

LEMMA HandleMsgClient == DirectoryInv /\ ClientInv /\ HandleMsg => ClientInv'
<1> SUFFICES ASSUME DirectoryInv, ClientInv, HandleMsg PROVE ClientInv'
  OBVIOUS
<1>1. /\ pc = "select" /\ toCli # <<>>
      /\ UNCHANGED <<vars, me, todo, buddys, friend, online, histVars>>
      /\ \/ /\ Head(toCli)[1] = "group" /\ DataSize(Head(toCli)[2]) > 4096 /\ Exits("crashed")
         \/ /\ \E n \in 1 .. Len(toCli) : Receives(n)
            /\ UNCHANGED <<pc, link, toSrv>>
  BY DEF HandleMsg
<1>2. /\ ClientTypeOK /\ WireTypeOK /\ Running /\ sent \in Nat
      /\ UNCHANGED <<ufile, gfile, users, groups, phase, me, sent, pushed, early, exits>>
  BY <1>1 DEF ClientInv, ClientTypeOK, histVars, vars
<1>3. CASE Head(toCli)[1] = "group" /\ DataSize(Head(toCli)[2]) > 4096 /\ Exits("crashed")
  <2> DEFINE c == FindUser(me)
             gids == users[c].groups
  <2>1. ClientTypeOK'
    BY <1>1, <1>2, <1>3 DEF ClientTypeOK, Exits
  <2>2. Head(toCli) = toCli[1] /\ 1 \in DOMAIN toCli
    <3> HIDE DEF Answers
    <3> QED
      BY <1>1, <1>2 DEF WireTypeOK
  <2>3. Known /\ sent > 0 /\ toCli[1][2] = gids
    BY <1>3, <2>2 DEF ClientInv, Truthful
  <2>4. c \in DOMAIN users /\ ufile[c] = me
    BY <1>1, <1>2, <2>3, KnownUser DEF Running
  <2>5. Len(gids) \in Nat /\ gids \in Seq(Gids) /\ phase = "serving"
    BY <1>1, <1>2, <2>4, Loaded DEF Running
  <2>6. Len(gids) <= 1024 /\ Range(gids) = Listing(me)
    <3>1. Len(gids) <= Len(gfile) /\ Range(gids) = Listing(me)
      BY <2>4 DEF DirectoryInv, UsersRead
    <3>2. Len(gfile) \in Nat /\ Len(gfile) <= 1024
      BY Files DEF DirectoryInv
    <3> HIDE DEF gids
    <3> QED
      BY <2>5, <3>1, <3>2
  <2>7. DataSize(gids) > 4096
    BY <1>3, <2>2, <2>3
  <2> HIDE DEF gids
  <2>8. Len(gids) = 0
    <3> SUFFICES ASSUME Len(gids) > 0 PROVE FALSE
      BY <2>5
    <3> DEFINE k == 4 * Len(gids) - 2
    <3>1. k \in Nat /\ k <= 4094 /\ 2 + 4 * Len(gids) - 4 + 65536 = k + 65536
      BY <2>5, <2>6
    <3> HIDE DEF k
    <3>2. (k + 65536) % 65536 = k
      BY <3>1
    <3> QED
      BY <2>7, <3>1, <3>2 DEF DataSize
  <2>9. Listing(me) = {}
    BY <2>5, <2>6, <2>8 DEF Range
  <2>10. \A p \in DOMAIN gfile : ~Lists(p, me)
    BY <2>9 DEF Listing
  <2>11. CrashesGroupless'
    BY <1>2, <2>3, <2>10 DEF CrashesGroupless, Lists
  <2> QED
    BY <1>1, <1>2, <1>3, <2>1, <2>11, Ending
<1>4. ASSUME NEW n \in 1 .. Len(toCli), Receives(n), UNCHANGED <<pc, link, toSrv>>
      PROVE  ClientInv'
  <2>1. toCli' \in Seq(Answers) /\ \A i \in DOMAIN toCli' : \E j \in DOMAIN toCli : toCli'[i] = toCli[j]
    BY <1>4, Received
  <2>2. ClientTypeOK'
    BY <1>1, <1>2, <1>4 DEF ClientTypeOK
  <2>3. WireTypeOK'
    BY <1>2, <1>4, <2>1 DEF WireTypeOK
  <2>4. Running'
    BY <1>1, <1>2, <1>4 DEF Running
  <2>5. Requests' /\ Truthful'
    BY <1>2, <1>4, <2>1, <2>3, LessWire
  <2>6. Progress' /\ Wired' /\ Filled' /\ CrashesGroupless'
    BY <1>1, <1>2, <1>4, AtPrompt DEF Prompt
  <2> QED
    BY <2>2, <2>3, <2>4, <2>5, <2>6 DEF ClientInv
<1> QED
  BY <1>1, <1>3, <1>4

-----------------------------------------------------------------------------
(* The server's side                                                       *)

\* What the client knows does not change when it takes no step.
LEMMA ServerSide ==
  ASSUME ClientInv, UNCHANGED <<ufile, gfile, users, me, pc, todo, buddys, sent>>,
         Calm' => Calm
  PROVE  Progress' /\ Filled' /\ CrashesGroupless'
<1>1. /\ Known' = Known /\ Others(FindUser(me))' = Others(FindUser(me))
      /\ \A p : Lists(p, me)' = Lists(p, me)
  BY SameLists
<1>2. BuddyList' = BuddyList /\ Remain' = Remain /\ Cmd' = Cmd /\ Prompt' = Prompt
  BY <1>1 DEF BuddyList, Remain, Cmd, Prompt
<1>3. Progress /\ Filled /\ CrashesGroupless
  BY DEF ClientInv
<1>4. Progress'
  BY <1>1, <1>2, <1>3 DEF Progress
<1>5. Filled'
  BY <1>2, <1>3 DEF Filled
<1>6. CrashesGroupless'
  BY <1>1, <1>3 DEF CrashesGroupless
<1> QED
  BY <1>4, <1>5, <1>6

LEMMA ServerExitClient == ClientInv /\ ServerExit => ClientInv'
<1> SUFFICES ASSUME ClientInv, ServerExit PROVE ClientInv'
  OBVIOUS
<1>1. /\ link = "up" /\ exits < MaxExit /\ exits' = exits + 1 /\ link' = "closed" /\ toSrv' = <<>>
      /\ online' = FALSE
      /\ UNCHANGED <<vars, pc, me, todo, buddys, friend, toCli, pushed, early, sent>>
  BY DEF ServerExit
<1>2. ClientTypeOK /\ WireTypeOK /\ Running /\ sent \in Nat
      /\ UNCHANGED <<ufile, gfile, users, groups, phase>>
  BY <1>1 DEF ClientInv, ClientTypeOK, vars
<1>3. exits' \in 0 .. MaxExit /\ exits' > 0
  BY <1>1, <1>2, ClientAssumption DEF ClientTypeOK
<1>4. ClientTypeOK'
  BY <1>1, <1>2, <1>3 DEF ClientTypeOK
<1>5. WireTypeOK'
  BY <1>1, <1>2 DEF WireTypeOK
<1>6. Running'
  BY <1>1, <1>2, <1>3 DEF Running
<1>7. ~Calm'
  BY <1>3 DEF Calm
<1>8. Wired'
  BY <1>7 DEF Wired
<1>9. Requests' /\ Truthful'
  BY <1>1, <1>2, <1>5, LessWire
<1>10. Progress' /\ Filled' /\ CrashesGroupless'
  BY <1>1, <1>2, <1>7, ServerSide
<1> QED
  BY <1>4, <1>5, <1>6, <1>8, <1>9, <1>10 DEF ClientInv

\* A packet on its way to the client.
LEMMA Replied ==
  ASSUME ClientInv, UNCHANGED <<ufile, gfile, users, me, sent>>, NEW packet \in Answers, Reply(packet),
         toSrv' \in Seq(Questions),
         \A i \in DOMAIN toSrv' : \E j \in DOMAIN toSrv : toSrv'[i] = toSrv[j],
         packet[1] = "login" /\ packet[2] = "ok" => Known,
         packet[1] = "users" => Known /\ packet[2] = Others(FindUser(me)),
         packet[1] = "group" => Known /\ sent > 0 /\ packet[2] = users[FindUser(me)].groups
  PROVE  /\ WireTypeOK' /\ Requests' /\ Truthful'
         /\ toCli = <<>> => Len(toCli') = 1 /\ toCli'[1] = packet
<1>1. toCli \in Seq(Answers) /\ toCli' = Append(toCli, packet)
  BY DEF ClientInv, WireTypeOK, Reply
<1>2. /\ toCli' \in Seq(Answers) /\ DOMAIN toCli' = 1 .. Len(toCli) + 1 /\ Len(toCli) \in Nat
      /\ Len(toCli') = Len(toCli) + 1
      /\ \A i \in 1 .. Len(toCli) : toCli'[i] = toCli[i]
      /\ toCli'[Len(toCli) + 1] = packet
      /\ DOMAIN toCli = 1 .. Len(toCli)
  <2> HIDE DEF Answers
  <2> QED
    BY <1>1
<1>3. WireTypeOK'
  BY <1>2 DEF WireTypeOK
<1>4. /\ Known' = Known
      /\ Others(FindUser(me))' = Others(FindUser(me))
      /\ (users[FindUser(me)].groups)' = users[FindUser(me)].groups
  BY SameLists
<1>5. Requests'
  <2> SUFFICES ASSUME NEW i \in DOMAIN toSrv'
               PROVE  /\ toSrv'[i][1] \in {"users", "user_info", "group"} => Known'
                      /\ toSrv'[i][1] = "group" => sent' > 0
    BY DEF Requests
  <2>1. PICK j \in DOMAIN toSrv : toSrv'[i] = toSrv[j]
    OBVIOUS
  <2>2. /\ toSrv[j][1] \in {"users", "user_info", "group"} => Known
        /\ toSrv[j][1] = "group" => sent > 0
    BY DEF ClientInv, Requests
  <2> QED
    BY <1>4, <2>1, <2>2
<1>6. Truthful'
  <2> SUFFICES ASSUME NEW i \in DOMAIN toCli'
               PROVE  /\ toCli'[i][1] = "login" /\ toCli'[i][2] = "ok" => Known'
                      /\ toCli'[i][1] = "users" => Known' /\ toCli'[i][2] = Others(FindUser(me))'
                      /\ toCli'[i][1] = "group" =>
                           Known' /\ sent' > 0 /\ toCli'[i][2] = (users[FindUser(me)].groups)'
    BY DEF Truthful
  <2>1. CASE i = Len(toCli) + 1
    BY <1>2, <1>4, <2>1
  <2>2. CASE i \in 1 .. Len(toCli)
    <3>1. /\ toCli[i][1] = "login" /\ toCli[i][2] = "ok" => Known
          /\ toCli[i][1] = "users" => Known /\ toCli[i][2] = Others(FindUser(me))
          /\ toCli[i][1] = "group" => Known /\ sent > 0 /\ toCli[i][2] = users[FindUser(me)].groups
      BY <1>2, <2>2 DEF ClientInv, Truthful
    <3>2. toCli'[i] = toCli[i]
      BY <1>2, <2>2
    <3> QED
      BY <1>4, <3>1, <3>2
  <2> QED
    BY <1>2, <2>1, <2>2
<1>7. toCli = <<>> => Len(toCli') = 1 /\ toCli'[1] = packet
  <2>1. toCli = <<>> => Len(toCli) = 0
    OBVIOUS
  <2> QED
    BY <1>2, <2>1
<1> QED
  BY <1>3, <1>5, <1>6, <1>7

LEMMA PushClient == ClientInv /\ Push => ClientInv'
<1> SUFFICES ASSUME ClientInv, Push PROVE ClientInv'
  OBVIOUS
<1>1. /\ link = "up" /\ online /\ pushed < MaxPush /\ pushed' = pushed + 1
      /\ early' = (early \/ pc \in {"ask", "answer"})
      /\ Reply(<<"msg", NoId>>)
      /\ UNCHANGED <<vars, pc, me, todo, buddys, friend, link, toSrv, online, sent, exits>>
  BY DEF Push
<1>2. ClientTypeOK /\ WireTypeOK /\ Running /\ UNCHANGED <<ufile, gfile, users, groups, phase>>
  BY <1>1 DEF ClientInv, vars
<1>3. pushed' \in 0 .. MaxPush /\ early' \in BOOLEAN
  BY <1>1, <1>2, ClientAssumption DEF ClientTypeOK
<1>4. ClientTypeOK'
  BY <1>1, <1>2, <1>3 DEF ClientTypeOK
<1>5. WireTypeOK' /\ Requests' /\ Truthful'
  <2>1. <<"msg", NoId>> \in Answers
    BY DEF Answers
  <2>2. toSrv' \in Seq(Questions) /\ \A i \in DOMAIN toSrv' : \E j \in DOMAIN toSrv : toSrv'[i] = toSrv[j]
    BY <1>1, <1>2 DEF WireTypeOK
  <2> QED
    BY <1>1, <1>2, <2>1, <2>2, Replied
<1>6. Running'
  BY <1>1, <1>2 DEF Running
<1>7. Calm' => Calm /\ pc \notin {"ask", "answer"}
  BY <1>1 DEF Calm
<1>8. Wired'
  BY <1>1, <1>7 DEF Wired
<1>9. Progress' /\ Filled' /\ CrashesGroupless'
  BY <1>1, <1>2, <1>7, ServerSide
<1> QED
  BY <1>4, <1>5, <1>6, <1>8, <1>9 DEF ClientInv

\* A request is answered from the directory, in a step of its own.
LEMMA ServeDirectory ==
  ASSUME DirectoryInv, ClientInv, Serve
  PROVE  [Next]_vars
<1> DEFINE c == FindUser(me)
           uid == toSrv[1][2]
<1>1. /\ link = "up" /\ toSrv # <<>>
      /\ \/ UNCHANGED vars
         \/ toSrv[1][1] = "users" /\ GetUser(c)
         \/ toSrv[1][1] = "user_info" /\ GetUserInfo(c, uid)
         \/ toSrv[1][1] = "group" /\ GetGroup(c)
  BY DEF Serve
<1>2. 1 \in DOMAIN toSrv /\ toSrv[1] \in Questions
  <2> HIDE DEF Questions
  <2> QED
    BY <1>1 DEF ClientInv, WireTypeOK
<1>3. phase = "serving"
  BY <1>1 DEF ClientInv, Running
<1>4. toSrv[1][1] \in {"users", "user_info", "group"} => c \in DOMAIN users
  <2>1. toSrv[1][1] \in {"users", "user_info", "group"} => Known
    BY <1>2 DEF ClientInv, Requests
  <2> QED
    BY <1>3, <2>1, KnownUser
<1>5. toSrv[1][1] = "user_info" => uid \in Uids
  BY <1>2 DEF Questions
<1> HIDE DEF c, uid
<1> QED
  BY <1>1, <1>3, <1>4, <1>5 DEF Next, Ask

LEMMA ServeClient == DirectoryInv /\ ClientInv /\ Serve => ClientInv'
<1> SUFFICES ASSUME DirectoryInv, ClientInv, Serve PROVE ClientInv'
  OBVIOUS
<1> DEFINE c == FindUser(me)
           cmd == toSrv[1][1]
           uid == toSrv[1][2]
<1>1. /\ link = "up" /\ toSrv # <<>> /\ toSrv' = Tail(toSrv)
      /\ UNCHANGED <<pc, me, todo, buddys, friend, link, histVars>>
      /\ \/ cmd = "req" /\ Reply(<<"req", NoId>>) /\ UNCHANGED <<vars, online>>
         \/ /\ cmd = "login" /\ UNCHANGED vars
            /\ \E code \in LoginCodes : Reply(<<"login", code>>) /\ online' = (code = "ok")
         \/ cmd = "users" /\ GetUser(c) /\ Reply(<<"users", reply'.ids>>) /\ UNCHANGED online
         \/ /\ cmd = "user_info" /\ GetUserInfo(c, uid)
            /\ Reply(<<"user_info", reply'.id>>) /\ UNCHANGED online
         \/ cmd = "group" /\ GetGroup(c) /\ Reply(<<"group", reply'.ids>>) /\ UNCHANGED online
  BY DEF Serve
<1>2. ClientTypeOK /\ WireTypeOK /\ Running /\ Wired /\ Progress /\ phase = "serving"
      /\ UNCHANGED <<sent, pushed, early, exits>>
  BY <1>1 DEF ClientInv, Running, histVars
<1>3. UNCHANGED <<ufile, gfile, users, groups, phase>>
  BY <1>1 DEF vars, GetUser, GetUserInfo, GetGroup, Answer
<1>4. /\ 1 \in DOMAIN toSrv /\ toSrv[1] \in Questions /\ toSrv' \in Seq(Questions)
      /\ Len(toSrv') = Len(toSrv) - 1 /\ Len(toSrv) \in Nat
      /\ DOMAIN toSrv' = 1 .. Len(toSrv) - 1 /\ DOMAIN toSrv = 1 .. Len(toSrv)
      /\ \A i \in 1 .. Len(toSrv) - 1 : toSrv'[i] = toSrv[i + 1]
  <2> HIDE DEF Questions
  <2> QED
    BY <1>1, <1>2 DEF WireTypeOK
<1>5. \A i \in DOMAIN toSrv' : \E j \in DOMAIN toSrv : toSrv'[i] = toSrv[j]
  <2>1. \A i \in 1 .. Len(toSrv) - 1 : i + 1 \in DOMAIN toSrv
    BY <1>4
  <2> QED
    BY <1>4, <2>1
<1>6. /\ cmd \in {"users", "user_info", "group"} => Known
      /\ cmd = "group" => sent > 0
  BY <1>4 DEF ClientInv, Requests
<1>7. Known => c \in DOMAIN users /\ Others(c) \in Seq(Uids) /\ users[c].groups \in Seq(Gids)
  BY <1>2, KnownUser, OthersType, Loaded
<1> DEFINE Right(packet) ==
             /\ Reply(packet) /\ packet[1] = cmd
             /\ cmd = "login" /\ packet[2] = "ok" => Known
             /\ cmd = "users" => packet[2] = Others(c)
             /\ cmd = "group" => packet[2] = users[c].groups
             /\ cmd = "user_info" => packet[2] = IF FindUser(uid) = 0 THEN NoId ELSE uid
<1>8. \E packet \in Answers : Right(packet)
  <2>1. CASE cmd = "req" /\ Reply(<<"req", NoId>>)
    <3>1. <<"req", NoId>> \in Answers
      BY DEF Answers
    <3> QED
      BY <2>1, <3>1
  <2>2. ASSUME cmd = "login", NEW code \in LoginCodes, Reply(<<"login", code>>)
        PROVE  \E packet \in Answers : Right(packet)
    <3>1. <<"login", code>> \in Answers /\ (code = "ok" => Known)
      BY <2>2 DEF Answers, LoginCodes, Known
    <3> QED
      BY <2>2, <3>1
  <2>3. CASE cmd = "users" /\ GetUser(c) /\ Reply(<<"users", reply'.ids>>)
    <3>1. reply'.ids = Others(c)
      BY <2>3 DEF GetUser, Answer
    <3>2. <<"users", Others(c)>> \in Answers
      BY <1>6, <1>7, <2>3 DEF Answers
    <3> QED
      BY <2>3, <3>1, <3>2
  <2>4. CASE cmd = "user_info" /\ GetUserInfo(c, uid) /\ Reply(<<"user_info", reply'.id>>)
    <3> DEFINE id == IF FindUser(uid) = 0 THEN NoId ELSE uid
    <3>1. reply'.id = id
      BY <2>4 DEF GetUserInfo, Answer
    <3>2. id \in Uids \cup {NoId}
      BY <1>4, <2>4 DEF Questions
    <3> HIDE DEF id
    <3>3. <<"user_info", id>> \in Answers
      BY <3>2 DEF Answers
    <3> QED
      BY <2>4, <3>1, <3>3 DEF id
  <2>5. CASE cmd = "group" /\ GetGroup(c) /\ Reply(<<"group", reply'.ids>>)
    <3>1. reply'.ids = users[c].groups
      BY <2>5 DEF GetGroup, Answer
    <3>2. <<"group", users[c].groups>> \in Answers
      BY <1>6, <1>7, <2>5 DEF Answers
    <3> QED
      BY <2>5, <3>1, <3>2
  <2> QED
    BY <1>1, <2>1, <2>2, <2>3, <2>4, <2>5
<1>9. PICK packet \in Answers : Right(packet)
  BY <1>8
<1>10. /\ WireTypeOK' /\ Requests' /\ Truthful'
       /\ toCli = <<>> => Len(toCli') = 1 /\ toCli'[1] = packet
  BY <1>2, <1>3, <1>1, <1>4, <1>5, <1>6, <1>9, Replied
<1>11. ClientTypeOK'
  <2>1. online' \in BOOLEAN
    BY <1>1, <1>2 DEF ClientTypeOK
  <2> QED
    BY <1>1, <1>2, <2>1 DEF ClientTypeOK
<1>12. Running'
  BY <1>1, <1>2, <1>3 DEF Running
<1>13. Progress' /\ Filled' /\ CrashesGroupless'
  <2>1. Calm' = Calm
    BY <1>2 DEF Calm
  <2> QED
    BY <1>1, <1>2, <1>3, <2>1, ServerSide
<1>14. Wired'
  <2> SUFFICES ASSUME Calm, pc \in {"ask", "answer"}
               PROVE  /\ pc = "answer" /\ toSrv' = <<>> /\ Len(toCli') = 1
                      /\ toCli'[1][1] = Wire(Cmd)
                      /\ Cmd = "info" => toCli'[1][2] = Head(todo)[2]
    <3>1. Calm' = Calm /\ Cmd' = Cmd /\ todo' = todo /\ pc' = pc
      BY <1>1, <1>2 DEF Calm, Cmd
    <3>2. Wire(Cmd)' = Wire(Cmd)
      BY <3>1 DEF Wire
    <3> QED
      BY <3>1, <3>2 DEF Wired
  <2>1. pc = "answer" /\ toSrv = <<<<Wire(Cmd), Head(todo)[2]>>>> /\ toCli = <<>>
    BY <1>1, <1>2 DEF Wired
  <2>2. toSrv' = <<>> /\ cmd = Wire(Cmd) /\ uid = Head(todo)[2]
    BY <1>1, <2>1
  <2>3. Len(toCli') = 1 /\ toCli'[1] = packet
    BY <1>10, <2>1
  <2>4. ASSUME Cmd = "info" PROVE packet[2] = Head(todo)[2]
    <3>1. cmd = "user_info"
      BY <2>2, <2>4 DEF Wire
    <3>2. packet[2] = IF FindUser(uid) = 0 THEN NoId ELSE uid
      BY <1>9, <3>1
    <3>3. FindUser(uid) # 0
      <4>1. BuddyList /\ Remain /\ todo # <<>>
        BY <1>2, <2>1, <2>4 DEF Progress, Cmd
      <4>2. Head(todo) = todo[1] /\ 1 \in DOMAIN todo /\ Len(todo) \in Nat /\ Len(todo) > 0
        BY <1>2, <4>1 DEF ClientTypeOK
      <4> DEFINE i == Len(buddys) - Len(todo) + 1
      <4>3. uid = buddys[i][1] /\ Len(todo) <= Len(buddys)
        BY <2>2, <4>1, <4>2 DEF Remain
      <4>4. i \in DOMAIN buddys /\ DOMAIN buddys = 1 .. Len(buddys)
        BY <1>2, <4>2, <4>3 DEF ClientTypeOK
      <4>5. /\ uid = Others(c)[i] /\ c \in DOMAIN users
            /\ Len(buddys) = Len(ufile) - 1
        <5>1. Known /\ Len(buddys) = Len(ufile) - 1
              /\ \A k \in DOMAIN buddys : buddys[k][1] = Others(FindUser(me))[k]
          BY <4>1 DEF BuddyList
        <5> QED
          BY <1>7, <4>3, <4>4, <5>1
      <4>6. i \in DOMAIN Others(c) /\ Range(Others(c)) = Range(ufile) \ {ufile[c]}
        BY <1>2, <4>4, <4>5, OthersType
      <4>7. uid \in Range(ufile)
        <5>1. uid \in Range(Others(c))
          BY <4>5, <4>6 DEF Range
        <5> QED
          BY <4>6, <5>1
      <4> QED
        BY <1>2, <4>7, KnownUser
    <3> QED
      BY <2>2, <3>2, <3>3
  <2> QED
    BY <1>9, <2>1, <2>2, <2>3, <2>4
<1> QED
  BY <1>10, <1>11, <1>12, <1>13, <1>14 DEF ClientInv

-----------------------------------------------------------------------------
(* Answers                                                                 *)

Todo == {"req", "login", "self", "users", "info"} \X (Uids \cup {NoId})
Buddy == Uids \X (Uids \cup {NoId})

LEMMA Typed ==
  ASSUME ClientTypeOK
  PROVE  /\ todo \in Seq(Todo) /\ Len(todo) \in Nat /\ DOMAIN todo = 1 .. Len(todo)
         /\ buddys \in Seq(Buddy) /\ Len(buddys) \in Nat /\ DOMAIN buddys = 1 .. Len(buddys)
         /\ \A i \in DOMAIN buddys : buddys[i] = <<buddys[i][1], buddys[i][2]>> /\ buddys[i] \in Buddy
         /\ todo # <<>> =>
              /\ Len(todo) > 0 /\ Head(todo) = todo[1] /\ todo[1] \in Todo
              /\ Tail(todo) \in Seq(Todo) /\ Len(Tail(todo)) = Len(todo) - 1
              /\ DOMAIN Tail(todo) = 1 .. Len(todo) - 1
              /\ \A i \in 1 .. Len(todo) - 1 : Tail(todo)[i] = todo[i + 1]
<1>1. todo \in Seq(Todo) /\ buddys \in Seq(Buddy)
  BY DEF ClientTypeOK, Todo, Buddy
<1>2. \A b \in Buddy : b = <<b[1], b[2]>>
  BY DEF Buddy
<1>3. Len(todo) \in Nat /\ DOMAIN todo = 1 .. Len(todo) /\ Len(buddys) \in Nat /\ DOMAIN buddys = 1 .. Len(buddys)
  BY <1>1
<1>4. \A i \in DOMAIN buddys : buddys[i] \in Buddy
  BY <1>1
<1>5. todo # <<>> =>
        /\ Len(todo) > 0 /\ Head(todo) = todo[1] /\ todo[1] \in Todo
        /\ Tail(todo) \in Seq(Todo) /\ Len(Tail(todo)) = Len(todo) - 1
        /\ DOMAIN Tail(todo) = 1 .. Len(todo) - 1
        /\ \A i \in 1 .. Len(todo) - 1 : Tail(todo)[i] = todo[i + 1]
  BY <1>1
<1> QED
  BY <1>1, <1>2, <1>3, <1>4, <1>5

\* The list has nobody twice and not the user.
LEMMA ListIsOthers ==
  ASSUME DirectoryInv, ClientTypeOK, phase = "serving", BuddyList
  PROVE  /\ \A i, j \in DOMAIN buddys : buddys[i][1] = buddys[j][1] => i = j
         /\ {buddys[i][1] : i \in DOMAIN buddys} = Range(ufile) \ {me}
<1> DEFINE c == FindUser(me)
<1>1. c \in DOMAIN users /\ ufile[c] = me
  BY KnownUser DEF BuddyList
<1>2. /\ DOMAIN Others(c) = 1 .. Len(ufile) - 1
      /\ \A i, j \in DOMAIN Others(c) : Others(c)[i] = Others(c)[j] => i = j
      /\ Range(Others(c)) = Range(ufile) \ {me}
  BY <1>1, OthersType
<1>3. DOMAIN buddys = DOMAIN Others(c) /\ \A i \in DOMAIN buddys : buddys[i][1] = Others(c)[i]
  BY <1>2, Typed DEF BuddyList
<1> HIDE DEF c
<1>4. {buddys[i][1] : i \in DOMAIN buddys} = Range(Others(c))
  BY <1>3 DEF Range
<1> QED
  BY <1>2, <1>3, <1>4

\* A profile goes to its own buddy.
LEMMA Updated ==
  ASSUME ClientTypeOK, \A i, j \in DOMAIN buddys : buddys[i][1] = buddys[j][1] => i = j,
         NEW uid \in Uids
  PROVE  /\ Update(uid) \in Seq(Buddy) /\ Len(Update(uid)) = Len(buddys)
         /\ DOMAIN Update(uid) = DOMAIN buddys
         /\ \A i \in DOMAIN buddys :
              /\ Update(uid)[i][1] = buddys[i][1]
              /\ Update(uid)[i][2] \in {buddys[i][2], buddys[i][1]}
              /\ buddys[i][1] = uid => Update(uid)[i][2] = uid
<1> DEFINE ids == [i \in DOMAIN buddys |-> buddys[i][1]]
           p == First(ids, uid)
<1>1. /\ buddys \in Seq(Buddy) /\ Len(buddys) \in Nat /\ DOMAIN buddys = 1 .. Len(buddys)
      /\ \A i \in DOMAIN buddys : buddys[i] = <<buddys[i][1], buddys[i][2]>> /\ buddys[i] \in Buddy
  BY Typed
<1>2. Update(uid) = IF p = 0 THEN buddys ELSE [buddys EXCEPT ![p][2] = uid]
  BY DEF Update
<1>3. DOMAIN ids = 1 .. Len(buddys)
  BY <1>1
<1>4. /\ p # 0 <=> \E q \in 1 .. Len(buddys) : ids[q] = uid
      /\ p # 0 => p \in 1 .. Len(buddys) /\ ids[p] = uid
  <2> HIDE DEF ids
  <2> QED
    BY <1>1, <1>3, FirstFinds
<1>5. CASE p = 0
  <2>1. Update(uid) = buddys
    BY <1>2, <1>5
  <2>2. \A i \in DOMAIN buddys : buddys[i][1] # uid
    BY <1>1, <1>4, <1>5
  <2> QED
    BY <1>1, <2>1, <2>2
<1>6. CASE p # 0
  <2>1. p \in DOMAIN buddys /\ buddys[p][1] = uid
    BY <1>1, <1>4, <1>6
  <2> HIDE DEF p
  <2> DEFINE new == [buddys EXCEPT ![p][2] = uid]
             q == <<buddys[p][1], uid>>
  <2>2. new = [i \in DOMAIN buddys |-> IF i = p THEN q ELSE buddys[i]]
    <3>1. [buddys[p] EXCEPT ![2] = uid] = q
      BY <1>1, <2>1
    <3>2. new = [i \in DOMAIN buddys |-> IF i = p THEN [buddys[p] EXCEPT ![2] = uid] ELSE buddys[i]]
      BY <1>1, <2>1
    <3> QED
      BY <3>1, <3>2
  <2>3. q \in Buddy /\ q[1] = uid /\ q[2] = uid
    BY <2>1 DEF Buddy
  <2> HIDE DEF q
  <2>4. new \in Seq(Buddy) /\ DOMAIN new = 1 .. Len(buddys) /\ Len(new) = Len(buddys)
    <3>1. new \in [1 .. Len(buddys) -> Buddy]
      BY <1>1, <2>2, <2>3
    <3> HIDE DEF new
    <3> QED
      BY <1>1, <3>1
  <2>5. \A i \in DOMAIN buddys : new[i] = IF i = p THEN q ELSE buddys[i]
    BY <2>2
  <2>6. Update(uid) = new
    BY <1>2, <1>6 DEF p
  <2> HIDE DEF new
  <2>7. ASSUME NEW i \in DOMAIN buddys
        PROVE  /\ new[i][1] = buddys[i][1] /\ new[i][2] \in {buddys[i][2], buddys[i][1]}
               /\ buddys[i][1] = uid => new[i][2] = uid
    <3>1. CASE i = p
      BY <2>1, <2>3, <2>5, <3>1
    <3>2. CASE i # p
      BY <2>1, <2>5, <3>2
    <3> QED
      BY <3>1, <3>2
  <2> QED
    BY <1>1, <2>4, <2>6, <2>7
<1> QED
  BY <1>5, <1>6

\* On to the next profile.
LEMMA NextProfile ==
  ASSUME DirectoryInv, ClientInv, pc = "answer", Cmd = "info", UNCHANGED <<vars, me, histVars>>,
         GoOn(Tail(todo)),
         buddys' \in Seq(Buddy), Len(buddys') = Len(buddys), DOMAIN buddys' = DOMAIN buddys,
         \A i \in DOMAIN buddys :
           /\ buddys'[i][1] = buddys[i][1]
           /\ buddys'[i][2] \in {buddys[i][2], buddys[i][1]},
         Calm => \A i \in DOMAIN buddys : buddys[i][1] = Head(todo)[2] => buddys'[i][2] = buddys[i][1]
  PROVE  todo' \in Seq(Todo) /\ pc' \in {"ask", "select"} /\ Progress' /\ Filled'
<1>1. ClientTypeOK /\ Progress /\ Filled
  BY DEF ClientInv
<1>2. BuddyList /\ Remain /\ todo # <<>>
  BY <1>1 DEF Progress, Cmd
<1> DEFINE L == Len(buddys)
           T == Len(todo)
<1>3. /\ todo' = Tail(todo) /\ pc' = IF todo' = <<>> THEN "select" ELSE "ask"
      /\ todo' \in Seq(Todo) /\ Len(todo') = T - 1 /\ DOMAIN todo' = 1 .. T - 1 /\ T \in Nat /\ T > 0
      /\ DOMAIN todo = 1 .. T
      /\ \A i \in 1 .. T - 1 : todo'[i] = todo[i + 1]
      /\ Head(todo) = todo[1] /\ L \in Nat /\ DOMAIN buddys = 1 .. L
  BY <1>1, <1>2, Typed DEF GoOn
<1>4. /\ T <= L /\ \A i \in 1 .. T : todo[i] = <<"info", buddys[L - T + i][1]>>
  BY <1>2, <1>3 DEF Remain
<1>5. /\ Others(FindUser(me))' = Others(FindUser(me)) /\ Known' = Known
      /\ ufile' = ufile /\ early' = early /\ exits' = exits
  BY SameLists DEF vars, histVars
<1> HIDE DEF L, T
<1>6. BuddyList'
  <2>1. Known /\ L = Len(ufile) - 1
        /\ \A i \in DOMAIN buddys : buddys[i][1] = Others(FindUser(me))[i] /\ buddys[i][2] \in {NoId, buddys[i][1]}
    BY <1>2 DEF BuddyList, L
  <2>2. ASSUME NEW i \in DOMAIN buddys'
        PROVE  buddys'[i][1] = Others(FindUser(me))[i] /\ buddys'[i][2] \in {NoId, buddys'[i][1]}
    BY <2>1
  <2> QED
    BY <1>5, <2>1, <2>2 DEF BuddyList, L
<1>7. Remain'
  <2>1. T - 1 <= L
    BY <1>3, <1>4
  <2>2. ASSUME NEW i \in 1 .. T - 1
        PROVE  todo'[i] = <<"info", buddys'[L - (T - 1) + i][1]>>
    <3>0. T \in Nat /\ L \in Nat /\ T <= L
      BY <1>3, <1>4
    <3>1. i + 1 \in 1 .. T /\ L - T + (i + 1) = L - (T - 1) + i /\ L - T + (i + 1) \in 1 .. L
      BY <3>0
    <3>2. todo'[i] = <<"info", buddys[L - T + (i + 1)][1]>>
      BY <1>3, <1>4, <3>1
    <3> QED
      BY <1>3, <3>1, <3>2
  <2> QED
    BY <1>3, <2>1, <2>2 DEF Remain, L
<1>8. Progress' /\ pc' \in {"ask", "select"}
  BY <1>3, <1>6, <1>7 DEF Progress, Prompt
<1>9. Filled'
  <2> SUFFICES ASSUME Calm, NEW i \in 1 .. L - (T - 1)
               PROVE  buddys'[i][2] = buddys'[i][1]
    BY <1>3, <1>5 DEF Filled, Calm, L
  <2>1. i \in DOMAIN buddys
    BY <1>3, <1>4
  <2>2. CASE i = L - T + 1
    <3>1. Head(todo) = <<"info", buddys[i][1]>>
      BY <1>3, <1>4, <2>2
    <3> QED
      BY <2>1, <3>1
  <2>3. CASE i # L - T + 1
    <3>1. i \in 1 .. L - T
      BY <1>3, <1>4, <2>3
    <3>2. buddys[i][2] = buddys[i][1]
      BY <1>1, <3>1 DEF Filled, L, T
    <3> QED
      BY <2>1, <3>2
  <2> QED
    BY <2>2, <2>3
<1> QED
  BY <1>3, <1>8, <1>9

\* A profile that does not come.
LEMMA FailedClient ==
  ASSUME DirectoryInv, ClientInv, pc = "answer", Failed, UNCHANGED <<vars, me, buddys, friend, online, histVars>>,
         Calm => Cmd # "info",
         Cmd = "info" =>
           /\ toCli' \in Seq(Answers)
           /\ \A i \in DOMAIN toCli' : \E j \in DOMAIN toCli : toCli'[i] = toCli[j]
  PROVE  ClientInv'
<1>1. /\ ClientTypeOK /\ WireTypeOK /\ Running /\ Progress /\ phase' = phase /\ sent \in Nat
      /\ UNCHANGED <<pushed, early, sent, exits, ufile, gfile, users>>
  BY DEF ClientInv, ClientTypeOK, vars, histVars
<1>2. CASE Cmd # "info"
  <2>1. todo' = todo /\ Exits("ended")
    BY <1>2 DEF Failed
  <2>2. ClientTypeOK'
    BY <1>1, <2>1 DEF ClientTypeOK, Exits
  <2>3. CrashesGroupless'
    BY <2>1 DEF CrashesGroupless, Exits
  <2> QED
    BY <1>1, <2>1, <2>2, <2>3, Ending
<1>3. CASE Cmd = "info"
  <2>1. GoOn(Tail(todo)) /\ link' = link /\ toSrv' = toSrv /\ ~Calm
    BY <1>3 DEF Failed
  <2>2. buddys \in Seq(Buddy) /\ \A i \in DOMAIN buddys : buddys[i][2] \in {buddys[i][2], buddys[i][1]}
    BY <1>1, Typed
  <2>3. todo' \in Seq(Todo) /\ pc' \in {"ask", "select"} /\ Progress' /\ Filled'
    BY <1>3, <2>1, <2>2, NextProfile
  <2>4. ClientTypeOK'
    BY <1>1, <2>1, <2>3 DEF ClientTypeOK, Todo
  <2>5. WireTypeOK'
    BY <1>1, <1>3, <2>1 DEF WireTypeOK
  <2>6. Running'
    <3>1. toCli = <<>> => toCli' = <<>>
      <4>0. \A i \in DOMAIN toCli' : \E j \in DOMAIN toCli : toCli'[i] = toCli[j]
        BY <1>3
      <4>1. toCli = <<>> => DOMAIN toCli' = {}
        <5>1. toCli = <<>> => DOMAIN toCli = {}
          OBVIOUS
        <5> QED
          BY <4>0, <5>1
      <4>2. toCli' \in Seq(Answers)
        BY <1>3
      <4> HIDE DEF Answers
      <4> QED
        BY <4>1, <4>2
    <3> QED
      BY <1>1, <1>3, <2>1, <2>3, <3>1 DEF Running
  <2>7. Requests' /\ Truthful'
    BY <1>1, <1>3, <2>1, <2>5, LessWire
  <2>8. Wired'
    BY <1>1, <2>1 DEF Wired, Calm
  <2>9. CrashesGroupless'
    BY <2>3 DEF CrashesGroupless
  <2> QED
    BY <2>3, <2>4, <2>5, <2>6, <2>7, <2>8, <2>9 DEF ClientInv
<1> QED
  BY <1>2, <1>3

\* The answer that was expected.
LEMMA AcceptedClient ==
  ASSUME DirectoryInv, ClientInv, pc = "answer", toCli # <<>>,
         NEW n \in 1 .. Len(toCli), Receives(n),
         Acceptable(Head(toCli)), Accepted(Head(toCli)[2]),
         UNCHANGED <<vars, me, friend, online, histVars, link, toSrv>>
  PROVE  ClientInv'
<1> DEFINE body == Head(toCli)[2]
<1>1. /\ ClientTypeOK /\ WireTypeOK /\ Running /\ Progress /\ Truthful /\ Wired /\ Filled
      /\ phase = "serving" /\ phase' = phase /\ sent \in Nat
      /\ UNCHANGED <<pushed, early, sent, exits, ufile, gfile, users>>
  BY DEF ClientInv, ClientTypeOK, Running, vars, histVars
<1>2. /\ toCli' \in Seq(Answers)
      /\ \A i \in DOMAIN toCli' : \E j \in DOMAIN toCli : toCli'[i] = toCli[j]
      /\ Len(toCli) = 1 => toCli' = <<>>
  BY Received
<1>3. Head(toCli) = toCli[1] /\ 1 \in DOMAIN toCli /\ toCli[1] \in Answers
  <2> HIDE DEF Answers
  <2> QED
    BY <1>1 DEF WireTypeOK
<1>4. Head(toCli)[1] = Wire(Cmd)
  BY DEF Acceptable
<1>5. WireTypeOK'
  BY <1>1, <1>2 DEF WireTypeOK
<1>6. Requests' /\ Truthful'
  BY <1>1, <1>2, <1>5, LessWire
<1>7. Known' = Known /\ Others(FindUser(me))' = Others(FindUser(me))
  BY SameLists DEF vars
<1>8. ASSUME pc' \in {"ask", "select"} PROVE Running' /\ Wired' /\ CrashesGroupless'
  <2>1. Running'
    BY <1>1, <1>2, <1>8 DEF Running
  <2>2. Calm => toSrv = <<>> /\ Len(toCli) = 1
    BY <1>1 DEF Wired
  <2>3. Wired'
    BY <1>1, <1>2, <1>8, <2>2 DEF Wired, Calm
  <2> QED
    BY <1>8, <2>1, <2>3 DEF CrashesGroupless
\* What remains to be shown in each case.
<1> DEFINE Done == buddys' \in Seq(Buddy) /\ todo' \in Seq(Todo) /\ pc' \in {"ask", "select"}
                     /\ Progress' /\ Filled'
<1>9. ASSUME Cmd = "req" PROVE Done
  <2>1. GoOn(<<<<"login", me>>>>) /\ buddys' = buddys
    BY <1>9 DEF Accepted
  <2>2. todo' = <<<<"login", me>>>> /\ pc' = "ask" /\ me' = me
    BY <2>1 DEF GoOn
  <2>3. Cmd' = "login"
    BY <2>2 DEF Cmd
  <2>4. me \in Uids \cup {NoId} /\ buddys \in Seq(Buddy)
    BY <1>1 DEF ClientTypeOK, Buddy
  <2> QED
    BY <2>1, <2>2, <2>3, <2>4 DEF Progress, Filled, Prompt, Todo
<1>10. ASSUME Cmd = "login" PROVE Done
  <2>1. body = "ok"
    BY <1>10 DEF Acceptable
  <2>2. GoOn(<<<<"self", me>>, <<"users", NoId>>>>) /\ buddys' = buddys
    BY <1>10, <2>1 DEF Accepted
  <2>3. todo' = <<<<"self", me>>, <<"users", NoId>>>> /\ pc' = "ask" /\ me' = me
    BY <2>2 DEF GoOn
  <2>4. Cmd' = "self"
    BY <2>3 DEF Cmd
  <2>5. me \in Uids \cup {NoId} /\ buddys \in Seq(Buddy)
    BY <1>1 DEF ClientTypeOK, Buddy
  <2>6. Known
    BY <1>1, <1>3, <1>4, <1>10, <2>1 DEF Truthful, Wire
  <2> QED
    BY <1>7, <2>2, <2>3, <2>4, <2>5, <2>6 DEF Progress, Filled, Prompt, Todo
<1>11. ASSUME Cmd = "self" PROVE Done
  <2>1. body # NoId
    BY <1>11 DEF Acceptable
  <2>2. GoOn(Tail(todo)) /\ buddys' = buddys
    BY <1>11, <2>1 DEF Accepted
  <2>3. Known /\ todo = <<<<"self", me>>, <<"users", NoId>>>>
    <3>1. CASE BuddyList /\ Remain /\ todo # <<>>
      <4>1. Head(todo) = todo[1] /\ 1 \in DOMAIN todo
        BY <1>1, <3>1, Typed
      <4> QED
        BY <1>11, <3>1, <4>1 DEF Remain, Cmd
    <3> QED
      BY <1>1, <1>11, <3>1 DEF Progress, Cmd
  <2>4. todo' = <<<<"users", NoId>>>> /\ pc' = "ask"
    BY <2>2, <2>3 DEF GoOn
  <2>5. Cmd' = "users"
    BY <2>4 DEF Cmd
  <2>6. buddys \in Seq(Buddy)
    BY <1>1 DEF ClientTypeOK, Buddy
  <2> QED
    BY <1>7, <2>2, <2>3, <2>4, <2>5, <2>6 DEF Progress, Filled, Prompt, Todo
<1>12. ASSUME Cmd = "users" PROVE Done
  <2> DEFINE c == FindUser(me)
  <2>1. GoOn(Profiles(body)) /\ buddys' = AddBuddies(body)
    BY <1>12 DEF Accepted
  <2>2. Known /\ body = Others(c)
    BY <1>1, <1>3, <1>4, <1>12 DEF Truthful, Wire
  <2>3. c \in DOMAIN users
    BY <1>1, <2>2, KnownUser
  <2>4. body \in Seq(Uids) /\ Len(body) = Len(ufile) - 1 /\ DOMAIN body = 1 .. Len(body) /\ Len(body) \in Nat
    BY <1>1, <2>2, <2>3, OthersType
  <2> HIDE DEF body, c
  <2>5. /\ todo' = [i \in 1 .. Len(body) |-> <<"info", body[i]>>]
        /\ buddys' = [i \in 1 .. Len(body) |-> <<body[i], NoId>>]
        /\ pc' = IF todo' = <<>> THEN "select" ELSE "ask"
    BY <2>1, <2>4 DEF GoOn, Profiles, AddBuddies
  <2>6. /\ todo' \in Seq(Todo) /\ Len(todo') = Len(body) /\ DOMAIN todo' = 1 .. Len(body)
        /\ buddys' \in Seq(Buddy) /\ Len(buddys') = Len(body) /\ DOMAIN buddys' = 1 .. Len(body)
    <3>1. \A i \in 1 .. Len(body) : <<"info", body[i]>> \in Todo /\ <<body[i], NoId>> \in Buddy
      BY <2>4 DEF Todo, Buddy
    <3>2. todo' \in [1 .. Len(body) -> Todo] /\ buddys' \in [1 .. Len(body) -> Buddy] /\ Len(body) \in Nat
      BY <2>4, <2>5, <3>1
    <3> QED
      BY <3>2
  <2>7. BuddyList'
    <3>1. \A i \in 1 .. Len(body) : buddys'[i][1] = body[i] /\ buddys'[i][2] = NoId
      BY <2>5
    <3> QED
      BY <1>1, <1>7, <2>2, <2>4, <2>6, <3>1 DEF BuddyList, c
  <2>8. Remain'
    <3>1. \A i \in 1 .. Len(body) : todo'[i] = <<"info", buddys'[i][1]>>
      BY <2>5
    <3>2. \A i \in 1 .. Len(body) : Len(buddys') - Len(todo') + i = i
      BY <2>4, <2>6
    <3> QED
      BY <2>4, <2>6, <3>1, <3>2 DEF Remain
  <2>9. Progress' /\ pc' \in {"ask", "select"}
    BY <2>5, <2>7, <2>8 DEF Progress, Prompt
  <2>10. Filled'
    <3>1. 1 .. Len(buddys') - Len(todo') = {}
      BY <2>4, <2>6
    <3> QED
      BY <3>1 DEF Filled
  <2> QED
    BY <2>6, <2>9, <2>10
<1>13. ASSUME Cmd = "info" PROVE Done
  <2>1. GoOn(Tail(todo)) /\ buddys' = IF body = NoId THEN buddys ELSE Update(body)
    BY <1>13 DEF Accepted
  <2>2. body \in Uids \cup {NoId}
    BY <1>3, <1>4, <1>13 DEF Answers, Wire
  <2>3. BuddyList /\ Remain /\ todo # <<>>
    BY <1>1, <1>13 DEF Progress, Cmd
  <2>4. \A i, j \in DOMAIN buddys : buddys[i][1] = buddys[j][1] => i = j
    BY <1>1, <2>3, ListIsOthers
  <2>5. Calm => body = Head(todo)[2]
    BY <1>1, <1>3, <1>13 DEF Wired
  <2>6. buddys \in Seq(Buddy) /\ \A i \in DOMAIN buddys : buddys[i][1] \in Uids
    <3>1. \A i \in DOMAIN buddys : buddys[i] \in Buddy
      BY <1>1, Typed
    <3> QED
      BY <1>1, <3>1, Typed DEF Buddy
  <2> HIDE DEF body
  <2>7. /\ buddys' \in Seq(Buddy) /\ Len(buddys') = Len(buddys) /\ DOMAIN buddys' = DOMAIN buddys
        /\ \A i \in DOMAIN buddys :
             /\ buddys'[i][1] = buddys[i][1]
             /\ buddys'[i][2] \in {buddys[i][2], buddys[i][1]}
             /\ body # NoId /\ buddys[i][1] = body => buddys'[i][2] = body
    <3>1. CASE body = NoId
      BY <2>1, <2>6, <3>1
    <3>2. CASE body # NoId
      <4>1. buddys' = Update(body) /\ body \in Uids
        BY <2>1, <2>2, <3>2
      <4> QED
        BY <1>1, <2>4, <4>1, Updated
    <3> QED
      BY <3>1, <3>2
  <2>8. ASSUME Calm, NEW i \in DOMAIN buddys, buddys[i][1] = Head(todo)[2]
        PROVE  buddys'[i][2] = buddys[i][1]
    <3>1. buddys[i][1] # NoId
      <4>1. buddys[i][1] \in Range(ufile)
        <5>1. {buddys[k][1] : k \in DOMAIN buddys} = Range(ufile) \ {me}
          BY <1>1, <2>3, ListIsOthers
        <5> QED
          BY <5>1
      <4>2. \A k \in DOMAIN ufile : ufile[k] # NoId
        BY Files DEF DirectoryInv
      <4> QED
        BY <4>1, <4>2 DEF Range
    <3> QED
      BY <2>5, <2>7, <2>8, <3>1
  <2> QED
    BY <1>13, <2>1, <2>7, <2>8, NextProfile
<1>14. Cmd \in {"req", "login", "self", "users", "info"}
  <2>1. todo # <<>>
    BY <1>1 DEF Progress
  <2>2. Head(todo) \in Todo
    BY <1>1, <2>1, Typed
  <2> QED
    BY <2>2 DEF Todo, Cmd
<1>15. Done
  BY <1>9, <1>10, <1>11, <1>12, <1>13, <1>14
<1>16. ClientTypeOK'
  BY <1>1, <1>15 DEF ClientTypeOK, Todo, Buddy
<1> QED
  BY <1>5, <1>6, <1>8, <1>15, <1>16 DEF ClientInv

LEMMA AnsweredClient == DirectoryInv /\ ClientInv /\ Answered => ClientInv'
<1> SUFFICES ASSUME DirectoryInv, ClientInv, Answered PROVE ClientInv'
  OBVIOUS
<1>1. pc = "answer" /\ UNCHANGED <<vars, me, friend, online, histVars>>
  BY DEF Answered
<1>2. WireTypeOK /\ Wired /\ Running
  BY DEF ClientInv
<1>3. ASSUME NEW n \in 1 .. Len(toCli), Acceptable(Head(toCli)), Receives(n), Accepted(Head(toCli)[2]),
             UNCHANGED <<link, toSrv>>
      PROVE  ClientInv'
  <2>1. toCli # <<>>
    BY <1>3
  <2> QED
    BY <1>1, <1>3, <2>1, AcceptedClient
<1>4. ASSUME NEW n \in 1 .. Len(toCli), ~Acceptable(Head(toCli)), Failed, Cmd = "info" => Receives(n),
             UNCHANGED buddys
      PROVE  ClientInv'
  <2>1. Calm => Cmd # "info"
    <3> SUFFICES ASSUME Calm, Cmd = "info" PROVE FALSE
      OBVIOUS
    <3>1. toCli # <<>>
      BY <1>4
    <3>2. toCli[1][1] = Wire(Cmd)
      BY <1>1, <1>2, <3>1 DEF Wired
    <3>3. Head(toCli) = toCli[1]
      <4> HIDE DEF Answers
      <4> QED
        BY <1>2, <3>1 DEF WireTypeOK
    <3> QED
      BY <1>4, <3>2, <3>3 DEF Acceptable
  <2>2. Cmd = "info" =>
          /\ toCli' \in Seq(Answers)
          /\ \A i \in DOMAIN toCli' : \E j \in DOMAIN toCli : toCli'[i] = toCli[j]
    BY <1>4, Received
  <2> QED
    BY <1>1, <1>4, <2>1, <2>2, FailedClient
<1>5. ASSUME toCli = <<>>, link = "closed", Failed, toCli' = <<>>, UNCHANGED buddys
      PROVE  ClientInv'
  <2>1. ~Calm
    BY <1>2, <1>5 DEF Running, Calm
  <2>2. toCli' \in Seq(Answers) /\ \A i \in DOMAIN toCli' : \E j \in DOMAIN toCli : toCli'[i] = toCli[j]
    BY <1>5
  <2> QED
    BY <1>1, <1>5, <2>1, <2>2, FailedClient
<1> QED
  BY <1>3, <1>4, <1>5 DEF Answered

-----------------------------------------------------------------------------
(* The theorems                                                            *)

\* The directory is served unchanged by what a client asks.
LEMMA ClientServes == DirectoryInv /\ ClientInv /\ [ClientNext]_allVars => [Next]_vars
<1> SUFFICES ASSUME DirectoryInv, ClientInv, [ClientNext]_allVars PROVE [Next]_vars
  OBVIOUS
<1>1. CASE OthersNext
  BY <1>1 DEF OthersNext
<1>2. CASE Client
  BY <1>2 DEF Client, Start, SendRequest, Answered, TypeChat, TypeExit, Choose, TypeLine, TypeQuit,
              HandleMsg, ServerClosed
<1>3. CASE Serve
  BY <1>3, ServeDirectory
<1>4. CASE Push \/ ServerExit
  BY <1>4 DEF Push, ServerExit
<1>5. CASE UNCHANGED allVars
  BY <1>5 DEF allVars
<1> QED
  BY <1>1, <1>2, <1>3, <1>4, <1>5 DEF ClientNext

LEMMA NextClient == DirectoryInv /\ ClientInv /\ [ClientNext]_allVars => ClientInv'
<1> SUFFICES ASSUME DirectoryInv, ClientInv, [ClientNext]_allVars PROVE ClientInv'
  OBVIOUS
<1>1. CASE OthersNext
  BY <1>1, OthersClient
<1>2. CASE Client
  <2>1. ASSUME NEW uid \in Uids \cup {NoId}, NEW ok \in BOOLEAN, Start(uid, ok) PROVE ClientInv'
    BY <2>1, StartClient
  <2>2. CASE SendRequest
    BY <2>2, SendRequestClient
  <2>3. CASE Answered
    BY <2>3, AnsweredClient
  <2>4. CASE TypeChat \/ TypeQuit \/ \E uid \in Uids : Choose(uid)
    BY <2>4, PromptClient
  <2>5. CASE TypeExit
    BY <2>5, TypeExitClient
  <2>6. CASE TypeLine
    BY <2>6, TypeLineClient
  <2>7. CASE HandleMsg
    BY <2>7, HandleMsgClient
  <2>8. CASE ServerClosed
    BY <2>8, ServerClosedClient
  <2> QED
    BY <1>2, <2>1, <2>2, <2>3, <2>4, <2>5, <2>6, <2>7, <2>8 DEF Client
<1>3. CASE Serve
  BY <1>3, ServeClient
<1>4. CASE Push
  BY <1>4, PushClient
<1>5. CASE ServerExit
  BY <1>5, ServerExitClient
<1>6. CASE UNCHANGED allVars
  <2>1. UNCHANGED <<ufile, gfile, users, groups, phase, pc, me, todo, buddys, friend, link, toSrv, toCli,
                    online, pushed, early, sent, exits>>
    BY <1>6 DEF allVars, vars, clientVars, wireVars, histVars
  <2>2. ClientTypeOK' /\ WireTypeOK' /\ Running'
    BY <2>1 DEF ClientInv, ClientTypeOK, WireTypeOK, Running
  <2>3. Requests' /\ Truthful'
    <3>1. sent \in Nat
      BY DEF ClientInv, ClientTypeOK
    <3> QED
      BY <2>1, <2>2, <3>1, LessWire
  <2>4. Calm' = Calm /\ Cmd' = Cmd
    BY <2>1 DEF Calm, Cmd
  <2>5. Progress' /\ Filled' /\ CrashesGroupless'
    BY <2>1, <2>4, ServerSide
  <2>6. Wired'
    BY <2>1, <2>4 DEF ClientInv, Wired, Wire
  <2> QED
    BY <2>2, <2>3, <2>5, <2>6 DEF ClientInv
<1> QED
  BY <1>1, <1>2, <1>3, <1>4, <1>5, <1>6 DEF ClientNext

LEMMA InvCorrect == ClientSpec => [](DirectoryInv /\ ClientInv)
<1>1. ClientInit => DirectoryInv /\ ClientInv
  BY InitDirectory, InitClient DEF ClientInit
<1>2. DirectoryInv /\ ClientInv /\ [ClientNext]_allVars => (DirectoryInv /\ ClientInv)'
  BY ClientServes, NextDirectory, NextClient
<1> QED
  BY <1>1, <1>2, PTL DEF ClientSpec

\* Directory and client keep their types.
THEOREM TypeCorrect == ClientSpec => [](TypeOK /\ ClientTypeOK)
<1>1. DirectoryInv /\ ClientInv => TypeOK /\ ClientTypeOK
  BY DEF DirectoryInv, ClientInv
<1> QED
  BY <1>1, InvCorrect, PTL

\* With a client that logs in, asks in its own order and crashes, the directory
\* still behaves as the directory alone does: each request is one of its steps.
THEOREM ServesDirectory == ClientSpec => Spec
<1>1. ClientInit => Init
  BY DEF ClientInit
<1> QED
  BY <1>1, InvCorrect, ClientServes, PTL DEF ClientSpec, Spec

\* GET_GROUP and GET_GROUP_INFO agree with the groups file and with each other
\* when the client asks, too.
THEOREM GroupsAgreeCorrect == ClientSpec => []GroupsAgree
BY ServesDirectory, DirectoryCorrect, PTL

\* At its prompt the client has every other user of the users file once, and each
\* profile is the buddy's own or, after a message or the end of the server, missing.
THEOREM ListCompleteCorrect == ClientSpec => []ListComplete
<1>1. DirectoryInv /\ ClientInv => ListComplete
  <2> SUFFICES ASSUME DirectoryInv, ClientInv, Prompt
               PROVE  /\ {buddys[i][1] : i \in DOMAIN buddys} = Range(ufile) \ {me}
                      /\ Len(buddys) = Len(ufile) - 1
                      /\ \A i \in DOMAIN buddys :
                           /\ buddys[i][2] \in {NoId, buddys[i][1]}
                           /\ ~early /\ exits = 0 => buddys[i][2] = buddys[i][1]
    BY DEF ListComplete
  <2>1. BuddyList /\ todo = <<>> /\ ClientTypeOK /\ phase = "serving"
    BY DEF ClientInv, Progress, Running, Prompt
  <2>2. {buddys[i][1] : i \in DOMAIN buddys} = Range(ufile) \ {me}
    BY <2>1, ListIsOthers
  <2>3. Len(buddys) = Len(ufile) - 1 /\ \A i \in DOMAIN buddys : buddys[i][2] \in {NoId, buddys[i][1]}
    BY <2>1 DEF BuddyList
  <2>4. ASSUME ~early, exits = 0, NEW i \in DOMAIN buddys PROVE buddys[i][2] = buddys[i][1]
    <3>1. DOMAIN buddys = 1 .. Len(buddys) /\ Len(buddys) \in Nat /\ Len(todo) = 0
      BY <2>1, Typed
    <3>2. i \in 1 .. Len(buddys) - Len(todo)
      BY <3>1
    <3> QED
      BY <2>4, <3>2 DEF ClientInv, Filled, Calm
  <2> QED
    BY <2>2, <2>3, <2>4
<1> QED
  BY <1>1, InvCorrect, PTL

\* What a user types ends his client only if no group lists him: the answer to
\* anybody else, who is in at most as many groups as a file holds, has a length
\* that stk_handle_msg() copes with.
THEOREM CrashesGrouplessCorrect == ClientSpec => []CrashesGroupless
<1>1. ClientInv => CrashesGroupless
  BY DEF ClientInv
<1> QED
  BY <1>1, InvCorrect, PTL

=============================================================================
