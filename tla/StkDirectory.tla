--------------------------- MODULE StkDirectory ---------------------------
(***************************************************************************)
(* The users and groups the Linux server knows: read from the              *)
(* files groups and users at startup, never changed afterwards, and handed *)
(* out by GET_USER, GET_USER_INFO, GET_GROUP and GET_GROUP_INFO.           *)
(*                                                                         *)
(* stk_users and stk_groups are rings of list_head that contain the list's *)
(* own head; entry p of a list is its p-th, and position 0 is the head.    *)
(***************************************************************************)
EXTENDS Naturals, Sequences, Functions

CONSTANTS
  UserFiles,   \* the users files considered: sequences of uids
  GroupFiles,  \* the groups files: sequences of [gid, members]
  NoId         \* id 0; also the gid of an entry that lacks one of its keys

Uids == UNION {Range(f) : f \in UserFiles}
          \cup UNION {UNION {Range(f[p].members) : p \in DOMAIN f} : f \in GroupFiles}
Gids == UNION {{f[p].gid : p \in DOMAIN f} : f \in GroupFiles} \ {NoId}

\* Two users do not share a uid, nor two groups a gid.  A file is read into 4096
\* bytes, which hold far less than 1024 groups.
ASSUME FilesAssumption ==
  /\ UserFiles \subseteq Seq(Uids)
  /\ \A f \in UserFiles : f # <<>> /\ IsInjective(f) /\ NoId \notin Range(f)
  /\ GroupFiles \subseteq Seq([gid : Gids \cup {NoId}, members : Seq(Uids)])
  /\ \A f \in GroupFiles : IsInjective([i \in DOMAIN f |-> f[i].gid]) /\ Len(f) <= 1024

VARIABLES
  ufile, gfile,  \* the two files
  users,         \* stk_users: each user's uid and stkc_group
  groups,        \* stk_groups: each group's gid and members
  phase,         \* how far main() has come
  reply          \* the last answer given

vars == <<ufile, gfile, users, groups, phase, reply>>

NoReply == [cmd |-> "none", who |-> NoId, id |-> NoId, num |-> 0, ids |-> <<>>]

Init ==
  /\ ufile \in UserFiles
  /\ gfile \in GroupFiles
  /\ users = <<>>
  /\ groups = <<>>
  /\ phase = "groups"
  /\ reply = NoReply

-----------------------------------------------------------------------------
(* Rings                                                                   *)

\* stk_next_user(), stk_next_group(): the entry after p of n; NULL (0) stands
\* for the head.
NextInRing(n, p) == LET q == (p + 1) % (n + 1) IN IF q = 0 THEN 1 ELSE q

\* The k entries reached from p.
Walk(n, p, k) ==
  LET at[j \in 0 .. k] == IF j = 0 THEN p ELSE NextInRing(n, at[j - 1])
  IN [j \in 1 .. k |-> at[j]]

\* The first entry with an id, as list_for_each() finds it; 0 is NULL.
First(ids, id) ==
  IF \E p \in DOMAIN ids : ids[p] = id
  THEN CHOOSE p \in DOMAIN ids : ids[p] = id /\ \A q \in 1 .. p - 1 : ids[q] # id
  ELSE 0

FindUser(uid) == First([p \in DOMAIN users |-> users[p].uid], uid)
FindGroup(gid) == First([p \in DOMAIN groups |-> groups[p].gid], gid)

-----------------------------------------------------------------------------
(* Startup: stk_init_group(), then stk_init_user()                         *)

LoadGroup ==
  /\ phase = "groups" /\ Len(groups) < Len(gfile)
  /\ gfile[Len(groups) + 1].gid # NoId
  /\ groups' = Append(groups, gfile[Len(groups) + 1])
  /\ UNCHANGED <<ufile, gfile, users, phase, reply>>

\* An entry without the key is looked up all the same, and NULL dereferenced.
LoadGroupNoKey ==
  /\ phase = "groups" /\ Len(groups) < Len(gfile)
  /\ gfile[Len(groups) + 1].gid = NoId
  /\ phase' = "crashed"
  /\ UNCHANGED <<ufile, gfile, users, groups, reply>>

GroupsLoaded ==
  /\ phase = "groups" /\ Len(groups) = Len(gfile)
  /\ phase' = "users"
  /\ UNCHANGED <<ufile, gfile, users, groups, reply>>

\* Mutant: the search of a group goes on after the user is found.
MyGroupsAll(uid) ==
  LET n == Len(groups)
      hits(p) == SelectSeq(groups[p].members, LAMBDA m : m = uid)
      all[k \in 0 .. n] ==
        IF k = 0 THEN <<>> ELSE all[k - 1] \o [i \in DOMAIN hits(k) |-> groups[k].gid]
  IN all[n]

\* stk_init_mygroup(): the groups that list a user, each once.
MyGroups(uid) ==
  LET n == Len(groups)
      ring == Walk(n, 0, n)
      mine[k \in 0 .. n] ==
        IF k = 0 THEN <<>>
        ELSE IF uid \in Range(groups[ring[k]].members)
             THEN Append(mine[k - 1], groups[ring[k]].gid)
             ELSE mine[k - 1]
  IN mine[n]

LoadUser ==
  /\ phase = "users" /\ Len(users) < Len(ufile)
  /\ LET uid == ufile[Len(users) + 1]
     IN users' = Append(users, [uid |-> uid, groups |-> MyGroups(uid)])
  /\ UNCHANGED <<ufile, gfile, groups, phase, reply>>

UsersLoaded ==
  /\ phase = "users" /\ Len(users) = Len(ufile)
  /\ phase' = "serving"
  /\ UNCHANGED <<ufile, gfile, users, groups, reply>>

-----------------------------------------------------------------------------
(* Requests of the logged-in user c                                        *)

Answer(cmd, c, id, num, ids) ==
  /\ phase = "serving"
  /\ reply' = [cmd |-> cmd, who |-> users[c].uid, id |-> id, num |-> num, ids |-> ids]
  /\ UNCHANGED <<ufile, gfile, users, groups, phase>>

\* Mutant: the walk starts at the head of the list.
OthersFromHead(c) ==
  LET n == Len(users)
      ring == Walk(n, 0, n - 1)
  IN [k \in DOMAIN ring |-> users[ring[k]].uid]

\* All users but the asker, from the one after him on.
Others(c) ==
  LET n == Len(users)
      ring == Walk(n, c, n - 1)
  IN [k \in DOMAIN ring |-> users[ring[k]].uid]

GetUser(c) == Answer("user", c, NoId, Len(users) - 1, Others(c))

\* The uid comes back as 0 when there is no such user.
GetUserInfo(c, uid) ==
  Answer("user_info", c, IF FindUser(uid) = 0 THEN NoId ELSE uid, 0, <<>>)

GetGroup(c) == Answer("group", c, NoId, Len(users[c].groups), users[c].groups)

GetGroupInfo(c, gid) ==
  /\ FindGroup(gid) # 0
  /\ LET g == groups[FindGroup(gid)]
     IN Answer("group_info", c, gid, Len(g.members), g.members)

\* The NULL group's member_num is read.
GetGroupInfoUnknown(c, gid) ==
  /\ phase = "serving" /\ FindGroup(gid) = 0
  /\ phase' = "crashed"
  /\ UNCHANGED <<ufile, gfile, users, groups, reply>>

Ask ==
  \E c \in DOMAIN users :
    \/ GetUser(c)
    \/ GetGroup(c)
    \/ \E uid \in Uids : GetUserInfo(c, uid)
    \/ \E gid \in Gids : GetGroupInfo(c, gid) \/ GetGroupInfoUnknown(c, gid)

Next ==
  \/ LoadGroup \/ LoadGroupNoKey \/ GroupsLoaded \/ LoadUser \/ UsersLoaded
  \/ phase = "serving" /\ Ask

Spec == Init /\ [][Next]_vars

-----------------------------------------------------------------------------
(* Properties                                                              *)

TypeOK ==
  /\ ufile \in UserFiles /\ gfile \in GroupFiles
  /\ users \in Seq([uid : Uids, groups : Seq(Gids)])
  /\ groups \in Seq([gid : Gids, members : Seq(Uids)])
  /\ phase \in {"groups", "users", "serving", "crashed"}
  /\ reply \in [cmd : {"none", "user", "user_info", "group", "group_info"},
                who : Uids \cup {NoId}, id : Uids \cup Gids \cup {NoId},
                num : Nat, ids : Seq(Uids \cup Gids)]

\* What the file says of a group's members.
Lists(p, uid) == uid \in Range(gfile[p].members)

\* GET_GROUP lists a group once to each user the groups file lists in it, and
\* to nobody else; GET_GROUP_INFO lists the members the file gives, and every
\* user among them has the group.  One is answered from stkc_group, which startup
\* fills in, and the other from the group itself.
GroupsAgree ==
  /\ reply.cmd = "group" =>
       /\ reply.num = Len(reply.ids) /\ IsInjective(reply.ids)
       /\ Range(reply.ids) = {gfile[p].gid : p \in {q \in DOMAIN gfile : Lists(q, reply.who)}}
  /\ reply.cmd = "group_info" =>
       /\ [gid |-> reply.id, members |-> reply.ids] \in Range(gfile)
       /\ \A u \in Range(users) :
            u.uid \in Range(reply.ids) <=> reply.id \in Range(u.groups)

=============================================================================
