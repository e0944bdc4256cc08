-------------------------- MODULE MCStkClientLinux --------------------------
(* Model-checking instances of StkClientLinux and StkDirectory.            *)
EXTENDS StkClientLinux, SequencesExt, TLC

CONSTANTS U, G  \* uids and gids

\* Every users file, and every groups file with at most two members a group, an
\* entry without the key "gid" among them.
MCUserFiles == {f \in BoundedSeq(U, Cardinality(U)) : f # <<>> /\ IsInjective(f)}
MCGroupFiles ==
  {f \in BoundedSeq([gid : G \cup {NoId}, members : BoundedSeq(U, 2)], Cardinality(G)) :
     IsInjective([i \in DOMAIN f |-> f[i].gid])}

\* A client runs with no group, or with two of at most one member each.
MCClientGroupFiles ==
  {f \in MCGroupFiles :
     Len(f) # 1 /\ \A p \in DOMAIN f : f[p].gid # NoId /\ Len(f[p].members) < 2}

Symmetry == Permutations(U) \cup Permutations(G)
=============================================================================
