--------------------------- MODULE MCStkServerGtk ---------------------------
(* Model-checking instance of StkServerGtk.                                *)
EXTENDS StkServerGtk, TLC

CONSTANTS u1, u2, ux, t1, t2, t3

TwoUsers == <<u1, u2>>
AllUsers == <<u1, u2>>

\* One connection is the writer's, the two others are the receiver's, one after
\* the other, or those of somebody without an account.
Connections == [t \in {t1, t2, t3} |-> IF t = t1 THEN {u1} ELSE {u2, ux}]

Symmetry == Permutations(Fds) \cup Permutations({t2, t3})
=============================================================================
