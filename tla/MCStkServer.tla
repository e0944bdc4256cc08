---------------------------- MODULE MCStkServer ----------------------------
(* Model-checking instances of StkServer.                                  *)
EXTENDS StkServer, TLC

CONSTANTS u1, u2, ux, g1

OneGroup == [g \in {g1} |-> <<u1, u2>>]
NoGroup == <<>>

Symmetry == Permutations(Threads) \cup Permutations(Fds)
=============================================================================
