---------------------------- MODULE MCStkServerPy ----------------------------
(* Model-checking instance of StkServerPy.                                 *)
EXTENDS StkServerPy, TLC

CONSTANTS c1, c2, u1, u2

Pair == <<u1, u2>>

\* Two clients that may be the same user, each of which sends something.
OneOrTwo == (c1 :> {u1}) @@ (c2 :> {u1, u2})
BothSend == (c1 :> 1) @@ (c2 :> 1)
=============================================================================
