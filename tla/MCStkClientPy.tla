---------------------------- MODULE MCStkClientPy ----------------------------
(* Model-checking instance of StkClientPy.                                 *)
EXTENDS StkClientPy, TLC

CONSTANTS b1, b2, g1

TwoBuddies == <<b1, b2>>
OneGroup   == <<g1>>

\* First a wrong password, then the right one.
WrongThenRight == <<{"pass"}, {"ok"}>>

\* Two messages in the group, during the login or in the session.
Pushes == (b1 :> 0) @@ (b2 :> 0) @@ (g1 :> 2)
=============================================================================
