--------------------------- MODULE MCStkClientWin ---------------------------
(* Model-checking instance of StkClientWin.                                *)
EXTENDS StkClientWin, TLC

CONSTANTS me, b1, b2, g1

ThreeUsers == <<b1, me, b2>>
OneGroup   == <<g1>>

\* His own account, with the right and a wrong password.
TypedIn == {<<me, me>>, <<me, NoOne>>}

\* One buddy writes twice.
Pushes == [c \in {me, b1, b2, g1} |-> IF c = b1 THEN 2 ELSE 0]
=============================================================================
