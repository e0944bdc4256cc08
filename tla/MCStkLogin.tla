---------------------------- MODULE MCStkLogin ----------------------------
(* Model-checking instances of StkLogin.                                   *)
EXTENDS StkLogin

CONSTANTS b1, b2, g1, g2

MCOthers == <<b1, b2>>
MCGroups == <<g1, g2>>
=============================================================================
