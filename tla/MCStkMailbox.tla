--------------------------- MODULE MCStkMailbox ---------------------------
(* Model-checking instance of StkMailbox.                                  *)
EXTENDS StkMailbox, TLC

Symmetry == Permutations(Nodes)
=============================================================================
