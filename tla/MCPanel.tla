------------------------------- MODULE MCPanel -------------------------------
(* Small instances of Panel for TLC. *)
EXTENDS Panel, TLC

Symmetry == Permutations(OpId)
=============================================================================
