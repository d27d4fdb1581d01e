---------------------------- MODULE MCRelayPanel ----------------------------
(* Small instances of RelayPanel for TLC. *)
EXTENDS RelayPanel, TLC

Symmetry == Permutations(OpId)
=============================================================================
