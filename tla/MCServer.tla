------------------------------ MODULE MCServer -------------------------------
(* Small instances of Server for TLC. *)
EXTENDS Server, TLC

Directions == {"rx", "tx"}
=============================================================================
