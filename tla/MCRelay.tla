------------------------------- MODULE MCRelay -------------------------------
(* Small instances of Relay for TLC. *)
EXTENDS Relay, TLC

\* Processes, operation ids, routes and ports are interchangeable.
Symmetry ==
  Permutations(Proc) \cup Permutations(OpId)
    \cup Permutations(RouteId) \cup Permutations(Port)

\* Bound: what goes on after a half rolled back operation is followed as long as
\* an operation id is left.
Bounded == torn => \E k \in OpId : journal[k].status = "none"
=============================================================================
