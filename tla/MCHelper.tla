------------------------------ MODULE MCHelper ------------------------------
(* Small instances of Helper for TLC. *)
EXTENDS Helper, TLC

CONSTANTS p1, p2, c1, c2, i1, i2

\* Every connection on one instance, or one on each.
OneHome == [c \in Conn |-> i1]
TwoHomes == (c1 :> i1) @@ (c2 :> i2)

\* Processes are interchangeable, and so are operation ids and addresses.
Symmetry == Permutations(Proc) \cup Permutations(OpId) \cup Permutations(Addr)
=============================================================================
