---------------------------- MODULE MCParkWake ----------------------------
(* Small instances of ParkWake for TLC. *)
EXTENDS ParkWake, TLC

Symmetry == Permutations(Tasks) \cup Permutations(Workers) \cup Permutations(Wakers)
=============================================================================
