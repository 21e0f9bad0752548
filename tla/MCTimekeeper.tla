---------------------------- MODULE MCTimekeeper ----------------------------
(* Small instances of Timekeeper for TLC. *)
EXTENDS Timekeeper, TLC

Symmetry == Permutations(Workers) \cup Permutations(Sleepers)
=============================================================================
