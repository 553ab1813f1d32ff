------------------------------ MODULE ErasureMC ------------------------------
(* Two candidates, two requests at a time. *)
EXTENDS Erasure, TLC

Symmetry == Permutations(Candidates) \union Permutations(Slots)
=============================================================================
