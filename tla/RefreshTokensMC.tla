--------------------------- MODULE RefreshTokensMC ---------------------------
(***************************************************************************)
(* Small instances of RefreshTokens.                                       *)
(***************************************************************************)
EXTENDS RefreshTokens, TLC

Symmetry == Permutations(Requests) \union Permutations(Families)

=============================================================================
