----------------------------- MODULE AuditChainMC -----------------------------
(***************************************************************************)
(* Small instances of AuditChain.                                          *)
(***************************************************************************)
EXTENDS AuditChain, TLC

Symmetry ==
  Permutations(Writers) \union Permutations(Orgs) \union Permutations(Contents)

=============================================================================
