---------------------------- MODULE WorkspaceMC ------------------------------
(***************************************************************************)
(* Workspace on a small instance.                                          *)
(***************************************************************************)
EXTENDS Workspace, TLC

Symmetry == Permutations(Requests)

=============================================================================
