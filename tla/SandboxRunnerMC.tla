--------------------------- MODULE SandboxRunnerMC ---------------------------
(***************************************************************************)
(* Small instances of SandboxRunner.                                       *)
(***************************************************************************)
EXTENDS SandboxRunner

=============================================================================
