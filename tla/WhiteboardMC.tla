---------------------------- MODULE WhiteboardMC ------------------------------
(***************************************************************************)
(* Whiteboard on a small instance.                                         *)
(***************************************************************************)
EXTENDS Whiteboard

=============================================================================
