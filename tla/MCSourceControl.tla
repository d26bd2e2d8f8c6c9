-------------------------- MODULE MCSourceControl --------------------------
(* Finite instances of SourceControl. *)
EXTENDS SourceControl
=============================================================================
