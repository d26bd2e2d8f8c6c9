------------------------ MODULE MCProfileActivation ------------------------
(* Finite instances of ProfileActivation. *)
EXTENDS ProfileActivation
=============================================================================
