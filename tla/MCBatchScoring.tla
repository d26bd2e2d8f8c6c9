-------------------------- MODULE MCBatchScoring --------------------------
(* Finite instances of BatchScoring. *)
EXTENDS BatchScoring

CONSTANT Job \* the caller that the interval trigger keeps requesting

FairSpec == Spec /\ Fairness(Job)
===========================================================================
