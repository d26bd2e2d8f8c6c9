------------------------- MODULE MCDeadLetterRetry -------------------------
(* Finite instances of DeadLetterRetry: every url is of the one source. *)
EXTENDS DeadLetterRetry

OneSource == [u \in Urls |-> CHOOSE s \in Sources : TRUE]
=============================================================================
