-------------------------- MODULE MCOfferIngestion --------------------------
(* Finite instances of OfferIngestion. *)
EXTENDS OfferIngestion

CONSTANTS
    Reposted, \* the numbers under which every board lists one and the same job
    Broken    \* the numbers under which a board lists something unreadable

ContentOf == [p \in Postings |-> IF p[2] \in Reposted THEN <<"job", 0>> ELSE p]
UnreadableOf == Boards \X Broken
=============================================================================
