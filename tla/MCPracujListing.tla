-------------------------- MODULE MCPracujListing --------------------------
(* A finite instance of PracujListing. *)
EXTENDS PracujListing

\* Job b-c is open in two places; b is found under a skill as well, and
\* another board has brought a.
ListedOf == [k \in Keywords |->
    CASE k = "it" -> <<<<"a">>, <<"b", "c">>>>
      [] k = "python" -> <<<<"b">>>>
      [] k = "sql" -> <<<<"d">>>>]
ContentOf == [p \in Postings |-> IF p = "c" THEN "b" ELSE p]
RangesOf == {Postings \ {"b"}}
StarredOf == {<<>>, <<"sql", "python">>}
=============================================================================
