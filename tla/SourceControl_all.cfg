SPECIFICATION FairSpec
CONSTANTS
    Sources = {s1}
    Sitemaps = {s1}
    Requests = {q1, q2}
    Manual = {m1}
    Pages = 2
    MaxPages = 1
    MaxPuts = 2
    MaxTrouble = 1
INVARIANTS
    TypeOK
    OnlyKnownDrift
    RowsAreFaithful
PROPERTY
    EveryPageIsWalked
CHECK_DEADLOCK FALSE
