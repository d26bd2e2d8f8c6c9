SPECIFICATION FairSpec
CONSTANTS
    Clients = {c1, c2}
    Default = default
    Drafts = {draft}
    Datas = {x, y}
    None = none
    MaxRequests = 4
    MaxTrouble = 1
INVARIANT
    TypeOK
    OneActiveProfile
    OnlyKnownStaleScores
PROPERTY
    RequestsAreAtomic
    RequestsEnd
CHECK_DEADLOCK FALSE
