SPECIFICATION FairSpec
CONSTANTS
    Postings = {"a", "b", "c", "d", "e"}
    Category = "it"
    Terms = {"python", "sql"}
    Starred <- StarredOf
    Listed <- ListedOf
    Content <- ContentOf
    Elsewhere = {"a"}
    FirstRange = {"a", "b", "c", "d", "e"}
    Ranges <- RangesOf
    Growing = {"it"}
    Unreadable = {"d"}
    PageSize = 1
    MaxPages = 2
    Threshold = 1
    ForceRefresh = {TRUE}
    MaxTrouble = 1
    MaxChanges = 1
    MaxRequests = 1
INVARIANT
    TypeOK
    PagesAreNeverSkipped
PROPERTY
    NothingReadIsDropped
    OnlyOtherTermsFailQuietly
    EveryPostingArrives
