SPECIFICATION FairSpec
CONSTANTS
    Boards = {b1, b2}
    Users = {}
    Initially = 2
    MaxPosting = 3
    MaxTrouble = 1
    Unreadable <- UnreadableOf
    Broken = {}
    Content <- ContentOf
    Reposted = {2}
    Since = 1
    PageSize = 1
    MaxPages = 3
    Threshold = 1
PROPERTY
    LoneRunsAddNoDuplicate
    EveryPostingArrives
