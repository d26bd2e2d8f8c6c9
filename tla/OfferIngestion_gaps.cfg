SPECIFICATION Spec
CONSTANTS
    Boards = {b1}
    Users = {u1}
    Initially = 3
    MaxPosting = 6
    MaxTrouble = 1
    Unreadable <- UnreadableOf
    Broken = {3}
    Content <- ContentOf
    Reposted = {5, 6}
    Since = 2
    PageSize = 2
    MaxPages = 3
    Threshold = 2
INVARIANTS
    TypeOK
    OnlyKnownGaps
    DeadlockNeedsLongShift
