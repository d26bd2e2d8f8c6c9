SPECIFICATION FairSpec
CONSTANTS
    Proxies = {p1, p2, p3}
    Fetchers = {f1, f2}
    Job = job
    Nothing = nothing
    TargetSize = 2
    Budget = 1
    MaxAttempts = 2
INVARIANTS
    TypeOK
    PoolBounded
    NoDuplicates
    FailedProxyNotReused
PROPERTIES
    EverythingEnds
    PoolRefills
