SPECIFICATION FairSpec
CONSTANTS
    None = None
    Job = job
    Callers = {job, req}
    Retriers = {r1, r2}
    RetryStatuses = {"open", "resolved"}
    Offers = {1, 2}
    Eligible = {1, 2}
    Protected = {2}
    Profiles = {p1}
    Datas = {a}
    BatchLimit = 2
    MaxConcurrency = 1
    MaxEdits = 0
    MaxCrashes = 1
    MaxRows = 2
INVARIANTS
    TypeOK
    OneBatchAtATime
    ProgressIsFaithful
    BatchCallsBounded
    OneVerdictPerPair
PROPERTY
    EveryRequestEnds
