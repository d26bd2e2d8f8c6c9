SPECIFICATION FairSpec
CONSTANTS
    None = None
    Job = job
    Callers = {job}
    Retriers = {r1}
    RetryStatuses = {"open", "resolved"}
    Offers = {1, 2}
    Eligible = {1, 2}
    Protected = {}
    Profiles = {p1, p2}
    Datas = {a, b}
    BatchLimit = 1
    MaxConcurrency = 1
    MaxEdits = 1
    MaxCrashes = 1
    MaxRows = 1
INVARIANT PageStaysUnscored
PROPERTIES
    OnlyLateWritersLeaveStaleScores
    BacklogDrains
