SPECIFICATION Spec
CONSTANTS
    None = None
    Job = job
    Callers = {job, req}
    Retriers = {}
    RetryStatuses = {"open"}
    Offers = {1, 2}
    Eligible = {1, 2}
    Protected = {}
    Profiles = {p1}
    Datas = {a, b}
    BatchLimit = 1
    MaxConcurrency = 1
    MaxEdits = 0
    MaxCrashes = 0
    MaxRows = 2
INVARIANT NoOfferInTwoBatches
