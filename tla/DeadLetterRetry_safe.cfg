SPECIFICATION Spec
CONSTANTS
    Tick = tick
    Nothing = nothing
    Sources = {s}
    Sitemaps = {s}
    Urls = {d}
    UrlSource <- OneSource
    Users = {u}
    Beats = {b}
    MaxAttempts = 1
    MaxStops = 0
    MaxTrouble = 1
CHECK_DEADLOCK FALSE
INVARIANTS
    TypeOK
    TickSeesEveryFailure
    BudgetRespected
PROPERTY
    AttemptsNeverForgotten
