SPECIFICATION FairSpec
CONSTANTS
    Tick = tick
    Nothing = nothing
    Sources = {s}
    Sitemaps = {}
    Urls = {d}
    UrlSource <- OneSource
    Users = {}
    Beats = {b}
    MaxAttempts = 1
    MaxStops = 1
    MaxTrouble = 1
CHECK_DEADLOCK FALSE
PROPERTIES
    TickPassesDetails
    DetailRowsSettle
