SPECIFICATION FairSpec
CONSTANTS
    Tick = tick
    Nothing = nothing
    Sources = {s}
    Sitemaps = {}
    Urls = {}
    UrlSource <- OneSource
    Users = {}
    Beats = {b}
    MaxAttempts = 1
    MaxStops = 0
    MaxTrouble = 0
CHECK_DEADLOCK FALSE
PROPERTY
    TicksChain
