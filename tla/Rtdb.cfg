SPECIFICATION Spec
CONSTANTS
    d1 = d1
    Dashboards = {d1}
    Keys <- MCKeys
    Values <- MCValues
    AppWrites <- MCAppWrites
    MaxDepth = 1
    MaxWrites = 2
    MaxFaults = 3
    MaxEvents = 4
    WithListDeletes = FALSE
INVARIANTS  WatchersConverge 
CHECK_DEADLOCK FALSE
PROPERTY DashboardsReconnectOrExpireAgain
