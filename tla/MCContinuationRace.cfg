CONSTANTS
    long = long
    short = short
    Polls = {a, b}
    Providers = {long}
    LastPage <- MCPages
    MaxAttempts = 2
    MaxFaults = 0
    MaxCrashes = 0
    MaxLapses = 0
    MaxTroubles = 1
    None = None
    Orphan = Orphan
SPECIFICATION ContinuationSpec
INVARIANT CursorRetriedOnce
CHECK_DEADLOCK FALSE
