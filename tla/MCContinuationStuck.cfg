CONSTANTS
    long = long
    short = short
    Polls = {a}
    Providers = {long}
    LastPage <- MCPages
    MaxAttempts = 2
    MaxFaults = 1
    MaxCrashes = 0
    MaxLapses = 0
    MaxTroubles = 1
    None = None
    Orphan = Orphan
SPECIFICATION FairContinuationSpec
PROPERTY PollingEnds
CHECK_DEADLOCK FALSE
