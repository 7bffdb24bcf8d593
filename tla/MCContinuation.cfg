CONSTANTS
    long = long
    short = short
    Polls = {a, b}
    Providers = {long, short}
    LastPage <- MCPages
    MaxAttempts = 2
    MaxFaults = 1
    MaxCrashes = 1
    MaxLapses = 1
    MaxTroubles = 1
    None = None
    Orphan = Orphan
SPECIFICATION FairContinuationSpec
INVARIANTS ContinuationTypeOK NoPageLost AttemptsBounded
PROPERTIES EndedStaysEnded PollingEndsInOrder
CHECK_DEADLOCK FALSE
