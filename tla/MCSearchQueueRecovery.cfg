CONSTANTS
    r1 = r1
    r2 = r2
    r3 = r3
    r4 = r4
    j1 = j1
    j2 = j2
    p1 = p1
    p2 = p2
    Jobs = {j1}
    Requests = {r1, r4}
    SearchIds = {r1, r4}
    Tokens = {r1, r4}
    Fingerprints = {p1, p2}
    Workers = {w1, w2}
    KeyOf <- MCKeys
    FpOf <- MCFps
    MaxAdmitted = 1
    Lease = 1
    Clock <- MCClock1
    MaxFence = 6
    None = None
    MaxAttempts = 2
    MaxStalled = 2
    Loads <- MCCrashes
SPECIFICATION FairQueueSpec
INVARIANTS NoLostSearch NoLeakedSlot
PROPERTY AcceptedSearchEnds
CHECK_DEADLOCK FALSE
