CONSTANTS
    SessionIds = {y1, y2, y3}
    Sizes = {1, 2}
    MaxSessions = 2
    SessionBudget = 3
    SessionTtl = 1
    SessionClock <- Clock0To2
    MaxRevision = 2
    NoSession = NoSession
    Calls = {x1, x2, x3}
    IdempotencyKeys = {y1, y2, y3}
    Payloads = {z1, z2}
    ResponseSizes = {1, 2}
    MaxRecords = 2
    ResponseBudget = 2
    MaxClaims = 3
    MaxAges = 1
    MaxCallFaults = 1
    NoRecord = NoRecord
    Verifications = {z1, z2}
    Handoffs = {y1, y2, y3}
    Redirects = {z1, z2}
    MaxBookings = 1
    BookingTtl = 1
    BookingClock <- Clock0To2
    MaxBookingFaults = 1
    NoBooking = NoBooking
    MaxRuntimeFaults = 2
    MaxSweeps = 1
    NotPublished = NotPublished
    o1 = o1
    o2 = o2
    o3 = o3
    o4 = o4
    o5 = o5
    o6 = o6
    Operations = {o1, o2, o3, o4, o5, o6}
    ProviderOf <- MCProviderOf
    MaxRunning = 2
    MaxRunningOf = 1
    MaxQueued = 2
    MaxQueuedOf = 1
    Posts = {x1, x2, x3}
    PostKeys = {y1, y2, y3}
    PostPayloads = {z1, z2}
    PostSizes = {1, 2, 3}
    MaxPostRecords = 2
    PostBudget = 2
    MaxLapses = 2
    NoPost = NoPost
SYMMETRY SharedSymmetry
SPECIFICATION SharedSpec
INVARIANTS SessionKeysAgree SessionsBounded RecordsAgree RecordsBounded OneExecution AnswersAgree NoAbandonedRecord BookingCap HandoffUsedOnce TakesJobsWhenReady CapacityInUse LocalSearchesShared
PROPERTIES DriftOnlyByRefusal DrainIsFinal DegradedRecovers WaitersServed
CHECK_DEADLOCK FALSE
