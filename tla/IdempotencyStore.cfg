CONSTANTS
    Calls = {c1, c2, c3}
    IdempotencyKeys = {k1}
    Payloads = {f1, f2}
    ResponseSizes = {1}
    MaxRecords = 1
    ResponseBudget = 1
    MaxClaims = 3
    MaxAges = 0
    MaxCallFaults = 0
    NoRecord = NoRecord
SPECIFICATION IdempotencySpec
INVARIANT AnswersOwnPayload
CHECK_DEADLOCK FALSE
