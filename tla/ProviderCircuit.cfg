CONSTANTS
    Callers = {c1, c2}
    Tokens = {t1, t2, t3}
    NoToken = NoToken
    Threshold = 2
    Cooldown = 3
    RetryAfters = {0, 1}
    StateRetry = 1
    NoRetry = NoRetry
    ProbeLease = 3
    RecordTtl = 5
    MaxSkew = 1
    MaxFaults = 1
SPECIFICATION FairCircuitSpec
INVARIANT ProbesApart
PROPERTIES CooldownHolds Recovers
