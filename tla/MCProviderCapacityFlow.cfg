CONSTANTS
    Ops = {o1, o2}
    Providers = {p1}
    Tokens = {t1, t2, t3}
    None = None
    GlobalLimit = 1
    ProviderLimit = 1
    GlobalQueue = 1
    ProviderQueue = 1
    LeaseTtl = 2
    RateMax = 1
    RateWindow = 2
    MaxSkew = 0
    MaxFaults = 1
SPECIFICATION FairCapacitySpec
INVARIANT CapacityTypeOK
PROPERTY Throughput
