CONSTANTS
    Ops = {o1, o2, o3}
    Providers = {p1, p2, p3}
    Tokens = {t1, t2, t3}
    None = None
    GlobalLimit = 2
    ProviderLimit = 1
    GlobalQueue = 1
    ProviderQueue = 1
    LeaseTtl = 1
    RateMax = 0
    RateWindow = 1
    MaxSkew = 1
    MaxFaults = 1
SYMMETRY Symmetry
SPECIFICATION CapacitySpec
INVARIANTS LimitsHold LeakPerFault
PROPERTY EntersWithRoom
