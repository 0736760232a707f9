SPECIFICATION Spec
CONSTANTS
    t1 = t1
    t2 = t2
    k1 = k1
    k2 = k2
    alice = alice
    None = None
    Calls = {c1, c2, c3}
    Processes = {g1}
    Requests <- MCRequests
    RateLimit = 2
    Threshold = 2
    MaxFaults = 2
CHECK_DEADLOCK FALSE
INVARIANTS
    GatewayTypeOK
    AcceptedIsQueued
    RateLimited
    DamageCostsFailures
    BreakerMatchesCount
PROPERTIES
    ReplaysHitCache
    EveryCallAnswered
