CONSTANTS
    h1 = h1
    c1 = c1
    c2 = c2
    m1 = m1
    m2 = m2
    e1 = e1
    e2 = e2
    k1 = k1
    k2 = k2
    d1 = d1
    d2 = d2
    x1 = x1
    x2 = x2
    x3 = x3
    Hosts = {h1, h2}
    Calls <- MCCalls
    Conversations = {conv}
    Customers = {m1, m2}
    Caller <- MCCaller
    MaxRedisFailures = 2
    Processes = {p1, p2}
    Events = {e1, e2}
    Hooks = {k1, k2}
    Subscribed <- MCSubscribed
    MaxBusFaults = 1
    Requests = {q1, q2}
    Runs = {r1, r2}
    Recipients = 2
    MaxAttempts = 2
    MaxMishaps = 1
    Chain <- MCChain
    FailMax <- MCFailMax
    Turns = {t1, t2}
    MaxOutages = 3
    Capacity = 6
    Refill = 1
    Cost = 3
    Ttl = 3
    MaxLag = 1
    MaxLate = 2
    MaxTime = 8
    Judges = {j1, j2}
    Admins = {a1}
    ReviewAt = 5
    BlockAt = 10
    MaxFlags = 4
    Deliveries = {d1, d2}
    Batch <- MCBatch
    From <- MCFrom
    Silent = {x3}
    EdgeCapacity = 1
    MaxRuns = 2
    MaxSlips = 1
    MaxLives = 2
    MaxThreads = 2
    MaxEntries = 2
SPECIFICATION ServicesSpec
CHECK_DEADLOCK FALSE
INVARIANTS
    CallsAreTracked
    DispatchedOnce
    SentAsCounted
    NeverOverspends
    BlocksAreEarned
    DataRights
PROPERTIES
    SendingEnds
    PrimaryRecovers
    EveryMessageHasItsTurn
