CONSTANTS
    inbound = inbound
    other = other
    w1 = w1
    w2 = w2
    Jobs <- MCJobs
    Workers <- MCWorkers
    InboundJobs <- MCInboundJobs
    Limit = 2
    Lease = 2
    BackoffCap = 2
    MaxAttempts <- MCMaxAttempts
    Ttl <- MCTtl
    Delays = {0}
    Horizon = 3
SPECIFICATION FairSpec
CHECK_DEADLOCK FALSE
INVARIANTS
    BudgetIsKept
    ExclusiveUnlessLate
PROPERTIES
    SettledStays
    EveryJobSettles
