CONSTANTS
    qa = qa
    qb = qb
    w1 = w1
    w2 = w2
    NumRcpts = 2
    Queues = {qa}
    Strategies <- OneQueue
    DomainOf <- SameDomain
    Quotas = {"sender", "domain", "rcpt"}
    Expiry <- TtlExpiry
    RetryAfter = 1
    NotifyAfter <- NotifyOnce
    ReturnPaths = {"null", "user"}
    Workers = {w1, w2}
    Faults = {"save", "crash", "read"}
    MaxFaults = 2
    AdminOps = {}
    MaxNow = 3
SPECIFICATION FairSpec
INVARIANTS TypeOK EventInTime  OneFailureNotice RemovedStaysRemoved QuotaExact
PROPERTY MessageLeavesQueue
CHECK_DEADLOCK FALSE
