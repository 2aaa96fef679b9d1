CONSTANTS
    qa = qa
    qb = qb
    w1 = w1
    w2 = w2
    NumRcpts = 2
    Queues = {qa}
    Strategies <- OneQueue
    DomainOf <- SameDomain
    Quotas = {"sender", "domain", "rcpt"}
    Expiry <- TtlExpiry
    RetryAfter = 1
    NotifyAfter <- NotifyOnce
    ReturnPaths = {"user"}
    Workers = {w1, w2}
    Faults = {"read"}
    MaxFaults = 1
    AdminOps = {}
    MaxNow = 1
SPECIFICATION Spec
SYMMETRY WorkerSymmetry
INVARIANTS ClearedOnlyWhenGone
CHECK_DEADLOCK FALSE
