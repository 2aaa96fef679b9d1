CONSTANTS
    qa = qa
    qb = qb
    w1 = w1
    w2 = w2
    NumRcpts = 2
    Queues = {qa}
    Strategies <- OneQueue
    DomainOf <- SameDomain
    Quotas = {}
    Expiry <- AttemptsExpiry
    RetryAfter = 1
    NotifyAfter <- NotifyOnce
    ReturnPaths = {"user"}
    Workers = {w1, w2}
    Faults = {"save"}
    MaxFaults = 1
    AdminOps = {"cancel", "retry", "destroy"}
    MaxNow = 1
SPECIFICATION Spec
SYMMETRY WorkerSymmetry
INVARIANTS EventInTime
CHECK_DEADLOCK FALSE
