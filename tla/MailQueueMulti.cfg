CONSTANTS
    qa = qa
    qb = qb
    w1 = w1
    w2 = w2
    NumRcpts = 2
    Queues = {qa, qb}
    Strategies <- Moving
    DomainOf <- SameDomain
    Quotas = {}
    Expiry <- AttemptsExpiry
    RetryAfter = 1
    NotifyAfter <- NotifyOnce
    ReturnPaths = {"user"}
    Workers = {w1, w2}
    Faults = {"save", "crash", "overrun"}
    MaxFaults = 1
    AdminOps = {}
    MaxNow = 1
SPECIFICATION Spec
SYMMETRY WorkerSymmetry
INVARIANTS EventInTime  DuplicatesNeedFaults
PROPERTY FinalIsFinal
CHECK_DEADLOCK FALSE
