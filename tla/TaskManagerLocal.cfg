CONSTANTS
    n1 = n1
    n2 = n2
    Nodes = {n1}
    Serving = {n1}
    NumIds = 2
    CHANNEL = 1
    BatchSize = 2
    LOCK_EXPIRY = 1
    REFRESH = 5
    MaxAttempts = 1
    Deadline = 2
    Delays = {1}
    Outcomes = {"Success", "Chain", "Retry"}
    Faults = {"scan", "lock", "read", "write"}
    MaxFaults = 1
    AdminOps = {"update", "destroy"}
    MaxNow = 2
SPECIFICATION FairSpec
INVARIANTS TypeOK TaskHasItsDueKey KeysAreExact
 
CHECK_DEADLOCK FALSE
