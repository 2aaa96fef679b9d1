CONSTANTS
    n1 = n1
    n2 = n2
    Nodes = {n1, n2}
    Serving = {n1, n2}
    NumIds = 1
    CHANNEL = 1
    BatchSize = 1
    LOCK_EXPIRY = 1
    REFRESH = 1
    MaxAttempts = 1
    Deadline = 1
    Delays = {1}
    Outcomes = {"Success", "Update", "Temporary", "Permanent"}
    Faults = {"crash", "overrun"}
    MaxFaults = 1
    AdminOps = {}
    MaxNow = 3
SPECIFICATION Spec
SYMMETRY NodeSymmetry
INVARIANTS TaskHasItsDueKey NotBeforeDueUnlessOvertaken OneWorkerPerTask
CHECK_DEADLOCK FALSE
