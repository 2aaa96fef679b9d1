CONSTANTS
    c1 = c1
    c2 = c2
    l1 = l1
    r1 = r1
    r2 = r2
    Clients = {c1, c2}
    Requests = {r1, r2}
    Locks = {l1}
    LockDuration = 1
    Period = 2
    RateCount = 1
    MaxNow = 3
SPECIFICATION Spec
SYMMETRY Symmetry
INVARIANTS MutualExclusion RateIsKept CountersArePurgeable
PROPERTY ImplementsLeases
