CONSTANTS
    e1 = e1
    e2 = e2
    q1 = q1
    s1 = s1
    s2 = s2
    Events = {e1, e2}
    Queues = {q1}
    QueueOf <- MCQueueOf
    NoJob = NoJob
    Slots = {s1, s2}
    RemoteEvents = {}
    AdminEvents = {"Paused", "Reload", "Stop"}
    Threads = {1, 2}
    QUEUE_REFRESH = 2
    LOCK_EXPIRY = 2
    LOCKED_WAIT = 3
    PAUSE_SLEEP = 3
    MaxDelay = 1
SPECIFICATION Spec
SYMMETRY Symmetry
INVARIANTS TypeOK InFlightIsExact InfiniteLockIsBacked PunctualWakeup
CHECK_DEADLOCK FALSE
