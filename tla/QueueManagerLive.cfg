CONSTANTS
    e1 = e1
    e2 = e2
    q1 = q1
    s1 = s1
    s2 = s2
    Events = {e1, e2}
    Queues = {q1}
    QueueOf <- MCQueueOf
    NoJob = NoJob
    Slots = {s1}
    RemoteEvents = {e1}
    AdminEvents = {}
    Threads = {1}
    QUEUE_REFRESH = 1
    LOCK_EXPIRY = 1
    LOCKED_WAIT = 2
    PAUSE_SLEEP = 2
    MaxDelay = 1
SPECIFICATION FairSpec
PROPERTY DueEventIsProcessed
