----------------------------- MODULE MailQueue -----------------------------
(***************************************************************************)
(* The life of one queued message in the shared store: the spool           *)
(* operations of crates/smtp/src/queue/spool.rs, the delivery task of      *)
(* crates/smtp/src/outbound/delivery.rs, the delivery status notifications *)
(* of queue/dsn.rs, the quotas of queue/quota.rs, and the administrator's  *)
(* edits of crates/jmap/src/registry/mapping/queued_message.rs.            *)
(*                                                                         *)
(* A message has recipients in several virtual queues.  The store holds    *)
(* the message, one event key per (due, queue), the quota counters and one *)
(* lock per (message, queue); every batch written is atomic, and nothing   *)
(* else is: workers and administrators act on snapshots read earlier.      *)
(* When a worker starts is left open (any due event, at any time), which   *)
(* is more than the scheduler of module QueueManager does.                 *)
(***************************************************************************)
EXTENDS Integers, Sequences, FiniteSets, FiniteSetsExt

CONSTANTS
    NumRcpts,     \* recipients are numbered, as in Message::recipients
    Queues,       \* virtual queue names
    Strategies,   \* [recipient -> queues the queue strategy may choose]
    DomainOf,     \* [recipient -> domain], for the per-domain quotas
    Quotas,       \* the quota kinds configured: "sender", "domain", "rcpt"
    Expiry,       \* QueueExpiry: [kind |-> "Ttl" or "Attempts", n |-> value]
    RetryAfter,   \* the retry interval
    NotifyAfter,  \* intervals until the delay notifications, a sequence
    ReturnPaths,  \* the return paths: "null", "user"
    Workers,      \* delivery tasks of any node
    Faults,       \* faults that may occur: "save", "read", "crash", "overrun"
    MaxFaults,    \* bound: how many of them, each at most once
    AdminOps,     \* administrator requests made: "cancel", "retry", "destroy"
    MaxNow        \* bound: the clock stops here

Rcpts == 1..NumRcpts
NEVER == MaxNow + 100   \* u64::MAX
NoWorker == "none"

ASSUME RcptsAssumption == NumRcpts \in Nat \ {0}
ASSUME StrategiesAssumption == Strategies \in [Rcpts -> SUBSET Queues \ {{}}]
ASSUME ExpiryAssumption ==
    Expiry.kind \in {"Ttl", "Attempts"} /\ Expiry.n \in Nat \ {0}
ASSUME TimeAssumption == RetryAfter \in Nat \ {0} /\ MaxNow \in Nat
ASSUME PathsAssumption == ReturnPaths \subseteq {"null", "user"}
ASSUME WorkersAssumption == NoWorker \notin Workers
ASSUME NotifyAssumption == NotifyAfter \in Seq(Nat) /\ Len(NotifyAfter) > 0
ASSUME AdminAssumption == AdminOps \subseteq {"cancel", "retry", "destroy"}

VARIABLES
    now,        \* seconds since the message was created
    path,       \* Message::return_path, which never changes
    stored,     \* QueueClass::Message: the archived message, or Gone
    events,     \* QueueClass::MessageEvent keys <<due, queue>>
    used,       \* QuotaCount counters: what this message contributes
    lock,       \* KV_LOCK_QUEUE_MESSAGE, per queue: its holder or NoWorker
    task,       \* delivery tasks
    admin,      \* the administrator's request in progress
    adminLeft,  \* requests not made yet
    faults,     \* history: the faults that have occurred
    delivered,  \* history: successful transfers per recipient
    bounced,    \* history: failure notifications queued per recipient
    removed     \* history: how the message left the queue, "no" while it has not

vars == <<now, path, stored, events, used, lock, task, admin, adminLeft, faults,
          delivered, bounced, removed>>

-----------------------------------------------------------------------------
(* The message and the functions on it.                                    *)

Gone == [rcpts |-> <<>>, meta |-> {}]
Exists(msg) == msg # Gone

Pending(x) == x.st \in {"Scheduled", "TempFail"}
Final(x) == ~Pending(x)

\* Recipient::expiration_time and is_expired; the message was created at 0.
ExpirationTime == IF Expiry.kind = "Ttl" THEN {Expiry.n} ELSE {}
IsExpired(x, time) ==
    IF Expiry.kind = "Ttl" THEN Expiry.n <= time ELSE x.inner >= Expiry.n

\* Mutant: a temporary failure counts as an end.
HasPending_Scheduled(msg) == \E r \in Rcpts : msg.rcpts[r].st = "Scheduled"

PendingIn(msg, q) == {r \in Rcpts : Pending(msg.rcpts[r]) /\ msg.rcpts[r].queue = q}
HasPending(msg) == \E r \in Rcpts : Pending(msg.rcpts[r])

Earliest(x) == Min({x.due, x.notify} \cup ExpirationTime)

\* Mutant: only the retry time counts.
NextEvents_RetryOnly(msg) ==
    {<<Min({msg.rcpts[r].due : r \in PendingIn(msg, q)}), q>> :
        q \in {p \in Queues : PendingIn(msg, p) # {}}}

\* Message::next_events.
NextEvents(msg) ==
    {<<Min({Earliest(msg.rcpts[r]) : r \in PendingIn(msg, q)}), q>> :
        q \in {p \in Queues : PendingIn(msg, p) # {}}}

\* The metadata ids has_quota gives a message: 0 for the sender, one per
\* recipient, and one for the first recipient of each domain.
QuotaIds ==
    (IF "sender" \in Quotas THEN {<<"sender", 0>>} ELSE {}) \cup
    (IF "rcpt" \in Quotas THEN {<<"rcpt", r>> : r \in Rcpts} ELSE {}) \cup
    (IF "domain" \in Quotas
       THEN {<<"domain", r>> : r \in {s \in Rcpts :
                \A t \in Rcpts : t < s => DomainOf[t] # DomainOf[s]}}
       ELSE {})

\* release_quota: the entries of recipients that are done, and of the domain
\* of the first of them.
ReleasedQuota(msg) ==
    LET done == {r \in Rcpts : Final(msg.rcpts[r])}
        first == {r \in done : \A t \in done : t < r => DomainOf[t] # DomainOf[r]}
    IN  msg.meta \cap ({<<"rcpt", r>> : r \in done} \cup
                       {<<"domain", r>> : r \in first})

Subtract(counters, ids) ==
    [id \in QuotaIds |-> IF id \in ids THEN counters[id] - 1 ELSE counters[id]]

\* has_pending_delivery: recipients of every queue that reached their
\* expiration are failed.
Expire(msg, time) ==
    [msg EXCEPT !.rcpts = [r \in Rcpts |->
        IF Pending(msg.rcpts[r]) /\ IsExpired(msg.rcpts[r], time)
          THEN [msg.rcpts[r] EXCEPT !.st = "PermFail"] ELSE msg.rcpts[r]]]

\* Mutant: recipients are not marked as notified.
Notified_NoFlag(msg, time) ==
    [msg EXCEPT !.rcpts = [r \in Rcpts |->
        IF Pending(@[r]) /\ @[r].notify <= time
          THEN [@[r] EXCEPT !.notify = NEVER] ELSE @[r]]]

\* build_dsn or handle_double_bounce, and update_next_dsn.
Notified(msg, time) ==
    LET Later(x) ==
          IF path = "user"
            THEN IF x.sent + 1 < Len(NotifyAfter)
                   THEN [x EXCEPT !.sent = @ + 1,
                                  !.notify = time + NotifyAfter[x.sent + 2]]
                   ELSE [x EXCEPT !.notify = NEVER]
            ELSE [x EXCEPT !.notify = Min({e + 10 : e \in ExpirationTime}
                                            \cup {NEVER})]
    IN  [msg EXCEPT !.rcpts = [r \in Rcpts |->
          LET x == msg.rcpts[r]
          IN  IF x.st = "PermFail" \/ (x.st = "Completed" /\ path = "user")
                THEN [x EXCEPT !.dsn = TRUE]
                ELSE IF Pending(x) /\ x.notify <= time THEN Later(x) ELSE x]]

\* The recipients the notification of send_dsn reports as failed.
Bounces(msg) ==
    IF path = "null" THEN {}
    ELSE {r \in Rcpts : msg.rcpts[r].st = "PermFail" /\ ~msg.rcpts[r].dsn}

Count(counts, S) == [r \in Rcpts |-> counts[r] + IF r \in S THEN 1 ELSE 0]

-----------------------------------------------------------------------------
IdleTask == [pc |-> "idle"]
Resting == [pc |-> "idle"]

Fresh(assign) ==
    [rcpts |-> [r \in Rcpts |-> [st |-> "Scheduled", queue |-> assign[r], due |-> 0,
                                 inner |-> 0, notify |-> NotifyAfter[1], sent |-> 0,
                                 dsn |-> FALSE]],
     meta |-> QuotaIds]

\* MessageWrapper::queue: quota, events and message in one batch.
Init ==
    /\ now = 0
    /\ path \in ReturnPaths
    /\ \E assign \in [Rcpts -> Queues] :
         /\ \A r \in Rcpts : assign[r] \in Strategies[r]
         /\ stored = Fresh(assign)
    /\ events = NextEvents(stored)
    /\ used = [id \in QuotaIds |-> 1]
    /\ lock = [q \in Queues |-> NoWorker]
    /\ task = [w \in Workers |-> IdleTask]
    /\ admin = Resting
    /\ adminLeft = AdminOps
    /\ faults = {}
    /\ delivered = [r \in Rcpts |-> 0]
    /\ bounced = [r \in Rcpts |-> 0]
    /\ removed = "no"

Tick ==
    /\ now < MaxNow
    /\ now' = now + 1
    /\ UNCHANGED <<path, stored, events, used, lock, task, admin, adminLeft, faults,
                   delivered, bounced, removed>>

Fault(kind) ==
    /\ kind \in Faults \ faults /\ Cardinality(faults) < MaxFaults
    /\ faults' = faults \cup {kind}

-----------------------------------------------------------------------------
(* try_deliver and deliver_task.                                           *)

\* Mutant: the lock is not looked at.
TryLock_Always(w, ev) ==
    /\ task[w] = IdleTask
    /\ ev \in events /\ ev[1] <= now
    /\ lock' = [lock EXCEPT ![ev[2]] = w]
    /\ task' = [task EXCEPT ![w] = [pc |-> "read", ev |-> ev]]
    /\ UNCHANGED <<now, path, stored, events, used, admin, adminLeft, faults,
                   delivered, bounced, removed>>

\* A dispatched task wins the lock of its event.  One that does not only
\* reports Locked.
TryLock(w, ev) ==
    /\ task[w] = IdleTask
    /\ ev \in events /\ ev[1] <= now
    /\ lock[ev[2]] = NoWorker
    /\ lock' = [lock EXCEPT ![ev[2]] = w]
    /\ task' = [task EXCEPT ![w] = [pc |-> "read", ev |-> ev]]
    /\ UNCHANGED <<now, path, stored, events, used, admin, adminLeft, faults,
                   delivered, bounced, removed>>

\* read_message finds nothing.
ReadNothing(w) ==
    /\ task[w].pc = "read"
    /\ ~Exists(stored)
    /\ task' = [task EXCEPT ![w].pc = "clear"]
    /\ UNCHANGED <<now, path, stored, events, used, lock, admin, adminLeft, faults,
                   delivered, bounced, removed>>

\* read_message maps a store error to the same answer.
ReadFails(w) ==
    /\ task[w].pc = "read"
    /\ Fault("read")
    /\ task' = [task EXCEPT ![w].pc = "clear"]
    /\ UNCHANGED <<now, path, stored, events, used, lock, admin, adminLeft,
                   delivered, bounced, removed>>

\* "Message no longer exists, delete queue event."
ClearEvent(w) ==
    /\ task[w].pc = "clear"
    /\ events' = events \ {task[w].ev}
    /\ task' = [task EXCEPT ![w].pc = "unlock"]
    /\ UNCHANGED <<now, path, stored, used, lock, admin, adminLeft, faults,
                   delivered, bounced, removed>>

Working(w, pc, msg, multi) ==
    [pc |-> pc, ev |-> task[w].ev, msg |-> msg, multi |-> multi]

\* read_message, has_pending_delivery, send_dsn, and the decision whether
\* there is anything to deliver now.
Read(w) ==
    LET q == task[w].ev[2]
        multi == \E r \in Rcpts : Pending(stored.rcpts[r]) /\ stored.rcpts[r].queue # q
        expired == Expire(stored, now)
        msg == Notified(expired, now)
        isDue == \E r \in PendingIn(msg, q) : msg.rcpts[r].due <= now
        pc == CASE ~HasPending(msg) -> "remove"
                [] HasPending(msg) /\ isDue -> "attempt"
                [] OTHER -> "save"
    IN  /\ task[w].pc = "read"
        /\ Exists(stored)
        /\ bounced' = Count(bounced, Bounces(expired))
        /\ task' = [task EXCEPT ![w] = Working(w, pc, msg, multi)]
        /\ UNCHANGED <<now, path, stored, events, used, lock, admin, adminLeft,
                       faults, delivered, removed>>

\* The recipients a delivery attempt is for.
Targets(w) ==
    {r \in PendingIn(task[w].msg, task[w].ev[2]) : task[w].msg.rcpts[r].due <= now}

\* A sender throttle postpones them all.
Throttle(w, retryAt) ==
    LET Put(x) == [x EXCEPT !.st = "TempFail", !.due = retryAt]
        msg == [task[w].msg EXCEPT !.rcpts = [r \in Rcpts |->
                  IF r \in Targets(w) THEN Put(@[r]) ELSE @[r]]]
    IN  /\ task[w].pc = "attempt"
        /\ task' = [task EXCEPT ![w] = Working(w, "save", msg, task[w].multi)]
        /\ UNCHANGED <<now, path, stored, events, used, lock, admin, adminLeft,
                       faults, delivered, bounced, removed>>

Outcomes == {"Completed", "PermFail", "TempFail", "RateLimited"}

\* Mutant: a rate limit is recorded as the recipient's status.
SetStatus_RateLimited(x, outcome, q) ==
    IF outcome = "TempFail"
      THEN [x EXCEPT !.st = outcome, !.due = now + RetryAfter, !.inner = @ + 1,
                     !.queue = q]
      ELSE [x EXCEPT !.st = outcome]

\* set_rcpt_status and set_rcpt_rate_limit.
SetStatus(x, outcome, q) ==
    CASE outcome \in {"Completed", "PermFail"} -> [x EXCEPT !.st = outcome]
      [] outcome = "TempFail" ->
           [x EXCEPT !.st = outcome, !.due = now + RetryAfter, !.inner = @ + 1,
                     !.queue = q]
      [] outcome = "RateLimited" ->
           [x EXCEPT !.st = "TempFail", !.due = now + RetryAfter]

\* The attempt: every route answers for its recipients, the results are
\* applied, notifications are sent, and the message is kept or dropped.
Attempt(w, outcome, strategy) ==
    LET tried == [task[w].msg EXCEPT !.rcpts = [r \in Rcpts |->
                    IF r \in Targets(w) THEN SetStatus(@[r], outcome[r], strategy[r])
                                        ELSE @[r]]]
        msg == Notified(tried, now)
    IN  /\ task[w].pc = "attempt"
        /\ delivered' = Count(delivered, {r \in Targets(w) : outcome[r] = "Completed"})
        /\ bounced' = Count(bounced, Bounces(tried))
        /\ task' = [task EXCEPT ![w] =
                      Working(w, IF HasPending(msg) THEN "save" ELSE "remove",
                              msg, task[w].multi)]
        /\ UNCHANGED <<now, path, stored, events, used, lock, admin, adminLeft,
                       faults, removed>>

\* Mutant: the snapshot overwrites the stored message.
Merge_Overwrites(cur, new, q) == [cur EXCEPT !.rcpts = new.rcpts]

\* The merge function: recipients that are (still) in this task's queue
\* replace the stored ones.
Merge(cur, new, q) ==
    [cur EXCEPT !.rcpts = [r \in Rcpts |->
        IF new.rcpts[r].queue = q THEN new.rcpts[r] ELSE cur.rcpts[r]]]

\* Mutants: the next events are not written; what is released stays in the
\* metadata.
Save_NoEvents(w) ==
    /\ task[w].pc = "save"
    /\ task[w].multi => Exists(stored)
    /\ used' = Subtract(used, ReleasedQuota(task[w].msg))
    /\ events' = events \ {task[w].ev}
    /\ stored' = IF task[w].multi THEN Merge(stored, task[w].msg, task[w].ev[2])
                                  ELSE task[w].msg
    /\ task' = [task EXCEPT ![w] = [pc |-> "unlock", ev |-> @.ev]]
    /\ UNCHANGED <<now, path, lock, admin, adminLeft, faults, delivered, bounced,
                   removed>>
Save_KeepsMetadata(w) ==
    /\ task[w].pc = "save"
    /\ used' = Subtract(used, ReleasedQuota(task[w].msg))
    /\ events' = (events \ {task[w].ev}) \cup NextEvents(task[w].msg)
    /\ stored' = task[w].msg
    /\ task' = [task EXCEPT ![w] = [pc |-> "unlock", ev |-> @.ev]]
    /\ UNCHANGED <<now, path, lock, admin, adminLeft, faults, delivered, bounced,
                   removed>>

\* save_changes: one batch.
Save(w) ==
    LET msg == task[w].msg
        q == task[w].ev[2]
        freed == ReleasedQuota(msg)
        slim == [msg EXCEPT !.meta = @ \ freed]
    IN  /\ task[w].pc = "save"
        /\ task[w].multi => Exists(stored)
        /\ used' = Subtract(used, freed)
        /\ events' = (events \ {task[w].ev}) \cup NextEvents(msg)
        /\ stored' = IF task[w].multi THEN Merge(stored, slim, q) ELSE slim
        /\ task' = [task EXCEPT ![w] = [pc |-> "unlock", ev |-> @.ev]]
        /\ UNCHANGED <<now, path, lock, admin, adminLeft, faults, delivered, bounced,
                       removed>>

\* remove: one batch.
Remove(w) ==
    /\ task[w].pc = "remove"
    /\ used' = Subtract(used, task[w].msg.meta)
    /\ events' = events \ {task[w].ev}
    /\ stored' = Gone
    /\ removed' = IF removed = "no" THEN "done" ELSE removed
    /\ task' = [task EXCEPT ![w] = [pc |-> "unlock", ev |-> @.ev]]
    /\ UNCHANGED <<now, path, lock, admin, adminLeft, faults, delivered, bounced>>

\* The batch is rejected: by the merge function because the message is gone,
\* or by a store error.  The task carries on all the same.
WriteFails(w) ==
    /\ task[w].pc \in {"save", "remove"}
    /\ \/ task[w].pc = "save" /\ task[w].multi /\ ~Exists(stored)
          /\ UNCHANGED faults
       \/ Fault("save")
    /\ task' = [task EXCEPT ![w] = [pc |-> "unlock", ev |-> @.ev]]
    /\ UNCHANGED <<now, path, stored, events, used, lock, admin, adminLeft, delivered,
                   bounced, removed>>

\* unlock_event deletes the lock, whoever holds it.
Unlock(w) ==
    /\ task[w].pc = "unlock"
    /\ lock' = [lock EXCEPT ![task[w].ev[2]] = NoWorker]
    /\ task' = [task EXCEPT ![w] = IdleTask]
    /\ UNCHANGED <<now, path, stored, events, used, admin, adminLeft, faults,
                   delivered, bounced, removed>>

\* The node crashes: the task is gone, its lock stays.
Crash(w) ==
    /\ task[w] # IdleTask
    /\ Fault("crash")
    /\ task' = [task EXCEPT ![w] = IdleTask]
    /\ UNCHANGED <<now, path, stored, events, used, lock, admin, adminLeft, delivered,
                   bounced, removed>>

\* The lease of LOCK_EXPIRY seconds ends: after a crash, or, as a fault,
\* under a delivery that takes longer.
LockExpires(q) ==
    /\ lock[q] # NoWorker
    /\ \/ task[lock[q]] = IdleTask /\ UNCHANGED faults
       \/ task[lock[q]] # IdleTask /\ Fault("overrun")
    /\ lock' = [lock EXCEPT ![q] = NoWorker]
    /\ UNCHANGED <<now, path, stored, events, used, task, admin, adminLeft, delivered,
                   bounced, removed>>

-----------------------------------------------------------------------------
(* The administrator's requests: read, then write, without the lock.       *)

AdminRead(op, target) ==
    LET Edit(x) == CASE op = "cancel" -> [x EXCEPT !.st = "PermFail"]
                     [] op = "retry" -> [x EXCEPT !.st = "Scheduled", !.due = now]
                     [] op = "destroy" -> x
        msg == [stored EXCEPT !.rcpts = [r \in Rcpts |->
                  IF r \in target THEN Edit(@[r]) ELSE @[r]]]
    IN  /\ admin = Resting /\ op \in adminLeft
        /\ op = "destroy" => target = Rcpts
        /\ Exists(stored)
        /\ admin' = [pc |-> "write", op |-> op, target |-> target,
                     prev |-> NextEvents(stored), msg |-> msg]
        /\ adminLeft' = adminLeft \ {op}
        /\ UNCHANGED <<now, path, stored, events, used, lock, task, faults, delivered,
                       bounced, removed>>

\* Mutant: the events of the edited message are not written.
AdminSave_NoEvents ==
    /\ admin.pc = "write" /\ admin.op # "destroy"
    /\ HasPending(admin.msg) /\ Exists(stored)
    /\ used' = Subtract(used, ReleasedQuota(admin.msg))
    /\ events' = events \ admin.prev
    /\ stored' = [stored EXCEPT !.rcpts = [r \in Rcpts |->
          IF r \in admin.target THEN admin.msg.rcpts[r] ELSE @[r]]]
    /\ admin' = Resting
    /\ UNCHANGED <<now, path, lock, task, adminLeft, faults, delivered, bounced, removed>>

\* save_registry_changes: only the modified recipients are merged.
AdminSave ==
    LET freed == ReleasedQuota(admin.msg)
    IN  /\ admin.pc = "write" /\ admin.op # "destroy"
        /\ HasPending(admin.msg) /\ Exists(stored)
        /\ used' = Subtract(used, freed)
        /\ events' = (events \ admin.prev) \cup NextEvents(admin.msg)
        /\ stored' = [stored EXCEPT !.rcpts = [r \in Rcpts |->
              IF r \in admin.target THEN admin.msg.rcpts[r] ELSE @[r]]]
        /\ admin' = Resting
        /\ UNCHANGED <<now, path, lock, task, adminLeft, faults, delivered, bounced,
                       removed>>

\* remove_registry, and remove without a previous event.
AdminRemove ==
    /\ admin.pc = "write"
    /\ admin.op = "destroy" \/ ~HasPending(admin.msg)
    /\ used' = Subtract(used, admin.msg.meta)
    /\ events' = events \ admin.prev
    /\ stored' = Gone
    /\ removed' = IF removed = "no" THEN "admin" ELSE removed
    /\ admin' = Resting
    /\ UNCHANGED <<now, path, lock, task, adminLeft, faults, delivered, bounced>>

\* The batch is rejected: the merge function finds the message gone, or the
\* store fails.  The administrator is told so.
AdminWriteFails ==
    /\ admin.pc = "write"
    /\ \/ /\ admin.op # "destroy" /\ HasPending(admin.msg) /\ ~Exists(stored)
          /\ UNCHANGED faults
       \/ Fault("save")
    /\ admin' = Resting
    /\ UNCHANGED <<now, path, stored, events, used, lock, task, adminLeft, delivered,
                   bounced, removed>>

-----------------------------------------------------------------------------
TaskStep(w) ==
    \/ ReadNothing(w) \/ ClearEvent(w) \/ Read(w)
    \/ Throttle(w, now + RetryAfter)
    \/ /\ task[w].pc = "attempt"
       /\ \E outcome \in [Targets(w) -> Outcomes],
             strategy \in [Targets(w) -> Queues] :
            /\ \A r \in Targets(w) : strategy[r] \in Strategies[r]
            /\ Attempt(w, outcome, strategy)
    \/ Save(w) \/ Remove(w)
    \/ WriteFails(w)
    \/ Unlock(w)

Next ==
    \/ Tick
    \/ \E w \in Workers, ev \in events : TryLock(w, ev)
    \/ \E w \in Workers : TaskStep(w) \/ ReadFails(w) \/ Crash(w)
    \/ \E q \in Queues : LockExpires(q)
    \/ \E op \in AdminOps, target \in SUBSET Rcpts \ {{}} : AdminRead(op, target)
    \/ AdminSave
    \/ AdminRemove
    \/ AdminWriteFails

Spec == Init /\ [][Next]_vars

(***************************************************************************)
(* Fairness: the clock runs, tasks run to their end, leases of dead tasks  *)
(* expire, and each queue's due events are dispatched again and again      *)
(* (DueEventIsProcessed of module QueueManager).                           *)
(***************************************************************************)
Fairness ==
    /\ WF_vars(Tick)
    /\ \A w \in Workers : WF_vars(TaskStep(w))
    /\ \A q \in Queues :
         /\ WF_vars(LockExpires(q))
         /\ SF_vars(\E w \in Workers : \E ev \in events : ev[2] = q /\ TryLock(w, ev))

FairSpec == Spec /\ Fairness

-----------------------------------------------------------------------------
(* Properties.                                                             *)

TypeOK ==
    /\ now \in 0..MaxNow /\ path \in ReturnPaths
    /\ Exists(stored) => /\ \A r \in Rcpts :
                               /\ stored.rcpts[r].queue \in Strategies[r]
                               /\ stored.rcpts[r].st \in
                                    {"Scheduled", "TempFail", "Completed", "PermFail"}
                         /\ stored.meta \subseteq QuotaIds
    /\ \A ev \in events : ev[1] \in Nat /\ ev[2] \in Queues
    /\ used \in [QuotaIds -> Int]
    /\ lock \in [Queues -> Workers \cup {NoWorker}]
    /\ \A w \in Workers :
         task[w].pc \in {"idle", "read", "clear", "attempt", "save", "remove", "unlock"}
    /\ faults \subseteq Faults

\* No read of the message has failed, and no delivery has outlived its lock.
Readable == "read" \notin faults
Leased == "overrun" \notin faults

\* A message in the store always has an event key, without which no scan would
\* find it again, and each recipient that waits has one in its own queue no
\* later than the moment it should be looked at: whatever snapshots the tasks
\* that rewrite the keys worked from.  The exception to the second part is a
\* recipient that a retry may move to another queue, whose move the merge does
\* not store.
EventInTime ==
    Readable /\ Leased /\ Exists(stored) =>
        /\ events # {}
        /\ \A r \in Rcpts :
              LET x == stored.rcpts[r]
              IN  Pending(x) /\ Cardinality(Strategies[r]) = 1 =>
                    \E ev \in events : ev[2] = x.queue /\ ev[1] <= Earliest(x)

\* When delivery tasks drop a message, each recipient has got it or its
\* sender has been told that it did not: whatever has failed before.
NoSilentLoss ==
    removed = "done" /\ path = "user" =>
        \A r \in Rcpts : delivered[r] > 0 \/ bounced[r] > 0

\* A recipient gets a message again only because a fault kept the result of
\* a transfer from being stored: once per fault.
DuplicatesNeedFaults ==
    Leased => \A r \in Rcpts : delivered[r] <= 1 + Cardinality(faults)

\* A recipient that is done (delivered or failed) is never put back to
\* waiting by a task that read the message earlier and still has its lock.
FinalIsFinal ==
    [][Leased /\ Exists(stored) /\ Exists(stored') => \A r \in Rcpts :
          Final(stored.rcpts[r]) => stored'.rcpts[r].st = stored.rcpts[r].st]_vars

\* The sender gets one failure notification per recipient, and another only
\* because of a fault, which is what the flag RCPT_DSN_SENT is for.
OneFailureNotice ==
    Leased => \A r \in Rcpts : bounced[r] <= 1 + Cardinality(faults)

\* A message that was dropped is not written back by a task that still had
\* it in memory.
RemovedStaysRemoved == Leased /\ removed # "no" => ~Exists(stored)

\* The counters hold one unit for each quota entry of the stored message,
\* and nothing once it is gone: each reservation is released exactly once.
QuotaExact ==
    Leased => \A id \in QuotaIds :
        used[id] = IF Exists(stored) /\ id \in stored.meta THEN 1 ELSE 0

\* "Release quota for completed deliveries" and "Release all quotas" never
\* release more than "Reserve quotas" reserved.  Recipients in two queues
\* break it: the merge does not store that their entries were released.
QuotaNotOverReleased == \A id \in QuotaIds : used[id] >= 0

\* A task deletes its event as stale only when the message no longer exists.
ClearedOnlyWhenGone ==
    \A w \in Workers : task[w].pc = "clear" => ~Exists(stored)

\* Every message leaves the queue, delivered, bounced or expired, in spite of
\* crashes and failed writes.
MessageLeavesQueue ==
    Exists(stored) ~> (~Exists(stored) \/ ~Readable \/ ~Leased)
=============================================================================
