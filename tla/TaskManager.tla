---------------------------- MODULE TaskManager ----------------------------
(***************************************************************************)
(* The background task queue of crates/services/src/task_manager: a task   *)
(* record and a due key per task in the shared store, a manager per node   *)
(* that scans the due keys and hands jobs to the worker of the task's type *)
(* over a bounded channel, the worker that runs them and records the       *)
(* outcome, and the administrator's edits of                               *)
(* crates/jmap/src/registry/mapping/task.rs.                               *)
(*                                                                         *)
(* Two locks keep a task from being run twice: an entry of the manager's   *)
(* own map `locked', and a lock with a time to live in the in-memory store *)
(* that all nodes share.  A batch written to the store is atomic; between  *)
(* a scan, a lock, a read and a write anything may happen.                 *)
(*                                                                         *)
(* The tasks of a model are of one type: every type has its own channel    *)
(* and worker.  BatchSize is 1 for all types but the indexing ones.        *)
(***************************************************************************)
EXTENDS Integers, Sequences, FiniteSets, FiniteSetsExt, SequencesExt

CONSTANTS
    Nodes,          \* the nodes of the cluster
    Serving,        \* the nodes whose roles enable the type
    NumIds,         \* bound: tasks ever scheduled
    CHANNEL,        \* channel capacity
    BatchSize,      \* index_batch_size, or 1
    LOCK_EXPIRY,    \* DEFAULT_LOCK_EXPIRY
    REFRESH,        \* QUEUE_REFRESH_INTERVAL, or REFRESH_INTERVAL in a cluster
    MaxAttempts,    \* TaskManager::max_attempts
    Deadline,       \* TaskManager::total_deadline
    Delays,         \* what the retry strategy may return
    Outcomes,       \* kinds of TaskResult the type may return
    Faults,         \* faults that may occur, each at most once
    MaxFaults,      \* bound: how many of them
    AdminOps,       \* requests the administrator may make: "update", "destroy"
    MaxNow          \* bound: the clock stops here

Ids == 1..NumIds
NEVER == MaxNow + 100   \* u64::MAX

ASSUME NodesAssumption == Serving \subseteq Nodes /\ Serving # {}
ASSUME SizesAssumption ==
    /\ NumIds \in Nat \ {0} /\ CHANNEL \in Nat \ {0} /\ BatchSize \in Nat \ {0}
    /\ MaxAttempts \in Nat /\ MaxNow \in Nat \ {0}
ASSUME TimeAssumption ==
    /\ LOCK_EXPIRY \in Nat \ {0} /\ REFRESH \in Nat \ {0} /\ Deadline \in Nat
    /\ \A d \in Delays : d \in 0..50
ASSUME AdminAssumption == AdminOps \subseteq {"update", "destroy"}

VARIABLES
    now,       \* the clock
    task,      \* TaskQueueClass::Task
    due,       \* TaskQueueClass::Due: keys <<due, id>>
    lock,      \* KV_LOCK_TASK: when the lock of a task expires, 0 if it is free
    locked,    \* TaskManagerIpc::locked, per node
    mgr,       \* the manager of each node
    chan,      \* the channel of each node
    wrk,       \* the worker of each node
    admin,     \* the administrator's request in progress
    asked,     \* bound: the administrator makes at most one request
    used,      \* ids assigned so far
    odd        \* history: faults and overtakings that have occurred

vars == <<now, task, due, lock, locked, mgr, chan, wrk, admin, asked,
          used, odd>>

-----------------------------------------------------------------------------
(* Task records.  `since' is the time the deadline is counted from.        *)

NoTask == [st |-> "none", due |-> NEVER, attempt |-> 0, since |-> 0]
NewTask(d) == [st |-> "Pending", due |-> d, attempt |-> 0, since |-> now]
Exists(i) == task[i] # NoTask

NoLock == [expires |-> 0, due |-> 0]
Asleep(t) == [pc |-> "sleep", wake |-> t, permit |-> FALSE,
              jobs |-> {}, seen |-> {}, next |-> 0]
Idle == [pc |-> "idle", batch |-> <<>>, refresh |-> FALSE]
NoRequest == [pc |-> "idle", id |-> 0, task |-> NoTask]

\* notify_task_queue: Notify::notify_one leaves at most one permit.
Notified(n) == [mgr EXCEPT ![n].permit = TRUE]

\* A fault of kind k happens now.
Fault(k) ==
    /\ k \in Faults \ odd
    /\ Cardinality(odd \cap Faults) < MaxFaults
    /\ odd' = odd \cup {k}

Init ==
    /\ now = 1
    /\ task = [i \in Ids |-> NoTask]
    /\ due = {}
    /\ lock = [i \in Ids |-> 0]
    /\ locked = [n \in Nodes |-> [i \in Ids |-> NoLock]]
    /\ mgr = [n \in Nodes |-> Asleep(1)]
    /\ chan = [n \in Nodes |-> <<>>]
    /\ wrk = [n \in Nodes |-> Idle]
    /\ admin = NoRequest
    /\ asked = FALSE
    /\ used = {}
    /\ odd = {}

\* BatchBuilder::schedule_task: a snowflake id, and a task due at d.
NextId == Cardinality(used) + 1
Schedule(n, d) ==
    /\ NextId \in Ids
    /\ task' = [task EXCEPT ![NextId] = NewTask(d)]
    /\ due' = due \cup {<<d, NextId>>}
    /\ used' = used \cup {NextId}
    /\ mgr' = Notified(n)
    /\ UNCHANGED <<now, lock, locked, chan, wrk, admin, asked, odd>>

-----------------------------------------------------------------------------
(* The manager: one pass of process_tasks.                                 *)

Before(a, b) == a[1] < b[1] \/ (a[1] = b[1] /\ a[2] < b[2])

\* Mutant: keys are taken a second early.
DueKeys_Early(n) == {k \in due : k[1] <= now + 1 /\ n \in Serving}

\* The due keys of a pass, of the types this node serves.
DueKeys(n) == {k \in due : k[1] <= now /\ n \in Serving}

\* The first key that is not due yet, within the range of the scan.
NextEvent ==
    LET later == {k[1] : k \in {x \in due : now < x[1] /\ x[1] <= now + REFRESH}}
    IN  IF later = {} THEN 0 ELSE Min(later)

\* The due times for which a pass that visits `keys' creates a job for i: keys
\* come in ascending order, each job moves the entry's due time forward.
Picked(n, keys, i) ==
    {k[1] : k \in {x \in keys :
        /\ x[2] = i
        /\ locked[n][i].expires <= now \/ locked[n][i].due < x[1]}}

Visit(n, keys, next) ==
    /\ locked' = [locked EXCEPT ![n] = [i \in Ids |->
          IF Picked(n, keys, i) = {} THEN @[i]
          ELSE [expires |-> now + LOCK_EXPIRY + 1, due |-> Max(Picked(n, keys, i))]]]
    /\ mgr' = [mgr EXCEPT ![n] =
          [pc |-> "dispatch", wake |-> 0, permit |-> FALSE, next |-> next,
           seen |-> {k[2] : k \in keys},
           jobs |-> {[id |-> k[2], due |-> k[1]] :
                       k \in {x \in keys : x[1] \in Picked(n, keys, x[2])}}]]

WakesUp(n) == mgr[n].pc = "sleep" /\ (mgr[n].permit \/ mgr[n].wake <= now)

Scan(n) ==
    /\ WakesUp(n)
    /\ Visit(n, DueKeys(n), NextEvent)
    /\ UNCHANGED <<now, task, due, lock, chan, wrk, admin, asked, used, odd>>

\* The iteration ends with an error after some of the keys.
ScanFails(n) ==
    /\ WakesUp(n)
    /\ \E keys \in SUBSET DueKeys(n) :
          /\ \A a \in keys, b \in DueKeys(n) \ keys : Before(a, b)
          /\ Visit(n, keys, 0)
    /\ Fault("scan")
    /\ UNCHANGED <<now, task, due, lock, chan, wrk, admin, asked, used>>

\* Mutant: the lock is taken whether or not it is free.
TryLock_Always(i) == lock' = [lock EXCEPT ![i] = now + LOCK_EXPIRY]

\* Jobs are dispatched in random order.  A channel with room: take the lock of
\* the store and send.  The lock is free although the key is gone when another
\* worker was faster than this pass: "stale".
TryLock(i) == lock[i] <= now /\ lock' = [lock EXCEPT ![i] = now + LOCK_EXPIRY]

Send(n, j) ==
    /\ Len(chan[n]) < CHANNEL
    /\ TryLock(j.id)
    /\ chan' = [chan EXCEPT ![n] = Append(@, j)]
    /\ odd' = IF <<j.due, j.id>> \in due THEN odd ELSE odd \cup {"stale"}
    /\ UNCHANGED locked

LockedByAnother(n, j) ==
    /\ Len(chan[n]) < CHANNEL
    /\ \/ lock[j.id] > now /\ UNCHANGED odd
       \/ Fault("lock")
    /\ UNCHANGED <<lock, locked, chan>>

\* Mutant: the entry of a job that found no room stays.
ChannelFull_KeepsLock(n, j) ==
    /\ Len(chan[n]) >= CHANNEL
    /\ UNCHANGED <<lock, locked, chan, odd>>

ChannelFull(n, j) ==
    /\ Len(chan[n]) >= CHANNEL
    /\ locked' = [locked EXCEPT ![n][j.id] = NoLock]
    /\ UNCHANGED <<lock, chan, odd>>

Dispatch(n) ==
    /\ mgr[n].pc = "dispatch"
    /\ \E j \in mgr[n].jobs :
          /\ mgr' = [mgr EXCEPT ![n].jobs = @ \ {j}]
          /\ Send(n, j) \/ LockedByAnother(n, j) \/ ChannelFull(n, j)
    /\ UNCHANGED <<now, task, due, wrk, admin, asked, used>>

\* The rest of the pass: drop the entries that expired or were not visited,
\* and sleep until the next event.
EndPass(n) ==
    /\ mgr[n].pc = "dispatch" /\ mgr[n].jobs = {}
    /\ locked' = [locked EXCEPT ![n] = [i \in Ids |->
          IF @[i].expires > now /\ i \in mgr[n].seen THEN @[i] ELSE NoLock]]
    /\ mgr' = [mgr EXCEPT ![n] = [Asleep(IF @.next = 0 THEN now + REFRESH
                                          ELSE Max({@.next, now}))
                                    EXCEPT !.permit = mgr[n].permit]]
    /\ UNCHANGED <<now, task, due, lock, chan, wrk, admin, asked, used, odd>>

-----------------------------------------------------------------------------
(* The worker.                                                             *)

\* Receive a job and read its task.  A job whose task is gone, or cannot be
\* read, is dropped and its lock is left to expire.
Take(n) ==
    /\ wrk[n].pc \in {"idle", "fill"}
    /\ chan[n] # <<>> /\ Len(wrk[n].batch) < BatchSize
    /\ LET j == Head(chan[n])
           x == [job |-> j, task |-> task[j.id]]
       IN  \/ /\ Exists(j.id)
              /\ wrk' = [wrk EXCEPT ![n].pc = "fill", ![n].batch = Append(@, x)]
              /\ UNCHANGED odd
           \/ /\ wrk' = [wrk EXCEPT ![n].pc = "fill"]
              /\ IF Exists(j.id) THEN Fault("read") ELSE UNCHANGED odd
    /\ chan' = [chan EXCEPT ![n] = Tail(@)]
    /\ UNCHANGED <<now, task, due, lock, locked, mgr, admin, asked, used>>

\* The batch is full or nothing else waits: run it.
Start(n) ==
    /\ wrk[n].pc = "fill"
    /\ chan[n] = <<>> \/ Len(wrk[n].batch) = BatchSize
    /\ wrk' = [wrk EXCEPT ![n].pc = IF wrk[n].batch = <<>> THEN "unlock" ELSE "run"]
    /\ UNCHANGED <<now, task, due, lock, locked, mgr, chan, admin, asked, used, odd>>

\* TaskResult: its kind, and the delay of a retry, of the next alarm (Update) or
\* of the task a success schedules (Chain).  Ignored is recorded as Success is.
Results ==
    {[kind |-> k, delay |-> d] : k \in Outcomes \ {"Success", "Permanent"}, d \in Delays}
      \cup {[kind |-> k, delay |-> 0] : k \in Outcomes \cap {"Success", "Permanent"}}
IsRetry(r) == r.kind \in {"Update", "Temporary", "Retry"}

\* Mutant: the number of attempts is not limited.
NextRetryTime_NoLimit(t, r) == IF r.kind = "Permanent" THEN NEVER ELSE now + r.delay

\* next_retry_time, and the condition on TaskFailureType::Retry, whose second
\* half compares the retry time with itself; NEVER is None.
NextRetryTime(t, r) ==
    IF \/ t.attempt >= MaxAttempts
       \/ r.kind = "Temporary" /\ now + r.delay > t.since + Deadline
       \/ r.kind = "Retry" /\ now + r.delay >= now + r.delay + Deadline
       \/ r.kind = "Permanent"
    THEN NEVER ELSE now + r.delay

AfterFailure(t, r) ==
    LET at == NextRetryTime(t, r)
    IN  IF at = NEVER
          THEN [st |-> "Failed", due |-> NEVER, attempt |-> t.attempt, since |-> now]
          ELSE [st |-> "Retry", due |-> at, attempt |-> t.attempt + 1, since |-> t.since]

\* Mutant: the due key of the next attempt is forgotten.
Put_NoKey(s, i, t) == [s EXCEPT !.task[i] = t]

\* Mutant: the key a job was found under stays.
Clear_Nothing(s, j) == s

\* A task and its due key are written; the due key of a job is cleared.
Put(s, i, t) == [s EXCEPT !.task[i] = t, !.due = @ \cup {<<t.due, i>>}]
Clear(s, j) == [s EXCEPT !.due = @ \ {<<j.due, j.id>>}]

\* The operations update_tasks adds to its batch for one task, applied to the
\* store s; s.ok becomes FALSE when the assertion that the task exists fails.
Record(s, x, r) ==
    LET i == x.job.id
        k == Cardinality(s.used) + 1
        rest == Clear(s, x.job)
        gone == [rest EXCEPT !.task[i] = NoTask]
    IN  CASE r.kind = "Success" -> gone
          [] r.kind = "Chain"   -> [Put(gone, k, NewTask(now + r.delay))
                                      EXCEPT !.used = @ \cup {k}]
          [] r.kind = "Update"  -> Put(rest, i, NewTask(now + r.delay))
          [] OTHER -> [Put(rest, i, AfterFailure(x.task, r))
                         EXCEPT !.ok = @ /\ s.task[i] # NoTask]

\* The store after the first k tasks of the batch; the last one is written.
Written(batch, res) ==
    LET after[k \in 0..Len(batch)] ==
          IF k = 0 THEN [due |-> due, task |-> task, used |-> used, ok |-> TRUE]
          ELSE Record(after[k - 1], batch[k], res[k])
    IN  after[Len(batch)]

\* update_tasks: one atomic batch for all tasks, all or nothing.
Finish(n) ==
    /\ wrk[n].pc = "run"
    /\ \E res \in [1..Len(wrk[n].batch) -> Results] :
          LET s == Written(wrk[n].batch, res)
          IN  /\ s.used \subseteq Ids
              /\ IF s.ok THEN task' = s.task /\ due' = s.due /\ used' = s.used
                 ELSE UNCHANGED <<task, due, used>>
              /\ wrk' = [wrk EXCEPT ![n].pc = "unlock",
                           ![n].refresh = \E k \in DOMAIN res : IsRetry(res[k])]
    /\ UNCHANGED <<now, lock, locked, mgr, chan, admin, asked, odd>>

WriteFails(n) ==
    /\ wrk[n].pc = "run"
    /\ Fault("write")
    /\ wrk' = [wrk EXCEPT ![n].pc = "unlock"]
    /\ UNCHANGED <<now, task, due, lock, locked, mgr, chan, admin, asked, used>>

\* remove_index_lock deletes the lock whoever holds it.
Unlock(n) ==
    /\ wrk[n].pc = "unlock"
    /\ lock' = [i \in Ids |->
          IF \E x \in Range(wrk[n].batch) : x.job.id = i THEN 0 ELSE lock[i]]
    /\ mgr' = IF wrk[n].refresh \/ chan[n] = <<>> THEN Notified(n) ELSE mgr
    /\ wrk' = [wrk EXCEPT ![n] = Idle]
    /\ UNCHANGED <<now, task, due, locked, chan, admin, asked, used, odd>>

-----------------------------------------------------------------------------
(* The administrator: task_set, one request at a time.                     *)

\* Both requests read the task first; an update takes the lock afterwards.
AdminRead(op) ==
    /\ admin.pc = "idle" /\ ~asked
    /\ \E i \in used : Exists(i) /\ admin' = [pc |-> op, id |-> i, task |-> task[i]]
    /\ asked' = TRUE
    /\ UNCHANGED <<now, task, due, lock, locked, mgr, chan, wrk, used, odd>>

AdminLock ==
    /\ admin.pc = "update"
    /\ \/ TryLock(admin.id) /\ admin' = [admin EXCEPT !.pc = "locked"]
       \/ lock[admin.id] > now /\ admin' = NoRequest /\ UNCHANGED lock
    /\ UNCHANGED <<now, task, due, locked, mgr, chan, wrk, asked, used, odd>>

\* The new status; the due key moves only if the due time read has changed.
AdminWrite(n, d) ==
    /\ admin.pc = "locked"
    /\ LET i == admin.id
       IN  /\ task' = [task EXCEPT ![i] = NewTask(d)]
           /\ due' = IF d = admin.task.due THEN due
                     ELSE (due \ {<<admin.task.due, i>>}) \cup {<<d, i>>}
           /\ lock' = [lock EXCEPT ![i] = 0]
           /\ odd' = IF task[i] = admin.task THEN odd ELSE odd \cup {"edit"}
    /\ mgr' = Notified(n)
    /\ admin' = NoRequest
    /\ UNCHANGED <<now, locked, chan, wrk, asked, used>>

\* The patch is refused or changes nothing: release the lock; or the write
\* fails and the request ends without releasing it.
AdminGivesUp ==
    /\ admin.pc = "locked"
    /\ \/ lock' = [lock EXCEPT ![admin.id] = 0] /\ UNCHANGED odd
       \/ Fault("write") /\ UNCHANGED lock
    /\ admin' = NoRequest
    /\ UNCHANGED <<now, task, due, locked, mgr, chan, wrk, asked, used>>

\* A task is destroyed whether or not it is locked, and its lock is removed.
AdminDestroy(n) ==
    /\ admin.pc = "destroy"
    /\ task' = [task EXCEPT ![admin.id] = NoTask]
    /\ due' = due \ {<<admin.task.due, admin.id>>}
    /\ lock' = [lock EXCEPT ![admin.id] = 0]
    /\ odd' = odd \cup (IF task[admin.id] = admin.task THEN {} ELSE {"edit"})
                  \cup (IF lock[admin.id] > now THEN {"unlocked"} ELSE {})
    /\ mgr' = Notified(n)
    /\ admin' = NoRequest
    /\ UNCHANGED <<now, locked, chan, wrk, asked, used>>

-----------------------------------------------------------------------------
(* Crashes and time.                                                       *)

\* A node restarts: only the store, and the locks in it, survive.
Crash(n) ==
    /\ Fault("crash")
    /\ locked' = [locked EXCEPT ![n] = [i \in Ids |-> NoLock]]
    /\ mgr' = [mgr EXCEPT ![n] = Asleep(now)]
    /\ chan' = [chan EXCEPT ![n] = <<>>]
    /\ wrk' = [wrk EXCEPT ![n] = Idle]
    /\ UNCHANGED <<now, task, due, lock, admin, asked, used>>

\* The jobs whose lock a node believes to hold.
Held == UNION {Range(chan[n]) \cup {x.job : x \in Range(wrk[n].batch)} : n \in Nodes}
Lapsing ==
    \/ \E j \in Held : lock[j.id] = now + 1
    \/ admin.pc = "locked" /\ lock[admin.id] = now + 1

\* The lock of a job may run out before the job is done only as a fault.
Tick ==
    /\ now < MaxNow
    /\ now' = now + 1
    /\ IF Lapsing THEN Fault("overrun") ELSE UNCHANGED odd
    /\ UNCHANGED <<task, due, lock, locked, mgr, chan, wrk, admin, asked, used>>

NodeStep(n) == Scan(n) \/ Dispatch(n) \/ EndPass(n) \/ Take(n) \/ Start(n)
                 \/ Finish(n) \/ Unlock(n)
AdminStep(n) == AdminLock \/ AdminGivesUp \/ AdminDestroy(n)
                 \/ \E d \in {now, now + 1} : AdminWrite(n, d)

Next ==
    \/ Tick
    \/ \E op \in AdminOps : AdminRead(op)
    \/ \E n \in Nodes :
          \/ NodeStep(n)
          \/ ScanFails(n) \/ WriteFails(n) \/ Crash(n)
          \/ AdminStep(n)
          \/ \E d \in {now, now + 1} : Schedule(n, d)

Spec == Init /\ [][Next]_vars

\* Nodes and requests that are not stuck go on, and time passes.
FairSpec ==
    /\ Spec
    /\ WF_vars(Tick)
    /\ \A n \in Nodes : WF_vars(NodeStep(n)) /\ WF_vars(AdminStep(n))

-----------------------------------------------------------------------------
(* Properties.                                                             *)

TypeOK ==
    /\ now \in 1..MaxNow
    /\ \A i \in Ids : task[i].st \in {"none", "Pending", "Retry", "Failed"}
    /\ \A i \in Ids : task[i].attempt \in 0..MaxAttempts
    /\ \A k \in due : k[1] \in 1..NEVER /\ k[2] \in used
    /\ \A n \in Nodes : Len(chan[n]) <= CHANNEL /\ Len(wrk[n].batch) <= BatchSize

DuesOf(i) == {k[1] : k \in {x \in due : x[2] = i}}

\* Whatever fails, and however passes, workers and restarts interleave, a task
\* in the store has its due key: a retry, a crash or a failed batch never
\* leaves a task that no pass will see again.  (An edit based on a task read
\* before a worker changed it can.)
TaskHasItsDueKey ==
    "edit" \notin odd => \A i \in Ids : Exists(i) => task[i].due \in DuesOf(i)

\* A pass was overtaken, a worker lost its lock or an edit used an old read.
Overtaken == odd \cap {"stale", "overrun", "edit", "unlocked"} # {}

\* Otherwise it has no other key, and no key outlives its task: also not when a
\* batch is refused because one of its tasks is gone, or a job is dropped.
KeysAreExact ==
    Overtaken \/ \A i \in Ids : DuesOf(i) = (IF Exists(i) THEN {task[i].due} ELSE {})

\* A worker never runs a task before it is due, and never a failed one.
NotBeforeDue ==
    \A n \in Nodes : wrk[n].pc = "run" =>
        \A x \in Range(wrk[n].batch) : x.task.due <= now

NotBeforeDueUnlessOvertaken == Overtaken \/ NotBeforeDue

\* The two locks keep two workers from running one task at the same time, also
\* across nodes, restarts and passes that overtake each other, unless a worker
\* outlives its lock or destroying the task takes the lock from it.
Running(i) ==
    {x \in Nodes \X (1..BatchSize) :
        /\ wrk[x[1]].pc = "run" /\ x[2] \in DOMAIN wrk[x[1]].batch
        /\ wrk[x[1]].batch[x[2]].job.id = i}
OneWorkerPerTask ==
    odd \cap {"overrun", "unlocked"} = {} => \A i \in Ids : Cardinality(Running(i)) <= 1

\* A task that becomes due is attempted, and what is recorded moves its due time
\* or removes it.  No timer but the task's own is needed for that as long as
\* nothing fails and nobody interferes: a full channel, a pass that ends while
\* a worker finishes, a task scheduled during a pass are all followed by a
\* notification.
DueTaskIsAttempted ==
    \A i \in Ids, d \in 1..MaxNow :
        (Exists(i) /\ task[i].due = d)
            ~> (task[i].due # d \/ odd # {} \/ asked)

=============================================================================
