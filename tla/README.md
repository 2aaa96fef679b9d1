# A verification project for the mail server's queues, stores and push

This directory holds TLA+ models of the mail server in this repository (a
fork of Stalwart), TLC configurations that check them on small instances, and
machine-checked proofs. The server is large; the project models the parts
whose correctness depends most on ordering, failure and time: the outbound mail
queue and the background task queue, the locks, counters, blobs and node ids
they share, and the delivery of push notifications.

## Inventory

| Component | State | Operations | Interaction and what is hard |
|---|---|---|---|
| Queue manager `smtp/src/queue/manager.rs` | `locked`, `locked_revision`, `stats`, `next_refresh`, `is_paused`, the channel | the receive loop, `handle_event` | scans the shared event keys, spawns delivery tasks, hears from them through a channel; concurrency limits, back-pressure, timers |
| Spool `smtp/src/queue/spool.rs` | message records, event keys, quota counters, locks in the store | `queue`, `next_event`, `try_lock_event`, `read_message`, `save_changes`, `remove`, `save_registry_changes`, `remove_registry` | many writers with snapshots of one record; atomic batches and nothing else |
| Delivery task `smtp/src/outbound/delivery.rs` | a snapshot of the message | `try_deliver`, `deliver_task`, `has_pending_delivery`, `set_rcpt_status` | lock leases, crashes, failed writes, expiry |
| Notifications `smtp/src/queue/dsn.rs` | recipient flags and times | `send_dsn`, `update_next_dsn`, `handle_double_bounce` | sent from a snapshot before it is stored |
| Quotas `smtp/src/queue/quota.rs` | counters, message metadata | `has_quota`, `release_quota` | each reservation to be released once over many saves |
| Administration `jmap/src/registry/mapping/queued_message.rs` | a snapshot | update, destroy | read-modify-write without the lock |
| In-memory store `store/src/dispatch/lookup.rs` | keys with expiry, counters | `try_lock`, `remove_lock`, `is_rate_allowed`, `counter_incr`, `purge_in_memory_store`, `key_delete_prefix` | read then compare-and-set; purge against a renewed key; deletions that do not look whose key it is |
| Task manager `services/src/task_manager` | task and due keys, local locks, bounded channels | `process_tasks`, `update_tasks`, `next_retry_time` | batches of several tasks in one write, full channels, cluster locks |
| Task administration `jmap/src/registry/mapping/task.rs` | a snapshot | create, update, destroy | reads before it locks, removes locks it does not hold |
| Blob store `store/src/write/blob.rs`, `common/src/storage/blob.rs` | blobs, commits, temporary and permanent links | reserve, upload, commit, link, unlink, purge | two stores and no transaction over both; a purge against concurrent writers |
| State manager and push `services/src/state_manager`, `jmap/src/push` | subscribers, registrations, retries, two bounded channels | publish, subscribe, update, push, report, retry pass | two loops that send to each other; reports that arrive late; reused ids |
| Node ids `store/src/build/registry.rs` | one entry per id, renewed by a timer | start, renew | nodes that start at once; late renewals; takeover of stale entries |
| Broadcast and coordinator | peers | publish, receive | messages may be lost |
| Caches, tokens, limiters | in-memory state | lookups, invalidation | staleness, lease expiry |
| SMTP, IMAP, POP3, JMAP, DAV, HTTP front ends | sessions | protocol commands | mostly parsing and translation to store operations |

`PROJECT.json` lists every component with its status, and under `hazards` the
places where this code can go wrong in a way a test would hardly reach.

What makes each component correct: the manager must wake up for every due
event, respect its limits and never forget an event it has locked; the stored
message must keep its event keys, must not lose a recipient silently, must not
deliver twice without a fault, and must give back its quota exactly once. A
background task must keep exactly one due key, run once it is due and not before,
and run on one worker at a time. A lock must have one holder while its lease
lasts, a rate must be kept whatever the purge does, and a counter must not
outlive the entry by which it is purged. A blob must exist while anybody links
to it and go when nobody does. A notification accepted for a subscription must
be delivered or dropped for a stated reason, by one request at a time. Two
running nodes must not share an id.

## Modules

**`QueueManager`** is one node's scheduling loop. Its variables are the fields
of `Queue` (`locked`, `inFlight`, `maxInFlight`, `nextRefresh`, `paused`), the
position in the loop (`pc`, `refresh`, `messages`), the delivery tasks (`phase`,
`job`) and the shared store as far as the loop sees it (`due`, `kvLock`). Each
arm of `handle_event` is an action; the body of the loop is `Scan`, then one
`Deliver` or `BackPressure` per selected event, then `Retain`. Time is relative:
each deadline is a number of ticks left, so the model has finitely many states
without a bound on the clock. The channel is not a variable: a task that is done
may be heard at any later moment, in any order.

**`QueueManagerProofs`** holds the theorems about it.

**`MailQueue`** is the life of one message in the store, worked on by any number
of delivery tasks of any node and by administrators. Tasks go through the steps
of `try_deliver`: `TryLock`, `Read` (which is `read_message`,
`has_pending_delivery` and `send_dsn`), `Throttle` or `Attempt`, then `Save` or
`Remove` (one batch each), then `Unlock`. Everything a task decides after `Read`
comes from its snapshot. `Save` is `save_changes` with its two ways of writing:
a plain `set`, and the merge for messages in several queues. A delivery attempt
answers each recipient with any of the four outcomes; the network exchange behind
it is not modelled. Faults (a failed write, a failed read, a crash, a delivery
that outlives its lock) are actions that a configuration allows by name. When a
task starts is left open, which is more than the manager does, so that what
holds here holds under the manager.

**`TaskManager`** is the task queue of all nodes. The store holds `task` and
`due`, the in-memory store `lock`; a node has its map `locked`, the manager
`mgr`, the channel `chan` and the worker `wrk`. One pass of `process_tasks` is
`Scan`, then `Dispatch` per job in any order (`Send`, `LockedByAnother`,
`ChannelFull`), then `EndPass`. The worker goes through `Take` (receive and read,
up to the batch size), `Start`, `Finish` (what the tasks returned, recorded by
`update_tasks` in one batch that is refused if a task that failed is gone) and
`Unlock`. An administrator's update reads, locks and writes in three steps, a
destroy reads and writes. `odd` records which faults have occurred, and three
kinds of overtaking: a job sent after its due key was replaced ("stale"), an edit
of a task that changed after it was read ("edit"), a lock removed from under its
holder ("unlocked"). Time is absolute and bounded.

**`InMemoryStore`** is the key-value store as it is kept in the data store. A
caller of `try_lock` goes through `LockRead`, perhaps `LockClear`, `LockDecide`
and `LockWrite` (one asserted batch); `RemoveLock` deletes whatever is there. A
request of a rate limited client computes its window in `RateStart` and counts
in `CounterIncr`. The purge is `PurgeScan`, then `PurgeKeys` and `PurgeCounters`
in batches of any size; `RemoveLocks`, `ResetCounters` and `ResetMarks` are the
administrator's deletions. `robbed` records whose lock was deleted under a lease.

**`LeaseService`** is the abstract specification: a lock is granted only while
nobody has an unbroken lease on it. `InMemoryStore` implements it with the set of
leases that callers believe in as refinement mapping (`ImplementsLeases`), which
is checked by TLC and proved. `MailQueue` and `TaskManager` use their locks at
this level.

**`BlobStore`** has the blob store, and the keys of the data store: `commits`,
`temps` and `links`. A writer goes through `Reserve`, `Check`, `PutBlob`,
`Commit` and `Link` or `Uploaded`; the queue's writer uploads without a check
and commits with its link; local delivery shares the queue's blob. The purge is
`PurgeScans`, `PurgeDeletes` (all blobs) and `PurgeClears` (their keys).
`raced` records contents on which a writer worked while a purge had them listed,
`slow` those uploaded after their reservation had gone.

**`PushManager`** is the router (`RouterTakes`, `RouterForwards`), the push manager
(`Boot`, one action per event, `Reply`, `RetryPass`), the requests
(`Report`) and the requests of clients that change subscriptions. Both bounded
channels are variables; a sender waits while its channel is full. The age of the
last request of a registration is counted in units of the throttle.
`stalled`, `crossed`, `unannounced` and `owed` are history variables.

**`NodeIds`** is the start of nodes (`Scan`, then `Write` or `WriteConflict`), the
renewal, and the clock in units of the renewal interval, which is half of
`STALE_NODE_TIMEOUT`. `late` records ids whose holder missed a renewal, `revived`
ids taken back under the name of a former holder.

**`MailQueueProofs`**, **`TaskManagerProofs`**, **`InMemoryStoreProofs`**,
**`BlobStoreProofs`**, **`NodeIdsProofs`** and **`PushManagerProofs`** hold the
theorems about them.

The modules **`MC...`** give the constants their values.

## Runs

| Run | Instance | What it shows |
|---|---|---|
| `queue_manager_admin` | 2 events of one queue, 2 tasks, limits 1 or 2; pause, resume, reload, stop at any time | the counter is exact, no year-long lock is orphaned, the timer is punctual |
| `queue_manager_live` | 2 events, one slot, one event shared with another node | every due event is processed |
| `mail_single_queue` | 2 recipients in one queue, 2 workers, 2 faults of save, crash, read; null and ordinary return path; time 0..3, expiry at 2 | all safety properties of the message's life, and that it leaves the queue |
| `mail_multi_queue` | the recipients in different queues, one may move to the other on retry; expiry by attempts; one failed write, crash or delivery that outlives its lock | the merge loses no recipient, nothing is dropped silently, the event keys stay right |
| `mail_admin` | cancel, reschedule and destroy against two workers, one failed write | the event keys stay right whatever the order of requests and saves |
| `mail_read_error` | one failed read | *violated*: a read error deletes the event key of a live message |
| `task_manager_local` | one node, 2 tasks, batches of 2, channel of 1, one request of an administrator, one failed scan, lock, read or write; time 1..2 | tasks and due keys agree in both directions, due tasks are attempted |
| `task_manager_cluster` | 2 nodes, one task that is retried, rescheduled or failed, one crash or overrun; time 1..3 | a stored task keeps its due key, no task runs before it is due or twice at once |
| `in_memory_store` | 2 callers of one lock, 2 requests, rate 1 per window of 2; time 1..3 | locks implement `LeaseService`; the rate is kept; counters can be purged |
| `blob_store` | 2 writers of any kind, one content, 2 documents, one failed purge; time 0..1 | what is linked is stored, commits are true, blobs can be found, garbage is deleted |
| `push_manager` | an account and a group, one subscription id, a listener, 2 notifications, channels of 1 and 2, 2 changes of subscriptions or groups, 2 attempts | nothing accepted is lost or sent twice at once, the router knows its accounts, listeners stay, what waits is sent |
| `node_ids` | 3 nodes, 4 ids, stale after 2, dead after 3, one failed renewal; time 0..4 | ids are unique and leases are kept |

Bounds. Two events compete for one queue's limit, and with limits 1 and 2 both
back-pressure and spare capacity occur; two tasks are as many as the limit
allows. Timers are as small as keeps `QUEUE_REFRESH <= LOCK_EXPIRY < LOCKED_WAIT
<= PAUSE_SLEEP`, the order of the constants in the code. For the message, two recipients give one
that is done while the other waits, two workers give a race, and the clock
passes the first retry, the notification and the expiry (in the multi-queue and the
administrator's instance, where it reaches 1, expiry is by attempts). Each fault
kind occurs at most once per behaviour. For tasks, two tasks fill a channel of one
place and make a batch of two; in the cluster one task is enough for a race and
the clock passes the retry and the expiry of both locks (`LOCK_EXPIRY` 1, local
entries one more, as in the code). In `task_manager_local` the refresh timer is
longer than the clock, so that what happens is due to notifications alone.
In the in-memory store the clock passes a lease (1) and the end of one window,
and a rate of 1 makes the second request the one to refuse. One content is
enough for blobs, because contents never meet; one tick ends every temporary
link. Channels of one and two places make both loops wait; `push_manager` reuses
its one subscription id. In `node_ids` the clock passes both timeouts, and four ids
are more than three nodes need.

Fairness. The clock advances; the runtime polls the loop and every task; a
delivery ends because every network operation has a timeout; a lock of a dead
task expires. Strong fairness is assumed where an action is enabled again and
again but not continuously: the channel keeps a report until it is received; the
store does not fail every scan or every lock attempt; among several selected
events the same one is not always served last (they are read oldest first and
shuffled when more than three). `MailQueue` assumes that due events are
dispatched again and again, which is what `DueEventIsProcessed` shows of the
manager. `TaskManager` assumes weak fairness only: the runtime polls managers and
workers, and a task that runs ends. In `BlobStore` only the purge is fair: it is
scheduled periodically and retried by the task manager. In `PushManager` both
loops, the clock and every request (it has `push_timeout`) are weakly fair.

Properties that depend on a fault say so: `EventInTime` holds
as long as no read failed and no delivery outlived its lock, `DuplicatesNeedFaults`
allows one more transfer per fault. `NoSilentLoss` has no such condition. For
tasks, `KeysAreExact` and `NotBeforeDueUnlessOvertaken` hold until one of the
overtakings above or an overrun happens, `OneWorkerPerTask` also after a stale
dispatch, and `TaskHasItsDueKey` after everything but an edit of a changed task.
In the other modules the exceptions are the history variables above; each
stands for a behaviour of the code listed under Findings.

Deadlock checking is off where the system may really stop: after `Stop`, and
when the message is gone, the push router has stopped or the bounded clock has
ended.

`TypeOK` of `InMemoryStore`, `BlobStore` and `NodeIds` documents the shape of the
state; what the proofs need of it is proved as part of their inductive invariants.

## Findings

A run shows one disagreement between a comment and the code:

* A read error is treated as a missing message and its event key is deleted
  (`mail_read_error`).

The following were met while stating properties: TLC refutes the property as
soon as its exception is dropped. They are listed as hazards with their lines.

* The merge of multi-queue messages does not store the metadata, so quota is
  released again at each save (`MailQueue!QuotaNotOverReleased`).
* A cancelled or destroyed message is written back by the worker that held it,
  and a recipient that expires in one queue may be reported by the worker of
  another queue and again by its own.
* A pass locks a job without looking at its due key again, so in a cluster a
  task that was just put back for a retry may run at once
  (`TaskManager!NotBeforeDue`).
* A lock can be deleted under its holder: by the purge, by a late `remove_lock`,
  by the clearing of an old entry, by an administrator.
* A request counted while the rate limits are reset leaves a counter that is
  never purged.
* A writer that meets a purge at work on its content may end up with a link to
  a deleted blob; so may one that trusts a commit left by a failed purge.
* A notification queued while a request is in flight that succeeds waits for the
  next notification (`PushManager!ChangesArePushed`); the router and the push
  manager can wait for each other when both channels are full; a late report is
  applied to a new registration with the same id; a group joined later is not
  announced.
* A node that takes a stale entry over keeps the old host name in it until its
  first renewal; if the former holder restarts meanwhile, both have the id.

Read in the code and not covered by a property: the result of queueing a status
notification is ignored (`smtp/src/queue/dsn.rs:54`); `Schedule::later` adds the
current time to a value that contains it (`spool.rs:655`); quota counters are
compared before they are reserved (`quota.rs:139`); the deadline of an explicit
retry compares a time with itself plus the deadline (`task_manager/manager.rs:529`);
a task that cannot be read keeps its cluster lock until it expires
(`manager.rs:267`). The first three are about content or about values the model
does not keep, the last two only delay.

## Proofs

`QueueManagerProofs` proves, for every set of events, queues and tasks and every
value of the timers that satisfies the named assumptions of `QueueManager`:

* `TypeCorrect`: `Spec => []TypeOK`.
* `InFlightExact`: `in_flight` equals the number of unreported tasks of the
  queue. The invariant is inductive with the type invariant; the work is in the
  cardinalities (a task starts or ends in exactly one queue).
* `InfiniteLocksAreBacked`: an entry that never expires has an unreported task
  or is still in the dispatch list. It needs no history of the scan, but the
  dispatch list must be part of the invariant: between scan and dispatch the
  entry has no task yet.
* `WakesUpInTime`: the timer of a sleeping manager is punctual. `PunctualWakeup`
  itself is not inductive: it says nothing while the loop drains the channel.
  `TimerIsSet` strengthens it to every position of the loop, and
  weakens "no task works on it" to "no task is about to report it as deferred".

The proofs rest on the assumptions named in `QueueManager` (`SlotsAssumption`,
`ThreadsAssumption`, `RemoteAssumption`, `TimesAssumption`, `QueueOfAssumption`).

`InMemoryStoreProofs` proves, for any clients, locks and duration
(`DurationsAssumption`):

* `LocksAreExclusive`: mutual exclusion. The inductive invariant adds that a
  caller about to write has seen an entry that has expired (`WritesOverExpired`)
  and that the entry of a lease in force that was not broken is still the one
  its holder wrote (`LeaseIsStored`); the asserted write then meets no lease.
* `StoreImplementsLeases`: the refinement of `LeaseService`, action by action: a
  write is a grant, deletions and releases are breaks, the clock lets leases run
  out, everything else stutters.

`NodeIdsProofs` proves, for any nodes, ids and timeouts with `STALE_NODE_TIMEOUT
<= DEAD_NODE_TIMEOUT` (`NodesAssumption`, `LeaseAssumption`):

* `LeasesAreKept` and `NodeIdsAreUnique`. The inductive invariant says what a
  planned batch can be (`PlanOK`: it takes a free, stale or own entry, and clears
  only stale ones) and what a holder that was never late has (`HeldOK`: it wrote
  the entry, which is younger than the timeout). The argument is that a batch
  planned before a renewal fails its assertion after it.

`BlobStoreProofs` proves, for any contents, documents, writers and lifetimes:

* `LinkedBlobsAreStored`, `CommitsAreTrue`, `BlobsAreFindable`, from one inductive
  invariant. It follows a content that was never raced: while a purge has it
  listed nobody works on it, links it or may read it (`ListedIsUnused`); a writer
  about to link has its blob and, unless its batch commits, its commit
  (`LinkerIsBacked`); and the purge leaves what it did not list another key than
  the ones it clears (`BlobHasKey`, `ReservationOrKey`).

`MailQueueProofs` proves, for any recipients, strategies, virtual queues, workers,
quotas, notification intervals (`NotifyAssumption`: one at least, which the code's
default of a day guarantees) and faults, in four layers:

* `TypeCorrect`, for any configuration. Its lemmas also say what each step makes
  of the message; the other layers are proved from them.
* `LossesAreTold`, for any configuration, administrators included: no copy
  of the message, wherever it is and however old, claims a delivery or a failure
  notification that did not happen (`CopiesTold`), and a task about to remove the
  message has told everybody (`RemoverHasTold`).
* `DuplicatesArePaid` and `FinalStaysFinal`, when administrators make no requests
  (`AdminOps = {}`). The invariant is about who may still write: a task that will
  save has the lock of its queue (`HasLock`), no two writers work on one recipient
  and each knows its stored state (`WritersAgree`), every copy of a final recipient
  is final (`CopiesKeepFinal`), and each transfer that is not stored is paid for
  by a fault or will be stored (`FaultsPayTransfers`).
* `EventsAreInTime`, `NoticesArePaid`, `RemovalIsFinal` and `QuotasAreExact`, when the
  message also has one virtual queue. A single task then has the message
  (`OneWriter`), so its copy and the stored one agree.

With an administrator the hypotheses are needed: a request writes back what it has
read (see Findings). `EventInTime` for several queues or with administrators
holds in the runs; it depends on what other tasks did to the other recipients
in between, and stays with TLC.

`TaskManagerProofs` proves, for any nodes, tasks, channels, batches, retry limits
and delays (`NodesAssumption`, `SizesAssumption`, `TimeAssumption`,
`AdminAssumption`), in three layers:

* `TasksRunOnce`. The invariant is about the lock of the shared store: a job from
  the moment it is sent until its worker unlocks has a lock that has not run out
  (`HoldersAreLocked`), and no two holders are for one task (`OneJobPerTask`).
  The manager's own map is not needed, nor anything about the store.
* `TypeCorrect` and `KeysAreKept`: the store is well formed (`StoreInv`: ids are
  given out in order, what has no id has neither a task nor a key) and a task has
  its key (`KeyInv`). `update_tasks` writes a batch of any length at once, so the
  facts about `Written` are shown by induction over the tasks of the batch
  (`AfterTasks`), from three shapes a single one can take (`Recorded`: removed,
  removed and followed by a new task, written anew). The induction is a lemma,
  `Induction`, proved from the least element of a set of numbers.
* `KeysStayExact` and `TasksRunWhenDue`. Exact keys alone are not inductive: a
  worker clears the key its job was found under, which is the task's key only if
  nobody wrote the task since. `ExactInv` adds that the task of a job under way is
  the one it was found for; that the holder is the only writer comes from the
  first layer, and a pass that comes too late is what `"stale"` records.

`PushManagerProofs` proves, for any accounts, subscriptions, listeners,
notifications, intervals and channel sizes (`PushAssumption`):

* `ListenersAreKept`: an event that subscribes a listener names the owner's
  account (`SubscribesOwner`), and only closing removes a listener.
* `RouterIsTold`. `RouterKnows` is not inductive: an answer already in the channel
  could take the account back. The invariant is about the last word
  (`RouterWillKnow`): after the last event that names the account nothing takes it
  back, because an answer that does is true when it is given (`AnswerIsTrue`) and
  the manager's next answer comes after it in the same channel.
* `FlightsAreBacked` and `TypeCorrect`, from `InFlight`: the request or the report of
  a registration is somewhere exactly while it is busy, never two of them, and it
  is busy only with attempts to spare. Registrations that met the report of a
  former one (`crossed`) are excepted: there the code breaks the property.
* `OwedIsKept`: nothing is lost. `owed` is a set, so a notification in two places
  would be settled once and still be there; hence the invariant that it is in one
  place before the manager has it (`NewOnce`, `NewIsNew`) and in one place for each
  subscription afterwards (`AcceptedOnce`).

`RatesAreKept` and `CountersCanBePurged` of `InMemoryStoreProofs` are proved from
an invariant of their own: the entry by which the purge finds a counter does not
expire before its window ends (`MarkOutlivesWindow`), because a request reads
the clock before it is counted, so the purge only lists windows that are over
(`PurgesPastWindows`).

Only model-checked:

* Liveness under fairness, which is out of the prover's reach.
* `EventInTime` for several queues and with administrators, as said above.

## Not modelled

The content of messages and notifications; DKIM; the network exchange of a
delivery; routing and strategy expressions (their results are inputs); the
comparison of quota counters with their limits; the envelope edits of the
administrator; what a background task does, the roles of
nodes beyond serving a type or not, and tasks whose ids are reused (calendar
alarms deleted with their event, reports rescheduled). Plain values of the
in-memory store and its Redis backend; shards, quotas and backends of the blob
store; types, filters and encryption of push notifications; the snowflake
generator (a clock and a counter). The front ends, directory, spam filter,
telemetry, registry schema, migration and the console are parsing, translation
to store operations, generated data types or numeric classification: most of the
repository's lines, and nothing a model of steps and interleavings would tell
more about than their code does.

## Plan

1. More of `TaskManager`: calendar alarms and reports, which write and clear due
   keys of their own.
2. `EventInTime` for a message of several virtual queues, as a theorem: an invariant
   that follows what each task does to the recipients of the others.
