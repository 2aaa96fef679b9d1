--------------------------- MODULE QueueManager ---------------------------
(***************************************************************************)
(* The scheduling loop of one node's outbound mail queue                   *)
(* (crates/smtp/src/queue/manager.rs) with the queue scan of               *)
(* crates/smtp/src/queue/spool.rs and the outer shell of a delivery worker *)
(* (QueuedMessage::try_deliver in crates/smtp/src/outbound/delivery.rs).   *)
(*                                                                         *)
(* One element of Events is one (queue_id, queue_name) pair; virtual queue *)
(* QueueOf[e] limits how many deliveries run at once.  Time is relative:   *)
(* every deadline is the number of ticks left until it, and Tick brings    *)
(* all of them one nearer, so "expires <= now" reads "no ticks left".      *)
(*                                                                         *)
(* The mpsc channel is not a variable.  Its senders are independent tasks  *)
(* and a message is only observable when the loop receives it, so sending  *)
(* is identified with being received: a task in a phase of Status owns a   *)
(* WorkerDone that is sent or about to be, an event in announcing owns a   *)
(* Refresh, and the receive loop may find the channel empty while some of  *)
(* them are still unsent.                                                  *)
(***************************************************************************)
EXTENDS Integers, FiniteSets

CONSTANTS
    Events,         \* the (queue_id, queue_name) pairs
    Queues,         \* the virtual queues
    QueueOf,        \* Events -> Queues
    Slots,          \* identities for delivery tasks spawned by the manager
    NoJob,          \* what an idle slot works on
    Threads,        \* the values `threads` of a virtual queue may be given
    RemoteEvents,   \* the events that other nodes of the cluster also serve
    AdminEvents,    \* the control events sent: "Paused", "Reload", "Stop"
    QUEUE_REFRESH,  \* the longest the loop sleeps when it is not paused
    LOCK_EXPIRY,    \* lease of the cluster-wide lock of an event
    LOCKED_WAIT,    \* LOCK_EXPIRY plus the 5..10 seconds of jitter
    PAUSE_SLEEP,    \* how long a paused loop sleeps
    MaxDelay        \* bound: the furthest in the future an event is put

ASSUME QueueOfAssumption == QueueOf \in [Events -> Queues]
ASSUME SlotsAssumption == IsFiniteSet(Slots) /\ NoJob \notin Events
ASSUME ThreadsAssumption == Threads \subseteq Nat \ {0}
ASSUME RemoteAssumption == RemoteEvents \subseteq Events
ASSUME TimesAssumption ==
    /\ QUEUE_REFRESH \in Nat \ {0}
    /\ LOCK_EXPIRY \in Nat \ {0}
    /\ LOCKED_WAIT \in Nat
    /\ PAUSE_SLEEP \in Nat
    /\ MaxDelay \in Nat \ {0}
    /\ QUEUE_REFRESH <= LOCK_EXPIRY
    /\ LOCK_EXPIRY < LOCKED_WAIT
    /\ LOCKED_WAIT <= PAUSE_SLEEP

VARIABLES
    due,         \* the MessageEvent keys in the store: ticks left, or ABSENT
    fresh,       \* events whose message has not been queued yet
    announcing,  \* events written by queue() on this node, Refresh not received
    kvLock,      \* cluster-wide lock of an event: ticks left, 0 when free
    remote,      \* events a worker of another node is delivering
    phase,       \* how far each delivery task of this node is
    job,         \* the event it was spawned for
    locked,      \* Queue::locked: ticks left, INFINITE_LOCK, or UNLOCKED
    visited,     \* entries given the new locked_revision by the running scan
    inFlight,    \* QueueStats::in_flight
    maxInFlight, \* QueueStats::max_in_flight, 0 before the entry exists
    nextRefresh, \* Queue::next_refresh: ticks left
    paused,      \* Queue::is_paused
    closed,      \* the receiver was closed by QueueEvent::Stop
    pc,          \* where the loop is: "recv", "drain", "dispatch", "stopped"
    refresh,     \* the local refresh_queue
    messages,    \* QueuedMessages::messages, what the scan selected
    unseen       \* history: changes this manager has not been told about

managerVars == <<locked, visited, inFlight, maxInFlight, nextRefresh, paused,
                 closed, pc, refresh, messages>>
storeVars == <<due, fresh, announcing, kvLock, remote, unseen>>
taskVars == <<phase, job>>
vars == <<storeVars, taskVars, managerVars>>

-----------------------------------------------------------------------------
ABSENT == -1
UNLOCKED == -1
INFINITE_LOCK == -2     \* a year: it does not elapse

\* QueueEventStatus; a task in such a phase owes the manager a WorkerDone.
Status == {"Completed", "Locked", "Deferred"}
Phase == {"idle", "start", "run"} \cup Status

Busy(e) == {s \in Slots : phase[s] # "idle" /\ job[s] = e}
BusyIn(q) == {s \in Slots : phase[s] # "idle" /\ QueueOf[job[s]] = q}

\* A queue has no QueueStats entry until an event of it is dispatched or the
\* settings are reloaded; Threads never contains 0.
HasStats(q) == maxInFlight[q] # 0

has_capacity(q) == inFlight[q] < maxInFlight[q]

Held(e) == locked[e] # UNLOCKED
IsLeast(x, S) == x \in S /\ \A y \in S : x <= y

TypeOK ==
    /\ due \in [Events -> {ABSENT} \cup 0..MaxDelay]
    /\ fresh \subseteq Events
    /\ announcing \subseteq Events
    /\ kvLock \in [Events -> 0..LOCK_EXPIRY]
    /\ remote \subseteq Events
    /\ phase \in [Slots -> Phase]
    /\ job \in [Slots -> Events \cup {NoJob}]
    /\ \A s \in Slots : phase[s] # "idle" => job[s] \in Events
    /\ locked \in [Events -> {UNLOCKED, INFINITE_LOCK} \cup 0..LOCKED_WAIT]
    /\ visited \subseteq Events
    /\ inFlight \in [Queues -> Int]
    /\ maxInFlight \in [Queues -> {0} \cup Threads]
    /\ nextRefresh \in 0..PAUSE_SLEEP
    /\ paused \in BOOLEAN
    /\ closed \in BOOLEAN
    /\ pc \in {"recv", "drain", "dispatch", "stopped"}
    /\ refresh \in BOOLEAN
    /\ messages \subseteq Events
    /\ unseen \subseteq Events

\* Queue::new, on a store that holds nothing yet; the first scan is a tick away.
Init ==
    /\ due = [e \in Events |-> ABSENT]
    /\ fresh = Events
    /\ announcing = {}
    /\ kvLock = [e \in Events |-> 0]
    /\ remote = {}
    /\ phase = [s \in Slots |-> "idle"]
    /\ job = [s \in Slots |-> NoJob]
    /\ locked = [e \in Events |-> UNLOCKED]
    /\ visited = {}
    /\ inFlight = [q \in Queues |-> 0]
    /\ maxInFlight = [q \in Queues |-> 0]
    /\ nextRefresh = 1
    /\ paused = FALSE
    /\ closed = FALSE
    /\ pc = "recv"
    /\ refresh = FALSE
    /\ messages = {}
    /\ unseen = {}

-----------------------------------------------------------------------------
(* Time, and what other tasks and other nodes do to the shared store.      *)

Less(n) == IF n > 0 THEN n - 1 ELSE n

Tick ==
    /\ due' = [e \in Events |-> Less(due[e])]
    /\ kvLock' = [e \in Events |-> Less(kvLock[e])]
    /\ locked' = [e \in Events |-> Less(locked[e])]
    /\ nextRefresh' = Less(nextRefresh)
    /\ UNCHANGED <<fresh, announcing, remote, taskVars, visited, inFlight,
                   maxInFlight, paused, closed, pc, refresh, messages, unseen>>

\* MessageWrapper::queue on this node: the event is committed, and a Refresh
\* follows.
QueueMessage(e, d) ==
    /\ e \in fresh
    /\ due' = [due EXCEPT ![e] = d]
    /\ fresh' = fresh \ {e}
    /\ announcing' = announcing \cup {e}
    /\ UNCHANGED <<kvLock, remote, unseen, taskVars, managerVars>>

\* The same on another node: its Refresh broadcast may never reach this one.
RemoteQueueMessage(e, d) ==
    /\ e \in fresh
    /\ due' = [due EXCEPT ![e] = d]
    /\ fresh' = fresh \ {e}
    /\ unseen' = unseen \cup {e}
    /\ UNCHANGED <<announcing, kvLock, remote, taskVars, managerVars>>

\* A worker of another node wins the cluster-wide lock.
RemoteLock(e) ==
    /\ due[e] = 0 /\ kvLock[e] = 0
    /\ kvLock' = [kvLock EXCEPT ![e] = LOCK_EXPIRY]
    /\ remote' = remote \cup {e}
    /\ UNCHANGED <<due, fresh, announcing, unseen, taskVars, managerVars>>

\* It finishes: the event is gone or deferred, the lock is deleted whoever
\* holds it by then.
RemoteDone(e) ==
    /\ e \in remote
    /\ \E d \in {ABSENT} \cup 1..MaxDelay : due' = [due EXCEPT ![e] = d]
    /\ kvLock' = [kvLock EXCEPT ![e] = 0]
    /\ remote' = remote \ {e}
    /\ unseen' = unseen \cup {e}
    /\ UNCHANGED <<fresh, announcing, taskVars, managerVars>>

-----------------------------------------------------------------------------
(* The delivery task: try_deliver.                                         *)

\* try_lock_event succeeds.
WorkerLock(s) ==
    /\ phase[s] = "start"
    /\ kvLock[job[s]] = 0
    /\ kvLock' = [kvLock EXCEPT ![job[s]] = LOCK_EXPIRY]
    /\ phase' = [phase EXCEPT ![s] = "run"]
    /\ UNCHANGED <<job, due, fresh, announcing, remote, unseen, managerVars>>

\* try_lock_event fails: the lock is held, or the store returned an error.
WorkerLocked(s) ==
    /\ phase[s] = "start"
    /\ phase' = [phase EXCEPT ![s] = "Locked"]
    /\ UNCHANGED <<job, storeVars, managerVars>>

\* deliver_task returns (or the message was gone and its event is deleted);
\* the lock is deleted whoever holds it by then.
WorkerFinish(s, status, d) ==
    /\ phase[s] = "run"
    /\ \/ status = "Completed" /\ d = ABSENT
       \/ status = "Deferred" /\ d \in 1..MaxDelay
    /\ due' = [due EXCEPT ![job[s]] = d]
    /\ kvLock' = [kvLock EXCEPT ![job[s]] = 0]
    /\ phase' = [phase EXCEPT ![s] = status]
    /\ UNCHANGED <<job, fresh, announcing, remote, unseen, managerVars>>

EndTask(s) ==
    /\ phase' = [phase EXCEPT ![s] = "idle"]
    /\ job' = [job EXCEPT ![s] = NoJob]

\* The send fails because the receiver was closed.
WorkerSendFails(s) ==
    /\ closed /\ phase[s] \in Status
    /\ EndTask(s)
    /\ UNCHANGED <<storeVars, managerVars>>

-----------------------------------------------------------------------------
(* The loop: receive one event, drain the channel, scan, dispatch.         *)

Receiving == pc \in {"recv", "drain"}

\* What every arm of handle_event shares: the first event starts a new
\* refresh_queue, the drained ones are or-ed into it.
Received(wantsRefresh) ==
    /\ Receiving
    /\ pc' = "drain"
    /\ refresh' = (wantsRefresh \/ (pc = "drain" /\ refresh))

\* handle_event, WorkerDone with Completed.
WorkerDoneCompleted(s) ==
    LET e == job[s]
        q == QueueOf[e]
    IN  /\ phase[s] = "Completed"
        /\ inFlight' = [inFlight EXCEPT ![q] = @ - 1]
        /\ locked' = [locked EXCEPT ![e] = UNLOCKED]
        /\ Received(\/ \E f \in Events : locked'[f] # UNLOCKED
                    \/ ~(inFlight'[q] < maxInFlight[q]))
        /\ EndTask(s)
        /\ UNCHANGED <<storeVars, visited, maxInFlight, nextRefresh, paused,
                       closed, messages>>

\* Mutants: the retry of a locked event postpones the next scan; the task is
\* not taken off the counter.
WorkerDoneLocked_Postpones(s) ==
    LET e == job[s]
        q == QueueOf[e]
    IN  /\ phase[s] = "Locked"
        /\ inFlight' = [inFlight EXCEPT ![q] = @ - 1]
        /\ nextRefresh' = nextRefresh + LOCKED_WAIT
        /\ locked' = [locked EXCEPT ![e] = LOCKED_WAIT]
        /\ Received(FALSE)
        /\ EndTask(s)
        /\ UNCHANGED <<storeVars, visited, maxInFlight, paused, closed, messages>>
WorkerDoneLocked_NotCounted(s) ==
    /\ phase[s] = "Locked"
    /\ locked' = [locked EXCEPT ![job[s]] = LOCKED_WAIT]
    /\ Received(TRUE)
    /\ EndTask(s)
    /\ UNCHANGED <<storeVars, visited, inFlight, maxInFlight, nextRefresh, paused,
                   closed, messages>>

\* handle_event, WorkerDone with Locked.
WorkerDoneLocked(s) ==
    LET e == job[s]
        q == QueueOf[e]
    IN  /\ phase[s] = "Locked"
        /\ inFlight' = [inFlight EXCEPT ![q] = @ - 1]
        /\ nextRefresh' = IF LOCKED_WAIT < nextRefresh THEN LOCKED_WAIT
                                                       ELSE nextRefresh
        /\ locked' = [locked EXCEPT ![e] = LOCKED_WAIT]
        /\ Received(\/ \E f \in Events \ {e} : Held(f)
                    \/ ~(inFlight'[q] < maxInFlight[q]))
        /\ EndTask(s)
        /\ UNCHANGED <<storeVars, visited, maxInFlight, paused, closed, messages>>

\* handle_event, WorkerDone with Deferred.
WorkerDoneDeferred(s) ==
    LET e == job[s]
    IN  /\ phase[s] = "Deferred"
        /\ inFlight' = [inFlight EXCEPT ![QueueOf[e]] = @ - 1]
        /\ locked' = [locked EXCEPT ![e] = UNLOCKED]
        /\ Received(TRUE)
        /\ EndTask(s)
        /\ UNCHANGED <<storeVars, visited, maxInFlight, nextRefresh, paused,
                       closed, messages>>

\* handle_event, Refresh: sent after queue(), or by another node's broadcast.
Refresh ==
    /\ announcing # {}
    /\ \E e \in announcing : announcing' = announcing \ {e}
    /\ Received(TRUE)
    /\ UNCHANGED <<due, fresh, kvLock, remote, unseen, taskVars, locked, visited,
                   inFlight, maxInFlight, nextRefresh, paused, closed,
                   messages>>

\* Mutant: resuming leaves the timer of the pause in place.
Paused_NoRefresh(value) ==
    /\ paused' = value
    /\ Received(FALSE)
    /\ UNCHANGED <<storeVars, taskVars, locked, visited, inFlight, maxInFlight,
                   nextRefresh, closed, messages>>

\* handle_event, Paused(value).
Paused(value) ==
    /\ paused' = value
    /\ Received(~value)
    /\ UNCHANGED <<storeVars, taskVars, locked, visited, inFlight, maxInFlight,
                   nextRefresh, closed, messages>>

\* handle_event, ReloadSettings.
ReloadSettings(threads) ==
    /\ maxInFlight' = threads
    /\ Received(FALSE)
    /\ UNCHANGED <<storeVars, taskVars, locked, visited, inFlight, nextRefresh,
                   paused, closed, messages>>

\* handle_event, Stop.
Stop ==
    /\ ~closed
    /\ closed' = TRUE
    /\ paused' = TRUE
    /\ Received(FALSE)
    /\ UNCHANGED <<storeVars, taskVars, locked, visited, inFlight, maxInFlight,
                   nextRefresh, messages>>

\* recv returns None: the receiver is closed and nothing is left in it.
Break ==
    /\ pc = "recv" /\ closed
    /\ pc' = "stopped"
    /\ UNCHANGED <<storeVars, taskVars, locked, visited, inFlight, maxInFlight,
                   nextRefresh, paused, closed, refresh, messages>>

\* The loop went through its body without a scan.
NoScan ==
    /\ \/ pc = "drain" /\ (paused \/ (~refresh /\ nextRefresh > 0))
       \/ pc = "recv" /\ ~closed /\ nextRefresh = 0 /\ paused
    /\ nextRefresh' = IF paused THEN PAUSE_SLEEP ELSE nextRefresh
    /\ pc' = "recv"
    /\ refresh' = FALSE
    /\ UNCHANGED <<storeVars, taskVars, locked, visited, inFlight, maxInFlight,
                   paused, closed, messages>>

Stored == {e \in Events : due[e] # ABSENT}

\* next_event: the queue is read in order of due; a store error ends the
\* iteration early, so that only the events in `read` are met.
Scan(read) ==
    LET ready == {e \in read : due[e] = 0}
        later == {due[e] : e \in {f \in read : due[f] > 0}}
        open == {e \in ready : HasStats(QueueOf[e]) => has_capacity(QueueOf[e])}
        add == {e \in open : locked[e] \in {UNLOCKED, 0}}
        waits == {locked[e] : e \in {f \in open : locked[f] > 0}}
    IN  /\ ~paused
        /\ \/ pc = "drain" /\ (refresh \/ nextRefresh = 0)
           \/ pc = "recv" /\ ~closed /\ nextRefresh = 0
        /\ \A e \in read, f \in Stored \ read : due[e] <= due[f]
        /\ messages' = add
        /\ locked' = [e \in Events |-> IF e \in add THEN INFINITE_LOCK
                                                    ELSE locked[e]]
        /\ visited' = open
        /\ \E least \in {QUEUE_REFRESH} \cup later \cup waits :
             /\ IsLeast(least, {QUEUE_REFRESH} \cup later \cup waits)
             /\ nextRefresh' = least
        /\ pc' = "dispatch"
        /\ refresh' = FALSE
        /\ unseen' = Stored \ read
        /\ UNCHANGED <<due, fresh, announcing, kvLock, remote, taskVars, inFlight,
                       maxInFlight, paused, closed>>

\* One turn of the dispatch loop with room left: spawn a delivery task.
Deliver(e, s) ==
    LET q == QueueOf[e]
    IN  /\ pc = "dispatch" /\ e \in messages
        /\ phase[s] = "idle"
        /\ \E max \in IF HasStats(q) THEN {maxInFlight[q]} ELSE Threads :
             /\ inFlight[q] < max
             /\ maxInFlight' = [maxInFlight EXCEPT ![q] = max]
        /\ inFlight' = [inFlight EXCEPT ![q] = @ + 1]
        /\ phase' = [phase EXCEPT ![s] = "start"]
        /\ job' = [job EXCEPT ![s] = e]
        /\ messages' = messages \ {e}
        /\ UNCHANGED <<storeVars, locked, visited, nextRefresh, paused, closed,
                       pc, refresh>>

\* Mutant: the event given back stays locked.
BackPressure_KeepsLock(e) ==
    /\ pc = "dispatch" /\ e \in messages
    /\ HasStats(QueueOf[e]) /\ ~has_capacity(QueueOf[e])
    /\ messages' = messages \ {e}
    /\ UNCHANGED <<storeVars, taskVars, locked, visited, inFlight, maxInFlight,
                   nextRefresh, paused, closed, pc, refresh>>

\* One turn of the dispatch loop at the limit: give the event back.
BackPressure(e) ==
    LET q == QueueOf[e]
    IN  /\ pc = "dispatch" /\ e \in messages
        /\ HasStats(q) /\ ~has_capacity(q)
        /\ locked' = [locked EXCEPT ![e] = UNLOCKED]
        /\ messages' = messages \ {e}
        /\ UNCHANGED <<storeVars, taskVars, visited, inFlight, maxInFlight,
                       nextRefresh, paused, closed, pc, refresh>>

\* After the dispatch loop: drop the entries that expired or that the scan did
\* not visit.
Retain ==
    /\ pc = "dispatch" /\ messages = {}
    /\ locked' = [e \in Events |-> IF locked[e] # 0 /\ e \in visited
                                     THEN locked[e] ELSE UNLOCKED]
    /\ visited' = {}
    /\ pc' = "recv"
    /\ UNCHANGED <<storeVars, taskVars, inFlight, maxInFlight, nextRefresh,
                   paused, closed, refresh, messages>>

-----------------------------------------------------------------------------
Environment ==
    \/ Tick
    \/ \E e \in Events, d \in 0..MaxDelay : QueueMessage(e, d)
    \/ \E e \in RemoteEvents, d \in 0..MaxDelay : RemoteQueueMessage(e, d)
    \/ \E e \in RemoteEvents : RemoteLock(e) \/ RemoteDone(e)

WorkerNext(s) ==
    \/ WorkerLock(s)
    \/ WorkerLocked(s)
    \/ \E status \in Status, d \in {ABSENT} \cup 1..MaxDelay :
         WorkerFinish(s, status, d)
    \/ WorkerSendFails(s)

WorkerDone(s) ==
    WorkerDoneCompleted(s) \/ WorkerDoneLocked(s) \/ WorkerDoneDeferred(s)

Control ==
    \/ "Paused" \in AdminEvents /\ \E value \in BOOLEAN : Paused(value)
    \/ "Reload" \in AdminEvents
         /\ \E threads \in [Queues -> Threads] : ReloadSettings(threads)
    \/ "Stop" \in AdminEvents /\ Stop

Loop ==
    \/ Refresh
    \/ \E s \in Slots : WorkerDone(s)
    \/ Break
    \/ NoScan
    \/ \E read \in SUBSET Stored : Scan(read)
    \/ \E e \in Events, s \in Slots : Deliver(e, s)
    \/ \E e \in Events : BackPressure(e)
    \/ Retain

\* A manager that has left its loop is of no further interest.
Next ==
    /\ pc # "stopped"
    /\ \/ Environment
       \/ \E s \in Slots : WorkerNext(s)
       \/ Control
       \/ Loop

Spec == Init /\ [][Next]_vars

(***************************************************************************)
(* Fairness.  Timers fire, the runtime polls the loop and every spawned    *)
(* task, and a delivery ends (all network operations have timeouts).  The  *)
(* strong conditions: the channel keeps a message until it is received;    *)
(* the store does not fail every scan that could take an event, nor every  *)
(* attempt to lock one; and an event met in a scan again and again is not  *)
(* served last every time (the oldest comes first, long lists are          *)
(* shuffled).                                                              *)
(***************************************************************************)
Fairness ==
    /\ WF_vars(Tick)
    /\ SF_vars(Refresh)
    /\ WF_vars(NoScan)
    /\ WF_vars(Retain)
    /\ WF_vars(\E read \in SUBSET Stored : Scan(read))
    /\ \A s \in Slots : WF_vars(WorkerNext(s)) /\ SF_vars(WorkerDone(s))
    /\ \A e \in Events :
         /\ WF_vars(RemoteDone(e))
         /\ WF_vars(BackPressure(e))
         /\ SF_vars(Scan(Stored) /\ e \in messages')
         /\ SF_vars(\E s \in Slots : Deliver(e, s))
         /\ SF_vars(\E s \in Busy(e) : WorkerLock(s))

FairSpec == Spec /\ Fairness

-----------------------------------------------------------------------------
(* Properties.                                                             *)

\* QueueStats::in_flight counts exactly the spawned tasks whose WorkerDone
\* has not been handled, so `in_flight -= 1` never underflows; once the
\* receiver is closed reports may be lost and it only over-counts.
InFlightIsExact ==
    \A q \in Queues :
        /\ Cardinality(BusyIn(q)) <= inFlight[q]
        /\ ~closed => inFlight[q] = Cardinality(BusyIn(q))

\* An entry of Queue::locked that never expires belongs to an event whose
\* delivery task still has to report: if it did not, the event would not be
\* tried again for a year.
InfiniteLockIsBacked ==
    ~closed => \A e \in Events :
        locked[e] = INFINITE_LOCK =>
            Busy(e) # {} \/ (pc = "dispatch" /\ e \in messages)

\* A loop that sleeps, neither paused nor stopping, wakes up within QUEUE_REFRESH and no
\* later than the earliest event it could know of: one that no task is about
\* to report or announce and that was not put there by another node.
PunctualWakeup ==
    pc = "recv" /\ ~paused /\ ~closed =>
        /\ nextRefresh <= QUEUE_REFRESH
        /\ \A e \in Events \ (unseen \cup announcing) :
             due[e] > 0 /\ Busy(e) = {} => nextRefresh <= due[e]

\* Every due event is processed (delivered, bounced or deferred) unless the
\* queue is paused or stopped: no interleaving of the dispatch bookkeeping,
\* back-pressure and cluster locks leaves it waiting for ever.
DueEventIsProcessed ==
    \A e \in Events : due[e] = 0 ~> (due[e] # 0 \/ paused \/ closed)
=============================================================================
