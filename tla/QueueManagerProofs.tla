------------------------ MODULE QueueManagerProofs ------------------------
(***************************************************************************)
(* Proofs about QueueManager for every set of events and queues, any       *)
(* number of delivery tasks and any timer values.                          *)
(***************************************************************************)
EXTENDS QueueManager, FiniteSetTheorems, TLAPS

\* Less keeps a count of ticks in its range and leaves the markers alone.
LEMMA LessFacts ==
    ASSUME NEW n \in Int
    PROVE  /\ Less(n) \in Int
           /\ n >= 0 => Less(n) >= 0 /\ Less(n) <= n
           /\ n < 0 => Less(n) = n
BY DEF Less

LEMMA InitTypeOK == Init => TypeOK
<1> SUFFICES ASSUME Init PROVE TypeOK
  OBVIOUS
<1>1. /\ nextRefresh \in 0..PAUSE_SLEEP
      /\ kvLock \in [Events -> 0..LOCK_EXPIRY]
  BY TimesAssumption DEF Init
<1>2. /\ phase \in [Slots -> Phase]
      /\ \A s \in Slots : phase[s] # "idle" => job[s] \in Events
  BY DEF Init, Phase
<1>3. inFlight \in [Queues -> Int]
  BY DEF Init
<1>4. /\ due \in [Events -> {ABSENT} \cup 0..MaxDelay]
      /\ locked \in [Events -> {UNLOCKED, INFINITE_LOCK} \cup 0..LOCKED_WAIT]
      /\ maxInFlight \in [Queues -> {0} \cup Threads]
      /\ job \in [Slots -> Events \cup {NoJob}]
  BY DEF Init
<1>5. QED
  BY <1>1, <1>2, <1>3, <1>4 DEF Init, TypeOK

-----------------------------------------------------------------------------
(* Type correctness.                                                       *)

LEMMA EnvironmentTypeOK == TypeOK /\ Environment => TypeOK'
<1> SUFFICES ASSUME TypeOK, Environment PROVE TypeOK'
  OBVIOUS
<1> USE TimesAssumption DEF TypeOK, ABSENT, UNLOCKED, INFINITE_LOCK
<1>1. CASE Tick
  <2>1. due' \in [Events -> {ABSENT} \cup 0..MaxDelay]
    BY <1>1, LessFacts DEF Tick
  <2>2. kvLock' \in [Events -> 0..LOCK_EXPIRY]
    BY <1>1, LessFacts DEF Tick
  <2>3. locked' \in [Events -> {UNLOCKED, INFINITE_LOCK} \cup 0..LOCKED_WAIT]
    BY <1>1, LessFacts DEF Tick
  <2>4. nextRefresh' \in 0..PAUSE_SLEEP
    BY <1>1, LessFacts DEF Tick
  <2>5. UNCHANGED <<fresh, announcing, remote, taskVars, visited, inFlight,
                    maxInFlight, paused, closed, pc, refresh, messages, unseen>>
    BY <1>1 DEF Tick
  <2>6. QED
    BY <2>1, <2>2, <2>3, <2>4, <2>5 DEF taskVars
<1>2. ASSUME NEW e \in Events, NEW d \in 0..MaxDelay, QueueMessage(e, d)
      PROVE  TypeOK'
  BY <1>2 DEF QueueMessage, managerVars, taskVars
<1>3. ASSUME NEW e \in Events, NEW d \in 0..MaxDelay, RemoteQueueMessage(e, d)
      PROVE  TypeOK'
  BY <1>3 DEF RemoteQueueMessage, managerVars, taskVars
<1>4. ASSUME NEW e \in Events, RemoteLock(e)
      PROVE  TypeOK'
  BY <1>4 DEF RemoteLock, managerVars, taskVars
<1>5. ASSUME NEW e \in Events, RemoteDone(e)
      PROVE  TypeOK'
  BY <1>5 DEF RemoteDone, managerVars, taskVars
<1>6. QED
  BY <1>1, <1>2, <1>3, <1>4, <1>5, RemoteAssumption DEF Environment

LEMMA WorkerTypeOK ==
    ASSUME TypeOK, NEW s \in Slots, WorkerNext(s)
    PROVE  TypeOK'
<1> USE TimesAssumption
        DEF TypeOK, ABSENT, UNLOCKED, INFINITE_LOCK, Phase, Status, managerVars, storeVars
<1>1. CASE WorkerLock(s)
  BY <1>1 DEF WorkerLock
<1>2. CASE WorkerLocked(s)
  BY <1>2 DEF WorkerLocked
<1>3. ASSUME NEW status \in Status, NEW d \in {ABSENT} \cup 1..MaxDelay,
             WorkerFinish(s, status, d)
      PROVE  TypeOK'
  BY <1>3 DEF WorkerFinish
<1>4. CASE WorkerSendFails(s)
  BY <1>4 DEF WorkerSendFails, EndTask
<1>5. QED
  BY <1>1, <1>2, <1>3, <1>4 DEF WorkerNext

LEMMA WorkerDoneTypeOK ==
    ASSUME TypeOK, NEW s \in Slots, WorkerDone(s)
    PROVE  TypeOK'
<1> USE TimesAssumption, QueueOfAssumption
        DEF TypeOK, ABSENT, UNLOCKED, INFINITE_LOCK, Phase, Status, storeVars
<1>1. CASE WorkerDoneCompleted(s)
  BY <1>1 DEF WorkerDoneCompleted, EndTask, Received
<1>2. CASE WorkerDoneLocked(s)
  BY <1>2 DEF WorkerDoneLocked, EndTask, Received
<1>3. CASE WorkerDoneDeferred(s)
  BY <1>3 DEF WorkerDoneDeferred, EndTask, Received
<1>4. QED
  BY <1>1, <1>2, <1>3 DEF WorkerDone

LEMMA ControlTypeOK == TypeOK /\ Control => TypeOK'
<1> SUFFICES ASSUME TypeOK, Control PROVE TypeOK'
  OBVIOUS
<1> USE DEF TypeOK, storeVars, taskVars
<1>1. ASSUME NEW value \in BOOLEAN, Paused(value)
      PROVE  TypeOK'
  BY <1>1 DEF Paused, Received
<1>2. ASSUME NEW threads \in [Queues -> Threads], ReloadSettings(threads)
      PROVE  TypeOK'
  BY <1>2 DEF ReloadSettings, Received
<1>3. CASE Stop
  BY <1>3 DEF Stop, Received
<1>4. QED
  BY <1>1, <1>2, <1>3 DEF Control

LEMMA ScanTypeOK ==
    ASSUME TypeOK, NEW read \in SUBSET Stored, Scan(read)
    PROVE  TypeOK'
<1> DEFINE later == {due[e] : e \in {f \in read : due[f] > 0}}
           ready == {e \in read : due[e] = 0}
           open == {e \in ready : HasStats(QueueOf[e]) => has_capacity(QueueOf[e])}
           waits == {locked[e] : e \in {f \in open : locked[f] > 0}}
<1>1. read \subseteq Events
  BY DEF Stored
<1>2. PICK least \in {QUEUE_REFRESH} \cup later \cup waits :
         /\ IsLeast(least, {QUEUE_REFRESH} \cup later \cup waits)
         /\ nextRefresh' = least
  BY DEF Scan
<1>3. nextRefresh' \in 0..PAUSE_SLEEP
  <2>1. later \subseteq Nat /\ waits \subseteq Nat
    BY <1>1, TimesAssumption DEF TypeOK, ABSENT, UNLOCKED, INFINITE_LOCK
  <2>2. least <= QUEUE_REFRESH
    BY <1>2 DEF IsLeast
  <2>3. QED
    BY <1>2, <2>1, <2>2, TimesAssumption
<1>4. locked' \in [Events -> {UNLOCKED, INFINITE_LOCK} \cup 0..LOCKED_WAIT]
  <2>1. PICK add : locked' = [e \in Events |-> IF e \in add THEN INFINITE_LOCK
                                                          ELSE locked[e]]
    BY Zenon DEF Scan
  <2>2. QED
    BY <2>1 DEF TypeOK
<1>5. /\ messages' \subseteq Events
      /\ visited' \subseteq Events
      /\ unseen' \subseteq Events
  BY <1>1 DEF Scan, Stored
<1>6. /\ UNCHANGED <<due, fresh, announcing, kvLock, remote, taskVars, inFlight,
                     maxInFlight, paused, closed>>
      /\ pc' = "dispatch" /\ refresh' = FALSE
  BY DEF Scan
<1>7. QED
  BY <1>3, <1>4, <1>5, <1>6 DEF TypeOK, taskVars

LEMMA LoopTypeOK == TypeOK /\ Loop => TypeOK'
<1> SUFFICES ASSUME TypeOK, Loop PROVE TypeOK'
  OBVIOUS
<1> USE TimesAssumption, QueueOfAssumption, ThreadsAssumption
        DEF TypeOK, storeVars, taskVars
<1>1. CASE Refresh
  BY <1>1 DEF Refresh, Received
<1>2. CASE Break
  BY <1>2 DEF Break
<1>3. CASE NoScan
  <2>1. nextRefresh' = PAUSE_SLEEP \/ nextRefresh' = nextRefresh
    BY <1>3, Zenon DEF NoScan
  <2>2. nextRefresh' \in 0..PAUSE_SLEEP
    BY <2>1
  <2>3. QED
    BY <1>3, <2>2 DEF NoScan
<1>4. ASSUME NEW e \in Events, NEW s \in Slots, Deliver(e, s)
      PROVE  TypeOK'
  <2>1. maxInFlight' \in [Queues -> {0} \cup Threads]
    BY <1>4 DEF Deliver, HasStats
  <2>2. QED
    BY <1>4, <2>1 DEF Deliver, Phase
<1>5. ASSUME NEW e \in Events, BackPressure(e)
      PROVE  TypeOK'
  BY <1>5 DEF BackPressure
<1>6. CASE Retain
  BY <1>6 DEF Retain
<1>7. QED
  BY <1>1, <1>2, <1>3, <1>4, <1>5, <1>6, ScanTypeOK, WorkerDoneTypeOK DEF Loop

LEMMA NextTypeOK == TypeOK /\ [Next]_vars => TypeOK'
<1> SUFFICES ASSUME TypeOK, [Next]_vars PROVE TypeOK'
  OBVIOUS
<1>1. CASE UNCHANGED vars
  BY <1>1 DEF TypeOK, vars, storeVars, taskVars, managerVars
<1>2. CASE Next
  BY <1>2, EnvironmentTypeOK, WorkerTypeOK, ControlTypeOK, LoopTypeOK DEF Next
<1>3. QED
  BY <1>1, <1>2

\* The manager's bookkeeping keeps its types: timers stay in their ranges and
\* every task in flight works on an event.
THEOREM TypeCorrect == Spec => []TypeOK
<1>1. QED
  BY InitTypeOK, NextTypeOK, PTL DEF Spec

-----------------------------------------------------------------------------
(* Locks that never expire have a task behind them.                        *)

LEMMA InfiniteLockStep ==
    TypeOK /\ InfiniteLockIsBacked /\ [Next]_vars => InfiniteLockIsBacked'
<1> SUFFICES ASSUME TypeOK, InfiniteLockIsBacked, [Next]_vars,
                    ~closed', NEW e \in Events, locked'[e] = INFINITE_LOCK
             PROVE  \/ \E s \in Slots : phase'[s] # "idle" /\ job'[s] = e
                    \/ pc' = "dispatch" /\ e \in messages'
  BY DEF InfiniteLockIsBacked, Busy
<1> DEFINE Backed == \/ \E s \in Slots : phase[s] # "idle" /\ job[s] = e
                     \/ pc = "dispatch" /\ e \in messages
<1>a. ~closed
  BY DEF Next, Environment, Tick, QueueMessage, RemoteQueueMessage, RemoteLock,
         RemoteDone, WorkerNext, WorkerLock, WorkerLocked, WorkerFinish,
         WorkerSendFails, Control, Paused, ReloadSettings, Stop, Loop, Refresh,
         WorkerDone, WorkerDoneCompleted, WorkerDoneLocked, WorkerDoneDeferred,
         Break, NoScan, Scan, Deliver, BackPressure, Retain, vars, managerVars
<1>b. locked[e] = INFINITE_LOCK => Backed
  BY <1>a DEF InfiniteLockIsBacked, Busy
<1> USE DEF TypeOK, UNLOCKED, INFINITE_LOCK
<1>1. CASE UNCHANGED vars
  BY <1>1, <1>b DEF vars, taskVars, managerVars
<1>2. CASE Tick
  <2>1. locked[e] = INFINITE_LOCK
    BY <1>2, LessFacts DEF Tick
  <2>2. QED
    BY <1>2, <1>b, <2>1 DEF Tick, taskVars
<1>3. ASSUME NEW f \in Events, NEW d \in 0..MaxDelay,
             QueueMessage(f, d) \/ RemoteQueueMessage(f, d)
      PROVE  Backed'
  BY <1>3, <1>b DEF QueueMessage, RemoteQueueMessage, taskVars, managerVars
<1>4. ASSUME NEW f \in Events, RemoteLock(f) \/ RemoteDone(f)
      PROVE  Backed'
  BY <1>4, <1>b DEF RemoteLock, RemoteDone, taskVars, managerVars
<1>5. ASSUME NEW s \in Slots, WorkerNext(s)
      PROVE  Backed'
  <2>1. /\ locked'[e] = locked[e] /\ pc' = pc /\ messages' = messages
        /\ job' = job
        /\ \A t \in Slots : phase[t] # "idle" => phase'[t] # "idle"
    BY <1>5, <1>a DEF WorkerNext, WorkerLock, WorkerLocked, WorkerFinish,
                      WorkerSendFails, Status, managerVars
  <2>2. QED
    BY <2>1, <1>b
<1>6. CASE Control
  BY <1>6, <1>b DEF Control, Paused, ReloadSettings, Stop, Received, Receiving,
                    taskVars
<1>7. ASSUME NEW s \in Slots, WorkerDone(s)
      PROVE  Backed'
  <2>1. /\ Receiving
        /\ \A t \in Slots \ {s} : phase'[t] = phase[t] /\ job'[t] = job[t]
    BY <1>7 DEF WorkerDone, WorkerDoneCompleted, WorkerDoneLocked,
                WorkerDoneDeferred, Received, EndTask
  <2>2. job[s] \in Events
    BY <1>7 DEF WorkerDone, WorkerDoneCompleted, WorkerDoneLocked,
                WorkerDoneDeferred
  <2>3. locked' = [locked EXCEPT ![job[s]] = UNLOCKED] \/
        locked' = [locked EXCEPT ![job[s]] = LOCKED_WAIT]
    BY <1>7 DEF WorkerDone, WorkerDoneCompleted, WorkerDoneLocked,
                WorkerDoneDeferred
  <2>4. job[s] # e /\ locked'[e] = locked[e]
    BY <2>2, <2>3, TimesAssumption
  <2>5. PICK t \in Slots : phase[t] # "idle" /\ job[t] = e
    BY <1>b, <2>1, <2>4 DEF Receiving
  <2>6. QED
    BY <2>1, <2>4, <2>5
<1>8. CASE Refresh \/ Break \/ NoScan
  BY <1>8, <1>b DEF Refresh, Break, NoScan, Received, Receiving, taskVars
<1>9. ASSUME NEW read \in SUBSET Stored, Scan(read)
      PROVE  Backed'
  <2>1. /\ pc \in {"recv", "drain"} /\ pc' = "dispatch"
        /\ phase' = phase /\ job' = job
    BY <1>9 DEF Scan, taskVars
  <2>2. PICK add : /\ messages' = add
                   /\ locked' = [f \in Events |-> IF f \in add THEN INFINITE_LOCK
                                                               ELSE locked[f]]
    BY <1>9, Zenon DEF Scan
  <2>3. QED
    BY <1>b, <2>1, <2>2
<1>10. ASSUME NEW f \in Events, NEW s \in Slots, Deliver(f, s)
       PROVE  Backed'
  BY <1>10, <1>b DEF Deliver
<1>11. ASSUME NEW f \in Events, BackPressure(f)
       PROVE  Backed'
  BY <1>11, <1>b DEF BackPressure, taskVars
<1>12. CASE Retain
  BY <1>12, <1>b DEF Retain, taskVars
<1>13. QED
  BY <1>1, <1>2, <1>3, <1>4, <1>5, <1>6, <1>7, <1>8, <1>9, <1>10, <1>11, <1>12,
     RemoteAssumption
     DEF Next, Environment, Loop

\* An event is never withheld by an entry of Queue::locked that neither
\* expires nor is removed by a report to come.
THEOREM InfiniteLocksAreBacked == Spec => []InfiniteLockIsBacked
<1>1. Init => InfiniteLockIsBacked
  BY DEF Init, InfiniteLockIsBacked, UNLOCKED, INFINITE_LOCK
<1>2. QED
  BY <1>1, TypeCorrect, InfiniteLockStep, PTL DEF Spec

-----------------------------------------------------------------------------
(* QueueStats::in_flight.                                                  *)

LEMMA BusyInFinite ==
    ASSUME NEW q
    PROVE  IsFiniteSet(BusyIn(q)) /\ Cardinality(BusyIn(q)) \in Nat
<1>1. BusyIn(q) \in SUBSET Slots
  BY DEF BusyIn
<1>2. QED
  BY <1>1, FS_Subset, FS_CardinalityType, SlotsAssumption

\* A spawned task adds one to its queue and nothing to the others.
LEMMA SpawnCounts ==
    ASSUME TypeOK, NEW e \in Events, NEW s \in Slots, phase[s] = "idle",
           phase' = [phase EXCEPT ![s] = "start"], job' = [job EXCEPT ![s] = e],
           NEW q \in Queues
    PROVE  Cardinality(BusyIn(q)') =
             Cardinality(BusyIn(q)) + IF q = QueueOf[e] THEN 1 ELSE 0
<1>1. CASE q = QueueOf[e]
  <2>1. BusyIn(q)' = BusyIn(q) \cup {s}
    BY <1>1 DEF BusyIn, TypeOK
  <2>2. s \notin BusyIn(q)
    BY DEF BusyIn
  <2>3. QED
    BY <1>1, <2>1, <2>2, BusyInFinite, FS_AddElement
<1>2. CASE q # QueueOf[e]
  <2>1. BusyIn(q)' = BusyIn(q)
    BY <1>2 DEF BusyIn, TypeOK
  <2>2. QED
    BY <1>2, <2>1, BusyInFinite
<1>3. QED
  BY <1>1, <1>2

\* A task that ends takes one from its queue and nothing from the others.
LEMMA EndCounts ==
    ASSUME TypeOK, NEW s \in Slots, phase[s] # "idle", EndTask(s), NEW q \in Queues
    PROVE  Cardinality(BusyIn(q)') =
             Cardinality(BusyIn(q)) - IF q = QueueOf[job[s]] THEN 1 ELSE 0
<1>1. CASE q = QueueOf[job[s]]
  <2>1. BusyIn(q)' = BusyIn(q) \ {s}
    BY <1>1 DEF BusyIn, TypeOK, EndTask
  <2>2. s \in BusyIn(q)
    BY <1>1 DEF BusyIn
  <2>3. QED
    BY <1>1, <2>1, <2>2, BusyInFinite, FS_RemoveElement
<1>2. CASE q # QueueOf[job[s]]
  <2>1. BusyIn(q)' = BusyIn(q)
    BY <1>2 DEF BusyIn, TypeOK, EndTask
  <2>2. QED
    BY <1>2, <2>1, BusyInFinite
<1>3. QED
  BY <1>1, <1>2

\* A task that goes on is counted as before.
LEMMA SameCounts ==
    ASSUME job' = job, NEW q,
           \A s \in Slots : (phase'[s] # "idle") <=> (phase[s] # "idle")
    PROVE  BusyIn(q)' = BusyIn(q)
BY DEF BusyIn

LEMMA InFlightStep ==
    TypeOK /\ InFlightIsExact /\ [Next]_vars => InFlightIsExact'
<1> SUFFICES ASSUME TypeOK, InFlightIsExact, [Next]_vars, NEW q \in Queues
             PROVE  /\ Cardinality(BusyIn(q)') <= inFlight'[q]
                    /\ ~closed' => inFlight'[q] = Cardinality(BusyIn(q)')
  BY DEF InFlightIsExact
<1> DEFINE Exact == /\ Cardinality(BusyIn(q)) <= inFlight[q]
                    /\ ~closed => inFlight[q] = Cardinality(BusyIn(q))
<1>a. Exact /\ inFlight[q] \in Int /\ Cardinality(BusyIn(q)) \in Nat
  BY BusyInFinite DEF InFlightIsExact, TypeOK
<1>b. ASSUME UNCHANGED <<taskVars, inFlight>>, closed => closed'
      PROVE  Exact'
  <2>1. BusyIn(q)' = BusyIn(q)
    BY <1>b, SameCounts DEF taskVars
  <2>2. QED
    BY <1>a, <1>b, <2>1
<1>1. CASE UNCHANGED vars
  BY <1>1, <1>b DEF vars, managerVars
<1>2. CASE Environment
  BY <1>2, <1>b DEF Environment, Tick, QueueMessage, RemoteQueueMessage,
                    RemoteLock, RemoteDone, managerVars
<1>3. ASSUME NEW s \in Slots, WorkerNext(s)
      PROVE  Exact'
  <2>1. CASE WorkerSendFails(s)
    <3>1. Cardinality(BusyIn(q)') <= Cardinality(BusyIn(q))
      BY <1>a, <2>1, EndCounts DEF WorkerSendFails, Status
    <3>2. closed' /\ inFlight' = inFlight
      BY <2>1 DEF WorkerSendFails, managerVars
    <3>3. Cardinality(BusyIn(q)') \in Int
      BY <1>a, <2>1, EndCounts DEF WorkerSendFails, Status
    <3>4. QED
      BY <1>a, <3>1, <3>2, <3>3
  <2>2. CASE ~WorkerSendFails(s)
    <3>1. /\ inFlight' = inFlight /\ closed' = closed /\ job' = job
          /\ \A t \in Slots : (phase'[t] # "idle") <=> (phase[t] # "idle")
      BY <1>3, <2>2 DEF TypeOK, WorkerNext, WorkerLock, WorkerLocked,
                        WorkerFinish, Status, managerVars
    <3>2. QED
      BY <1>a, <3>1, SameCounts
  <2>3. QED
    BY <2>1, <2>2
<1>4. CASE Control
  <2>1. UNCHANGED <<taskVars, inFlight>> /\ (closed => closed')
    BY <1>4 DEF Control, Paused, ReloadSettings, Stop, taskVars, storeVars, TypeOK
  <2>2. QED
    BY <1>b, <2>1
<1>5. ASSUME NEW s \in Slots, WorkerDone(s)
      PROVE  Exact'
  <2>1. /\ phase[s] # "idle" /\ EndTask(s) /\ closed' = closed
        /\ inFlight' = [inFlight EXCEPT ![QueueOf[job[s]]] = @ - 1]
    BY <1>5 DEF WorkerDone, WorkerDoneCompleted, WorkerDoneLocked,
                WorkerDoneDeferred
  <2>2. inFlight'[q] = inFlight[q] - IF q = QueueOf[job[s]] THEN 1 ELSE 0
    BY <1>a, <2>1 DEF TypeOK
  <2>3. Cardinality(BusyIn(q)') =
           Cardinality(BusyIn(q)) - IF q = QueueOf[job[s]] THEN 1 ELSE 0
    BY <2>1, EndCounts
  <2>4. QED
    BY <1>a, <2>1, <2>2, <2>3
<1>6. CASE Refresh \/ Break \/ NoScan \/ Retain
  <2>1. UNCHANGED <<taskVars, inFlight>> /\ (closed => closed')
    BY <1>6 DEF Refresh, Break, NoScan, Retain, taskVars, storeVars, TypeOK
  <2>2. QED
    BY <1>b, <2>1
<1>7. ASSUME NEW read \in SUBSET Stored, Scan(read)
      PROVE  Exact'
  BY <1>7, <1>b DEF Scan
<1>8. ASSUME NEW e \in Events, NEW s \in Slots, Deliver(e, s)
      PROVE  Exact'
  <2>1. inFlight'[q] = inFlight[q] + IF q = QueueOf[e] THEN 1 ELSE 0
    BY <1>8, <1>a DEF Deliver, TypeOK
  <2>2. Cardinality(BusyIn(q)') =
           Cardinality(BusyIn(q)) + IF q = QueueOf[e] THEN 1 ELSE 0
    BY <1>8, SpawnCounts DEF Deliver
  <2>3. closed' = closed
    BY <1>8 DEF Deliver
  <2>4. QED
    BY <1>a, <2>1, <2>2, <2>3
<1>9. ASSUME NEW e \in Events, BackPressure(e)
      PROVE  Exact'
  BY <1>9, <1>b DEF BackPressure
<1>10. QED
  BY <1>1, <1>2, <1>3, <1>4, <1>5, <1>6, <1>7, <1>8, <1>9 DEF Next, Loop

\* QueueStats::in_flight is the number of tasks in flight: it never
\* underflows and never lets a virtual queue use more threads than it counts.
THEOREM InFlightExact == Spec => []InFlightIsExact
<1>1. Init => InFlightIsExact
  <2> SUFFICES ASSUME Init, NEW q \in Queues
               PROVE  inFlight[q] = 0 /\ Cardinality(BusyIn(q)) = 0
    BY DEF InFlightIsExact
  <2>1. BusyIn(q) = {}
    BY DEF Init, BusyIn
  <2>2. QED
    BY <2>1, FS_EmptySet DEF Init
<1>2. QED
  BY <1>1, TypeCorrect, InFlightStep, PTL DEF Spec

-----------------------------------------------------------------------------
(* The timer.  PunctualWakeup speaks of the sleeping loop only; it is kept *)
(* up while the loop scans and while it drains the channel without having  *)
(* been asked to scan.  The one task whose event may be early is the task  *)
(* that has just deferred it and owes the report.                          *)

OwesDeferred(e) == \E s \in Slots : phase[s] = "Deferred" /\ job[s] = e

Punctual ==
    /\ nextRefresh <= QUEUE_REFRESH
    /\ \A e \in Events : \/ e \in unseen \/ e \in announcing
                         \/ ~(due[e] > 0) \/ OwesDeferred(e)
                         \/ nextRefresh <= due[e]

TimerIsSet ==
    \/ paused \/ closed \/ pc = "stopped"
    \/ pc = "drain" /\ refresh
    \/ Punctual

\* A step that moves neither the timer, nor an event, nor a deferring task
\* nor the sets of unknown events keeps the timer punctual.
LEMMA PunctualKept ==
    ASSUME TypeOK, Punctual, UNCHANGED <<due, unseen, announcing>>,
           nextRefresh' \in Int, nextRefresh' <= nextRefresh,
           \A s \in Slots : phase[s] = "Deferred" =>
                 phase'[s] = "Deferred" /\ job'[s] = job[s]
    PROVE  Punctual'
<1>1. nextRefresh' <= QUEUE_REFRESH
  BY TimesAssumption DEF Punctual, TypeOK
<1>2. ASSUME NEW e \in Events, OwesDeferred(e)
      PROVE  OwesDeferred(e)'
  BY <1>2 DEF OwesDeferred
<1>3. ASSUME NEW e \in Events, nextRefresh <= due[e]
      PROVE  nextRefresh' <= due[e]
  BY <1>3, TimesAssumption DEF TypeOK, ABSENT
<1>4. QED
  BY <1>1, <1>2, <1>3 DEF Punctual

LEMMA TimerStep == TypeOK /\ TimerIsSet /\ [Next]_vars => TimerIsSet'
<1> SUFFICES ASSUME TypeOK, TimerIsSet, [Next]_vars,
                    ~paused', ~closed', pc' # "stopped",
                    ~(pc' = "drain" /\ refresh')
             PROVE  Punctual'
  BY DEF TimerIsSet
<1>a. nextRefresh \in Int /\ QUEUE_REFRESH \in Int
  BY TimesAssumption DEF TypeOK
<1>b. pc # "stopped" /\ ~paused /\ ~closed /\ ~(pc = "drain" /\ refresh) => Punctual
  BY DEF TimerIsSet
<1>1. CASE UNCHANGED vars
  BY <1>1, <1>a, <1>b, PunctualKept
     DEF vars, storeVars, taskVars, managerVars
<1>2. CASE Tick /\ pc # "stopped"
  <2>1. Punctual
    BY <1>2, <1>b DEF Tick
  <2>2. nextRefresh' \in Int /\ nextRefresh' <= nextRefresh
    BY <1>2, LessFacts, TimesAssumption DEF Tick, TypeOK
  <2>3. ASSUME NEW e \in Events, due'[e] > 0, nextRefresh <= due[e]
        PROVE  nextRefresh' <= due'[e]
    BY <1>2, <2>3, TimesAssumption DEF Tick, TypeOK, Less, ABSENT
  <2>4. ASSUME NEW e \in Events, due'[e] > 0
        PROVE  due[e] > 0
    BY <1>2, <2>4, TimesAssumption DEF Tick, TypeOK, Less, ABSENT
  <2>5. \A e \in Events : OwesDeferred(e)' <=> OwesDeferred(e)
    BY <1>2 DEF Tick, taskVars, OwesDeferred
  <2>6. nextRefresh' <= QUEUE_REFRESH
    BY <1>a, <2>1, <2>2 DEF Punctual
  <2>7. UNCHANGED <<unseen, announcing>>
    BY <1>2 DEF Tick
  <2>8. QED
    BY <2>1, <2>3, <2>4, <2>5, <2>6, <2>7 DEF Punctual
<1>3. ASSUME pc # "stopped", NEW f \in Events, NEW d \in 0..MaxDelay,
             QueueMessage(f, d) \/ RemoteQueueMessage(f, d)
      PROVE  Punctual'
  <2>1. /\ UNCHANGED <<nextRefresh, phase, job, pc, paused, closed, refresh>>
        /\ f \in unseen' \cup announcing'
        /\ unseen \subseteq unseen' /\ announcing \subseteq announcing'
        /\ \A e \in Events \ {f} : due'[e] = due[e]
    BY <1>3 DEF QueueMessage, RemoteQueueMessage, taskVars, managerVars, TypeOK
  <2>2. Punctual
    BY <1>b, <1>3, <2>1
  <2>3. QED
    BY <2>1, <2>2 DEF Punctual, OwesDeferred
<1>4. ASSUME pc # "stopped", NEW f \in Events, RemoteLock(f)
      PROVE  Punctual'
  BY <1>4, <1>a, <1>b, PunctualKept DEF RemoteLock, taskVars, managerVars
<1>5. ASSUME pc # "stopped", NEW f \in Events, RemoteDone(f)
      PROVE  Punctual'
  <2>1. /\ UNCHANGED <<nextRefresh, phase, job, pc, paused, closed, refresh>>
        /\ f \in unseen' /\ unseen \subseteq unseen' /\ announcing' = announcing
        /\ \A e \in Events \ {f} : due'[e] = due[e]
    BY <1>5 DEF RemoteDone, taskVars, managerVars, TypeOK
  <2>2. Punctual
    BY <1>b, <1>5, <2>1
  <2>3. QED
    BY <2>1, <2>2 DEF Punctual, OwesDeferred
<1>6. ASSUME pc # "stopped", NEW s \in Slots, WorkerLock(s) \/ WorkerLocked(s)
      PROVE  Punctual'
  <2>1. /\ UNCHANGED <<nextRefresh, job, pc, paused, closed, refresh, due, unseen,
                       announcing>>
        /\ \A t \in Slots : phase[t] = "Deferred" => phase'[t] = "Deferred"
    BY <1>6 DEF WorkerLock, WorkerLocked, managerVars, storeVars, TypeOK
  <2>2. QED
    BY <1>6, <1>a, <1>b, <2>1, PunctualKept
<1>7. ASSUME pc # "stopped", NEW s \in Slots, NEW status \in Status,
             NEW d \in {ABSENT} \cup 1..MaxDelay, WorkerFinish(s, status, d)
      PROVE  Punctual'
  <2>1. /\ UNCHANGED <<nextRefresh, job, pc, paused, closed, refresh, unseen,
                       announcing>>
        /\ \A e \in Events \ {job[s]} : due'[e] = due[e]
        /\ \A t \in Slots : phase[t] = "Deferred" => phase'[t] = "Deferred"
        /\ phase[s] = "run"
    BY <1>7 DEF WorkerFinish, managerVars, TypeOK
  <2>2. job[s] \in Events
    BY <2>1 DEF TypeOK
  <2>3. phase'[s] = "Deferred" \/ ~(due'[job[s]] > 0)
    BY <1>7, <2>2 DEF WorkerFinish, TypeOK, ABSENT
  <2>4. Punctual
    BY <1>b, <1>7, <2>1
  <2>5. QED
    BY <2>1, <2>2, <2>3, <2>4 DEF Punctual, OwesDeferred
<1>8. ASSUME NEW s \in Slots
      PROVE  ~WorkerSendFails(s)
  BY DEF WorkerSendFails, managerVars
<1>9. CASE Control
  <2>1. ASSUME NEW value \in BOOLEAN, Paused(value)
        PROVE  FALSE
    BY <2>1 DEF Paused, Received
  <2>2. ASSUME NEW threads \in [Queues -> Threads], ReloadSettings(threads)
        PROVE  Punctual'
    <3>1. /\ UNCHANGED <<nextRefresh, phase, job, paused, closed, due, unseen,
                         announcing>>
          /\ pc \in {"recv", "drain"} /\ ~(pc = "drain" /\ refresh)
      BY <2>2 DEF ReloadSettings, Received, Receiving, taskVars, storeVars
    <3>2. QED
      BY <1>a, <1>b, <3>1, PunctualKept
  <2>3. ~Stop
    BY DEF Stop
  <2>4. QED
    BY <1>9, <2>1, <2>2, <2>3 DEF Control
<1>10. ASSUME NEW s \in Slots, WorkerDone(s)
       PROVE  Punctual'
  <2>1. ~WorkerDoneDeferred(s)
    BY DEF WorkerDoneDeferred, Received
  <2>2. /\ UNCHANGED <<paused, closed, due, unseen, announcing>>
        /\ pc \in {"recv", "drain"} /\ ~(pc = "drain" /\ refresh)
        /\ phase[s] # "Deferred" /\ EndTask(s)
    BY <1>10, <2>1 DEF WorkerDone, WorkerDoneCompleted, WorkerDoneLocked, Received,
                       Receiving, storeVars
  <2>3. nextRefresh' \in Int /\ nextRefresh' <= nextRefresh
    <3>1. nextRefresh' = nextRefresh \/
          nextRefresh' = IF LOCKED_WAIT < nextRefresh THEN LOCKED_WAIT ELSE nextRefresh
      BY <1>10, <2>1 DEF WorkerDone, WorkerDoneCompleted, WorkerDoneLocked
    <3>2. QED
      BY <3>1, <1>a, TimesAssumption
  <2>4. \A t \in Slots : phase[t] = "Deferred" =>
                phase'[t] = "Deferred" /\ job'[t] = job[t]
    BY <2>2 DEF EndTask, TypeOK
  <2>5. QED
    BY <1>b, <2>2, <2>3, <2>4, PunctualKept
<1>11. ~Refresh /\ ~Break
  BY DEF Refresh, Received, Break
<1>12. CASE NoScan
  <2>1. /\ UNCHANGED <<phase, job, paused, closed, due, unseen, announcing>>
        /\ pc \in {"recv", "drain"} /\ ~(pc = "drain" /\ refresh)
        /\ nextRefresh' = nextRefresh
    BY <1>12 DEF NoScan, taskVars, storeVars
  <2>2. QED
    BY <1>a, <1>b, <2>1, PunctualKept
<1>13. ASSUME NEW read \in SUBSET Stored, Scan(read)
       PROVE  Punctual'
  <2> DEFINE later == {due[e] : e \in {f \in read : due[f] > 0}}
  <2>1. PICK waits, least :
           /\ IsLeast(least, {QUEUE_REFRESH} \cup later \cup waits)
           /\ nextRefresh' = least
    BY <1>13, Zenon DEF Scan
  <2>2. nextRefresh' <= QUEUE_REFRESH
    BY <2>1 DEF IsLeast
  <2>3. \A e \in read : due[e] > 0 => nextRefresh' <= due[e]
    BY <2>1 DEF IsLeast
  <2>4. \A e \in Events : due[e] > 0 /\ e \notin unseen' => e \in read
    BY <1>13 DEF Scan, Stored, ABSENT, TypeOK
  <2>5. due' = due
    BY <1>13 DEF Scan
  <2>6. QED
    BY <2>2, <2>3, <2>4, <2>5 DEF Punctual
<1>14. ASSUME NEW e \in Events, NEW s \in Slots, Deliver(e, s)
       PROVE  Punctual'
  <2>1. /\ UNCHANGED <<nextRefresh, pc, refresh, paused, closed, due, unseen,
                       announcing>>
        /\ pc = "dispatch"
        /\ \A t \in Slots : phase[t] = "Deferred" =>
                phase'[t] = "Deferred" /\ job'[t] = job[t]
    BY <1>14 DEF Deliver, storeVars, TypeOK
  <2>2. QED
    BY <1>a, <1>b, <2>1, PunctualKept
<1>15. ASSUME NEW e \in Events, BackPressure(e)
       PROVE  Punctual'
  BY <1>15, <1>a, <1>b, PunctualKept DEF BackPressure, storeVars, taskVars
<1>16. CASE Retain
  BY <1>16, <1>a, <1>b, PunctualKept DEF Retain, storeVars, taskVars
<1>17. QED
  BY <1>1, <1>2, <1>3, <1>4, <1>5, <1>6, <1>7, <1>8, <1>9, <1>10, <1>11, <1>12,
     <1>13, <1>14, <1>15, <1>16, RemoteAssumption
     DEF Next, Environment, WorkerNext, Loop

\* The sleeping loop always wakes up in time for the events it can know of,
\* whatever the order in which reports, pauses, reloads and scans interleave.
THEOREM WakesUpInTime == Spec => []PunctualWakeup
<1>1. Init => TimerIsSet
  BY TimesAssumption DEF Init, TimerIsSet, Punctual, ABSENT
<1>2. TypeOK /\ TimerIsSet => PunctualWakeup
  BY DEF TypeOK, TimerIsSet, Punctual, PunctualWakeup, OwesDeferred, Busy
<1>3. QED
  BY <1>1, <1>2, TypeCorrect, TimerStep, PTL DEF Spec
=============================================================================
