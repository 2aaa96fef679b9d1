-------------------------- MODULE MailQueueProofs --------------------------
(***************************************************************************)
(* Theorems about the life of a queued message.                            *)
(*                                                                         *)
(* First, what the functions on messages compute, and for each step that   *)
(* handles a message, what the message is after it (ReadFacts to           *)
(* AdminSaveFacts); the invariants are proved from those facts.  Then, in  *)
(* four layers, each with the hypotheses it needs:                         *)
(*   - TypeInv, for any configuration;                                     *)
(*   - ToldInv, for any configuration: no copy of the message, in the      *)
(*     store, in a task or in an administrator's request, claims a         *)
(*     delivery or a notification that did not happen;                     *)
(*   - LeaseInv, when nobody edits the queue by hand: who will write which *)
(*     recipients, and what they know of them.  The lock gives each        *)
(*     virtual queue to one task, and the merge gives each waiting         *)
(*     recipient to the task of its queue;                                 *)
(*   - SingleInv, when there is also only one virtual queue: a task has    *)
(*     the whole message to itself.                                        *)
(***************************************************************************)
EXTENDS MailQueue, FiniteSetTheorems, TLAPS

-----------------------------------------------------------------------------
(* The smallest element of a set of numbers.                               *)

LEMMA NatMin ==
  ASSUME NEW S \in SUBSET Nat, S # {}
  PROVE  Min(S) \in S /\ \A y \in S : Min(S) <= y
<1> DEFINE T == {0..n : n \in S}
<1>1. \A n \in S : 0..n \in SUBSET Nat /\ IsFiniteSet(0..n)
  BY FS_Interval
<1>2. T \subseteq FiniteSubsetsOf(Nat) /\ T # {}
  BY <1>1 DEF FiniteSubsetsOf
<1>3. PICK m \in T : \A y \in T : ~(<<y, m>> \in StrictSubsetOrdering(Nat))
  BY <1>2, WFMin, FS_StrictSubsetOrderingWellFounded
<1>4. PICK x \in S : m = 0..x
  OBVIOUS
<1>5. ASSUME NEW y \in S PROVE x <= y
  <2>1. SUFFICES ASSUME y < x PROVE FALSE
    OBVIOUS
  <2>2. 0..y \subseteq 0..x /\ x \in 0..x /\ x \notin 0..y
    BY <2>1
  <2>3. 0..y \in T /\ 0..y \subseteq Nat /\ 0..x \subseteq Nat /\ 0..y # 0..x
    BY <2>2
  <2>4. <<0..y, 0..x>> \in StrictSubsetOrdering(Nat)
    BY <2>2, <2>3 DEF StrictSubsetOrdering
  <2>5. QED
    BY <1>3, <1>4, <2>3, <2>4
<1>6. QED
  BY <1>5 DEF Min

-----------------------------------------------------------------------------
(* Types.                                                                  *)

Statuses == {"Scheduled", "TempFail", "Completed", "PermFail"}
Recipients ==
    [st : Statuses, queue : Queues, due : Nat, inner : Nat, notify : Nat, sent : Nat,
     dsn : BOOLEAN]
Messages ==
    {m \in [rcpts : [Rcpts -> Recipients], meta : SUBSET QuotaIds] :
        \A r \in Rcpts : m.rcpts[r].queue \in Strategies[r]}
Events == Nat \X Queues

EvTasks == [pc : {"read", "clear", "unlock"}, ev : Events]
MsgTasks ==
    [pc : {"attempt", "save", "remove"}, ev : Events, msg : Messages, multi : BOOLEAN]
Tasks == {IdleTask} \cup EvTasks \cup MsgTasks
AdminRequests ==
    {Resting} \cup [pc : {"write"}, op : AdminOps, target : SUBSET Rcpts,
                    prev : SUBSET Events, msg : Messages]

TypeInv ==
    /\ now \in 0..MaxNow /\ path \in ReturnPaths
    /\ stored \in Messages \cup {Gone}
    /\ events \in SUBSET Events
    /\ used \in [QuotaIds -> Int]
    /\ lock \in [Queues -> Workers \cup {NoWorker}]
    /\ task \in [Workers -> Tasks]
    /\ admin \in AdminRequests /\ adminLeft \in SUBSET AdminOps
    /\ faults \in SUBSET Faults /\ IsFiniteSet(faults)
    /\ delivered \in [Rcpts -> Nat] /\ bounced \in [Rcpts -> Nat]
    /\ removed \in {"no", "done", "admin"}

LEMMA NowNat == 0..MaxNow \subseteq Nat /\ NEVER \in Nat
BY TimeAssumption DEF NEVER

LEMMA GoneIsNoMessage == Gone \notin Messages
<1>1. 1 \in Rcpts
  BY RcptsAssumption DEF Rcpts
<1>2. SUFFICES ASSUME Gone \in Messages PROVE FALSE
  OBVIOUS
<1>3. DOMAIN Gone.rcpts = Rcpts
  BY <1>2 DEF Messages
<1>4. DOMAIN Gone.rcpts = {}
  BY DEF Gone
<1>5. QED
  BY <1>1, <1>3, <1>4

\* The fields of a task by where it is.
LEMMA TaskKinds ==
  ASSUME TypeInv, NEW w \in Workers
  PROVE  /\ task[w].pc = "idle" <=> task[w] = IdleTask
         /\ task[w].pc \in {"read", "clear", "unlock"} => task[w] \in EvTasks
         /\ task[w].pc \in {"attempt", "save", "remove"} => task[w] \in MsgTasks
         /\ task[w] # IdleTask => task[w].ev \in Events
BY DEF TypeInv, Tasks, EvTasks, MsgTasks, IdleTask

-----------------------------------------------------------------------------
(* What the functions on messages compute.                                 *)

LEMMA ExpirationTimeNat == ExpirationTime \in SUBSET Nat
BY ExpiryAssumption DEF ExpirationTime

LEMMA EarliestNat ==
  ASSUME NEW x \in Recipients
  PROVE  Earliest(x) \in Nat
<1>1. {x.due, x.notify} \cup ExpirationTime \in SUBSET Nat
  BY ExpirationTimeNat DEF Recipients
<1>2. QED
  BY <1>1, NatMin DEF Earliest

\* Every queue with a waiting recipient gets an event, no later than the
\* earliest moment one of its recipients has to be looked at.
LEMMA NextEventsFacts ==
  ASSUME NEW m \in Messages
  PROVE  /\ NextEvents(m) \in SUBSET Events
         /\ \A r \in Rcpts : Pending(m.rcpts[r]) =>
               \E ev \in NextEvents(m) :
                  ev[2] = m.rcpts[r].queue /\ ev[1] <= Earliest(m.rcpts[r])
<1> DEFINE Dues(q) == {Earliest(m.rcpts[r]) : r \in PendingIn(m, q)}
<1>1. \A r \in Rcpts : m.rcpts[r] \in Recipients /\ m.rcpts[r].queue \in Queues
  BY DEF Messages, Recipients
<1>2. \A q \in Queues : Dues(q) \in SUBSET Nat
  BY <1>1, EarliestNat DEF PendingIn
<1>3. ASSUME NEW q \in Queues, PendingIn(m, q) # {}
      PROVE  Min(Dues(q)) \in Nat /\ \A y \in Dues(q) : Min(Dues(q)) <= y
  <2>1. Dues(q) # {}
    BY <1>3
  <2> HIDE DEF Dues
  <2>2. QED
    BY <1>2, <2>1, NatMin
<1>4. NextEvents(m) = {<<Min(Dues(q)), q>> : q \in {p \in Queues : PendingIn(m, p) # {}}}
  BY DEF NextEvents
<1>5. NextEvents(m) \in SUBSET Events
  <2> HIDE DEF Dues
  <2>1. QED
    BY <1>3, <1>4 DEF Events
<1>6. ASSUME NEW r \in Rcpts, Pending(m.rcpts[r])
      PROVE  \E ev \in NextEvents(m) :
                ev[2] = m.rcpts[r].queue /\ ev[1] <= Earliest(m.rcpts[r])
  <2> DEFINE q == m.rcpts[r].queue
  <2>1. q \in Queues /\ r \in PendingIn(m, q)
    BY <1>1, <1>6 DEF PendingIn
  <2>2. Earliest(m.rcpts[r]) \in Dues(q)
    BY <2>1
  <2> HIDE DEF Dues
  <2>3. <<Min(Dues(q)), q>> \in NextEvents(m) /\ Min(Dues(q)) <= Earliest(m.rcpts[r])
    BY <1>3, <1>4, <2>1, <2>2
  <2>4. QED
    BY <2>3
<1>7. QED
  BY <1>5, <1>6

LEMMA ReleasedInMeta ==
  ASSUME NEW m \in Messages PROVE ReleasedQuota(m) \in SUBSET m.meta
BY DEF ReleasedQuota

LEMMA ExpireFacts ==
  ASSUME NEW m \in Messages, NEW t \in Nat
  PROVE  /\ Expire(m, t) \in Messages /\ Expire(m, t).meta = m.meta
         /\ \A r \in Rcpts :
               \/ Expire(m, t).rcpts[r] = m.rcpts[r]
               \/ /\ Pending(m.rcpts[r])
                  /\ Expire(m, t).rcpts[r] = [m.rcpts[r] EXCEPT !.st = "PermFail"]
<1> DEFINE f == [r \in Rcpts |->
        IF Pending(m.rcpts[r]) /\ IsExpired(m.rcpts[r], t)
          THEN [m.rcpts[r] EXCEPT !.st = "PermFail"] ELSE m.rcpts[r]]
<1>1. \A r \in Rcpts : m.rcpts[r] \in Recipients
  BY DEF Messages
<1>2. \A r \in Rcpts : f[r] \in Recipients /\ f[r].queue = m.rcpts[r].queue
  BY <1>1 DEF Recipients, Statuses
<1>3. f \in [Rcpts -> Recipients]
  BY <1>2
<1>4. Expire(m, t) = [m EXCEPT !.rcpts = f]
  BY DEF Expire
<1>5. \A r \in Rcpts :
         \/ f[r] = m.rcpts[r]
         \/ Pending(m.rcpts[r]) /\ f[r] = [m.rcpts[r] EXCEPT !.st = "PermFail"]
  OBVIOUS
<1> HIDE DEF f
<1>6. Expire(m, t).rcpts = f /\ Expire(m, t).meta = m.meta
  BY <1>4 DEF Messages
<1>7. Expire(m, t) \in Messages
  BY <1>2, <1>3, <1>4 DEF Messages
<1>8. QED
  BY <1>5, <1>6, <1>7

\* A notification changes the flag and the time of the next one; every failed
\* recipient has the flag afterwards.
Renotified(x, y) ==
    /\ y.st = x.st /\ y.queue = x.queue /\ y.due = x.due /\ y.inner = x.inner
    /\ x.dsn => y.dsn
    /\ x.st = "PermFail" => y.dsn
    /\ y.dsn => x.dsn \/ x.st = "PermFail" \/ (x.st = "Completed" /\ path = "user")

LEMMA NotifiedFacts ==
  ASSUME NEW m \in Messages, NEW t \in Nat, path \in ReturnPaths
  PROVE  /\ Notified(m, t) \in Messages /\ Notified(m, t).meta = m.meta
         /\ \A r \in Rcpts : Renotified(m.rcpts[r], Notified(m, t).rcpts[r])
<1> DEFINE Later(x) ==
          IF path = "user"
            THEN IF x.sent + 1 < Len(NotifyAfter)
                   THEN [x EXCEPT !.sent = @ + 1,
                                  !.notify = t + NotifyAfter[x.sent + 2]]
                   ELSE [x EXCEPT !.notify = NEVER]
            ELSE [x EXCEPT !.notify = Min({e + 10 : e \in ExpirationTime}
                                            \cup {NEVER})]
           New(x) == IF x.st = "PermFail" \/ (x.st = "Completed" /\ path = "user")
                       THEN [x EXCEPT !.dsn = TRUE]
                       ELSE IF Pending(x) /\ x.notify <= t THEN Later(x) ELSE x
           f == [r \in Rcpts |-> New(m.rcpts[r])]
<1>1. ASSUME NEW x \in Recipients
      PROVE  /\ Later(x) \in Recipients
             /\ Later(x).st = x.st /\ Later(x).queue = x.queue /\ Later(x).due = x.due
             /\ Later(x).inner = x.inner /\ Later(x).dsn = x.dsn
  <2>1. NEVER \in Nat
    BY NowNat
  <2>2. Min({e + 10 : e \in ExpirationTime} \cup {NEVER}) \in Nat
    <3>1. {e + 10 : e \in ExpirationTime} \cup {NEVER} \in SUBSET Nat
      BY <2>1, ExpirationTimeNat
    <3>2. QED
      BY <3>1, NatMin
  <2>3. ASSUME x.sent + 1 < Len(NotifyAfter) PROVE t + NotifyAfter[x.sent + 2] \in Nat
    <3>1. x.sent \in Nat /\ Len(NotifyAfter) \in Nat
      BY NotifyAssumption DEF Recipients
    <3>2. x.sent + 2 \in 1..Len(NotifyAfter)
      BY <2>3, <3>1
    <3>3. QED
      BY <3>2, NotifyAssumption
  <2>4. x.sent + 1 \in Nat
    BY DEF Recipients
  <2>5. QED
    BY <2>1, <2>2, <2>3, <2>4 DEF Recipients
<1> HIDE DEF Later
<1>2. ASSUME NEW x \in Recipients
      PROVE  New(x) \in Recipients /\ Renotified(x, New(x))
  <2>1. CASE x.st = "PermFail" \/ (x.st = "Completed" /\ path = "user")
    BY <2>1 DEF Recipients, Renotified
  <2>2. CASE ~(x.st = "PermFail" \/ (x.st = "Completed" /\ path = "user"))
    <3>1. CASE Pending(x) /\ x.notify <= t
      <4>1. New(x) = Later(x)
        BY <2>2, <3>1
      <4>2. QED
        BY <1>1, <2>2, <4>1 DEF Renotified
    <3>2. CASE ~(Pending(x) /\ x.notify <= t)
      BY <2>2, <3>2 DEF Renotified
    <3>3. QED
      BY <3>1, <3>2
  <2>3. QED
    BY <2>1, <2>2
<1>3. Notified(m, t) = [m EXCEPT !.rcpts = f]
  BY DEF Notified, Later
<1>4. \A r \in Rcpts : m.rcpts[r] \in Recipients /\ f[r] = New(m.rcpts[r])
  BY DEF Messages
<1> HIDE DEF New
<1>5. f \in [Rcpts -> Recipients] /\ \A r \in Rcpts : Renotified(m.rcpts[r], f[r])
  BY <1>2, <1>4
<1> HIDE DEF f
<1>6. Notified(m, t).rcpts = f /\ Notified(m, t).meta = m.meta
  BY <1>3 DEF Messages
<1>7. Notified(m, t) \in Messages
  BY <1>3, <1>5 DEF Messages, Renotified
<1>8. QED
  BY <1>5, <1>6, <1>7

LEMMA SetStatusFacts ==
  ASSUME NEW x \in Recipients, NEW o \in Outcomes, NEW q \in Queues, now \in Nat
  PROVE  /\ SetStatus(x, o, q) \in Recipients /\ SetStatus(x, o, q).dsn = x.dsn
         /\ SetStatus(x, o, q).st = IF o = "RateLimited" THEN "TempFail" ELSE o
         /\ SetStatus(x, o, q).queue = IF o = "TempFail" THEN q ELSE x.queue
<1>1. now + RetryAfter \in Nat /\ x.inner + 1 \in Nat
  BY TimeAssumption DEF Recipients
<1>2. CASE o \in {"Completed", "PermFail"}
  BY <1>2 DEF SetStatus, Recipients, Statuses
<1>3. CASE o = "TempFail"
  <2>1. SetStatus(x, o, q) = [x EXCEPT !.st = o, !.due = now + RetryAfter, !.inner = @ + 1,
                                       !.queue = q]
    BY <1>3 DEF SetStatus
  <2>2. QED
    BY <1>1, <1>3, <2>1 DEF Recipients, Statuses
<1>4. CASE o = "RateLimited"
  <2>1. SetStatus(x, o, q) = [x EXCEPT !.st = "TempFail", !.due = now + RetryAfter]
    BY <1>4 DEF SetStatus
  <2>2. QED
    BY <1>1, <1>4, <2>1 DEF Recipients, Statuses
<1>5. QED
  BY <1>2, <1>3, <1>4 DEF Outcomes

\* The flag of a recipient after a notification, and whether it was reported
\* as failed by it.
Flagged(x, y) ==
    /\ x.dsn => y.dsn
    /\ y.st = "PermFail" => y.dsn
    /\ y.dsn => x.dsn \/ y.st = "PermFail" \/ (y.st = "Completed" /\ path = "user")
Reported(x, y) == path # "null" /\ y.st = "PermFail" /\ ~x.dsn
Reports(old, new) ==
    bounced' = [r \in Rcpts |->
        bounced[r] + IF Reported(old.rcpts[r], new.rcpts[r]) THEN 1 ELSE 0]

\* What a task has after it has read the message.
LEMMA ReadFacts ==
  ASSUME TypeInv, NEW w \in Workers, Read(w)
  PROVE  \E m \in Messages, pc \in {"attempt", "save", "remove"}, multi \in BOOLEAN :
           /\ task[w] \in EvTasks /\ task[w].pc = "read" /\ stored \in Messages
           /\ task' = [task EXCEPT ![w] = [pc |-> pc, ev |-> task[w].ev, msg |-> m,
                                           multi |-> multi]]
           /\ m.meta = stored.meta
           /\ pc = "remove" <=> ~HasPending(m)
           /\ multi <=> \E r \in Rcpts : /\ Pending(stored.rcpts[r])
                                         /\ stored.rcpts[r].queue # task[w].ev[2]
           /\ \A r \in Rcpts :
                /\ m.rcpts[r].queue = stored.rcpts[r].queue
                /\ \/ m.rcpts[r].st = stored.rcpts[r].st
                   \/ Pending(stored.rcpts[r]) /\ m.rcpts[r].st = "PermFail"
                /\ Flagged(stored.rcpts[r], m.rcpts[r])
           /\ Reports(stored, m)
           /\ UNCHANGED <<now, path, stored, events, used, lock, admin, adminLeft,
                          faults, delivered, removed>>
<1> DEFINE q == task[w].ev[2]
           multi == \E r \in Rcpts : Pending(stored.rcpts[r]) /\ stored.rcpts[r].queue # q
           expired == Expire(stored, now)
           m == Notified(expired, now)
           isDue == \E r \in PendingIn(m, q) : m.rcpts[r].due <= now
           pc == CASE ~HasPending(m) -> "remove"
                   [] HasPending(m) /\ isDue -> "attempt"
                   [] OTHER -> "save"
<1>1. /\ task[w].pc = "read" /\ stored # Gone
      /\ bounced' = Count(bounced, Bounces(expired))
      /\ task' = [task EXCEPT ![w] = [pc |-> pc, ev |-> task[w].ev, msg |-> m,
                                      multi |-> multi]]
      /\ UNCHANGED <<now, path, stored, events, used, lock, admin, adminLeft,
                     faults, delivered, removed>>
  BY DEF Read, Exists, Working
<1>2. task[w] \in EvTasks
  BY <1>1 DEF TypeInv, Tasks, EvTasks, MsgTasks, IdleTask
<1>3. stored \in Messages /\ now \in Nat /\ path \in ReturnPaths
  BY <1>1, NowNat DEF TypeInv
<1>4. /\ pc \in {"attempt", "save", "remove"} /\ multi \in BOOLEAN
      /\ pc = "remove" <=> ~HasPending(m)
  OBVIOUS
<1> HIDE DEF pc
<1>5. /\ expired \in Messages /\ expired.meta = stored.meta
      /\ \A r \in Rcpts :
            \/ expired.rcpts[r] = stored.rcpts[r]
            \/ /\ Pending(stored.rcpts[r])
               /\ expired.rcpts[r] = [stored.rcpts[r] EXCEPT !.st = "PermFail"]
  BY <1>3, ExpireFacts
<1> HIDE DEF expired
<1>6. /\ m \in Messages /\ m.meta = expired.meta
      /\ \A r \in Rcpts : Renotified(expired.rcpts[r], m.rcpts[r])
  BY <1>3, <1>5, NotifiedFacts
<1> HIDE DEF m
<1>7. \A r \in Rcpts : /\ expired.rcpts[r].queue = stored.rcpts[r].queue
                       /\ expired.rcpts[r].dsn = stored.rcpts[r].dsn
                       /\ \/ expired.rcpts[r].st = stored.rcpts[r].st
                          \/ Pending(stored.rcpts[r]) /\ expired.rcpts[r].st = "PermFail"
  <2>1. \A r \in Rcpts : stored.rcpts[r] \in Recipients
    BY <1>3 DEF Messages
  <2>2. QED
    BY <1>5, <2>1 DEF Recipients
<1>8. \A r \in Rcpts :
         /\ m.rcpts[r].queue = stored.rcpts[r].queue
         /\ \/ m.rcpts[r].st = stored.rcpts[r].st
            \/ Pending(stored.rcpts[r]) /\ m.rcpts[r].st = "PermFail"
         /\ Flagged(stored.rcpts[r], m.rcpts[r])
  BY <1>6, <1>7 DEF Renotified, Flagged
<1>9. Reports(stored, m)
  <2>1. \A r \in Rcpts : r \in Bounces(expired) <=> Reported(stored.rcpts[r], m.rcpts[r])
    BY <1>6, <1>7 DEF Bounces, Reported, Renotified
  <2>2. QED
    BY <1>1, <2>1 DEF Count, Reports
<1>10. QED
  BY <1>1, <1>2, <1>3, <1>4, <1>5, <1>6, <1>8, <1>9

\* What an attempt does to the state of recipients: nothing to those it is
\* not for, and those that it moves to another queue stay waiting.
Tried(w, m) ==
    \A r \in Rcpts :
        \/ /\ r \notin Targets(w)
           /\ m.rcpts[r].queue = task[w].msg.rcpts[r].queue
           /\ m.rcpts[r].st = task[w].msg.rcpts[r].st
        \/ /\ r \in Targets(w) /\ Pending(task[w].msg.rcpts[r])
           /\ task[w].msg.rcpts[r].queue = task[w].ev[2]
           /\ \/ m.rcpts[r].st = "TempFail"
              \/ /\ m.rcpts[r].st \in {"Completed", "PermFail"}
                 /\ m.rcpts[r].queue = task[w].ev[2]

\* What a task has after an attempt.
LEMMA AttemptFacts ==
  ASSUME TypeInv, NEW w \in Workers,
         NEW outcome \in [Targets(w) -> Outcomes], NEW strategy \in [Targets(w) -> Queues],
         \A r \in Targets(w) : strategy[r] \in Strategies[r],
         Attempt(w, outcome, strategy)
  PROVE  \E m \in Messages, pc \in {"save", "remove"} :
           /\ task[w] \in MsgTasks /\ task[w].pc = "attempt"
           /\ task' = [task EXCEPT ![w] = [pc |-> pc, ev |-> task[w].ev, msg |-> m,
                                           multi |-> task[w].multi]]
           /\ m.meta = task[w].msg.meta
           /\ pc = "remove" <=> ~HasPending(m)
           /\ Tried(w, m)
           /\ \A r \in Rcpts : Flagged(task[w].msg.rcpts[r], m.rcpts[r])
           /\ delivered' = [r \in Rcpts |-> delivered[r] +
                  IF r \in Targets(w) /\ m.rcpts[r].st = "Completed" THEN 1 ELSE 0]
           /\ Reports(task[w].msg, m)
           /\ UNCHANGED <<now, path, stored, events, used, lock, admin, adminLeft,
                          faults, removed>>
<1> DEFINE old == task[w].msg
           f == [r \in Rcpts |-> IF r \in Targets(w)
                    THEN SetStatus(old.rcpts[r], outcome[r], strategy[r]) ELSE old.rcpts[r]]
           tried == [old EXCEPT !.rcpts = f]
           m == Notified(tried, now)
           pc == IF HasPending(m) THEN "save" ELSE "remove"
<1>1. task[w] \in MsgTasks /\ task[w].pc = "attempt"
  BY DEF Attempt, TypeInv, Tasks, EvTasks, MsgTasks, IdleTask
<1>2. old \in Messages /\ now \in Nat /\ path \in ReturnPaths
  BY <1>1, NowNat DEF TypeInv, MsgTasks
<1>3. Attempt(w, outcome, strategy) <=>
      /\ task[w].pc = "attempt"
      /\ delivered' = Count(delivered, {r \in Targets(w) : outcome[r] = "Completed"})
      /\ bounced' = Count(bounced, Bounces(tried))
      /\ task' = [task EXCEPT ![w] = [pc |-> pc, ev |-> task[w].ev, msg |-> m,
                                      multi |-> task[w].multi]]
      /\ UNCHANGED <<now, path, stored, events, used, lock, admin, adminLeft,
                     faults, removed>>
  <2>1. [old EXCEPT !.rcpts = [r \in Rcpts |->
           IF r \in Targets(w) THEN SetStatus(@[r], outcome[r], strategy[r]) ELSE @[r]]] = tried
    BY <1>2 DEF Messages
  <2>2. QED
    BY <2>1 DEF Attempt, Working
<1>4. pc \in {"save", "remove"} /\ (pc = "remove" <=> ~HasPending(m))
  OBVIOUS
<1> HIDE DEF pc
<1>5. \A r \in Rcpts : old.rcpts[r] \in Recipients /\ old.rcpts[r].queue \in Strategies[r]
  BY <1>2 DEF Messages
<1>6. \A r \in Targets(w) : /\ r \in Rcpts /\ Pending(old.rcpts[r])
                            /\ old.rcpts[r].queue = task[w].ev[2]
  BY DEF Targets, PendingIn
<1>7. ASSUME NEW r \in Targets(w)
      PROVE  /\ f[r] \in Recipients /\ f[r].dsn = old.rcpts[r].dsn
             /\ f[r].st = IF outcome[r] = "RateLimited" THEN "TempFail" ELSE outcome[r]
             /\ f[r].queue = IF outcome[r] = "TempFail" THEN strategy[r] ELSE old.rcpts[r].queue
  BY <1>2, <1>5, <1>6, SetStatusFacts
<1>8. \A r \in Rcpts : r \notin Targets(w) => f[r] = old.rcpts[r]
  OBVIOUS
<1> HIDE DEF f
<1>9. f \in [Rcpts -> Recipients] /\ \A r \in Rcpts : f[r].queue \in Strategies[r]
  <2>1. f \in [Rcpts -> Recipients]
    <3>1. \A r \in Rcpts : f[r] \in Recipients
      BY <1>5, <1>7, <1>8
    <3>2. QED
      BY <3>1 DEF f
  <2>2. QED
    BY <2>1, <1>5, <1>7, <1>8
<1>10. tried \in Messages /\ tried.rcpts = f /\ tried.meta = old.meta
  BY <1>2, <1>9 DEF Messages
<1> HIDE DEF tried
<1>11. /\ m \in Messages /\ m.meta = tried.meta
       /\ \A r \in Rcpts : Renotified(f[r], m.rcpts[r])
  BY <1>2, <1>10, NotifiedFacts
<1> HIDE DEF m
<1>12. ASSUME NEW r \in Rcpts
       PROVE  /\ \/ /\ r \notin Targets(w)
                    /\ m.rcpts[r].queue = old.rcpts[r].queue
                    /\ m.rcpts[r].st = old.rcpts[r].st
                 \/ /\ r \in Targets(w) /\ Pending(old.rcpts[r])
                    /\ old.rcpts[r].queue = task[w].ev[2]
                    /\ \/ m.rcpts[r].st = "TempFail"
                       \/ /\ m.rcpts[r].st \in {"Completed", "PermFail"}
                          /\ m.rcpts[r].queue = task[w].ev[2]
              /\ Flagged(old.rcpts[r], m.rcpts[r])
              /\ r \in Targets(w) => (m.rcpts[r].st = "Completed" <=> outcome[r] = "Completed")
              /\ Reported(old.rcpts[r], m.rcpts[r]) <=> r \in Bounces(tried)
  <2>1. Renotified(f[r], m.rcpts[r])
    BY <1>11
  <2>2. CASE r \notin Targets(w)
    BY <1>8, <1>10, <2>1, <2>2 DEF Renotified, Flagged, Reported, Bounces
  <2>3. CASE r \in Targets(w)
    <3>1. outcome[r] \in {"Completed", "PermFail", "TempFail", "RateLimited"}
      BY <2>3 DEF Outcomes
    <3>2. QED
      BY <1>6, <1>7, <1>10, <2>1, <2>3, <3>1 DEF Renotified, Flagged, Reported, Bounces
  <2>4. QED
    BY <2>2, <2>3
<1>13. Reports(old, m)
  BY <1>3, <1>12 DEF Reports, Count
<1>14. delivered' = [r \in Rcpts |-> delivered[r] +
                  IF r \in Targets(w) /\ m.rcpts[r].st = "Completed" THEN 1 ELSE 0]
  BY <1>3, <1>12 DEF Count
<1>15. Tried(w, m)
  BY <1>12 DEF Tried
<1>16. QED
  BY <1>1, <1>3, <1>4, <1>10, <1>11, <1>12, <1>13, <1>14, <1>15

LEMMA ThrottleFacts ==
  ASSUME TypeInv, NEW w \in Workers, Throttle(w, now + RetryAfter)
  PROVE  \E m \in Messages :
           /\ task[w] \in MsgTasks /\ task[w].pc = "attempt"
           /\ task' = [task EXCEPT ![w] = [pc |-> "save", ev |-> task[w].ev, msg |-> m,
                                           multi |-> task[w].multi]]
           /\ m.meta = task[w].msg.meta
           /\ Tried(w, m)
           /\ \A r \in Rcpts : /\ Pending(m.rcpts[r]) <=> Pending(task[w].msg.rcpts[r])
                               /\ m.rcpts[r].st = "Completed" => r \notin Targets(w)
                               /\ m.rcpts[r].dsn = task[w].msg.rcpts[r].dsn
           /\ UNCHANGED <<now, path, stored, events, used, lock, admin, adminLeft,
                          faults, delivered, bounced, removed>>
<1> DEFINE old == task[w].msg
           f == [r \in Rcpts |-> IF r \in Targets(w)
                    THEN [old.rcpts[r] EXCEPT !.st = "TempFail", !.due = now + RetryAfter]
                    ELSE old.rcpts[r]]
           m == [old EXCEPT !.rcpts = f]
<1>1. task[w] \in MsgTasks /\ task[w].pc = "attempt"
  <2>1. task[w].pc = "attempt"
    BY DEF Throttle
  <2>2. QED
    BY <2>1, TaskKinds
<1>2. old \in Messages /\ now + RetryAfter \in Nat
  BY <1>1, NowNat, TimeAssumption DEF TypeInv, MsgTasks
<1>3. /\ task' = [task EXCEPT ![w] = [pc |-> "save", ev |-> task[w].ev, msg |-> m,
                                      multi |-> task[w].multi]]
      /\ UNCHANGED <<now, path, stored, events, used, lock, admin, adminLeft,
                     faults, delivered, bounced, removed>>
  <2>1. [old EXCEPT !.rcpts = [r \in Rcpts |-> IF r \in Targets(w)
            THEN [@[r] EXCEPT !.st = "TempFail", !.due = now + RetryAfter] ELSE @[r]]] = m
    BY <1>2 DEF Messages
  <2>2. QED
    BY <2>1 DEF Throttle, Working
<1>4. \A r \in Rcpts : old.rcpts[r] \in Recipients /\ old.rcpts[r].queue \in Strategies[r]
  BY <1>2 DEF Messages
<1>5. \A r \in Targets(w) : /\ r \in Rcpts /\ Pending(old.rcpts[r])
                            /\ old.rcpts[r].queue = task[w].ev[2]
  BY DEF Targets, PendingIn
<1>6. \A r \in Rcpts : /\ f[r] \in Recipients /\ f[r].dsn = old.rcpts[r].dsn
                       /\ f[r].queue = old.rcpts[r].queue
                       /\ r \in Targets(w) => f[r].st = "TempFail"
                       /\ r \notin Targets(w) => f[r] = old.rcpts[r]
  BY <1>2, <1>4 DEF Recipients, Statuses
<1>7. f \in [Rcpts -> Recipients]
  BY <1>6
<1> HIDE DEF f
<1>8. m \in Messages /\ m.rcpts = f /\ m.meta = old.meta
  BY <1>2, <1>4, <1>6, <1>7 DEF Messages
<1> HIDE DEF m
<1>9. Tried(w, m)
  BY <1>5, <1>6, <1>8 DEF Tried
<1>10. \A r \in Rcpts : /\ Pending(m.rcpts[r]) <=> Pending(old.rcpts[r])
                        /\ m.rcpts[r].st = "Completed" => r \notin Targets(w)
                        /\ m.rcpts[r].dsn = old.rcpts[r].dsn
  BY <1>5, <1>6, <1>8 DEF Pending
<1>11. QED
  BY <1>1, <1>3, <1>8, <1>9, <1>10

\* The recipients whose state a task will write: all of them, or those of
\* its queue when others were waiting elsewhere.
Mine(w) ==
    {r \in Rcpts : ~task[w].multi \/ task[w].msg.rcpts[r].queue = task[w].ev[2]}

LEMMA SaveFacts ==
  ASSUME TypeInv, NEW w \in Workers, Save(w)
  PROVE  /\ task[w] \in MsgTasks /\ task[w].pc = "save"
         /\ task' = [task EXCEPT ![w] = [pc |-> "unlock", ev |-> task[w].ev]]
         /\ used' = Subtract(used, ReleasedQuota(task[w].msg))
         /\ events' = (events \ {task[w].ev}) \cup NextEvents(task[w].msg)
         /\ stored' \in Messages
         /\ \A r \in Rcpts :
               IF r \in Mine(w)
                 THEN stored'.rcpts[r] = task[w].msg.rcpts[r]
                 ELSE stored \in Messages /\ stored'.rcpts[r] = stored.rcpts[r]
         /\ ~task[w].multi => /\ stored'.rcpts = task[w].msg.rcpts
                              /\ stored'.meta = task[w].msg.meta \ ReleasedQuota(task[w].msg)
         /\ UNCHANGED <<now, path, lock, admin, adminLeft, faults, delivered, bounced,
                        removed>>
<1> DEFINE msg == task[w].msg
           q == task[w].ev[2]
           slim == [msg EXCEPT !.meta = @ \ ReleasedQuota(msg)]
           f == [r \in Rcpts |->
                   IF slim.rcpts[r].queue = q THEN slim.rcpts[r] ELSE stored.rcpts[r]]
<1>1. task[w] \in MsgTasks /\ task[w].pc = "save"
  BY DEF Save, TypeInv, Tasks, EvTasks, MsgTasks, IdleTask
<1>2. msg \in Messages
  BY <1>1 DEF MsgTasks
<1>3. slim \in Messages /\ slim.rcpts = msg.rcpts /\ slim.meta = msg.meta \ ReleasedQuota(msg)
  BY <1>2, ReleasedInMeta DEF Messages
<1>4. /\ task[w].multi => stored # Gone
      /\ used' = Subtract(used, ReleasedQuota(msg))
      /\ events' = (events \ {task[w].ev}) \cup NextEvents(msg)
      /\ stored' = IF task[w].multi THEN [stored EXCEPT !.rcpts = f] ELSE slim
      /\ task' = [task EXCEPT ![w] = [pc |-> "unlock", ev |-> task[w].ev]]
      /\ UNCHANGED <<now, path, lock, admin, adminLeft, faults, delivered, bounced,
                     removed>>
  BY <1>1 DEF Save, Exists, Merge, TypeInv
<1> HIDE DEF slim
<1>5. ASSUME task[w].multi
      PROVE  /\ stored \in Messages
             /\ [stored EXCEPT !.rcpts = f] \in Messages
             /\ [stored EXCEPT !.rcpts = f].rcpts = f
  <2>1. stored \in Messages
    BY <1>4, <1>5 DEF TypeInv
  <2>2. f \in [Rcpts -> Recipients] /\ \A r \in Rcpts : f[r].queue \in Strategies[r]
    BY <1>3, <2>1 DEF Messages
  <2> HIDE DEF f
  <2>3. QED
    BY <2>1, <2>2 DEF Messages
<1>6. CASE task[w].multi
  BY <1>1, <1>3, <1>4, <1>5, <1>6 DEF Mine
<1>7. CASE ~task[w].multi
  BY <1>1, <1>3, <1>4, <1>7 DEF Mine
<1>8. QED
  BY <1>6, <1>7

\* What the administrator's request works from.
LEMMA AdminReadFacts ==
  ASSUME TypeInv, NEW op \in AdminOps, NEW target \in SUBSET Rcpts, AdminRead(op, target)
  PROVE  \E m \in Messages :
           /\ stored \in Messages
           /\ admin' = [pc |-> "write", op |-> op, target |-> target,
                        prev |-> NextEvents(stored), msg |-> m]
           /\ adminLeft' = adminLeft \ {op}
           /\ \A r \in Rcpts : /\ m.rcpts[r].dsn = stored.rcpts[r].dsn
                               /\ m.rcpts[r].st = "Completed" =>
                                     stored.rcpts[r].st = "Completed"
           /\ UNCHANGED <<now, path, stored, events, used, lock, task, faults, delivered,
                          bounced, removed>>
<1> DEFINE Edit(x) == CASE op = "cancel" -> [x EXCEPT !.st = "PermFail"]
                     [] op = "retry" -> [x EXCEPT !.st = "Scheduled", !.due = now]
                     [] op = "destroy" -> x
           f == [r \in Rcpts |-> IF r \in target THEN Edit(stored.rcpts[r])
                                                 ELSE stored.rcpts[r]]
           m == [stored EXCEPT !.rcpts = f]
<1>1. stored \in Messages /\ now \in Nat
  <2>1. stored # Gone
    BY DEF AdminRead, Exists
  <2>2. QED
    BY <2>1, NowNat DEF TypeInv
<1>2. [stored EXCEPT !.rcpts = [r \in Rcpts |->
                  IF r \in target THEN Edit(@[r]) ELSE @[r]]] = m
  BY <1>1 DEF Messages
<1>3. /\ admin' = [pc |-> "write", op |-> op, target |-> target,
                   prev |-> NextEvents(stored), msg |-> m]
      /\ adminLeft' = adminLeft \ {op}
      /\ UNCHANGED <<now, path, stored, events, used, lock, task, faults, delivered,
                     bounced, removed>>
  BY <1>2 DEF AdminRead
<1>4. ASSUME NEW x \in Recipients
      PROVE  /\ Edit(x) \in Recipients /\ Edit(x).queue = x.queue /\ Edit(x).dsn = x.dsn
             /\ Edit(x).st = "Completed" => x.st = "Completed"
  <2>1. CASE op = "cancel"
    <3>1. Edit(x) = [x EXCEPT !.st = "PermFail"]
      BY <2>1
    <3> HIDE DEF Edit
    <3>2. QED
      BY <3>1 DEF Recipients, Statuses
  <2>2. CASE op = "retry"
    <3>1. Edit(x) = [x EXCEPT !.st = "Scheduled", !.due = now]
      BY <2>2
    <3> HIDE DEF Edit
    <3>2. QED
      BY <1>1, <3>1 DEF Recipients, Statuses
  <2>3. CASE op = "destroy"
    BY <2>3
  <2>4. QED
    BY <2>1, <2>2, <2>3, AdminAssumption
<1> HIDE DEF Edit
<1>5. \A r \in Rcpts : stored.rcpts[r] \in Recipients /\ stored.rcpts[r].queue \in Strategies[r]
  BY <1>1 DEF Messages
<1>6. \A r \in Rcpts : /\ f[r] \in Recipients /\ f[r].queue = stored.rcpts[r].queue
                       /\ f[r].dsn = stored.rcpts[r].dsn
                       /\ f[r].st = "Completed" => stored.rcpts[r].st = "Completed"
  BY <1>4, <1>5
<1>7. f \in [Rcpts -> Recipients]
  BY <1>6
<1> HIDE DEF f
<1>8. m \in Messages /\ m.rcpts = f
  BY <1>1, <1>5, <1>6, <1>7 DEF Messages
<1>9. QED
  BY <1>1, <1>3, <1>6, <1>8

LEMMA AdminKinds ==
  ASSUME TypeInv, admin.pc = "write"
  PROVE  admin \in [pc : {"write"}, op : AdminOps, target : SUBSET Rcpts,
                    prev : SUBSET Events, msg : Messages]
BY DEF TypeInv, AdminRequests, Resting

LEMMA AdminSaveFacts ==
  ASSUME TypeInv, AdminSave
  PROVE  /\ admin.pc = "write" /\ admin.msg \in Messages /\ stored \in Messages
         /\ stored' \in Messages
         /\ \A r \in Rcpts : stored'.rcpts[r] \in {stored.rcpts[r], admin.msg.rcpts[r]}
<1> DEFINE f == [r \in Rcpts |->
              IF r \in admin.target THEN admin.msg.rcpts[r] ELSE stored.rcpts[r]]
<1>1. admin.pc = "write" /\ stored # Gone
  BY DEF AdminSave, Exists
<1>2. admin.msg \in Messages /\ stored \in Messages
  BY <1>1, AdminKinds DEF TypeInv
<1>3. stored' = [stored EXCEPT !.rcpts = f]
  BY <1>2 DEF AdminSave, Messages
<1>4. f \in [Rcpts -> Recipients] /\ \A r \in Rcpts : f[r].queue \in Strategies[r]
  BY <1>2 DEF Messages
<1>5. \A r \in Rcpts : f[r] \in {stored.rcpts[r], admin.msg.rcpts[r]}
  OBVIOUS
<1> HIDE DEF f
<1>6. [stored EXCEPT !.rcpts = f] \in Messages /\ [stored EXCEPT !.rcpts = f].rcpts = f
  BY <1>2, <1>4 DEF Messages
<1>7. QED
  BY <1>1, <1>2, <1>3, <1>5, <1>6

-----------------------------------------------------------------------------
(* Type correctness.                                                       *)

LEMMA FreshFacts ==
  ASSUME NEW assign \in [Rcpts -> Queues], \A r \in Rcpts : assign[r] \in Strategies[r]
  PROVE  /\ Fresh(assign) \in Messages /\ Fresh(assign).meta = QuotaIds
         /\ \A r \in Rcpts : /\ Fresh(assign).rcpts[r].st = "Scheduled"
                             /\ Fresh(assign).rcpts[r].dsn = FALSE
<1>1. NotifyAfter[1] \in Nat
  BY NotifyAssumption
<1>2. QED
  BY <1>1 DEF Fresh, Messages, Recipients, Statuses

LEMMA SubtractType ==
  ASSUME NEW c \in [QuotaIds -> Int], NEW S PROVE Subtract(c, S) \in [QuotaIds -> Int]
BY DEF Subtract

LEMMA FaultFacts ==
  ASSUME TypeInv, NEW kind, Fault(kind)
  PROVE  /\ kind \in Faults /\ kind \notin faults /\ faults' = faults \cup {kind}
         /\ faults' \in SUBSET Faults /\ IsFiniteSet(faults')
         /\ Cardinality(faults) \in Nat /\ Cardinality(faults') = Cardinality(faults) + 1
<1>1. kind \in Faults /\ kind \notin faults /\ faults' = faults \cup {kind}
  BY DEF Fault
<1>2. IsFiniteSet(faults) /\ faults \in SUBSET Faults
  BY DEF TypeInv
<1>3. QED
  BY <1>1, <1>2, FS_AddElement, FS_CardinalityType

LEMMA InitType == Init => TypeInv
<1> SUFFICES ASSUME Init PROVE TypeInv
  OBVIOUS
<1>1. PICK assign \in [Rcpts -> Queues] :
        /\ \A r \in Rcpts : assign[r] \in Strategies[r]
        /\ stored = Fresh(assign)
  BY DEF Init
<1>2. stored \in Messages
  BY <1>1, FreshFacts
<1>3. events \in SUBSET Events
  BY <1>2, NextEventsFacts DEF Init
<1>4. now \in 0..MaxNow
  BY TimeAssumption DEF Init
<1>5. IsFiniteSet(faults)
  BY FS_EmptySet DEF Init
<1>6. QED
  BY <1>2, <1>3, <1>4, <1>5 DEF Init, TypeInv, Tasks, AdminRequests

LEMMA TryLockType ==
  ASSUME TypeInv, NEW w \in Workers, NEW ev \in events, TryLock(w, ev) PROVE TypeInv'
<1>1. ev \in Events /\ ev[2] \in Queues
  BY DEF TypeInv, Events
<1>2. [pc |-> "read", ev |-> ev] \in Tasks
  BY <1>1 DEF Tasks, EvTasks
<1>3. QED
  BY <1>1, <1>2 DEF TypeInv, TryLock

\* A task that moves on without the message.
LEMMA EvTaskType ==
  ASSUME TypeInv, NEW w \in Workers, task[w] # IdleTask, NEW pc \in {"read", "clear", "unlock"},
         task' = [task EXCEPT ![w] = [pc |-> pc, ev |-> task[w].ev]]
  PROVE  task' \in [Workers -> Tasks]
<1>1. [pc |-> pc, ev |-> task[w].ev] \in Tasks
  BY TaskKinds DEF Tasks, EvTasks
<1>2. QED
  BY <1>1 DEF TypeInv

LEMMA EvTaskStep ==
  ASSUME TypeInv, NEW w \in Workers, NEW pc \in {"clear", "unlock"},
         task[w].pc \in {"read", "clear"}, task' = [task EXCEPT ![w].pc = pc]
  PROVE  task' = [task EXCEPT ![w] = [pc |-> pc, ev |-> task[w].ev]] /\ task[w] # IdleTask
<1>1. task[w] \in EvTasks
  BY TaskKinds
<1>2. [task[w] EXCEPT !.pc = pc] = [pc |-> pc, ev |-> task[w].ev]
  BY <1>1 DEF EvTasks
<1>3. QED
  BY <1>1, <1>2 DEF TypeInv, EvTasks, IdleTask

LEMMA TaskStepType ==
  ASSUME TypeInv, NEW w \in Workers, TaskStep(w) \/ ReadFails(w) \/ Crash(w)
  PROVE  TypeInv'
<1>1. CASE ReadNothing(w)
  <2>1. task' \in [Workers -> Tasks]
    BY <1>1, EvTaskStep, EvTaskType DEF ReadNothing
  <2>2. QED
    BY <1>1, <2>1 DEF ReadNothing, TypeInv
<1>2. CASE ReadFails(w)
  <2>1. task' \in [Workers -> Tasks]
    BY <1>2, EvTaskStep, EvTaskType DEF ReadFails
  <2>2. faults' \in SUBSET Faults /\ IsFiniteSet(faults')
    BY <1>2, FaultFacts DEF ReadFails
  <2>3. QED
    BY <1>2, <2>1, <2>2 DEF ReadFails, TypeInv
<1>3. CASE ClearEvent(w)
  <2>1. task' \in [Workers -> Tasks]
    BY <1>3, EvTaskStep, EvTaskType DEF ClearEvent
  <2>2. QED
    BY <1>3, <2>1 DEF ClearEvent, TypeInv
<1>4. CASE Read(w)
  <2>1. PICK m \in Messages, pc \in {"attempt", "save", "remove"}, multi \in BOOLEAN :
           /\ task[w] \in EvTasks /\ Reports(stored, m)
           /\ task' = [task EXCEPT ![w] = [pc |-> pc, ev |-> task[w].ev, msg |-> m,
                                           multi |-> multi]]
           /\ UNCHANGED <<now, path, stored, events, used, lock, admin, adminLeft,
                          faults, delivered, removed>>
    BY <1>4, ReadFacts
  <2>2. [pc |-> pc, ev |-> task[w].ev, msg |-> m, multi |-> multi] \in Tasks
    BY <2>1 DEF Tasks, EvTasks, MsgTasks
  <2>3. bounced' \in [Rcpts -> Nat]
    BY <2>1 DEF Reports, TypeInv
  <2>4. QED
    BY <2>1, <2>2, <2>3 DEF TypeInv
<1>5. CASE Throttle(w, now + RetryAfter)
  <2>1. PICK m \in Messages :
           /\ task[w] \in MsgTasks
           /\ task' = [task EXCEPT ![w] = [pc |-> "save", ev |-> task[w].ev, msg |-> m,
                                           multi |-> task[w].multi]]
           /\ UNCHANGED <<now, path, stored, events, used, lock, admin, adminLeft,
                          faults, delivered, bounced, removed>>
    BY <1>5, ThrottleFacts
  <2>2. [pc |-> "save", ev |-> task[w].ev, msg |-> m, multi |-> task[w].multi] \in Tasks
    BY <2>1 DEF Tasks, MsgTasks
  <2>3. QED
    BY <2>1, <2>2 DEF TypeInv
<1>6. ASSUME NEW outcome \in [Targets(w) -> Outcomes], NEW strategy \in [Targets(w) -> Queues],
             \A r \in Targets(w) : strategy[r] \in Strategies[r],
             Attempt(w, outcome, strategy)
      PROVE  TypeInv'
  <2>1. PICK m \in Messages, pc \in {"save", "remove"} :
           /\ task[w] \in MsgTasks /\ Reports(task[w].msg, m)
           /\ task' = [task EXCEPT ![w] = [pc |-> pc, ev |-> task[w].ev, msg |-> m,
                                           multi |-> task[w].multi]]
           /\ delivered' = [r \in Rcpts |-> delivered[r] +
                  IF r \in Targets(w) /\ m.rcpts[r].st = "Completed" THEN 1 ELSE 0]
           /\ UNCHANGED <<now, path, stored, events, used, lock, admin, adminLeft,
                          faults, removed>>
    BY <1>6, AttemptFacts
  <2>2. [pc |-> pc, ev |-> task[w].ev, msg |-> m, multi |-> task[w].multi] \in Tasks
    BY <2>1 DEF Tasks, MsgTasks
  <2>3. bounced' \in [Rcpts -> Nat] /\ delivered' \in [Rcpts -> Nat]
    BY <2>1 DEF Reports, TypeInv
  <2>4. QED
    BY <2>1, <2>2, <2>3 DEF TypeInv
<1>7. CASE Save(w)
  <2>1. /\ task[w] \in MsgTasks /\ task[w] # IdleTask
        /\ task' = [task EXCEPT ![w] = [pc |-> "unlock", ev |-> task[w].ev]]
        /\ used' = Subtract(used, ReleasedQuota(task[w].msg))
        /\ events' = (events \ {task[w].ev}) \cup NextEvents(task[w].msg)
        /\ stored' \in Messages
        /\ UNCHANGED <<now, path, lock, admin, adminLeft, faults, delivered, bounced,
                       removed>>
    BY <1>7, SaveFacts DEF IdleTask
  <2>2. task' \in [Workers -> Tasks]
    BY <2>1, EvTaskType
  <2>3. NextEvents(task[w].msg) \in SUBSET Events
    BY <2>1, NextEventsFacts DEF MsgTasks
  <2>4. used' \in [QuotaIds -> Int]
    BY <2>1, SubtractType DEF TypeInv
  <2>5. QED
    BY <2>1, <2>2, <2>3, <2>4 DEF TypeInv
<1>8. CASE Remove(w)
  <2>1. task[w] # IdleTask /\ task' = [task EXCEPT ![w] = [pc |-> "unlock", ev |-> task[w].ev]]
    BY <1>8 DEF Remove, IdleTask, TypeInv
  <2>2. task' \in [Workers -> Tasks]
    BY <2>1, EvTaskType
  <2>3. used' \in [QuotaIds -> Int]
    BY <1>8, SubtractType DEF TypeInv, Remove
  <2>4. QED
    BY <1>8, <2>2, <2>3 DEF TypeInv, Remove
<1>9. CASE WriteFails(w)
  <2>1. task[w] # IdleTask /\ task' = [task EXCEPT ![w] = [pc |-> "unlock", ev |-> task[w].ev]]
    BY <1>9 DEF WriteFails, IdleTask, TypeInv
  <2>2. task' \in [Workers -> Tasks]
    BY <2>1, EvTaskType
  <2>3. faults' \in SUBSET Faults /\ IsFiniteSet(faults')
    BY <1>9, FaultFacts DEF WriteFails, TypeInv
  <2>4. QED
    BY <1>9, <2>2, <2>3 DEF TypeInv, WriteFails
<1>10. CASE Unlock(w)
  BY <1>10 DEF Unlock, TypeInv, Tasks
<1>11. CASE Crash(w)
  <2>1. faults' \in SUBSET Faults /\ IsFiniteSet(faults')
    BY <1>11, FaultFacts DEF Crash
  <2>2. QED
    BY <1>11, <2>1 DEF Crash, TypeInv, Tasks
<1>12. QED
  BY <1>1, <1>2, <1>3, <1>4, <1>5, <1>6, <1>7, <1>8, <1>9, <1>10, <1>11 DEF TaskStep

LEMMA AdminType ==
  ASSUME TypeInv,
         \/ \E op \in AdminOps, target \in SUBSET Rcpts : AdminRead(op, target)
         \/ AdminSave \/ AdminRemove \/ AdminWriteFails
  PROVE  TypeInv'
<1>1. ASSUME NEW op \in AdminOps, NEW target \in SUBSET Rcpts, AdminRead(op, target)
      PROVE  TypeInv'
  <2>1. PICK m \in Messages :
           /\ stored \in Messages
           /\ admin' = [pc |-> "write", op |-> op, target |-> target,
                        prev |-> NextEvents(stored), msg |-> m]
           /\ adminLeft' = adminLeft \ {op}
           /\ UNCHANGED <<now, path, stored, events, used, lock, task, faults, delivered,
                          bounced, removed>>
    BY <1>1, AdminReadFacts
  <2>2. NextEvents(stored) \in SUBSET Events
    BY <2>1, NextEventsFacts
  <2>3. admin' \in AdminRequests
    BY <2>1, <2>2 DEF AdminRequests
  <2>4. QED
    BY <2>1, <2>3 DEF TypeInv
<1>2. CASE AdminSave
  <2>1. stored' \in Messages /\ NextEvents(admin.msg) \in SUBSET Events
    BY <1>2, AdminSaveFacts, NextEventsFacts
  <2>2. used' \in [QuotaIds -> Int]
    BY <1>2, SubtractType DEF AdminSave, TypeInv
  <2>3. QED
    BY <1>2, <2>1, <2>2 DEF AdminSave, TypeInv, AdminRequests
<1>3. CASE AdminRemove
  <2>1. used' \in [QuotaIds -> Int]
    BY <1>3, SubtractType DEF AdminRemove, TypeInv
  <2>2. QED
    BY <1>3, <2>1 DEF AdminRemove, TypeInv, AdminRequests
<1>4. CASE AdminWriteFails
  <2>1. faults' \in SUBSET Faults /\ IsFiniteSet(faults')
    BY <1>4, FaultFacts DEF AdminWriteFails, TypeInv
  <2>2. QED
    BY <1>4, <2>1 DEF AdminWriteFails, TypeInv, AdminRequests
<1>5. QED
  BY <1>1, <1>2, <1>3, <1>4

LEMMA NextType ==
  ASSUME TypeInv, [Next]_vars PROVE TypeInv'
<1>1. CASE Tick
  BY <1>1, TimeAssumption DEF Tick, TypeInv
<1>2. ASSUME NEW q \in Queues, LockExpires(q) PROVE TypeInv'
  <2>1. faults' \in SUBSET Faults /\ IsFiniteSet(faults')
    BY <1>2, FaultFacts DEF LockExpires, TypeInv
  <2>2. QED
    BY <1>2, <2>1 DEF LockExpires, TypeInv
<1>3. CASE UNCHANGED vars
  BY <1>3 DEF vars, TypeInv
<1>4. QED
  BY <1>1, <1>2, <1>3, TryLockType, TaskStepType, AdminType DEF Next

LEMMA TypeInvHolds == Spec => []TypeInv
BY InitType, NextType, PTL DEF Spec

\* Whatever the configuration, and whatever tasks, administrators and faults
\* do, the store holds a message with its recipients' states in range, event
\* keys of configured queues, and locks of tasks.
THEOREM TypeCorrect == Spec => []TypeOK
<1>1. TypeInv => TypeOK
  <2> SUFFICES ASSUME TypeInv PROVE TypeOK
    OBVIOUS
  <2>1. Exists(stored) => /\ \A r \in Rcpts :
                               /\ stored.rcpts[r].queue \in Strategies[r]
                               /\ stored.rcpts[r].st \in
                                    {"Scheduled", "TempFail", "Completed", "PermFail"}
                          /\ stored.meta \subseteq QuotaIds
    BY DEF TypeInv, Exists, Messages, Recipients, Statuses
  <2>2. \A ev \in events : ev[1] \in Nat /\ ev[2] \in Queues
    BY DEF TypeInv, Events
  <2>3. \A w \in Workers :
         task[w].pc \in {"idle", "read", "clear", "attempt", "save", "remove", "unlock"}
    BY DEF TypeInv, Tasks, EvTasks, MsgTasks, IdleTask
  <2>4. QED
    BY <2>1, <2>2, <2>3 DEF TypeInv, TypeOK
<1>2. QED
  BY <1>1, TypeInvHolds, PTL

-----------------------------------------------------------------------------
(* Each recipient is delivered to, or its sender is told.                  *)

HasMsg(w) == task[w].pc \in {"attempt", "save", "remove"}

\* What any copy of the message says has been delivered has been, and what is
\* flagged as notified has been delivered or reported.
Told(m) ==
    path = "user" => \A r \in Rcpts :
        /\ m.rcpts[r].st = "Completed" => delivered[r] > 0
        /\ m.rcpts[r].dsn => delivered[r] > 0 \/ bounced[r] > 0

\* A task that is about to drop the message has notified of every failure.
RemoverHasTold ==
    \A w \in Workers : task[w].pc = "remove" => \A r \in Rcpts :
        /\ Final(task[w].msg.rcpts[r])
        /\ task[w].msg.rcpts[r].st = "PermFail" => task[w].msg.rcpts[r].dsn

CopiesTold ==
    /\ Exists(stored) => Told(stored)
    /\ \A w \in Workers : HasMsg(w) => Told(task[w].msg)
    /\ admin.pc = "write" => Told(admin.msg)

ToldInv == CopiesTold /\ RemoverHasTold /\ NoSilentLoss

\* What was told stays told.
LEMMA StaysTold ==
  ASSUME TypeInv, path' = path, \A r \in Rcpts : delivered'[r] >= delivered[r],
         \A r \in Rcpts : bounced'[r] >= bounced[r],
         delivered' \in [Rcpts -> Nat], bounced' \in [Rcpts -> Nat],
         NEW m, Told(m)
  PROVE  /\ path' = "user" => \A r \in Rcpts :
              /\ m.rcpts[r].st = "Completed" => delivered'[r] > 0
              /\ m.rcpts[r].dsn => delivered'[r] > 0 \/ bounced'[r] > 0
BY DEF Told, TypeInv

\* The steps in which a task moves on with the message in hand.
LEMMA WorkToldInv ==
  ASSUME TypeInv, TypeInv', ToldInv, NEW w \in Workers,
         NEW m \in Messages, NEW pc \in {"attempt", "save", "remove"}, NEW multi,
         task' = [task EXCEPT ![w] = [pc |-> pc, ev |-> task[w].ev, msg |-> m,
                                      multi |-> multi]],
         UNCHANGED <<path, stored, admin, removed>>,
         \A r \in Rcpts : delivered'[r] >= delivered[r] /\ bounced'[r] >= bounced[r],
         path = "user" => \A r \in Rcpts :
            /\ m.rcpts[r].st = "Completed" => delivered'[r] > 0
            /\ m.rcpts[r].dsn => delivered'[r] > 0 \/ bounced'[r] > 0,
         pc = "remove" => \A r \in Rcpts :
            Final(m.rcpts[r]) /\ (m.rcpts[r].st = "PermFail" => m.rcpts[r].dsn)
  PROVE  ToldInv'
<1>1. delivered' \in [Rcpts -> Nat] /\ bounced' \in [Rcpts -> Nat]
  BY DEF TypeInv
<1>2. \A v \in Workers : task'[v] = IF v = w THEN [pc |-> pc, ev |-> task[w].ev, msg |-> m,
                                                  multi |-> multi] ELSE task[v]
  BY DEF TypeInv
<1>3. CopiesTold'
  <2>1. (Exists(stored) => Told(stored))'
    BY <1>1, StaysTold DEF ToldInv, CopiesTold, Told
  <2>2. (admin.pc = "write" => Told(admin.msg))'
    BY <1>1, StaysTold DEF ToldInv, CopiesTold, Told
  <2>3. ASSUME NEW v \in Workers, HasMsg(v)' PROVE Told(task[v].msg)'
    <3>1. CASE v = w
      BY <1>2, <3>1 DEF Told
    <3>2. CASE v # w
      <4>1. task'[v] = task[v] /\ Told(task[v].msg)
        BY <1>2, <2>3, <3>2 DEF ToldInv, CopiesTold, HasMsg
      <4>2. QED
        BY <1>1, <4>1, StaysTold DEF Told
    <3>3. QED
      BY <3>1, <3>2
  <2>4. QED
    BY <2>1, <2>2, <2>3 DEF CopiesTold
<1>4. RemoverHasTold'
  BY <1>2 DEF ToldInv, RemoverHasTold, Final, Pending
<1>5. NoSilentLoss'
  BY <1>1 DEF ToldInv, NoSilentLoss, TypeInv
<1>6. QED
  BY <1>3, <1>4, <1>5 DEF ToldInv

\* The steps in which a task puts the message down or was not holding it.
LEMMA RestToldInv ==
  ASSUME TypeInv, TypeInv', ToldInv, UNCHANGED <<path, delivered, bounced>>,
         \A v \in Workers : task'[v] = task[v] \/ task'[v].pc \in {"idle", "read", "clear", "unlock"},
         Exists(stored') => Told(stored'), admin'.pc = "write" => Told(admin'.msg),
         removed' = removed \/ removed' = "admin" \/
            (path = "user" => \A r \in Rcpts : delivered[r] > 0 \/ bounced[r] > 0)
  PROVE  ToldInv'
<1>1. CopiesTold'
  BY DEF ToldInv, CopiesTold, Told, HasMsg
<1>2. RemoverHasTold'
  BY DEF ToldInv, RemoverHasTold, Final, Pending
<1>3. NoSilentLoss'
  BY DEF ToldInv, NoSilentLoss
<1>4. QED
  BY <1>1, <1>2, <1>3 DEF ToldInv

LEMMA ReadToldInv ==
  ASSUME TypeInv, TypeInv', ToldInv, NEW w \in Workers, Read(w) PROVE ToldInv'
<1>1. PICK m \in Messages, pc \in {"attempt", "save", "remove"}, multi \in BOOLEAN :
         /\ stored \in Messages
         /\ task' = [task EXCEPT ![w] = [pc |-> pc, ev |-> task[w].ev, msg |-> m,
                                         multi |-> multi]]
         /\ pc = "remove" <=> ~HasPending(m)
         /\ \A r \in Rcpts :
              /\ \/ m.rcpts[r].st = stored.rcpts[r].st
                 \/ Pending(stored.rcpts[r]) /\ m.rcpts[r].st = "PermFail"
              /\ Flagged(stored.rcpts[r], m.rcpts[r])
         /\ Reports(stored, m)
         /\ UNCHANGED <<now, path, stored, events, used, lock, admin, adminLeft,
                        faults, delivered, removed>>
  BY ReadFacts
<1>2. Told(stored)
  BY <1>1, GoneIsNoMessage DEF ToldInv, CopiesTold, Exists
<1>3. \A r \in Rcpts : /\ delivered'[r] = delivered[r]
                       /\ delivered'[r] >= delivered[r] /\ bounced'[r] >= bounced[r]
                       /\ Reported(stored.rcpts[r], m.rcpts[r]) => bounced'[r] > 0
                       /\ bounced[r] \in Nat /\ bounced'[r] \in Nat /\ delivered[r] \in Nat
  BY <1>1 DEF Reports, TypeInv
<1>4. ASSUME path = "user", NEW r \in Rcpts
      PROVE  /\ m.rcpts[r].st = "Completed" => delivered'[r] > 0
             /\ m.rcpts[r].dsn => delivered'[r] > 0 \/ bounced'[r] > 0
  <2>1. m.rcpts[r].st = "Completed" => delivered'[r] > 0
    BY <1>1, <1>2, <1>3, <1>4 DEF Told
  <2>2. ASSUME m.rcpts[r].dsn PROVE delivered'[r] > 0 \/ bounced'[r] > 0
    <3>1. CASE stored.rcpts[r].dsn
      BY <1>2, <1>3, <1>4, <3>1 DEF Told
    <3>2. CASE ~stored.rcpts[r].dsn /\ m.rcpts[r].st = "PermFail"
      BY <1>3, <1>4, <3>2 DEF Reported
    <3>3. CASE m.rcpts[r].st = "Completed"
      BY <2>1, <3>3
    <3>4. QED
      BY <1>1, <2>2, <3>1, <3>2, <3>3 DEF Flagged
  <2>3. QED
    BY <2>1, <2>2
<1>5. pc = "remove" => \A r \in Rcpts :
         Final(m.rcpts[r]) /\ (m.rcpts[r].st = "PermFail" => m.rcpts[r].dsn)
  BY <1>1 DEF HasPending, Final, Flagged
<1>6. QED
  BY <1>1, <1>3, <1>4, <1>5, WorkToldInv

LEMMA ThrottleToldInv ==
  ASSUME TypeInv, TypeInv', ToldInv, NEW w \in Workers, Throttle(w, now + RetryAfter)
  PROVE  ToldInv'
<1>1. PICK m \in Messages :
         /\ task[w] \in MsgTasks /\ task[w].pc = "attempt"
         /\ task' = [task EXCEPT ![w] = [pc |-> "save", ev |-> task[w].ev, msg |-> m,
                                         multi |-> task[w].multi]]
         /\ Tried(w, m)
         /\ \A r \in Rcpts : /\ m.rcpts[r].st = "Completed" => r \notin Targets(w)
                             /\ m.rcpts[r].dsn = task[w].msg.rcpts[r].dsn
         /\ UNCHANGED <<now, path, stored, events, used, lock, admin, adminLeft,
                        faults, delivered, bounced, removed>>
  BY ThrottleFacts
<1>2. Told(task[w].msg)
  BY <1>1 DEF ToldInv, CopiesTold, HasMsg
<1>3. path = "user" => \A r \in Rcpts :
            /\ m.rcpts[r].st = "Completed" => delivered'[r] > 0
            /\ m.rcpts[r].dsn => delivered'[r] > 0 \/ bounced'[r] > 0
  BY <1>1, <1>2 DEF Told, Tried
<1>4. \A r \in Rcpts : delivered'[r] >= delivered[r] /\ bounced'[r] >= bounced[r]
  BY <1>1 DEF TypeInv
<1>5. QED
  BY <1>1, <1>3, <1>4, WorkToldInv

LEMMA AttemptToldInv ==
  ASSUME TypeInv, TypeInv', ToldInv, NEW w \in Workers,
         NEW outcome \in [Targets(w) -> Outcomes], NEW strategy \in [Targets(w) -> Queues],
         \A r \in Targets(w) : strategy[r] \in Strategies[r],
         Attempt(w, outcome, strategy)
  PROVE  ToldInv'
<1>1. PICK m \in Messages, pc \in {"save", "remove"} :
         /\ task[w].pc = "attempt"
         /\ task' = [task EXCEPT ![w] = [pc |-> pc, ev |-> task[w].ev, msg |-> m,
                                         multi |-> task[w].multi]]
         /\ pc = "remove" <=> ~HasPending(m)
         /\ Tried(w, m)
         /\ \A r \in Rcpts : Flagged(task[w].msg.rcpts[r], m.rcpts[r])
         /\ delivered' = [r \in Rcpts |-> delivered[r] +
                IF r \in Targets(w) /\ m.rcpts[r].st = "Completed" THEN 1 ELSE 0]
         /\ Reports(task[w].msg, m)
         /\ UNCHANGED <<now, path, stored, events, used, lock, admin, adminLeft,
                        faults, removed>>
  BY AttemptFacts
<1>2. Told(task[w].msg)
  BY <1>1 DEF ToldInv, CopiesTold, HasMsg
<1>3. \A r \in Rcpts :
         /\ delivered'[r] >= delivered[r] /\ bounced'[r] >= bounced[r]
         /\ r \in Targets(w) /\ m.rcpts[r].st = "Completed" => delivered'[r] > 0
         /\ Reported(task[w].msg.rcpts[r], m.rcpts[r]) => bounced'[r] > 0
         /\ bounced[r] \in Nat /\ bounced'[r] \in Nat /\ delivered[r] \in Nat
         /\ delivered'[r] \in Nat
  BY <1>1 DEF Reports, TypeInv
<1>4. ASSUME path = "user", NEW r \in Rcpts
      PROVE  /\ m.rcpts[r].st = "Completed" => delivered'[r] > 0
             /\ m.rcpts[r].dsn => delivered'[r] > 0 \/ bounced'[r] > 0
  <2>1. m.rcpts[r].st = "Completed" => delivered'[r] > 0
    BY <1>1, <1>2, <1>3, <1>4 DEF Told, Tried
  <2>2. ASSUME m.rcpts[r].dsn PROVE delivered'[r] > 0 \/ bounced'[r] > 0
    <3>1. CASE task[w].msg.rcpts[r].dsn
      BY <1>2, <1>3, <1>4, <3>1 DEF Told
    <3>2. CASE ~task[w].msg.rcpts[r].dsn /\ m.rcpts[r].st = "PermFail"
      BY <1>3, <1>4, <3>2 DEF Reported
    <3>3. CASE m.rcpts[r].st = "Completed"
      BY <2>1, <3>3
    <3>4. QED
      BY <1>1, <2>2, <3>1, <3>2, <3>3 DEF Flagged
  <2>3. QED
    BY <2>1, <2>2
<1>5. pc = "remove" => \A r \in Rcpts :
         Final(m.rcpts[r]) /\ (m.rcpts[r].st = "PermFail" => m.rcpts[r].dsn)
  BY <1>1 DEF HasPending, Final, Flagged
<1>6. QED
  BY <1>1, <1>3, <1>4, <1>5, WorkToldInv

LEMMA TaskStepToldInv ==
  ASSUME TypeInv, TypeInv', ToldInv, NEW w \in Workers,
         TaskStep(w) \/ ReadFails(w) \/ Crash(w)
  PROVE  ToldInv'
<1>1. ASSUME UNCHANGED <<path, stored, admin, delivered, bounced, removed>>,
             \E x : task' = [task EXCEPT ![w] = x] /\ x.pc \in {"idle", "read", "clear", "unlock"}
      PROVE  ToldInv'
  <2>1. \A v \in Workers : task'[v] = task[v] \/ task'[v].pc \in {"idle", "read", "clear", "unlock"}
    BY <1>1 DEF TypeInv
  <2>2. QED
    BY <1>1, <2>1, RestToldInv DEF ToldInv, CopiesTold
<1>2. CASE ReadNothing(w) \/ ReadFails(w) \/ ClearEvent(w)
  <2>1. PICK pc \in {"clear", "unlock"} :
            task[w].pc \in {"read", "clear"} /\ task' = [task EXCEPT ![w].pc = pc]
    BY <1>2 DEF ReadNothing, ReadFails, ClearEvent
  <2>2. task' = [task EXCEPT ![w] = [pc |-> pc, ev |-> task[w].ev]]
    BY <2>1, EvTaskStep
  <2>3. QED
    BY <1>1, <1>2, <2>2 DEF ReadNothing, ReadFails, ClearEvent
<1>3. CASE WriteFails(w)
  <2>1. task' = [task EXCEPT ![w] = [pc |-> "unlock", ev |-> task[w].ev]]
    BY <1>3 DEF WriteFails, TypeInv
  <2>2. UNCHANGED <<path, stored, admin, delivered, bounced, removed>>
    BY <1>3 DEF WriteFails
  <2>3. [pc |-> "unlock", ev |-> task[w].ev].pc \in {"idle", "read", "clear", "unlock"}
    OBVIOUS
  <2>4. QED
    BY <1>1, <2>1, <2>2, <2>3
<1>4. CASE Unlock(w) \/ Crash(w)
  BY <1>1, <1>4 DEF Unlock, Crash, IdleTask
<1>5. CASE Save(w)
  <2>1. /\ task[w].pc = "save"
        /\ task' = [task EXCEPT ![w] = [pc |-> "unlock", ev |-> task[w].ev]]
        /\ \A r \in Rcpts :
               IF r \in Mine(w)
                 THEN stored'.rcpts[r] = task[w].msg.rcpts[r]
                 ELSE stored \in Messages /\ stored'.rcpts[r] = stored.rcpts[r]
        /\ UNCHANGED <<now, path, lock, admin, adminLeft, faults, delivered, bounced,
                       removed>>
    BY <1>5, SaveFacts
  <2>2. Told(task[w].msg) /\ (stored \in Messages => Told(stored))
    BY <2>1, GoneIsNoMessage DEF ToldInv, CopiesTold, HasMsg, Exists
  <2>3. Told(stored')
    BY <2>1, <2>2 DEF Told
  <2>4. \A v \in Workers : task'[v] = task[v] \/ task'[v].pc \in {"idle", "read", "clear", "unlock"}
    BY <2>1 DEF TypeInv
  <2>5. QED
    BY <2>1, <2>3, <2>4, RestToldInv DEF ToldInv, CopiesTold
<1>6. CASE Remove(w)
  <2>1. task[w] \in MsgTasks /\ Told(task[w].msg) /\ task[w].msg \in Messages
    BY <1>6, TaskKinds DEF Remove, ToldInv, CopiesTold, HasMsg, MsgTasks
  <2>2. path = "user" => \A r \in Rcpts : delivered[r] > 0 \/ bounced[r] > 0
    <3>1. \A r \in Rcpts : task[w].msg.rcpts[r].st \in Statuses
      BY <2>1 DEF Messages, Recipients
    <3>2. QED
      BY <1>6, <2>1, <3>1 DEF Remove, ToldInv, RemoverHasTold, Told, Final, Pending, Statuses
  <2>3. \A v \in Workers : task'[v] = task[v] \/ task'[v].pc \in {"idle", "read", "clear", "unlock"}
    BY <1>6 DEF Remove, TypeInv
  <2>4. QED
    BY <1>6, <2>2, <2>3, RestToldInv DEF Remove, ToldInv, CopiesTold, Exists
<1>7. QED
  BY <1>2, <1>3, <1>4, <1>5, <1>6, ReadToldInv, ThrottleToldInv, AttemptToldInv DEF TaskStep

LEMMA AdminToldInv ==
  ASSUME TypeInv, TypeInv', ToldInv,
         \/ \E op \in AdminOps, target \in SUBSET Rcpts : AdminRead(op, target)
         \/ AdminSave \/ AdminRemove \/ AdminWriteFails
  PROVE  ToldInv'
<1>1. ASSUME NEW op \in AdminOps, NEW target \in SUBSET Rcpts, AdminRead(op, target)
      PROVE  ToldInv'
  <2>1. PICK m \in Messages :
           /\ stored \in Messages
           /\ admin' = [pc |-> "write", op |-> op, target |-> target,
                        prev |-> NextEvents(stored), msg |-> m]
           /\ \A r \in Rcpts : /\ m.rcpts[r].dsn = stored.rcpts[r].dsn
                               /\ m.rcpts[r].st = "Completed" =>
                                     stored.rcpts[r].st = "Completed"
           /\ UNCHANGED <<now, path, stored, events, used, lock, task, faults, delivered,
                          bounced, removed>>
    BY <1>1, AdminReadFacts
  <2>2. Told(stored)
    BY <2>1, GoneIsNoMessage DEF ToldInv, CopiesTold, Exists
  <2>3. Told(m)
    BY <2>1, <2>2 DEF Told
  <2>4. QED
    BY <2>1, <2>2, <2>3, RestToldInv
<1>2. CASE AdminSave
  <2>1. Told(admin.msg) /\ Told(stored)
    BY <1>2, AdminSaveFacts, GoneIsNoMessage DEF ToldInv, CopiesTold, Exists
  <2>2. Told(stored')
    <3>1. \A r \in Rcpts : stored'.rcpts[r] = stored.rcpts[r] \/ stored'.rcpts[r] = admin.msg.rcpts[r]
      BY <1>2, AdminSaveFacts
    <3>2. QED
      BY <2>1, <3>1 DEF Told
  <2>3. QED
    BY <1>2, <2>2, RestToldInv DEF AdminSave, Resting
<1>3. CASE AdminRemove
  BY <1>3, RestToldInv DEF AdminRemove, Resting, Exists
<1>4. CASE AdminWriteFails
  BY <1>4, RestToldInv DEF AdminWriteFails, Resting, ToldInv, CopiesTold
<1>5. QED
  BY <1>1, <1>2, <1>3, <1>4

LEMMA InitToldInv == Init => ToldInv
<1> SUFFICES ASSUME Init PROVE ToldInv
  OBVIOUS
<1>1. PICK assign \in [Rcpts -> Queues] :
        /\ \A r \in Rcpts : assign[r] \in Strategies[r]
        /\ stored = Fresh(assign)
  BY DEF Init
<1>2. Told(stored)
  BY <1>1, FreshFacts DEF Told
<1>3. QED
  BY <1>2 DEF Init, ToldInv, CopiesTold, RemoverHasTold, NoSilentLoss, HasMsg, IdleTask, Resting

LEMMA NextToldInv ==
  ASSUME TypeInv, TypeInv', ToldInv, [Next]_vars PROVE ToldInv'
<1>1. ASSUME UNCHANGED <<path, stored, admin, delivered, bounced, removed, task>>
      PROVE  ToldInv'
  BY <1>1, RestToldInv DEF ToldInv, CopiesTold
<1>2. CASE Tick \/ UNCHANGED vars
  BY <1>1, <1>2 DEF Tick, vars
<1>3. ASSUME NEW q \in Queues, LockExpires(q) PROVE ToldInv'
  BY <1>1, <1>3 DEF LockExpires
<1>4. ASSUME NEW w \in Workers, NEW ev \in events, TryLock(w, ev) PROVE ToldInv'
  <2>1. \A v \in Workers : task'[v] = task[v] \/ task'[v].pc \in {"idle", "read", "clear", "unlock"}
    BY <1>4 DEF TryLock, TypeInv
  <2>2. QED
    BY <1>4, <2>1, RestToldInv DEF TryLock, ToldInv, CopiesTold
<1>5. QED
  BY <1>2, <1>3, <1>4, TaskStepToldInv, AdminToldInv DEF Next

\* However tasks, administrators, crashes, failed writes and outlived locks
\* interleave, a delivery task drops a message only when each recipient has
\* got it or its sender was told: the flag RCPT_DSN_SENT is never ahead of
\* the notification.
THEOREM LossesAreTold == Spec => []NoSilentLoss
<1>1. ToldInv => NoSilentLoss
  BY DEF ToldInv
<1>2. Spec => []ToldInv
  BY InitToldInv, NextToldInv, TypeInvHolds, PTL DEF Spec
<1>3. QED
  BY <1>1, <1>2, PTL

-----------------------------------------------------------------------------
(* While locks are not outlived: what a task holds.  Nobody edits the      *)
(* queue by hand in this section.                                          *)

Active(w) == task[w] # IdleTask

\* A task has the lock of its queue.
HasLock == Leased => \A w \in Workers : Active(w) => lock[task[w].ev[2]] = w

\* Where a stored recipient is done, so it is for the tasks that will write
\* it; and a waiting one is in the queue of any task that will write it.
CopiesKeepFinal ==
    Leased /\ Exists(stored) => \A w \in Workers : HasMsg(w) => \A r \in Mine(w) :
        /\ Final(stored.rcpts[r]) => task[w].msg.rcpts[r].st = stored.rcpts[r].st
        /\ Pending(stored.rcpts[r]) => stored.rcpts[r].queue = task[w].ev[2]

\* Two tasks that will write the same recipient agree that it is done.
WritersAgree ==
    Leased => \A v, w \in Workers : v # w /\ HasMsg(v) /\ HasMsg(w) =>
        \A r \in Mine(v) \cap Mine(w) :
            /\ Final(task[v].msg.rcpts[r])
            /\ task[v].msg.rcpts[r].st = task[w].msg.rcpts[r].st

\* No more transfers than faults while a recipient is waiting: in the copy of
\* a task that will write it, or in the store with no task about to write
\* that it is done.
FaultsPayTransfers ==
    Leased => \A r \in Rcpts :
        /\ \A w \in Workers : HasMsg(w) /\ r \in Mine(w) /\ Pending(task[w].msg.rcpts[r]) =>
              delivered[r] <= Cardinality(faults)
        /\ Exists(stored) /\ Pending(stored.rcpts[r]) =>
              \/ delivered[r] <= Cardinality(faults)
              \/ \E w \in Workers : HasMsg(w) /\ r \in Mine(w) /\ Final(task[w].msg.rcpts[r])

LeaseInv ==
    /\ admin = Resting
    /\ HasLock /\ CopiesKeepFinal /\ WritersAgree /\ FaultsPayTransfers
    /\ DuplicatesNeedFaults

LEMMA FaultsGrow ==
  ASSUME TypeInv, [Next]_vars
  PROVE  /\ faults \subseteq faults' /\ (Leased' => Leased) /\ (Readable' => Readable)
         /\ Cardinality(faults) \in Nat /\ Cardinality(faults') \in Nat
         /\ Cardinality(faults) <= Cardinality(faults')
<1>1. faults' = faults \/ \E k : Fault(k)
  BY DEF Next, vars, Tick, TryLock, TaskStep, ReadNothing, ReadFails, ClearEvent, Read,
         Throttle, Attempt, Save, Remove, WriteFails, Unlock, Crash, LockExpires,
         AdminRead, AdminSave, AdminRemove, AdminWriteFails
<1>2. CASE faults' = faults
  BY <1>2, FS_CardinalityType DEF TypeInv, Leased, Readable
<1>3. ASSUME NEW k, Fault(k)
      PROVE  /\ faults \subseteq faults'
             /\ Cardinality(faults) \in Nat /\ Cardinality(faults') \in Nat
             /\ Cardinality(faults) <= Cardinality(faults')
  BY <1>3, FaultFacts
<1>4. QED
  BY <1>1, <1>2, <1>3 DEF Leased, Readable

\* How each kind of step changes tasks: it starts one, moves one on, or ends
\* one.
LEMMA TaskMoves ==
  ASSUME TypeInv, NEW w \in Workers, TaskStep(w) \/ ReadFails(w) \/ Crash(w)
  PROVE  /\ \A v \in Workers \ {w} : task'[v] = task[v]
         /\ task[w] # IdleTask
         /\ \/ task'[w] = IdleTask /\ Crash(w) /\ lock' = lock
            \/ task'[w] = IdleTask /\ Unlock(w)
            \/ task'[w] # IdleTask /\ task'[w].ev = task[w].ev /\ lock' = lock
<1>1. ASSUME NEW x, task' = [task EXCEPT ![w] = x]
      PROVE  task'[w] = x /\ \A v \in Workers \ {w} : task'[v] = task[v]
  BY <1>1 DEF TypeInv
<1>2. CASE ReadNothing(w) \/ ReadFails(w) \/ ClearEvent(w)
  <2>1. PICK pc \in {"clear", "unlock"} :
            task[w].pc \in {"read", "clear"} /\ task' = [task EXCEPT ![w].pc = pc]
    BY <1>2 DEF ReadNothing, ReadFails, ClearEvent
  <2>2. task' = [task EXCEPT ![w] = [pc |-> pc, ev |-> task[w].ev]] /\ task[w] # IdleTask
    BY <2>1, EvTaskStep
  <2>3. lock' = lock
    BY <1>2 DEF ReadNothing, ReadFails, ClearEvent
  <2>4. [pc |-> pc, ev |-> task[w].ev] # IdleTask
    BY <2>1 DEF IdleTask
  <2>5. QED
    BY <1>1, <2>2, <2>3, <2>4
<1>3. CASE Save(w) \/ Remove(w) \/ WriteFails(w)
  <2>1. task' = [task EXCEPT ![w] = [pc |-> "unlock", ev |-> task[w].ev]] /\ lock' = lock
    BY <1>3 DEF Save, Remove, WriteFails, TypeInv
  <2>2. task[w] # IdleTask
    BY <1>3 DEF Save, Remove, WriteFails, IdleTask
  <2>3. [pc |-> "unlock", ev |-> task[w].ev] # IdleTask
    BY DEF IdleTask
  <2>4. QED
    BY <1>1, <2>1, <2>2, <2>3
<1>4. ASSUME NEW pc \in {"attempt", "save", "remove"}, NEW m, NEW multi, lock' = lock,
             task' = [task EXCEPT ![w] = [pc |-> pc, ev |-> task[w].ev, msg |-> m,
                                          multi |-> multi]]
      PROVE  /\ \A v \in Workers \ {w} : task'[v] = task[v]
             /\ task'[w] # IdleTask /\ task'[w].ev = task[w].ev /\ lock' = lock
  <2>1. [pc |-> pc, ev |-> task[w].ev, msg |-> m, multi |-> multi] # IdleTask
    BY DEF IdleTask
  <2>2. QED
    BY <1>1, <1>4, <2>1
<1>5. CASE Read(w)
  <2>1. task[w] # IdleTask
    BY <1>5, ReadFacts DEF IdleTask
  <2>2. QED
    BY <1>4, <1>5, <2>1, ReadFacts
<1>6. CASE Throttle(w, now + RetryAfter)
  <2>1. task[w] # IdleTask
    BY <1>6, ThrottleFacts DEF IdleTask
  <2>2. QED
    BY <1>4, <1>6, <2>1, ThrottleFacts
<1>7. ASSUME NEW outcome \in [Targets(w) -> Outcomes], NEW strategy \in [Targets(w) -> Queues],
             \A r \in Targets(w) : strategy[r] \in Strategies[r],
             Attempt(w, outcome, strategy)
      PROVE  /\ \A v \in Workers \ {w} : task'[v] = task[v]
             /\ task[w] # IdleTask
             /\ task'[w] # IdleTask /\ task'[w].ev = task[w].ev /\ lock' = lock
  <2>1. task[w] # IdleTask
    BY <1>7, AttemptFacts DEF IdleTask
  <2>2. PICK m \in Messages, pc \in {"save", "remove"} :
           /\ task' = [task EXCEPT ![w] = [pc |-> pc, ev |-> task[w].ev, msg |-> m,
                                           multi |-> task[w].multi]]
           /\ lock' = lock
    BY <1>7, AttemptFacts
  <2>3. QED
    BY <1>4, <2>1, <2>2
<1>8. CASE Unlock(w)
  <2>1. task[w] # IdleTask
    BY <1>8 DEF Unlock, IdleTask
  <2>2. task' = [task EXCEPT ![w] = IdleTask]
    BY <1>8 DEF Unlock
  <2>3. QED
    BY <1>1, <1>8, <2>1, <2>2
<1>9. CASE Crash(w)
  BY <1>1, <1>9 DEF Crash
<1>10. QED
  BY <1>2, <1>3, <1>5, <1>6, <1>7, <1>8, <1>9 DEF TaskStep

LEMMA NextHasLock ==
  ASSUME TypeInv, HasLock, [Next]_vars PROVE HasLock'
<1> SUFFICES ASSUME Leased' PROVE \A v \in Workers : Active(v)' => lock'[task'[v].ev[2]] = v
  BY DEF HasLock
<1>1. \A v \in Workers : Active(v) => lock[task[v].ev[2]] = v /\ task[v].ev[2] \in Queues
  BY FaultsGrow, TaskKinds DEF HasLock, Active, Events
<1>2. ASSUME NEW w \in Workers, NEW ev \in events, TryLock(w, ev)
      PROVE  \A v \in Workers : Active(v)' => lock'[task'[v].ev[2]] = v
  <2>1. ev[2] \in Queues /\ lock[ev[2]] = NoWorker
    BY <1>2 DEF TryLock, TypeInv, Events
  <2>2. lock'[ev[2]] = w /\ \A q \in Queues \ {ev[2]} : lock'[q] = lock[q]
    BY <1>2, <2>1 DEF TryLock, TypeInv
  <2>3. task'[w].ev = ev /\ \A v \in Workers \ {w} : task'[v] = task[v]
    BY <1>2 DEF TryLock, TypeInv
  <2>4. QED
    BY <1>1, <2>1, <2>2, <2>3, WorkersAssumption DEF Active
<1>3. ASSUME NEW w \in Workers, TaskStep(w) \/ ReadFails(w) \/ Crash(w)
      PROVE  \A v \in Workers : Active(v)' => lock'[task'[v].ev[2]] = v
  <2>1. /\ \A v \in Workers \ {w} : task'[v] = task[v]
        /\ task[w] # IdleTask
        /\ \/ task'[w] = IdleTask /\ Crash(w) /\ lock' = lock
           \/ task'[w] = IdleTask /\ Unlock(w)
           \/ task'[w] # IdleTask /\ task'[w].ev = task[w].ev /\ lock' = lock
    BY <1>3, TaskMoves
  <2>2. CASE Unlock(w)
    <3>1. lock[task[w].ev[2]] = w /\ task[w].ev[2] \in Queues
      BY <1>1, <2>1 DEF Active
    <3>2. \A q \in Queues \ {task[w].ev[2]} : lock'[q] = lock[q]
      BY <2>2, <3>1 DEF Unlock, TypeInv
    <3>3. task'[w] = IdleTask
      BY <2>2 DEF Unlock, TypeInv
    <3>4. QED
      BY <1>1, <2>1, <3>1, <3>2, <3>3 DEF Active
  <2>3. CASE lock' = lock
    BY <1>1, <2>1, <2>3 DEF Active
  <2>4. QED
    BY <2>1, <2>2, <2>3
<1>4. ASSUME NEW q \in Queues, LockExpires(q)
      PROVE  \A v \in Workers : Active(v)' => lock'[task'[v].ev[2]] = v
  <2>1. task[lock[q]] = IdleTask
    BY <1>4 DEF LockExpires, Fault, Leased
  <2>2. task' = task /\ \A p \in Queues \ {q} : lock'[p] = lock[p]
    BY <1>4 DEF LockExpires, TypeInv
  <2>3. QED
    BY <1>1, <2>1, <2>2 DEF Active
<1>5. ASSUME lock' = lock, task' = task
      PROVE  \A v \in Workers : Active(v)' => lock'[task'[v].ev[2]] = v
  BY <1>1, <1>5 DEF Active
<1>6. QED
  BY <1>2, <1>3, <1>4, <1>5 DEF Next, vars, Tick, AdminRead, AdminSave, AdminRemove, AdminWriteFails


\* Steps after which no task has a message it did not have.  A task may put
\* its result down unwritten when that is a fault or there is no message.
LEMMA RestLeaseInv ==
  ASSUME TypeInv, LeaseInv, [Next]_vars, UNCHANGED <<delivered, admin>>,
         stored' = stored \/ stored' = Gone,
         \A v \in Workers :
            task'[v] = task[v] \/ task'[v].pc \in {"idle", "read", "clear", "unlock"},
         \/ \A v \in Workers : HasMsg(v) => task'[v] = task[v]
         \/ Cardinality(faults') = Cardinality(faults) + 1
         \/ stored' = Gone
  PROVE  LeaseInv'
<1>1. HasLock'
  BY NextHasLock DEF LeaseInv
<1> SUFFICES ASSUME Leased'
             PROVE  CopiesKeepFinal' /\ WritersAgree' /\ FaultsPayTransfers' /\ DuplicatesNeedFaults'
  BY <1>1 DEF LeaseInv, CopiesKeepFinal, WritersAgree, FaultsPayTransfers, DuplicatesNeedFaults
<1>2. /\ Leased /\ Cardinality(faults) \in Nat /\ Cardinality(faults') \in Nat
      /\ Cardinality(faults) <= Cardinality(faults')
  BY FaultsGrow
<1>3. \A v \in Workers : HasMsg(v)' => HasMsg(v) /\ task'[v] = task[v] /\ Mine(v)' = Mine(v)
  BY DEF HasMsg, Mine
<1>4. \A r \in Rcpts : delivered[r] \in Nat /\ delivered'[r] = delivered[r]
  BY DEF TypeInv
<1>5. Exists(stored)' => Exists(stored) /\ stored' = stored
  BY DEF Exists
<1>6. CopiesKeepFinal'
  BY <1>2, <1>3, <1>5 DEF LeaseInv, CopiesKeepFinal
<1>7. WritersAgree'
  BY <1>2, <1>3 DEF LeaseInv, WritersAgree
<1>8. DuplicatesNeedFaults'
  BY <1>2, <1>4 DEF LeaseInv, DuplicatesNeedFaults
<1>9. FaultsPayTransfers'
  <2>1. ASSUME NEW r \in Rcpts, NEW w \in Workers, HasMsg(w)', r \in Mine(w)',
               Pending(task'[w].msg.rcpts[r])
        PROVE  delivered'[r] <= Cardinality(faults')
    <3>1. delivered[r] <= Cardinality(faults)
      BY <1>2, <1>3, <2>1 DEF LeaseInv, FaultsPayTransfers
    <3>2. QED
      BY <1>2, <1>4, <3>1
  <2>2. ASSUME NEW r \in Rcpts, Exists(stored)', Pending(stored'.rcpts[r])
        PROVE  \/ delivered'[r] <= Cardinality(faults')
               \/ \E w \in Workers : /\ HasMsg(w)' /\ r \in Mine(w)'
                                     /\ Final(task'[w].msg.rcpts[r])
    <3>1. CASE delivered[r] <= Cardinality(faults)
      BY <1>2, <1>4, <3>1
    <3>2. ASSUME NEW w \in Workers, HasMsg(w), r \in Mine(w), Final(task[w].msg.rcpts[r]),
                 \A v \in Workers : HasMsg(v) => task'[v] = task[v]
          PROVE  HasMsg(w)' /\ r \in Mine(w)' /\ Final(task'[w].msg.rcpts[r])
      BY <3>2 DEF HasMsg, Mine
    <3>3. CASE Cardinality(faults') = Cardinality(faults) + 1
      BY <1>2, <1>4, <3>3 DEF LeaseInv, DuplicatesNeedFaults
    <3>4. stored' # Gone
      BY <2>2 DEF Exists
    <3>5. QED
      BY <1>2, <1>5, <2>2, <3>1, <3>2, <3>3, <3>4 DEF LeaseInv, FaultsPayTransfers
  <2>3. QED
    BY <2>1, <2>2 DEF FaultsPayTransfers
<1>10. QED
  BY <1>6, <1>7, <1>8, <1>9

\* Two tasks that have the lock of their queue are in different queues.
LEMMA OneTaskPerQueue ==
  ASSUME TypeInv, LeaseInv, Leased, NEW v \in Workers, NEW w \in Workers, v # w,
         task[v] # IdleTask, task[w] # IdleTask
  PROVE  task[v].ev[2] # task[w].ev[2]
BY DEF LeaseInv, HasLock, Active

LEMMA ReadLeaseInv ==
  ASSUME TypeInv, TypeInv', LeaseInv, [Next]_vars, NEW w \in Workers, Read(w)
  PROVE  LeaseInv'
<1>1. PICK m \in Messages, pc \in {"attempt", "save", "remove"}, multi \in BOOLEAN :
         /\ task[w] \in EvTasks /\ task[w].pc = "read" /\ stored \in Messages
         /\ task' = [task EXCEPT ![w] = [pc |-> pc, ev |-> task[w].ev, msg |-> m,
                                         multi |-> multi]]
         /\ multi <=> \E r \in Rcpts : /\ Pending(stored.rcpts[r])
                                       /\ stored.rcpts[r].queue # task[w].ev[2]
         /\ \A r \in Rcpts :
              /\ m.rcpts[r].queue = stored.rcpts[r].queue
              /\ \/ m.rcpts[r].st = stored.rcpts[r].st
                 \/ Pending(stored.rcpts[r]) /\ m.rcpts[r].st = "PermFail"
         /\ UNCHANGED <<now, path, stored, events, used, lock, admin, adminLeft,
                        faults, delivered, removed>>
  BY ReadFacts
<1>2. HasLock'
  BY NextHasLock DEF LeaseInv
<1> SUFFICES ASSUME Leased'
             PROVE  CopiesKeepFinal' /\ WritersAgree' /\ FaultsPayTransfers' /\ DuplicatesNeedFaults'
  BY <1>1, <1>2 DEF LeaseInv, CopiesKeepFinal, WritersAgree, FaultsPayTransfers, DuplicatesNeedFaults
<1>3. Leased /\ Exists(stored) /\ ~HasMsg(w)
  BY <1>1, GoneIsNoMessage, FaultsGrow DEF Exists, HasMsg
<1>4. /\ HasMsg(w)' /\ task'[w].msg = m /\ task'[w].multi = multi /\ task'[w].ev = task[w].ev
      /\ \A v \in Workers \ {w} : task'[v] = task[v]
  BY <1>1 DEF TypeInv, HasMsg
<1>5. \A v \in Workers \ {w} : (HasMsg(v)' <=> HasMsg(v)) /\ Mine(v)' = Mine(v)
  BY <1>4 DEF HasMsg, Mine
<1>6. \A r \in Mine(w)' :
         /\ r \in Rcpts
         /\ Final(stored.rcpts[r]) => m.rcpts[r].st = stored.rcpts[r].st
         /\ Pending(stored.rcpts[r]) => stored.rcpts[r].queue = task[w].ev[2]
  BY <1>1, <1>4 DEF Mine, Final
<1>7. CopiesKeepFinal'
  BY <1>1, <1>3, <1>4, <1>5, <1>6 DEF LeaseInv, CopiesKeepFinal
<1>8. ASSUME NEW v \in Workers, v # w, HasMsg(v), NEW r \in Mine(v), r \in Mine(w)'
      PROVE  /\ Final(m.rcpts[r]) /\ Final(task[v].msg.rcpts[r])
             /\ task[v].msg.rcpts[r].st = m.rcpts[r].st
  <2>1. task[v] # IdleTask /\ task[w] # IdleTask
    BY <1>1, <1>8 DEF HasMsg, IdleTask
  <2>2. task[v].ev[2] # task[w].ev[2]
    BY <1>3, <1>8, <2>1, OneTaskPerQueue
  <2>3. Final(stored.rcpts[r])
    BY <1>3, <1>6, <1>8, <2>2 DEF LeaseInv, CopiesKeepFinal, Final
  <2>4. task[v].msg.rcpts[r].st = stored.rcpts[r].st /\ m.rcpts[r].st = stored.rcpts[r].st
    BY <1>3, <1>6, <1>8, <2>3 DEF LeaseInv, CopiesKeepFinal
  <2>5. QED
    BY <2>3, <2>4 DEF Final, Pending
<1>9. WritersAgree'
  <2>1. ASSUME NEW u \in Workers, NEW v \in Workers, u # v, HasMsg(u)', HasMsg(v)',
               NEW r \in Mine(u)', r \in Mine(v)'
        PROVE  Final(task'[u].msg.rcpts[r]) /\ task'[u].msg.rcpts[r].st = task'[v].msg.rcpts[r].st
    <3>1. CASE u # w /\ v # w
      BY <1>3, <1>4, <1>5, <2>1, <3>1 DEF LeaseInv, WritersAgree
    <3>2. CASE u = w \/ v = w
      BY <1>4, <1>5, <1>8, <2>1, <3>2
    <3>3. QED
      BY <3>1, <3>2
  <2>2. QED
    BY <2>1 DEF WritersAgree
<1>10. DuplicatesNeedFaults'
  BY <1>1, <1>3 DEF LeaseInv, DuplicatesNeedFaults
<1>11. FaultsPayTransfers'
  <2>1. ASSUME NEW r \in Rcpts, NEW v \in Workers, HasMsg(v)', r \in Mine(v)',
               Pending(task'[v].msg.rcpts[r])
        PROVE  delivered[r] <= Cardinality(faults)
    <3>1. CASE v # w
      BY <1>3, <1>4, <1>5, <2>1, <3>1 DEF LeaseInv, FaultsPayTransfers
    <3>2. CASE v = w
      <4>1. Pending(m.rcpts[r]) /\ Pending(stored.rcpts[r])
        BY <1>1, <1>4, <2>1, <3>2 DEF Pending
      <4>2. ~\E u \in Workers : HasMsg(u) /\ r \in Mine(u) /\ Final(task[u].msg.rcpts[r])
        BY <1>3, <1>8, <2>1, <3>2, <4>1 DEF Final
      <4>3. QED
        BY <1>3, <4>1, <4>2 DEF LeaseInv, FaultsPayTransfers
    <3>3. QED
      BY <3>1, <3>2
  <2>2. ASSUME NEW r \in Rcpts, Pending(stored.rcpts[r])
        PROVE  \/ delivered[r] <= Cardinality(faults)
               \/ \E v \in Workers : /\ HasMsg(v)' /\ r \in Mine(v)'
                                     /\ Final(task'[v].msg.rcpts[r])
    BY <1>3, <1>4, <1>5, <2>2 DEF LeaseInv, FaultsPayTransfers
  <2>3. QED
    BY <1>1, <2>1, <2>2 DEF FaultsPayTransfers
<1>12. QED
  BY <1>7, <1>9, <1>10, <1>11

\* The steps from an attempt.
LEMMA TriedLeaseInv ==
  ASSUME TypeInv, TypeInv', LeaseInv, [Next]_vars, NEW w \in Workers, NEW m,
         NEW pc \in {"save", "remove"}, task[w].pc = "attempt",
         task' = [task EXCEPT ![w] = [pc |-> pc, ev |-> task[w].ev, msg |-> m,
                                      multi |-> task[w].multi]],
         Tried(w, m),
         \A r \in Rcpts : delivered'[r] = delivered[r] +
             IF r \in Targets(w) /\ m.rcpts[r].st = "Completed" THEN 1 ELSE 0,
         UNCHANGED <<stored, faults, admin>>
  PROVE  LeaseInv'
<1>1. HasLock'
  BY NextHasLock DEF LeaseInv
<1> SUFFICES ASSUME Leased'
             PROVE  CopiesKeepFinal' /\ WritersAgree' /\ FaultsPayTransfers' /\ DuplicatesNeedFaults'
  BY <1>1 DEF LeaseInv, CopiesKeepFinal, WritersAgree, FaultsPayTransfers, DuplicatesNeedFaults
<1>2. Leased /\ HasMsg(w) /\ Cardinality(faults) \in Nat
  BY FaultsGrow DEF HasMsg
<1>3. /\ HasMsg(w)' /\ task'[w].msg = m /\ task'[w].multi = task[w].multi
      /\ task'[w].ev = task[w].ev
      /\ \A v \in Workers \ {w} : task'[v] = task[v]
  BY DEF TypeInv, HasMsg
<1>4. \A v \in Workers \ {w} : (HasMsg(v)' <=> HasMsg(v)) /\ Mine(v)' = Mine(v)
  BY <1>3 DEF HasMsg, Mine
<1>5. \A r \in Mine(w)' : r \in Mine(w)
  BY <1>3 DEF Mine, Tried
<1>6. \A r \in Rcpts : r \in Targets(w) =>
         /\ Pending(task[w].msg.rcpts[r]) /\ r \in Mine(w)
         /\ Final(m.rcpts[r]) => r \in Mine(w)'
  BY <1>3 DEF Mine, Tried, Final, Pending
<1>7. \A r \in Rcpts : r \notin Targets(w) =>
         /\ m.rcpts[r].st = task[w].msg.rcpts[r].st
         /\ Pending(m.rcpts[r]) <=> Pending(task[w].msg.rcpts[r])
         /\ r \in Mine(w) <=> r \in Mine(w)'
  BY <1>3 DEF Mine, Tried, Pending
<1>8. \A r \in Rcpts : Final(task[w].msg.rcpts[r]) => r \notin Targets(w)
  BY <1>6 DEF Final
<1>9. \A r \in Mine(w) : r \in Rcpts
  BY DEF Mine
<1>10. CopiesKeepFinal'
  <2>1. ASSUME Exists(stored), NEW r \in Mine(w)'
        PROVE  /\ Final(stored.rcpts[r]) => m.rcpts[r].st = stored.rcpts[r].st
               /\ Pending(stored.rcpts[r]) => stored.rcpts[r].queue = task[w].ev[2]
    <3>1. /\ Final(stored.rcpts[r]) => task[w].msg.rcpts[r].st = stored.rcpts[r].st
          /\ Pending(stored.rcpts[r]) => stored.rcpts[r].queue = task[w].ev[2]
      BY <1>2, <1>5, <2>1 DEF LeaseInv, CopiesKeepFinal
    <3>2. Final(stored.rcpts[r]) => Final(task[w].msg.rcpts[r])
      BY <3>1 DEF Final, Pending
    <3>3. QED
      BY <1>5, <1>7, <1>8, <1>9, <3>1, <3>2
  <2>2. QED
    BY <1>2, <1>3, <1>4, <2>1 DEF LeaseInv, CopiesKeepFinal
<1>11. ASSUME NEW v \in Workers, v # w, HasMsg(v), NEW r \in Mine(v), r \in Mine(w)
       PROVE  /\ Final(m.rcpts[r]) /\ Final(task[v].msg.rcpts[r]) /\ r \notin Targets(w)
              /\ task[v].msg.rcpts[r].st = m.rcpts[r].st
  <2>1. /\ Final(task[v].msg.rcpts[r]) /\ Final(task[w].msg.rcpts[r])
        /\ task[v].msg.rcpts[r].st = task[w].msg.rcpts[r].st
    BY <1>2, <1>11 DEF LeaseInv, WritersAgree
  <2>2. QED
    BY <1>7, <1>8, <1>9, <1>11, <2>1 DEF Final
<1>12. WritersAgree'
  <2>1. ASSUME NEW u \in Workers, NEW v \in Workers, u # v, HasMsg(u)', HasMsg(v)',
               NEW r \in Mine(u)', r \in Mine(v)'
        PROVE  Final(task'[u].msg.rcpts[r]) /\ task'[u].msg.rcpts[r].st = task'[v].msg.rcpts[r].st
    <3>1. CASE u # w /\ v # w
      BY <1>2, <1>3, <1>4, <2>1, <3>1 DEF LeaseInv, WritersAgree
    <3>2. CASE u = w \/ v = w
      BY <1>3, <1>4, <1>5, <1>11, <2>1, <3>2
    <3>3. QED
      BY <3>1, <3>2
  <2>2. QED
    BY <2>1 DEF WritersAgree
<1>13. \A r \in Rcpts : /\ delivered[r] \in Nat /\ delivered'[r] \in Nat
                        /\ delivered'[r] = delivered[r] \/ delivered'[r] = delivered[r] + 1
                        /\ delivered'[r] # delivered[r] =>
                              r \in Targets(w) /\ m.rcpts[r].st = "Completed"
  BY DEF TypeInv
<1>14. DuplicatesNeedFaults'
  <2>1. ASSUME NEW r \in Rcpts PROVE delivered'[r] <= 1 + Cardinality(faults)
    <3>1. CASE r \in Targets(w)
      <4>1. delivered[r] <= Cardinality(faults)
        BY <1>2, <1>6, <3>1 DEF LeaseInv, FaultsPayTransfers
      <4>2. QED
        BY <1>2, <1>13, <4>1
    <3>2. CASE r \notin Targets(w)
      BY <1>2, <1>13, <3>2 DEF LeaseInv, DuplicatesNeedFaults
    <3>3. QED
      BY <3>1, <3>2
  <2>2. QED
    BY <2>1 DEF DuplicatesNeedFaults
<1>15. FaultsPayTransfers'
  <2>1. ASSUME NEW r \in Rcpts, NEW v \in Workers, HasMsg(v)', r \in Mine(v)',
               Pending(task'[v].msg.rcpts[r])
        PROVE  delivered'[r] <= Cardinality(faults)
    <3>1. CASE v # w
      <4>1. delivered[r] <= Cardinality(faults)
        BY <1>2, <1>3, <1>4, <2>1, <3>1 DEF LeaseInv, FaultsPayTransfers
      <4>2. r \notin Targets(w)
        BY <1>3, <1>4, <1>6, <1>11, <2>1, <3>1
      <4>3. QED
        BY <1>13, <4>1, <4>2
    <3>2. CASE v = w
      <4>1. Pending(m.rcpts[r]) /\ m.rcpts[r].st # "Completed" /\ r \in Mine(w)
        BY <1>3, <1>5, <2>1, <3>2 DEF Pending
      <4>2. Pending(task[w].msg.rcpts[r])
        BY <1>6, <1>7, <4>1
      <4>3. delivered[r] <= Cardinality(faults)
        BY <1>2, <4>1, <4>2 DEF LeaseInv, FaultsPayTransfers
      <4>4. QED
        BY <1>13, <4>1, <4>3
    <3>3. QED
      BY <3>1, <3>2
  <2>2. ASSUME NEW r \in Rcpts, Exists(stored), Pending(stored.rcpts[r])
        PROVE  \/ delivered'[r] <= Cardinality(faults)
               \/ \E v \in Workers : /\ HasMsg(v)' /\ r \in Mine(v)'
                                     /\ Final(task'[v].msg.rcpts[r])
    <3>1. CASE r \in Targets(w) /\ m.rcpts[r].st = "Completed"
      BY <1>3, <1>6, <3>1 DEF Final, Pending
    <3>2. CASE ~(r \in Targets(w) /\ m.rcpts[r].st = "Completed")
      <4>1. delivered'[r] = delivered[r]
        BY <1>13, <3>2
      <4>2. ASSUME NEW v \in Workers, HasMsg(v), r \in Mine(v), Final(task[v].msg.rcpts[r])
            PROVE  HasMsg(v)' /\ r \in Mine(v)' /\ Final(task'[v].msg.rcpts[r])
        <5>1. CASE v # w
          BY <1>3, <1>4, <4>2, <5>1
        <5>2. CASE v = w
          BY <1>3, <1>7, <1>8, <4>2, <5>2 DEF Final
        <5>3. QED
          BY <5>1, <5>2
      <4>3. QED
        BY <1>2, <2>2, <4>1, <4>2 DEF LeaseInv, FaultsPayTransfers
    <3>3. QED
      BY <3>1, <3>2
  <2>3. QED
    BY <2>1, <2>2 DEF FaultsPayTransfers
<1>16. QED
  BY <1>10, <1>12, <1>14, <1>15

\* The batch of save_changes: the stored recipients it replaces are those the
\* task is the one to write.
LEMMA SaveLeaseInv ==
  ASSUME TypeInv, TypeInv', LeaseInv, [Next]_vars, NEW w \in Workers, Save(w)
  PROVE  /\ LeaseInv'
         /\ Leased /\ Exists(stored) => \A r \in Rcpts :
               Final(stored.rcpts[r]) => stored'.rcpts[r].st = stored.rcpts[r].st
<1>1. /\ task[w].pc = "save"
      /\ task' = [task EXCEPT ![w] = [pc |-> "unlock", ev |-> task[w].ev]]
      /\ \A r \in Rcpts :
             IF r \in Mine(w)
               THEN stored'.rcpts[r] = task[w].msg.rcpts[r]
               ELSE stored \in Messages /\ stored'.rcpts[r] = stored.rcpts[r]
      /\ UNCHANGED <<now, path, lock, admin, adminLeft, faults, delivered, bounced,
                     removed>>
  BY SaveFacts
<1>2. HasMsg(w) /\ (stored \in Messages => Exists(stored))
  BY <1>1, GoneIsNoMessage DEF HasMsg, Exists
<1>3. Leased /\ Exists(stored) => \A r \in Rcpts :
         Final(stored.rcpts[r]) => stored'.rcpts[r].st = stored.rcpts[r].st
  BY <1>1, <1>2 DEF LeaseInv, CopiesKeepFinal
<1>4. HasLock'
  BY NextHasLock DEF LeaseInv
<1> SUFFICES ASSUME Leased'
             PROVE  CopiesKeepFinal' /\ WritersAgree' /\ FaultsPayTransfers' /\ DuplicatesNeedFaults'
  BY <1>1, <1>3, <1>4
     DEF LeaseInv, CopiesKeepFinal, WritersAgree, FaultsPayTransfers, DuplicatesNeedFaults
<1>5. Leased
  BY FaultsGrow
<1>6. \A v \in Workers : HasMsg(v)' => /\ v # w /\ HasMsg(v) /\ task'[v] = task[v]
                                       /\ Mine(v)' = Mine(v)
  BY <1>1 DEF TypeInv, HasMsg, Mine
<1>7. \A v \in Workers : v # w /\ HasMsg(v) => HasMsg(v)' /\ task'[v] = task[v] /\ Mine(v)' = Mine(v)
  BY <1>1 DEF TypeInv, HasMsg, Mine
<1>8. \A v \in Workers : \A r \in Mine(v) : r \in Rcpts
  BY DEF Mine
<1>9. CopiesKeepFinal'
  <2>1. ASSUME NEW v \in Workers, HasMsg(v)', NEW r \in Mine(v)'
        PROVE  /\ Final(stored'.rcpts[r]) => task[v].msg.rcpts[r].st = stored'.rcpts[r].st
               /\ Pending(stored'.rcpts[r]) => stored'.rcpts[r].queue = task[v].ev[2]
    <3>1. v # w /\ HasMsg(v) /\ r \in Mine(v) /\ r \in Rcpts
      BY <1>6, <1>8, <2>1
    <3>2. CASE r \in Mine(w)
      <4>1. Final(task[w].msg.rcpts[r]) /\ task[w].msg.rcpts[r].st = task[v].msg.rcpts[r].st
        BY <1>2, <1>5, <3>1, <3>2 DEF LeaseInv, WritersAgree
      <4>2. QED
        BY <1>1, <3>1, <3>2, <4>1 DEF Final
    <3>3. CASE r \notin Mine(w)
      BY <1>1, <1>2, <1>5, <3>1, <3>3 DEF LeaseInv, CopiesKeepFinal
    <3>4. QED
      BY <3>2, <3>3
  <2>2. QED
    BY <1>6, <2>1 DEF CopiesKeepFinal
<1>10. WritersAgree'
  BY <1>5, <1>6 DEF LeaseInv, WritersAgree
<1>11. DuplicatesNeedFaults'
  BY <1>1, <1>5 DEF LeaseInv, DuplicatesNeedFaults
<1>12. FaultsPayTransfers'
  <2>1. ASSUME NEW r \in Rcpts, NEW v \in Workers, HasMsg(v)', r \in Mine(v)',
               Pending(task'[v].msg.rcpts[r])
        PROVE  delivered[r] <= Cardinality(faults)
    BY <1>5, <1>6, <2>1 DEF LeaseInv, FaultsPayTransfers
  <2>2. ASSUME NEW r \in Rcpts, Pending(stored'.rcpts[r])
        PROVE  \/ delivered[r] <= Cardinality(faults)
               \/ \E v \in Workers : /\ HasMsg(v)' /\ r \in Mine(v)'
                                     /\ Final(task'[v].msg.rcpts[r])
    <3>1. CASE r \in Mine(w)
      BY <1>1, <1>2, <1>5, <2>2, <3>1 DEF LeaseInv, FaultsPayTransfers
    <3>2. CASE r \notin Mine(w)
      <4>1. \/ delivered[r] <= Cardinality(faults)
            \/ \E v \in Workers : HasMsg(v) /\ r \in Mine(v) /\ Final(task[v].msg.rcpts[r])
        BY <1>1, <1>2, <1>5, <2>2, <3>2 DEF LeaseInv, FaultsPayTransfers
      <4>2. QED
        BY <1>7, <3>2, <4>1
    <3>3. QED
      BY <3>1, <3>2
  <2>3. QED
    BY <1>1, <2>1, <2>2 DEF FaultsPayTransfers
<1>13. QED
  BY <1>9, <1>10, <1>11, <1>12

\* A stored recipient that is done stays as it is while locks are not outlived.
KeepsFinal ==
    Leased /\ Exists(stored) /\ Exists(stored') => \A r \in Rcpts :
        Final(stored.rcpts[r]) => stored'.rcpts[r].st = stored.rcpts[r].st

LEMMA TaskStepLeaseInv ==
  ASSUME TypeInv, TypeInv', LeaseInv, [Next]_vars, NEW w \in Workers,
         TaskStep(w) \/ ReadFails(w) \/ Crash(w)
  PROVE  LeaseInv' /\ KeepsFinal
<1>1. ASSUME NEW x, task' = [task EXCEPT ![w] = x], x.pc \in {"idle", "read", "clear", "unlock"}
      PROVE  \A v \in Workers :
               /\ task'[v] = task[v] \/ task'[v].pc \in {"idle", "read", "clear", "unlock"}
               /\ ~HasMsg(w) /\ HasMsg(v) => task'[v] = task[v]
  BY <1>1 DEF TypeInv
<1>2. CASE ReadNothing(w) \/ ReadFails(w) \/ ClearEvent(w)
  <2>1. PICK pc \in {"clear", "unlock"} :
            task[w].pc \in {"read", "clear"} /\ task' = [task EXCEPT ![w].pc = pc]
    BY <1>2 DEF ReadNothing, ReadFails, ClearEvent
  <2>2. task' = [task EXCEPT ![w] = [pc |-> pc, ev |-> task[w].ev]]
    BY <2>1, EvTaskStep
  <2>3. UNCHANGED <<stored, delivered, admin>>
    BY <1>2 DEF ReadNothing, ReadFails, ClearEvent
  <2>4. ~HasMsg(w)
    BY <2>1 DEF HasMsg
  <2>5. QED
    BY <1>1, <2>2, <2>3, <2>4, RestLeaseInv DEF KeepsFinal
<1>3. CASE Unlock(w)
  <2>1. ~HasMsg(w) /\ task' = [task EXCEPT ![w] = IdleTask] /\ IdleTask.pc = "idle"
    BY <1>3 DEF Unlock, HasMsg, IdleTask
  <2>2. UNCHANGED <<stored, delivered, admin>>
    BY <1>3 DEF Unlock
  <2>3. QED
    BY <1>1, <2>1, <2>2, RestLeaseInv DEF KeepsFinal
<1>4. CASE Crash(w)
  <2>1. task' = [task EXCEPT ![w] = IdleTask] /\ IdleTask.pc = "idle"
    BY <1>4 DEF Crash, IdleTask
  <2>2. UNCHANGED <<stored, delivered, admin>> /\ Fault("crash")
    BY <1>4 DEF Crash
  <2>3. Cardinality(faults') = Cardinality(faults) + 1
    BY <2>2, FaultFacts
  <2>4. QED
    BY <1>1, <2>1, <2>2, <2>3, RestLeaseInv DEF KeepsFinal
<1>5. CASE WriteFails(w)
  <2>1. task' = [task EXCEPT ![w] = [pc |-> "unlock", ev |-> task[w].ev]]
    BY <1>5 DEF WriteFails, TypeInv
  <2>2. UNCHANGED <<stored, delivered, admin>> /\ (stored = Gone \/ Fault("save"))
    BY <1>5 DEF WriteFails, Exists
  <2>3. stored' = Gone \/ Cardinality(faults') = Cardinality(faults) + 1
    BY <2>2, FaultFacts
  <2>4. QED
    BY <1>1, <2>1, <2>2, <2>3, RestLeaseInv DEF KeepsFinal
<1>6. CASE Remove(w)
  <2>1. task' = [task EXCEPT ![w] = [pc |-> "unlock", ev |-> task[w].ev]]
    BY <1>6 DEF Remove, TypeInv
  <2>2. UNCHANGED <<delivered, admin>> /\ stored' = Gone
    BY <1>6 DEF Remove
  <2>3. QED
    BY <1>1, <2>1, <2>2, RestLeaseInv DEF KeepsFinal, Exists
<1>7. CASE Save(w)
  BY <1>7, SaveLeaseInv DEF KeepsFinal
<1>8. CASE Read(w)
  <2>1. stored' = stored
    BY <1>8, ReadFacts
  <2>2. QED
    BY <1>8, <2>1, ReadLeaseInv DEF KeepsFinal
<1>9. CASE Throttle(w, now + RetryAfter)
  <2>1. PICK m \in Messages :
           /\ task[w].pc = "attempt"
           /\ task' = [task EXCEPT ![w] = [pc |-> "save", ev |-> task[w].ev, msg |-> m,
                                           multi |-> task[w].multi]]
           /\ Tried(w, m)
           /\ \A r \in Rcpts : m.rcpts[r].st = "Completed" => r \notin Targets(w)
           /\ UNCHANGED <<now, path, stored, events, used, lock, admin, adminLeft,
                          faults, delivered, bounced, removed>>
    BY <1>9, ThrottleFacts
  <2>2. \A r \in Rcpts : delivered'[r] = delivered[r] +
             IF r \in Targets(w) /\ m.rcpts[r].st = "Completed" THEN 1 ELSE 0
    BY <2>1 DEF TypeInv
  <2>3. QED
    BY <2>1, <2>2, TriedLeaseInv DEF KeepsFinal
<1>10. ASSUME NEW outcome \in [Targets(w) -> Outcomes], NEW strategy \in [Targets(w) -> Queues],
              \A r \in Targets(w) : strategy[r] \in Strategies[r],
              Attempt(w, outcome, strategy)
       PROVE  LeaseInv' /\ KeepsFinal
  <2>1. PICK m \in Messages, pc \in {"save", "remove"} :
           /\ task[w].pc = "attempt"
           /\ task' = [task EXCEPT ![w] = [pc |-> pc, ev |-> task[w].ev, msg |-> m,
                                           multi |-> task[w].multi]]
           /\ Tried(w, m)
           /\ delivered' = [r \in Rcpts |-> delivered[r] +
                  IF r \in Targets(w) /\ m.rcpts[r].st = "Completed" THEN 1 ELSE 0]
           /\ UNCHANGED <<now, path, stored, events, used, lock, admin, adminLeft,
                          faults, removed>>
    BY <1>10, AttemptFacts
  <2>2. \A r \in Rcpts : delivered'[r] = delivered[r] +
             IF r \in Targets(w) /\ m.rcpts[r].st = "Completed" THEN 1 ELSE 0
    BY <2>1
  <2>3. QED
    BY <2>1, <2>2, TriedLeaseInv DEF KeepsFinal
<1>11. QED
  BY <1>2, <1>3, <1>4, <1>5, <1>6, <1>7, <1>8, <1>9, <1>10 DEF TaskStep

LEMMA InitLeaseInv == Init => LeaseInv
<1> SUFFICES ASSUME Init PROVE LeaseInv
  OBVIOUS
<1>1. faults = {} /\ Cardinality(faults) = 0
  BY FS_EmptySet DEF Init
<1>2. \A w \in Workers : task[w] = IdleTask /\ ~HasMsg(w)
  BY DEF Init, HasMsg, IdleTask
<1>3. HasLock /\ CopiesKeepFinal /\ WritersAgree
  BY <1>2 DEF HasLock, Active, CopiesKeepFinal, WritersAgree
<1>4. FaultsPayTransfers /\ DuplicatesNeedFaults
  BY <1>1, <1>2 DEF FaultsPayTransfers, DuplicatesNeedFaults, Init
<1>5. QED
  BY <1>3, <1>4 DEF LeaseInv, Init

LEMMA NextLeaseInv ==
  ASSUME AdminOps = {}, TypeInv, TypeInv', LeaseInv, [Next]_vars
  PROVE  LeaseInv' /\ KeepsFinal
<1>1. ASSUME UNCHANGED <<delivered, admin, stored, task>> PROVE LeaseInv' /\ KeepsFinal
  BY <1>1, RestLeaseInv DEF KeepsFinal
<1>2. CASE Tick \/ UNCHANGED vars
  BY <1>1, <1>2 DEF Tick, vars
<1>3. ASSUME NEW q \in Queues, LockExpires(q) PROVE LeaseInv' /\ KeepsFinal
  BY <1>1, <1>3 DEF LockExpires
<1>4. ASSUME NEW w \in Workers, NEW ev \in events, TryLock(w, ev) PROVE LeaseInv' /\ KeepsFinal
  <2>1. UNCHANGED <<delivered, admin, stored>> /\ ~HasMsg(w)
    BY <1>4 DEF TryLock, HasMsg, IdleTask
  <2>2. \A v \in Workers :
           /\ task'[v] = task[v] \/ task'[v].pc \in {"idle", "read", "clear", "unlock"}
           /\ v # w => task'[v] = task[v]
    BY <1>4 DEF TryLock, TypeInv
  <2>3. QED
    BY <2>1, <2>2, RestLeaseInv DEF KeepsFinal
<1>5. ~(AdminSave \/ AdminRemove \/ AdminWriteFails)
  BY DEF LeaseInv, Resting, AdminSave, AdminRemove, AdminWriteFails
<1>6. QED
  BY <1>2, <1>3, <1>4, <1>5, TaskStepLeaseInv DEF Next

LEMMA LeaseInvHolds == ASSUME AdminOps = {} PROVE Spec => []LeaseInv
BY InitLeaseInv, NextLeaseInv, TypeInvHolds, PTL DEF Spec

\* While no delivery outlives its lock and nobody edits the queue by hand, a
\* recipient gets a message at most once more than faults occur, in any
\* number of virtual queues and whatever recipients move between them.
THEOREM DuplicatesArePaid ==
  ASSUME AdminOps = {} PROVE Spec => []DuplicatesNeedFaults
<1>1. LeaseInv => DuplicatesNeedFaults
  BY DEF LeaseInv
<1>2. QED
  BY <1>1, LeaseInvHolds, PTL

\* Under the same conditions the merge of save_changes, for which each task
\* works from the message as it was when it read it, never puts a recipient
\* that is done back to waiting.
THEOREM FinalStaysFinal ==
  ASSUME AdminOps = {} PROVE Spec => FinalIsFinal
<1>1. ASSUME TypeInv, TypeInv', LeaseInv, [Next]_vars
      PROVE  [KeepsFinal]_vars
  BY <1>1, NextLeaseInv
<1>2. [KeepsFinal]_vars => [Leased /\ Exists(stored) /\ Exists(stored') => \A r \in Rcpts :
          Final(stored.rcpts[r]) => stored'.rcpts[r].st = stored.rcpts[r].st]_vars
  BY DEF KeepsFinal
<1>3. QED
  BY <1>1, <1>2, LeaseInvHolds, TypeInvHolds, PTL DEF Spec, FinalIsFinal

-----------------------------------------------------------------------------
(* One virtual queue: a task then has the message to itself.               *)

SingleQueue == \A p, q \in Queues : p = q

\* A task that has the message has the whole of the stored one, and does not
\* save one without a waiting recipient.
OneWriter ==
    \A w \in Workers : HasMsg(w) =>
        /\ task[w].multi = FALSE
        /\ Leased => Exists(stored) /\ task[w].msg.meta = stored.meta
        /\ task[w].pc # "remove" => HasPending(task[w].msg)
StoredIsPending == Exists(stored) => HasPending(stored)

\* No more notifications than faults while the flag is not set: in the copy
\* of a task, or in the store while no task has the message.
FaultsPayNotices ==
    Leased => \A r \in Rcpts :
        /\ \A w \in Workers : HasMsg(w) /\ ~task[w].msg.rcpts[r].dsn =>
              bounced[r] <= Cardinality(faults)
        /\ Exists(stored) /\ ~stored.rcpts[r].dsn /\ (\A w \in Workers : ~HasMsg(w)) =>
              bounced[r] <= Cardinality(faults)

\* A task that will delete its event read that the message is gone.
ClearsStale ==
    Readable /\ Leased => \A w \in Workers : task[w].pc = "clear" => ~Exists(stored)

SingleInv ==
    /\ OneWriter /\ StoredIsPending /\ FaultsPayNotices /\ ClearsStale
    /\ EventInTime /\ OneFailureNotice /\ RemovedStaysRemoved /\ QuotaExact

LEMMA OneTask ==
  ASSUME SingleQueue, TypeInv, LeaseInv, Leased, NEW v \in Workers, NEW w \in Workers, v # w,
         task[w] # IdleTask
  PROVE  task[v] = IdleTask
<1>1. SUFFICES ASSUME task[v] # IdleTask PROVE FALSE
  OBVIOUS
<1>2. task[v].ev[2] \in Queues /\ task[w].ev[2] \in Queues
  BY <1>1, TaskKinds DEF Events
<1>3. QED
  BY <1>1, <1>2, OneTaskPerQueue DEF SingleQueue

LEMMA IdleHasNothing ==
  ASSUME NEW v, task[v] = IdleTask PROVE ~HasMsg(v) /\ task[v].pc = "idle"
BY DEF HasMsg, IdleTask

\* Steps that write nothing, but for an event whose message is gone, and
\* after which no task has a message it did not have.
LEMMA RestSingleInv ==
  ASSUME TypeInv, TypeInv', SingleInv, [Next]_vars,
         UNCHANGED <<stored, used, bounced, removed>>,
         \A v \in Workers :
            task'[v] = task[v] \/ task'[v].pc \in {"idle", "read", "clear", "unlock"},
         \/ \A v \in Workers : HasMsg(v) => task'[v] = task[v]
         \/ Cardinality(faults') = Cardinality(faults) + 1
         \/ stored = Gone,
         \A v \in Workers : task'[v].pc = "clear" =>
            task'[v] = task[v] \/ stored = Gone \/ ~Readable',
         events' = events \/ stored = Gone \/ ~Readable' \/ ~Leased'
  PROVE  SingleInv'
<1>1. /\ Leased' => Leased
      /\ Readable' => Readable
      /\ Cardinality(faults) \in Nat /\ Cardinality(faults') \in Nat
      /\ Cardinality(faults) <= Cardinality(faults')
  BY FaultsGrow
<1>2. \A v \in Workers : HasMsg(v)' => HasMsg(v) /\ task'[v] = task[v]
  BY DEF HasMsg
<1>3. \A r \in Rcpts : bounced[r] \in Nat /\ bounced'[r] = bounced[r]
  BY DEF TypeInv
<1>4. OneWriter'
  BY <1>1, <1>2 DEF SingleInv, OneWriter, HasPending, Exists
<1>5. StoredIsPending'
  BY DEF SingleInv, StoredIsPending, HasPending, Exists
<1>6. OneFailureNotice'
  BY <1>1, <1>3 DEF SingleInv, OneFailureNotice
<1>7. FaultsPayNotices'
  <2>1. ASSUME Leased', NEW r \in Rcpts, NEW w \in Workers, HasMsg(w)', ~task'[w].msg.rcpts[r].dsn
        PROVE  bounced'[r] <= Cardinality(faults')
    <3>1. bounced[r] <= Cardinality(faults)
      BY <1>1, <1>2, <2>1 DEF SingleInv, FaultsPayNotices
    <3>2. QED
      BY <1>1, <1>3, <3>1
  <2>2. ASSUME Leased', NEW r \in Rcpts, Exists(stored), ~stored.rcpts[r].dsn,
               \A w \in Workers : ~HasMsg(w)'
        PROVE  bounced'[r] <= Cardinality(faults')
    <3>1. CASE \A v \in Workers : HasMsg(v) => task'[v] = task[v]
      <4>1. \A v \in Workers : ~HasMsg(v)
        BY <2>2, <3>1 DEF HasMsg
      <4>2. bounced[r] <= Cardinality(faults)
        BY <1>1, <2>2, <4>1 DEF SingleInv, FaultsPayNotices
      <4>3. QED
        BY <1>1, <1>3, <4>2
    <3>2. CASE Cardinality(faults') = Cardinality(faults) + 1
      BY <1>1, <1>3, <2>2, <3>2 DEF SingleInv, OneFailureNotice
    <3>3. QED
      BY <2>2, <3>1, <3>2 DEF Exists
  <2>3. QED
    BY <2>1, <2>2 DEF FaultsPayNotices, Exists
<1>8. ClearsStale'
  BY <1>1 DEF SingleInv, ClearsStale, Exists
<1>9. EventInTime'
  BY <1>1 DEF SingleInv, EventInTime, Exists, Pending, Earliest
<1>10. RemovedStaysRemoved'
  BY <1>1 DEF SingleInv, RemovedStaysRemoved, Exists
<1>11. QuotaExact'
  BY <1>1 DEF SingleInv, QuotaExact, Exists
<1>12. QED
  BY <1>4, <1>5, <1>6, <1>7, <1>8, <1>9, <1>10, <1>11 DEF SingleInv

\* Steps after which a task has read or changed its copy.
LEMMA WorkSingleInv ==
  ASSUME SingleQueue, TypeInv, TypeInv', LeaseInv, SingleInv, [Next]_vars, NEW w \in Workers,
         NEW m \in Messages, NEW pc \in {"attempt", "save", "remove"},
         task[w] # IdleTask,
         task' = [task EXCEPT ![w] = [pc |-> pc, ev |-> task[w].ev, msg |-> m,
                                      multi |-> FALSE]],
         UNCHANGED <<stored, events, used, removed, faults>>,
         Leased => Exists(stored) /\ m.meta = stored.meta,
         pc # "remove" => HasPending(m),
         Leased => \A r \in Rcpts : /\ bounced'[r] <= 1 + Cardinality(faults)
                                    /\ ~m.rcpts[r].dsn => bounced'[r] <= Cardinality(faults)
  PROVE  SingleInv'
<1>1. /\ task'[w] = [pc |-> pc, ev |-> task[w].ev, msg |-> m, multi |-> FALSE]
      /\ \A v \in Workers \ {w} : task'[v] = task[v]
  BY DEF TypeInv
<1>2. Leased => \A v \in Workers \ {w} : ~HasMsg(v) /\ task[v].pc # "clear"
  BY OneTask, IdleHasNothing
<1>3. Leased' = Leased /\ Readable' = Readable
  BY DEF Leased, Readable
<1>4. OneWriter'
  <2>1. ASSUME NEW v \in Workers, HasMsg(v)', v # w
        PROVE  (/\ task[v].multi = FALSE
                /\ Leased => Exists(stored) /\ task[v].msg.meta = stored.meta
                /\ task[v].pc # "remove" => HasPending(task[v].msg))'
    BY <1>1, <1>3, <2>1 DEF SingleInv, OneWriter, HasMsg, HasPending, Exists
  <2>2. (/\ task[w].multi = FALSE
         /\ Leased => Exists(stored) /\ task[w].msg.meta = stored.meta
         /\ task[w].pc # "remove" => HasPending(task[w].msg))'
    BY <1>1, <1>3 DEF HasPending, Exists
  <2>3. QED
    BY <2>1, <2>2 DEF OneWriter
<1>5. FaultsPayNotices'
  <2>1. HasMsg(w)' /\ (Leased => \A v \in Workers : HasMsg(v)' => v = w)
    BY <1>1, <1>2 DEF HasMsg
  <2>2. QED
    BY <1>1, <1>3, <2>1 DEF FaultsPayNotices
<1>6. StoredIsPending'
  BY DEF SingleInv, StoredIsPending, HasPending, Exists
<1>7. OneFailureNotice'
  BY <1>3 DEF OneFailureNotice
<1>8. ClearsStale'
  BY <1>1, <1>2, <1>3 DEF ClearsStale
<1>9. EventInTime'
  BY <1>3 DEF SingleInv, EventInTime, Exists, Pending, Earliest
<1>10. RemovedStaysRemoved' /\ QuotaExact'
  BY <1>3 DEF SingleInv, RemovedStaysRemoved, QuotaExact, Exists
<1>11. QED
  BY <1>4, <1>5, <1>6, <1>7, <1>8, <1>9, <1>10 DEF SingleInv

LEMMA ReadSingleInv ==
  ASSUME SingleQueue, TypeInv, TypeInv', LeaseInv, SingleInv, [Next]_vars, NEW w \in Workers,
         Read(w)
  PROVE  SingleInv'
<1>1. PICK m \in Messages, pc \in {"attempt", "save", "remove"}, multi \in BOOLEAN :
         /\ task[w] \in EvTasks /\ task[w].pc = "read" /\ stored \in Messages
         /\ task' = [task EXCEPT ![w] = [pc |-> pc, ev |-> task[w].ev, msg |-> m,
                                         multi |-> multi]]
         /\ m.meta = stored.meta
         /\ pc = "remove" <=> ~HasPending(m)
         /\ multi <=> \E r \in Rcpts : /\ Pending(stored.rcpts[r])
                                       /\ stored.rcpts[r].queue # task[w].ev[2]
         /\ \A r \in Rcpts : Flagged(stored.rcpts[r], m.rcpts[r])
         /\ Reports(stored, m)
         /\ UNCHANGED <<now, path, stored, events, used, lock, admin, adminLeft,
                        faults, delivered, removed>>
  BY ReadFacts
<1>2. task[w] # IdleTask /\ Exists(stored)
  BY <1>1, GoneIsNoMessage DEF IdleTask, Exists
<1>3. multi = FALSE
  <2>1. task[w].ev[2] \in Queues /\ \A r \in Rcpts : stored.rcpts[r].queue \in Queues
    BY <1>1 DEF EvTasks, Events, Messages, Recipients
  <2>2. QED
    BY <1>1, <2>1 DEF SingleQueue
<1>4. ASSUME Leased, NEW r \in Rcpts
      PROVE  /\ bounced'[r] <= 1 + Cardinality(faults)
             /\ ~m.rcpts[r].dsn => bounced'[r] <= Cardinality(faults)
  <2>1. \A v \in Workers : ~HasMsg(v)
    BY <1>1, <1>2, <1>4, OneTask, IdleHasNothing DEF HasMsg
  <2>2. /\ ~stored.rcpts[r].dsn => bounced[r] <= Cardinality(faults)
        /\ bounced[r] <= 1 + Cardinality(faults)
    BY <1>2, <1>4, <2>1 DEF SingleInv, FaultsPayNotices, OneFailureNotice
  <2>3. /\ bounced[r] \in Nat /\ Cardinality(faults) \in Nat
        /\ bounced'[r] = bounced[r] +
              IF Reported(stored.rcpts[r], m.rcpts[r]) THEN 1 ELSE 0
    BY <1>1, FaultsGrow DEF Reports, TypeInv
  <2>4. CASE Reported(stored.rcpts[r], m.rcpts[r])
    <3>1. ~stored.rcpts[r].dsn /\ m.rcpts[r].dsn
      BY <1>1, <2>4 DEF Reported, Flagged
    <3>2. QED
      BY <2>2, <2>3, <2>4, <3>1
  <2>5. CASE ~Reported(stored.rcpts[r], m.rcpts[r])
    <3>1. ~m.rcpts[r].dsn => ~stored.rcpts[r].dsn
      BY <1>1 DEF Flagged
    <3>2. QED
      BY <2>2, <2>3, <2>5, <3>1
  <2>6. QED
    BY <2>4, <2>5
<1>5. QED
  BY <1>1, <1>2, <1>3, <1>4, WorkSingleInv

LEMMA ThrottleSingleInv ==
  ASSUME SingleQueue, TypeInv, TypeInv', LeaseInv, SingleInv, [Next]_vars, NEW w \in Workers,
         Throttle(w, now + RetryAfter)
  PROVE  SingleInv'
<1>1. PICK m \in Messages :
         /\ task[w].pc = "attempt"
         /\ task' = [task EXCEPT ![w] = [pc |-> "save", ev |-> task[w].ev, msg |-> m,
                                         multi |-> task[w].multi]]
         /\ m.meta = task[w].msg.meta
         /\ \A r \in Rcpts : /\ Pending(m.rcpts[r]) <=> Pending(task[w].msg.rcpts[r])
                             /\ m.rcpts[r].dsn = task[w].msg.rcpts[r].dsn
         /\ UNCHANGED <<now, path, stored, events, used, lock, admin, adminLeft,
                        faults, delivered, bounced, removed>>
  BY ThrottleFacts
<1>2. task[w] # IdleTask /\ HasMsg(w)
  BY <1>1 DEF IdleTask, HasMsg
<1>3. /\ task[w].multi = FALSE
      /\ Leased => Exists(stored) /\ m.meta = stored.meta
      /\ HasPending(m)
  BY <1>1, <1>2 DEF SingleInv, OneWriter, HasPending
<1>4. Leased => \A r \in Rcpts : /\ bounced'[r] <= 1 + Cardinality(faults)
                                 /\ ~m.rcpts[r].dsn => bounced'[r] <= Cardinality(faults)
  BY <1>1, <1>2 DEF SingleInv, FaultsPayNotices, OneFailureNotice
<1>5. QED
  BY <1>1, <1>2, <1>3, <1>4, WorkSingleInv

LEMMA AttemptSingleInv ==
  ASSUME SingleQueue, TypeInv, TypeInv', LeaseInv, SingleInv, [Next]_vars, NEW w \in Workers,
         NEW outcome \in [Targets(w) -> Outcomes], NEW strategy \in [Targets(w) -> Queues],
         \A r \in Targets(w) : strategy[r] \in Strategies[r],
         Attempt(w, outcome, strategy)
  PROVE  SingleInv'
<1>1. PICK m \in Messages, pc \in {"save", "remove"} :
         /\ task[w].pc = "attempt"
         /\ task' = [task EXCEPT ![w] = [pc |-> pc, ev |-> task[w].ev, msg |-> m,
                                         multi |-> task[w].multi]]
         /\ m.meta = task[w].msg.meta
         /\ pc = "remove" <=> ~HasPending(m)
         /\ \A r \in Rcpts : Flagged(task[w].msg.rcpts[r], m.rcpts[r])
         /\ Reports(task[w].msg, m)
         /\ UNCHANGED <<now, path, stored, events, used, lock, admin, adminLeft,
                        faults, removed>>
  BY AttemptFacts
<1>2. task[w] # IdleTask /\ HasMsg(w)
  BY <1>1 DEF IdleTask, HasMsg
<1>3. /\ task[w].multi = FALSE
      /\ Leased => Exists(stored) /\ m.meta = stored.meta
  BY <1>1, <1>2 DEF SingleInv, OneWriter
<1>4. ASSUME Leased, NEW r \in Rcpts
      PROVE  /\ bounced'[r] <= 1 + Cardinality(faults)
             /\ ~m.rcpts[r].dsn => bounced'[r] <= Cardinality(faults)
  <2>1. /\ ~task[w].msg.rcpts[r].dsn => bounced[r] <= Cardinality(faults)
        /\ bounced[r] <= 1 + Cardinality(faults)
    BY <1>2, <1>4 DEF SingleInv, FaultsPayNotices, OneFailureNotice
  <2>2. /\ bounced[r] \in Nat /\ Cardinality(faults) \in Nat
        /\ bounced'[r] = bounced[r] +
              IF Reported(task[w].msg.rcpts[r], m.rcpts[r]) THEN 1 ELSE 0
    BY <1>1, FaultsGrow DEF Reports, TypeInv
  <2>3. CASE Reported(task[w].msg.rcpts[r], m.rcpts[r])
    <3>1. ~task[w].msg.rcpts[r].dsn /\ m.rcpts[r].dsn
      BY <1>1, <2>3 DEF Reported, Flagged
    <3>2. QED
      BY <2>1, <2>2, <2>3, <3>1
  <2>4. CASE ~Reported(task[w].msg.rcpts[r], m.rcpts[r])
    <3>1. ~m.rcpts[r].dsn => ~task[w].msg.rcpts[r].dsn
      BY <1>1 DEF Flagged
    <3>2. QED
      BY <2>1, <2>2, <2>4, <3>1
  <2>5. QED
    BY <2>3, <2>4
<1>5. QED
  BY <1>1, <1>2, <1>3, <1>4, WorkSingleInv

LEMMA SaveSingleInv ==
  ASSUME SingleQueue, TypeInv, TypeInv', LeaseInv, SingleInv, [Next]_vars, NEW w \in Workers,
         Save(w)
  PROVE  SingleInv'
<1> DEFINE msg == task[w].msg
           freed == ReleasedQuota(msg)
<1>1. /\ task[w] \in MsgTasks /\ task[w].pc = "save"
      /\ task' = [task EXCEPT ![w] = [pc |-> "unlock", ev |-> task[w].ev]]
      /\ used' = Subtract(used, freed)
      /\ events' = (events \ {task[w].ev}) \cup NextEvents(msg)
      /\ stored' \in Messages
      /\ ~task[w].multi => stored'.rcpts = msg.rcpts /\ stored'.meta = msg.meta \ freed
      /\ UNCHANGED <<now, path, lock, admin, adminLeft, faults, delivered, bounced, removed>>
  BY SaveFacts
<1>2. task[w] # IdleTask /\ HasMsg(w) /\ msg \in Messages
  BY <1>1 DEF IdleTask, HasMsg, MsgTasks
<1>3. /\ stored'.rcpts = msg.rcpts /\ stored'.meta = msg.meta \ freed
      /\ HasPending(msg)
      /\ Leased => Exists(stored) /\ msg.meta = stored.meta
  BY <1>1, <1>2 DEF SingleInv, OneWriter
<1>4. task'[w].pc = "unlock" /\ \A v \in Workers \ {w} : task'[v] = task[v]
  BY <1>1 DEF TypeInv
<1>5. Leased => \A v \in Workers \ {w} : ~HasMsg(v) /\ task[v].pc = "idle"
  BY <1>2, OneTask, IdleHasNothing
<1>6. Leased' = Leased /\ Readable' = Readable
  BY <1>1 DEF Leased, Readable
<1>7. \A v \in Workers : HasMsg(v)' => HasMsg(v) /\ task'[v] = task[v] /\ ~Leased
  BY <1>4, <1>5 DEF HasMsg
<1>8. OneWriter'
  BY <1>6, <1>7 DEF SingleInv, OneWriter, HasPending
<1>9. StoredIsPending'
  BY <1>3 DEF StoredIsPending, HasPending
<1>10. FaultsPayNotices' /\ OneFailureNotice'
  BY <1>1, <1>2, <1>3, <1>6, <1>7 DEF SingleInv, FaultsPayNotices, OneFailureNotice
<1>11. ClearsStale'
  BY <1>4, <1>5, <1>6 DEF ClearsStale
<1>12. EventInTime'
  <2>1. \A r \in Rcpts : Pending(msg.rcpts[r]) =>
           \E ev \in NextEvents(msg) :
              ev[2] = msg.rcpts[r].queue /\ ev[1] <= Earliest(msg.rcpts[r])
    BY <1>2, NextEventsFacts
  <2>2. \A r \in Rcpts : Pending(msg.rcpts[r]) =>
           \E ev \in events' :
              ev[2] = stored'.rcpts[r].queue /\ ev[1] <= Earliest(stored'.rcpts[r])
    BY <1>1, <1>3, <2>1
  <2>3. events' # {}
    BY <1>3, <2>2 DEF HasPending
  <2>4. QED
    BY <1>3, <2>2, <2>3 DEF EventInTime, Pending, Earliest
<1>13. RemovedStaysRemoved'
  BY <1>1, <1>3, <1>6 DEF SingleInv, RemovedStaysRemoved
<1>14. QuotaExact'
  <2> SUFFICES ASSUME Leased, NEW id \in QuotaIds
               PROVE  used'[id] = IF stored' # Gone /\ id \in stored'.meta THEN 1 ELSE 0
    BY <1>6 DEF QuotaExact, Exists
  <2>1. used[id] = IF id \in stored.meta THEN 1 ELSE 0
    BY <1>3 DEF SingleInv, QuotaExact
  <2>2. stored' # Gone /\ stored'.meta = stored.meta \ freed /\ freed \subseteq stored.meta
    BY <1>1, <1>2, <1>3, GoneIsNoMessage, ReleasedInMeta
  <2>3. used'[id] = IF id \in freed THEN used[id] - 1 ELSE used[id]
    BY <1>1 DEF Subtract
  <2> HIDE DEF freed
  <2>4. QED
    BY <2>1, <2>2, <2>3
<1>15. QED
  BY <1>8, <1>9, <1>10, <1>11, <1>12, <1>13, <1>14 DEF SingleInv

LEMMA RemoveSingleInv ==
  ASSUME SingleQueue, TypeInv, TypeInv', LeaseInv, SingleInv, [Next]_vars, NEW w \in Workers,
         Remove(w)
  PROVE  SingleInv'
<1>1. /\ task[w].pc = "remove" /\ task[w] # IdleTask /\ HasMsg(w)
      /\ task' = [task EXCEPT ![w] = [pc |-> "unlock", ev |-> task[w].ev]]
      /\ used' = Subtract(used, task[w].msg.meta) /\ stored' = Gone
      /\ UNCHANGED <<faults, bounced>>
  BY DEF Remove, IdleTask, HasMsg, TypeInv
<1>2. Leased => Exists(stored) /\ task[w].msg.meta = stored.meta
  BY <1>1 DEF SingleInv, OneWriter
<1>3. task'[w].pc = "unlock" /\ \A v \in Workers \ {w} : task'[v] = task[v]
  BY <1>1 DEF TypeInv
<1>4. Leased => \A v \in Workers \ {w} : ~HasMsg(v)
  BY <1>1, OneTask, IdleHasNothing
<1>5. Leased' = Leased /\ ~Exists(stored)'
  BY <1>1 DEF Leased, Exists
<1>6. \A v \in Workers : HasMsg(v)' => HasMsg(v) /\ task'[v] = task[v] /\ ~Leased
  BY <1>3, <1>4 DEF HasMsg
<1>7. OneWriter'
  BY <1>5, <1>6 DEF SingleInv, OneWriter, HasPending
<1>8. FaultsPayNotices' /\ OneFailureNotice'
  BY <1>1, <1>5, <1>6 DEF SingleInv, FaultsPayNotices, OneFailureNotice
<1>9. QuotaExact'
  <2> SUFFICES ASSUME Leased, NEW id \in QuotaIds PROVE used'[id] = 0
    BY <1>5 DEF QuotaExact
  <2>1. used[id] = IF id \in stored.meta THEN 1 ELSE 0
    BY <1>2 DEF SingleInv, QuotaExact
  <2>2. used'[id] = IF id \in stored.meta THEN used[id] - 1 ELSE used[id]
    BY <1>1, <1>2 DEF Subtract
  <2>3. QED
    BY <2>1, <2>2
<1>10. StoredIsPending' /\ ClearsStale' /\ EventInTime' /\ RemovedStaysRemoved'
  BY <1>5 DEF StoredIsPending, ClearsStale, EventInTime, RemovedStaysRemoved
<1>11. QED
  BY <1>7, <1>8, <1>9, <1>10 DEF SingleInv

LEMMA TaskStepSingleInv ==
  ASSUME SingleQueue, TypeInv, TypeInv', LeaseInv, SingleInv, [Next]_vars, NEW w \in Workers,
         TaskStep(w) \/ ReadFails(w) \/ Crash(w)
  PROVE  SingleInv'
<1>1. ASSUME NEW x, task' = [task EXCEPT ![w] = x], x.pc \in {"idle", "read", "clear", "unlock"}
      PROVE  \A v \in Workers :
               /\ task'[v] = task[v] \/ task'[v].pc \in {"idle", "read", "clear", "unlock"}
               /\ ~HasMsg(w) /\ HasMsg(v) => task'[v] = task[v]
               /\ x.pc # "clear" /\ task'[v].pc = "clear" => task'[v] = task[v]
  BY <1>1 DEF TypeInv
<1>2. CASE ReadNothing(w) \/ ReadFails(w)
  <2>1. task[w].pc = "read" /\ task' = [task EXCEPT ![w].pc = "clear"]
    BY <1>2 DEF ReadNothing, ReadFails
  <2>2. task' = [task EXCEPT ![w] = [pc |-> "clear", ev |-> task[w].ev]] /\ ~HasMsg(w)
    BY <2>1, EvTaskStep DEF HasMsg
  <2>3. UNCHANGED <<stored, used, bounced, removed, events>> /\ (stored = Gone \/ ~Readable')
    BY <1>2 DEF ReadNothing, ReadFails, Exists, Fault, Readable
  <2>4. QED
    BY <1>1, <2>2, <2>3, RestSingleInv
<1>3. CASE ClearEvent(w)
  <2>1. task[w].pc = "clear" /\ task' = [task EXCEPT ![w].pc = "unlock"]
    BY <1>3 DEF ClearEvent
  <2>2. task' = [task EXCEPT ![w] = [pc |-> "unlock", ev |-> task[w].ev]] /\ ~HasMsg(w)
    BY <2>1, EvTaskStep DEF HasMsg
  <2>3. UNCHANGED <<stored, used, bounced, removed, faults>>
    BY <1>3 DEF ClearEvent
  <2>4. stored = Gone \/ ~Readable' \/ ~Leased'
    BY <2>1, <2>3 DEF SingleInv, ClearsStale, Exists, Readable, Leased
  <2>5. QED
    BY <1>1, <2>2, <2>3, <2>4, RestSingleInv
<1>4. CASE Unlock(w) \/ Crash(w)
  <2>1. task' = [task EXCEPT ![w] = IdleTask] /\ IdleTask.pc = "idle"
    BY <1>4 DEF Unlock, Crash, IdleTask
  <2>2. UNCHANGED <<stored, used, bounced, removed, events>>
    BY <1>4 DEF Unlock, Crash
  <2>3. ~HasMsg(w) \/ Cardinality(faults') = Cardinality(faults) + 1
    BY <1>4, FaultFacts DEF Unlock, Crash, HasMsg
  <2>4. QED
    BY <1>1, <2>1, <2>2, <2>3, RestSingleInv
<1>5. CASE WriteFails(w)
  <2>1. task' = [task EXCEPT ![w] = [pc |-> "unlock", ev |-> task[w].ev]]
    BY <1>5 DEF WriteFails, TypeInv
  <2>2. /\ UNCHANGED <<stored, used, bounced, removed, events>>
        /\ stored = Gone \/ Fault("save")
    BY <1>5 DEF WriteFails, Exists
  <2>3. stored = Gone \/ Cardinality(faults') = Cardinality(faults) + 1
    BY <2>2, FaultFacts
  <2>4. QED
    BY <1>1, <2>1, <2>2, <2>3, RestSingleInv
<1>6. QED
  BY <1>2, <1>3, <1>4, <1>5, ReadSingleInv, ThrottleSingleInv, AttemptSingleInv, SaveSingleInv,
     RemoveSingleInv DEF TaskStep

LEMMA InitSingleInv == Init => SingleInv
<1> SUFFICES ASSUME Init PROVE SingleInv
  OBVIOUS
<1>1. PICK assign \in [Rcpts -> Queues] :
        /\ \A r \in Rcpts : assign[r] \in Strategies[r]
        /\ stored = Fresh(assign)
  BY DEF Init
<1>2. /\ stored \in Messages /\ stored # Gone /\ stored.meta = QuotaIds
      /\ \A r \in Rcpts : Pending(stored.rcpts[r])
  BY <1>1, FreshFacts, GoneIsNoMessage DEF Pending
<1>3. faults = {} /\ Cardinality(faults) = 0
  BY FS_EmptySet DEF Init
<1>4. \A w \in Workers : task[w].pc = "idle" /\ ~HasMsg(w)
  BY DEF Init, HasMsg, IdleTask
<1>5. HasPending(stored)
  BY <1>2, RcptsAssumption DEF HasPending, Rcpts
<1>6. OneWriter /\ StoredIsPending /\ ClearsStale
  BY <1>4, <1>5 DEF OneWriter, StoredIsPending, ClearsStale
<1>7. FaultsPayNotices /\ OneFailureNotice
  BY <1>3, <1>4 DEF FaultsPayNotices, OneFailureNotice, Init
<1>8. RemovedStaysRemoved /\ QuotaExact
  BY <1>2 DEF RemovedStaysRemoved, QuotaExact, Exists, Init
<1>9. EventInTime
  <2>1. \A r \in Rcpts : \E ev \in events :
           ev[2] = stored.rcpts[r].queue /\ ev[1] <= Earliest(stored.rcpts[r])
    BY <1>2, NextEventsFacts DEF Init
  <2>2. events # {}
    BY <1>5, <2>1 DEF HasPending
  <2>3. QED
    BY <2>1, <2>2 DEF EventInTime
<1>10. QED
  BY <1>6, <1>7, <1>8, <1>9 DEF SingleInv

LEMMA NextSingleInv ==
  ASSUME AdminOps = {}, SingleQueue, TypeInv, TypeInv', LeaseInv, SingleInv, [Next]_vars
  PROVE  SingleInv'
<1>1. ASSUME UNCHANGED <<stored, used, bounced, removed, task, events>> PROVE SingleInv'
  BY <1>1, RestSingleInv
<1>2. CASE Tick \/ UNCHANGED vars
  BY <1>1, <1>2 DEF Tick, vars
<1>3. ASSUME NEW q \in Queues, LockExpires(q) PROVE SingleInv'
  BY <1>1, <1>3 DEF LockExpires
<1>4. ASSUME NEW w \in Workers, NEW ev \in events, TryLock(w, ev) PROVE SingleInv'
  <2>1. UNCHANGED <<stored, used, bounced, removed, events>> /\ ~HasMsg(w)
    BY <1>4 DEF TryLock, HasMsg, IdleTask
  <2>2. \A v \in Workers :
           /\ task'[v] = task[v] \/ task'[v].pc \in {"idle", "read", "clear", "unlock"}
           /\ v # w => task'[v] = task[v]
           /\ task'[w].pc = "read"
    BY <1>4 DEF TryLock, TypeInv
  <2>3. QED
    BY <2>1, <2>2, RestSingleInv
<1>5. ~(AdminSave \/ AdminRemove \/ AdminWriteFails)
  BY DEF LeaseInv, Resting, AdminSave, AdminRemove, AdminWriteFails
<1>6. QED
  BY <1>2, <1>3, <1>4, <1>5, TaskStepSingleInv DEF Next

LEMMA SingleInvHolds == ASSUME AdminOps = {}, SingleQueue PROVE Spec => []SingleInv
BY InitSingleInv, NextSingleInv, LeaseInvHolds, TypeInvHolds, PTL DEF Spec

\* With one virtual queue and no edits by hand, as long as no read fails and
\* no lock is outlived: the message in the store has an event key, and each
\* waiting recipient one that is in time.  save_changes writes the next events
\* in the batch that deletes the old one, and an event is deleted as stale
\* only when the message is gone.
THEOREM EventsAreInTime ==
  ASSUME AdminOps = {}, SingleQueue PROVE Spec => []EventInTime
<1>1. SingleInv => EventInTime
  BY DEF SingleInv
<1>2. QED
  BY <1>1, SingleInvHolds, PTL

\* Under the same conditions, whatever crashes and writes fail: one failure
\* notification per recipient, and one more per fault.
THEOREM NoticesArePaid ==
  ASSUME AdminOps = {}, SingleQueue PROVE Spec => []OneFailureNotice
<1>1. SingleInv => OneFailureNotice
  BY DEF SingleInv
<1>2. QED
  BY <1>1, SingleInvHolds, PTL

\* Under the same conditions a dropped message is not written back.
THEOREM RemovalIsFinal ==
  ASSUME AdminOps = {}, SingleQueue PROVE Spec => []RemovedStaysRemoved
<1>1. SingleInv => RemovedStaysRemoved
  BY DEF SingleInv
<1>2. QED
  BY <1>1, SingleInvHolds, PTL

\* Under the same conditions the quota counters are exact: what save_changes
\* and remove release is what the stored message still holds.
THEOREM QuotasAreExact ==
  ASSUME AdminOps = {}, SingleQueue PROVE Spec => []QuotaExact
<1>1. SingleInv => QuotaExact
  BY DEF SingleInv
<1>2. QED
  BY <1>1, SingleInvHolds, PTL
=============================================================================
