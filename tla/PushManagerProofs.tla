------------------------- MODULE PushManagerProofs -------------------------
(***************************************************************************)
(* For any accounts, subscriptions, listeners, notifications, intervals and*)
(* channel sizes: listeners stay subscribed, the router learns of every    *)
(* account with subscriptions, a registration in flight has exactly one    *)
(* request, and no notification is lost.                                   *)
(*                                                                         *)
(* Each rests on an invariant of its own, about what is on its way:        *)
(*   - an event that subscribes a listener names the owner's account       *)
(*     (SubscribesOwner);                                                  *)
(*   - the last word about an account with subscriptions, in the router's  *)
(*     set, its channel or the manager's answer, is that it has some       *)
(*     (RouterWillKnow), since an answer that takes an account back is     *)
(*     true when it is given (AnswerIsTrue);                               *)
(*   - the request or the report of a registration, but never two, is      *)
(*     somewhere exactly while it is busy (InFlight), and it is busy only  *)
(*     with attempts to spare, which bounds them;                          *)
(*   - a notification is in one place before the manager has it (NewOnce), *)
(*     and afterwards in one place for each subscription (AcceptedOnce):   *)
(*     what a step delivers or drops is nowhere else.                      *)
(* The handlers are first reduced to what they do to registrations and     *)
(* requests (HandledStep, RetryStep, ReportedStep).                        *)
(***************************************************************************)
EXTENDS PushManager, FiniteSetTheorems, TLAPS

-----------------------------------------------------------------------------
(* Types.                                                                  *)

Events(types) ==
    [type : types, account : Accounts, notes : SUBSET Notes, sub : Nat \cup Listeners,
     act : SUBSET Accounts, exp : SUBSET Accounts, late : BOOLEAN]
RouterEvents == Events({"publish", "subscribe", "register", "update", "stop"})
ForwardEvents == Events({"push", "update", "stop"})
PushEvents == Events({"push", "update", "stop", "success", "failure"})
Registrations ==
    [up : BOOLEAN, mem : SUBSET Accounts, exp : BOOLEAN, attempts : Nat, age : Nat,
     notes : SUBSET Notes, busy : BOOLEAN]
Tasks == [sub : Subs, notes : SUBSET Notes, late : BOOLEAN]

Reports(i) == pushQ[i].type \in {"success", "failure"}

TypeInv ==
    /\ members \in SUBSET Accounts /\ Owner \in members
    /\ unsent \in SUBSET Notes
    /\ routerQ \in Seq(RouterEvents) /\ Len(routerQ) <= RouterCap
    /\ pushQ \in Seq(PushEvents) /\ Len(pushQ) <= PushCap
    /\ \A i \in 1..Len(pushQ) : Reports(i) => pushQ[i].sub \in Subs
    /\ router \in [pc : {"run", "forward", "stopped"}, e : ForwardEvents \cup {NoEvent}]
    /\ router.pc = "forward" => router.e \in ForwardEvents
    /\ isPush \in SUBSET Accounts
    /\ reg \in [Subs -> Registrations]
    /\ \A s \in Subs : ~reg[s].up => reg[s] = NoReg
    /\ ids \in [Accounts -> SUBSET Subs]
    /\ mgr \in [pc : {"boot", "reply", "retry", "wait"}, act : SUBSET Accounts,
                exp : SUBSET Accounts, due : BOOLEAN, timer : BOOLEAN]
    /\ retry \in SUBSET Subs
    /\ sending \in SUBSET Tasks
    /\ mgr.pc = "boot" => /\ \A s \in Subs : reg[s] = NoReg
                          /\ sending = {} /\ \A i \in 1..Len(pushQ) : ~Reports(i)

-----------------------------------------------------------------------------
(* Listeners.                                                              *)

SubscribesOwner ==
    \A i \in 1..Len(routerQ) : routerQ[i].type = "subscribe" => Owner \in routerQ[i].act

-----------------------------------------------------------------------------
(* The router knows.                                                       *)

\* What the manager is about to answer is true of what it has.
AnswerIsTrue ==
    /\ mgr.pc # "reply" => mgr.act = {} /\ mgr.exp = {}
    /\ \A a \in mgr.exp : ids[a] = {}

\* Nothing after position i of the router's channel takes account a back.
NotTakenBack(a, i) ==
    \A j \in 1..Len(routerQ) : j > i /\ routerQ[j].type = "register" => a \notin routerQ[j].exp

\* The last thing the router will have heard of an account is that it has
\* subscriptions.
LastWord(a) ==
    \/ a \in mgr.act
    \/ a \in isPush /\ NotTakenBack(a, 0)
    \/ \E i \in 1..Len(routerQ) :
          /\ routerQ[i].type = "register" /\ a \in routerQ[i].act /\ a \notin routerQ[i].exp
          /\ NotTakenBack(a, i)
RouterWillKnow ==
    \A a \in Accounts \ unannounced : ids[a] # {} /\ router.pc # "stopped" => LastWord(a)

-----------------------------------------------------------------------------
(* Requests in flight.                                                     *)

\* The requests of the registration s, and their reports on the way.
Request(s, d) == d.sub = s /\ ~d.late
Answer(s, i) == Reports(i) /\ pushQ[i].sub = s /\ ~pushQ[i].late
Pending(s) ==
    (\E d \in sending : Request(s, d)) \/ (\E i \in 1..Len(pushQ) : Answer(s, i))
AtMostOne(s) ==
    /\ \A c, d \in sending : Request(s, c) /\ Request(s, d) => c = d
    /\ \A i, j \in 1..Len(pushQ) : Answer(s, i) /\ Answer(s, j) => i = j
    /\ \A d \in sending, i \in 1..Len(pushQ) : ~(Request(s, d) /\ Answer(s, i))

InFlight ==
    \A s \in Subs \ crossed :
        /\ AtMostOne(s) /\ (Pending(s) <=> reg[s].busy)
        /\ reg[s].attempts <= PushAttemptsMax
        /\ reg[s].busy => reg[s].attempts < PushAttemptsMax

-----------------------------------------------------------------------------
(* Notifications.                                                          *)

\* Where a notification is before the manager has it.
InRouterQ(n, i) == routerQ[i].type = "publish" /\ n \in routerQ[i].notes
InRouter(n) == router.pc = "forward" /\ router.e.type = "push" /\ n \in router.e.notes
InPushQ(n, i) == pushQ[i].type = "push" /\ n \in pushQ[i].notes
New(n) ==
    \/ n \in unsent \/ InRouter(n)
    \/ \E i \in 1..Len(routerQ) : InRouterQ(n, i)
    \/ \E i \in 1..Len(pushQ) : InPushQ(n, i)

\* Where it is for a subscription.
InReport(s, n, i) == pushQ[i].type = "failure" /\ pushQ[i].sub = s /\ n \in pushQ[i].notes
InTask(s, n, d) == d.sub = s /\ n \in d.notes
Accepted(s, n) ==
    \/ n \in reg[s].notes
    \/ \E d \in sending : InTask(s, n, d)
    \/ \E i \in 1..Len(pushQ) : InReport(s, n, i)

\* A notification is in one place only,
NewOnce ==
    /\ \A n \in unsent : /\ \A i \in 1..Len(routerQ) : ~InRouterQ(n, i)
                         /\ ~InRouter(n)
                         /\ \A i \in 1..Len(pushQ) : ~InPushQ(n, i)
    /\ \A n \in Notes : InRouter(n) => /\ \A i \in 1..Len(routerQ) : ~InRouterQ(n, i)
                                       /\ \A i \in 1..Len(pushQ) : ~InPushQ(n, i)
    /\ \A n \in Notes, i \in 1..Len(routerQ) : InRouterQ(n, i) =>
          /\ \A j \in 1..Len(routerQ) : InRouterQ(n, j) => i = j
          /\ \A j \in 1..Len(pushQ) : ~InPushQ(n, j)
    /\ \A n \in Notes, i, j \in 1..Len(pushQ) : InPushQ(n, i) /\ InPushQ(n, j) => i = j
\* and not yet accepted for any subscription;
NewIsNew == \A s \in Subs, n \in Notes : New(n) => ~Accepted(s, n)
\* for a subscription it is in one place only, too;
AcceptedOnce ==
    \A s \in Subs, n \in Notes :
        /\ n \in reg[s].notes => /\ \A d \in sending : ~InTask(s, n, d)
                                 /\ \A i \in 1..Len(pushQ) : ~InReport(s, n, i)
        /\ \A d \in sending : InTask(s, n, d) =>
              /\ \A c \in sending : InTask(s, n, c) => c = d
              /\ \A i \in 1..Len(pushQ) : ~InReport(s, n, i)
        /\ \A i, j \in 1..Len(pushQ) : InReport(s, n, i) /\ InReport(s, n, j) => i = j
\* and what is owed is what was accepted.
OwedIsAccepted ==
    /\ owed \in SUBSET (Subs \X Notes)
    /\ \A s \in Subs, n \in Notes : <<s, n>> \in owed <=> Accepted(s, n)
-----------------------------------------------------------------------------
(* Sequences.                                                              *)

LEMMA AppendFacts ==
  ASSUME NEW S, NEW q \in Seq(S), NEW e \in S
  PROVE  /\ Append(q, e) \in Seq(S) /\ Len(q) \in Nat /\ Len(Append(q, e)) = Len(q) + 1
         /\ \A k \in 1..Len(q) : Append(q, e)[k] = q[k]
         /\ Append(q, e)[Len(q) + 1] = e
OBVIOUS

LEMMA TailFacts ==
  ASSUME NEW S, NEW q \in Seq(S), q # <<>>
  PROVE  /\ Tail(q) \in Seq(S) /\ Len(q) \in Nat /\ Len(q) >= 1 /\ Len(Tail(q)) = Len(q) - 1
         /\ Head(q) = q[1] /\ q[1] \in S /\ \A k \in 1..Len(q) - 1 : Tail(q)[k] = q[k + 1]
OBVIOUS

LEMMA FunctionIsSeq ==
  ASSUME NEW S, NEW n \in Nat, NEW f \in [1..n -> S]
  PROVE  f \in Seq(S) /\ Len(f) = n
OBVIOUS

\* Reports of removed registrations become late; nothing else changes.
LEMMA OrphanedFacts ==
  ASSUME NEW Q \in Seq(PushEvents), NEW S
  PROVE  /\ QueueOrphaned(Q, S) \in Seq(PushEvents)
         /\ Len(Q) \in Nat /\ Len(QueueOrphaned(Q, S)) = Len(Q)
         /\ \A i \in 1..Len(Q) :
              /\ QueueOrphaned(Q, S)[i].type = Q[i].type
              /\ QueueOrphaned(Q, S)[i].sub = Q[i].sub
              /\ QueueOrphaned(Q, S)[i].notes = Q[i].notes
              /\ QueueOrphaned(Q, S)[i].late <=>
                   (Q[i].late \/ (Q[i].type \in {"success", "failure"} /\ Q[i].sub \in S))
<1>1. Len(Q) \in Nat /\ \A i \in 1..Len(Q) : Q[i] \in PushEvents
  OBVIOUS
<1>2. QueueOrphaned(Q, S) \in [1..Len(Q) -> PushEvents]
  BY <1>1 DEF QueueOrphaned, PushEvents, Events
<1>3. QueueOrphaned(Q, S) \in Seq(PushEvents) /\ Len(QueueOrphaned(Q, S)) = Len(Q)
  BY <1>1, <1>2, FunctionIsSeq
<1>4. QED
  BY <1>1, <1>3 DEF QueueOrphaned, PushEvents, Events

\* The first event of the manager's channel is taken, and the reports of the
\* registrations in S become late.
Popped(S) ==
    /\ pushQ # <<>> /\ pushQ' \in Seq(PushEvents)
    /\ Len(pushQ) \in Nat /\ Len(pushQ) >= 1 /\ Len(pushQ') = Len(pushQ) - 1
    /\ Head(pushQ) = pushQ[1] /\ pushQ[1] \in PushEvents
    /\ \A i \in 1..Len(pushQ') :
         /\ i + 1 \in 1..Len(pushQ)
         /\ pushQ'[i].type = pushQ[i + 1].type /\ pushQ'[i].sub = pushQ[i + 1].sub
         /\ pushQ'[i].notes = pushQ[i + 1].notes
         /\ pushQ'[i].late <=> (pushQ[i + 1].late \/ (Reports(i + 1) /\ pushQ[i + 1].sub \in S))

LEMMA TailPops ==
  ASSUME pushQ \in Seq(PushEvents), pushQ # <<>>, pushQ' = Tail(pushQ)
  PROVE  Popped({})
<1>1. /\ Tail(pushQ) \in Seq(PushEvents) /\ Len(pushQ) \in Nat /\ Len(pushQ) >= 1
      /\ Len(Tail(pushQ)) = Len(pushQ) - 1
      /\ Head(pushQ) = pushQ[1] /\ pushQ[1] \in PushEvents
      /\ \A k \in 1..Len(pushQ) - 1 : Tail(pushQ)[k] = pushQ[k + 1]
  BY TailFacts
<1>2. QED
  BY <1>1 DEF Popped

LEMMA OrphanPops ==
  ASSUME pushQ \in Seq(PushEvents), pushQ # <<>>, NEW S,
         pushQ' = QueueOrphaned(Tail(pushQ), S)
  PROVE  Popped(S)
<1> DEFINE Q == Tail(pushQ)
<1>1. /\ Q \in Seq(PushEvents) /\ Len(pushQ) \in Nat /\ Len(pushQ) >= 1
      /\ Len(Q) = Len(pushQ) - 1
      /\ Head(pushQ) = pushQ[1] /\ pushQ[1] \in PushEvents
      /\ \A k \in 1..Len(pushQ) - 1 : Q[k] = pushQ[k + 1]
  BY TailFacts
<1>2. pushQ' = QueueOrphaned(Q, S)
  OBVIOUS
<1> HIDE DEF Q
<1>3. /\ pushQ' \in Seq(PushEvents)
      /\ Len(pushQ') = Len(Q)
      /\ \A i \in 1..Len(Q) :
           /\ pushQ'[i].type = Q[i].type /\ pushQ'[i].sub = Q[i].sub
           /\ pushQ'[i].notes = Q[i].notes
           /\ pushQ'[i].late <=>
                (Q[i].late \/ (Q[i].type \in {"success", "failure"} /\ Q[i].sub \in S))
  BY <1>1, <1>2, OrphanedFacts
<1>4. QED
  BY <1>1, <1>3 DEF Popped, Reports

\* An event is put at the end of it.
Pushed(e) ==
    /\ pushQ' \in Seq(PushEvents) /\ e \in PushEvents
    /\ Len(pushQ) \in Nat /\ Len(pushQ') = Len(pushQ) + 1
    /\ \A i \in 1..Len(pushQ) : pushQ'[i] = pushQ[i]
    /\ pushQ'[Len(pushQ) + 1] = e
LEMMA AppendPushes ==
  ASSUME pushQ \in Seq(PushEvents), NEW e \in PushEvents, pushQ' = Append(pushQ, e)
  PROVE  Pushed(e)
BY AppendFacts DEF Pushed

\* The same for the router's channel.
RouterPopped ==
    /\ routerQ # <<>> /\ routerQ' \in Seq(RouterEvents)
    /\ Len(routerQ) \in Nat /\ Len(routerQ) >= 1 /\ Len(routerQ') = Len(routerQ) - 1
    /\ Head(routerQ) = routerQ[1] /\ routerQ[1] \in RouterEvents
    /\ \A i \in 1..Len(routerQ') : i + 1 \in 1..Len(routerQ) /\ routerQ'[i] = routerQ[i + 1]
RouterPushed(e) ==
    /\ routerQ' \in Seq(RouterEvents) /\ e \in RouterEvents
    /\ Len(routerQ) \in Nat /\ Len(routerQ') = Len(routerQ) + 1
    /\ \A i \in 1..Len(routerQ) : routerQ'[i] = routerQ[i]
    /\ routerQ'[Len(routerQ) + 1] = e
LEMMA TailPopsRouter ==
  ASSUME routerQ \in Seq(RouterEvents), routerQ # <<>>, routerQ' = Tail(routerQ)
  PROVE  RouterPopped
<1>1. /\ Tail(routerQ) \in Seq(RouterEvents) /\ Len(routerQ) \in Nat /\ Len(routerQ) >= 1
      /\ Len(Tail(routerQ)) = Len(routerQ) - 1
      /\ Head(routerQ) = routerQ[1] /\ routerQ[1] \in RouterEvents
      /\ \A k \in 1..Len(routerQ) - 1 : Tail(routerQ)[k] = routerQ[k + 1]
  BY TailFacts
<1>2. QED
  BY <1>1 DEF RouterPopped
LEMMA AppendPushesRouter ==
  ASSUME routerQ \in Seq(RouterEvents), NEW e \in RouterEvents, routerQ' = Append(routerQ, e)
  PROVE  RouterPushed(e)
BY AppendFacts DEF RouterPushed

LEMMA EmptyFacts == ASSUME NEW S PROVE <<>> \in Seq(S) /\ Len(<<>>) = 0
OBVIOUS
-----------------------------------------------------------------------------
(* Type correctness.                                                       *)

LEMMA EventFacts ==
  /\ \A t : /\ Event(t).type = t /\ Event(t).account = Owner /\ Event(t).notes = {}
            /\ Event(t).act = {} /\ Event(t).exp = {}
  /\ \A a \in Accounts, N \in SUBSET Notes :
        [Event("publish") EXCEPT !.account = a, !.notes = N] \in RouterEvents
  /\ \A A \in SUBSET Accounts, l \in Listeners :
        [Event("subscribe") EXCEPT !.act = A, !.sub = l] \in RouterEvents
  /\ \A A, B \in SUBSET Accounts :
        [Event("register") EXCEPT !.act = A, !.exp = B] \in RouterEvents
  /\ Event("update") \in RouterEvents /\ Event("stop") \in RouterEvents
  /\ \A t \in {"success", "failure"}, d \in Tasks, N \in SUBSET Notes :
        [Event(t) EXCEPT !.sub = d.sub, !.notes = N, !.late = d.late] \in PushEvents
  /\ NoEvent.notes = {} /\ NoEvent.type = "none"
BY PushAssumption DEF Event, NoEvent, RouterEvents, PushEvents, Events, Tasks

LEMMA RegFacts ==
  ASSUME members \in SUBSET Accounts
  PROVE  /\ NoReg \in Registrations /\ NewReg \in Registrations
         /\ ~NoReg.up /\ NewReg.up /\ ~NoReg.busy /\ ~NewReg.busy
         /\ NoReg.notes = {} /\ NewReg.notes = {} /\ NoReg.attempts = 0 /\ NewReg.attempts = 0
<1>1. ThrottleAge \in 1..2 /\ AttemptAge \in 1..2
  BY PushAssumption
<1>2. Old \in Nat
  BY <1>1 DEF Old
<1>3. NoReg \in Registrations
  BY DEF NoReg, Registrations
<1>4. NewReg \in Registrations
  BY <1>2, <1>3 DEF NewReg, Registrations
<1>5. NewReg.up /\ NewReg.busy = NoReg.busy /\ NewReg.notes = NoReg.notes
      /\ NewReg.attempts = NoReg.attempts
  BY <1>3 DEF NewReg, Registrations
<1>6. QED
  BY <1>3, <1>4, <1>5 DEF NoReg

LEMMA AfterFacts ==
  ASSUME TypeInv, NEW A \in SUBSET Accounts, NEW B \in SUBSET Accounts
  PROVE  /\ After(A, B) \in [pc : {"boot", "reply", "retry", "wait"}, act : SUBSET Accounts,
                             exp : SUBSET Accounts, due : BOOLEAN, timer : BOOLEAN]
         /\ A \cup B # {} => After(A, B).pc = "reply" /\ After(A, B).act = A /\ After(A, B).exp = B
         /\ A \cup B = {} => /\ After(A, B).pc = "retry"
                             /\ After(A, B).act = mgr.act /\ After(A, B).exp = mgr.exp
BY DEF TypeInv, After

LEMMA InitTypeInv == Init => TypeInv
<1> SUFFICES ASSUME Init PROVE TypeInv
  OBVIOUS
<1>1. members \in SUBSET Accounts /\ Owner \in members
  BY PushAssumption DEF Init
<1>2. /\ routerQ \in Seq(RouterEvents) /\ Len(routerQ) = 0
      /\ pushQ \in Seq(PushEvents) /\ Len(pushQ) = 0
  BY EmptyFacts DEF Init
<1>3. reg \in [Subs -> Registrations] /\ \A s \in Subs : reg[s] = NoReg
  BY <1>1, RegFacts DEF Init
<1>4. Len(routerQ) <= RouterCap /\ Len(pushQ) <= PushCap
  BY <1>2, PushAssumption
<1>5. QED
  BY <1>1, <1>2, <1>3, <1>4 DEF Init, TypeInv

\* The requests of clients, and everything that only sends to the router.
LEMMA SendTypeInv ==
  ASSUME TypeInv, NEW e \in RouterEvents, Len(routerQ) < RouterCap, routerQ' = Append(routerQ, e),
         unsent' \in SUBSET Notes, members' = members,
         UNCHANGED <<pushQ, routerVars, reg, ids, retry, sending>>,
         mgr' = mgr \/ mgr' = [mgr EXCEPT !.pc = "retry", !.act = {}, !.exp = {}]
  PROVE  TypeInv'
<1>1. RouterPushed(e)
  BY AppendPushesRouter DEF TypeInv
<1>2. Len(routerQ') <= RouterCap
  BY <1>1, PushAssumption DEF RouterPushed
<1>3. \A i \in 1..Len(pushQ) : Reports(i)' <=> Reports(i)
  BY DEF Reports
<1>4. QED
  BY <1>1, <1>2, <1>3 DEF TypeInv, RouterPushed, routerVars

LEMMA ClientTypeInv ==
  ASSUME TypeInv,
         \/ \E n \in Notes, a \in Accounts : Publish(n, a)
         \/ \E l \in Listeners : Subscribe(l) \/ Close(l)
         \/ \E s \in Subs : Create(s) \/ Verify(s) \/ Destroy(s)
         \/ Purge \/ ChangeGroups \/ Shutdown
  PROVE  TypeInv'
<1>1. ASSUME NEW n \in Notes, NEW a \in Accounts, Publish(n, a) PROVE TypeInv'
  BY <1>1, EventFacts, SendTypeInv DEF Publish, RouterAccepts, TypeInv, managerVars
<1>2. ASSUME NEW l \in Listeners, Subscribe(l) PROVE TypeInv'
  BY <1>2, EventFacts, SendTypeInv DEF Subscribe, RouterAccepts, TypeInv, managerVars
<1>3. ASSUME NEW l \in Listeners, Close(l) PROVE TypeInv'
  BY <1>3 DEF Close, TypeInv, managerVars, routerVars, Reports
<1>4. ASSUME NEW new, Stores(new) PROVE TypeInv'
  BY <1>4, EventFacts, SendTypeInv DEF Stores, RouterAccepts, TypeInv, managerVars
<1>5. CASE ChangeGroups
  BY <1>5, PushAssumption DEF ChangeGroups, TypeInv, managerVars, routerVars, Reports
<1>6. CASE Shutdown
  BY <1>6, EventFacts, SendTypeInv DEF Shutdown, RouterAccepts, TypeInv, managerVars, environment
<1>7. QED
  BY <1>1, <1>2, <1>3, <1>4, <1>5, <1>6 DEF Create, Verify, Destroy, Purge

LEMMA ClockTypeInv ==
  ASSUME TypeInv, (\E s \in Subs : Expire(s) \/ Ages(s)) \/ RetryInterval \/ TimerFires
  PROVE  TypeInv'
<1>1. ASSUME NEW s \in Subs, Expire(s) PROVE TypeInv'
  <2>1. /\ reg' = [reg EXCEPT ![s].exp = reg[s].up]
        /\ UNCHANGED <<members, unsent, routerQ, pushQ, router, isPush, ids, mgr, retry, sending>>
    BY <1>1 DEF Expire, routerVars
  <2>2. reg' \in [Subs -> Registrations]
    BY <2>1 DEF TypeInv, Registrations
  <2>3. \A t \in Subs \ {s} : reg'[t] = reg[t]
    BY <2>1 DEF TypeInv
  <2>4. reg'[s] = [reg[s] EXCEPT !.exp = reg[s].up] /\ reg[s] \in Registrations
    BY <2>1 DEF TypeInv
  <2>5. reg'[s].up = reg[s].up
    BY <2>4 DEF Registrations
  <2>6. ASSUME reg[s] = NoReg PROVE reg'[s] = NoReg
    <3>1. NoReg = [up |-> NoReg.up, mem |-> NoReg.mem, exp |-> NoReg.exp,
                   attempts |-> NoReg.attempts, age |-> NoReg.age, notes |-> NoReg.notes,
                   busy |-> NoReg.busy] /\ NoReg.exp = NoReg.up
      BY DEF NoReg
    <3>2. QED
      BY <2>4, <2>6, <3>1
  <2>7. \A t \in Subs : /\ ~reg'[t].up => reg'[t] = NoReg
                        /\ reg[t] = NoReg => reg'[t] = NoReg
    BY <2>3, <2>5, <2>6 DEF TypeInv
  <2>8. QED
    BY <2>1, <2>2, <2>7 DEF TypeInv, Reports, NoReg
<1>2. ASSUME NEW s \in Subs, Ages(s) PROVE TypeInv'
  <2>1. /\ reg' = [reg EXCEPT ![s].age = @ + 1] /\ reg[s].up
        /\ UNCHANGED <<members, unsent, routerQ, pushQ, router, isPush, ids, mgr, retry, sending>>
    BY <1>2 DEF Ages, routerVars, environment
  <2>2. reg'[s] = [reg[s] EXCEPT !.age = reg[s].age + 1] /\ reg[s] \in Registrations
    BY <2>1 DEF TypeInv
  <2>3. reg'[s] \in Registrations /\ reg'[s].up
    BY <2>1, <2>2 DEF Registrations
  <2>4. reg' = [reg EXCEPT ![s] = reg'[s]] /\ reg' \in [Subs -> Registrations]
    BY <2>1, <2>3 DEF TypeInv
  <2>5. ~NoReg.up
    BY DEF NoReg
  <2>6. \A t \in Subs : /\ ~reg'[t].up => reg'[t] = NoReg
                        /\ reg[t] = NoReg => reg'[t] = NoReg
    BY <2>1, <2>3, <2>4, <2>5 DEF TypeInv
  <2>7. QED
    BY <2>1, <2>4, <2>6 DEF TypeInv, Reports, NoReg
<1>3. CASE RetryInterval
  BY <1>3 DEF RetryInterval, TypeInv, environment, routerVars, Reports
<1>4. CASE TimerFires
  <2>1. mgr' = After({}, {})
    BY <1>4 DEF TimerFires
  <2>2. mgr' \in [pc : {"boot", "reply", "retry", "wait"}, act : SUBSET Accounts,
                  exp : SUBSET Accounts, due : BOOLEAN, timer : BOOLEAN] /\ mgr'.pc = "retry"
    BY <2>1, AfterFacts
  <2>3. QED
    BY <1>4, <2>2 DEF TimerFires, TypeInv, environment, routerVars, Reports
<1>5. QED
  BY <1>1, <1>2, <1>3, <1>4

LEMMA RouterTypeInv == ASSUME TypeInv, Router PROVE TypeInv'
<1>1. CASE RouterTakes
  <2>1. RouterPopped
    BY <1>1, TailPopsRouter DEF RouterTakes, TypeInv
  <2>2. UNCHANGED <<members, unsent, pushQ, reg, ids, mgr, retry, sending>>
    BY <1>1 DEF RouterTakes, environment, managerVars
  <2>3. /\ router' \in [pc : {"run", "forward", "stopped"}, e : ForwardEvents \cup {NoEvent}]
        /\ router'.pc = "forward" => router'.e \in ForwardEvents
    <3>1. \A t \in {"push", "update", "stop"} : [Head(routerQ) EXCEPT !.type = t] \in ForwardEvents
      BY <2>1 DEF RouterPopped, RouterEvents, ForwardEvents, Events
    <3>2. CASE router' = router
      BY <3>2 DEF TypeInv
    <3>3. ASSUME NEW t \in {"push", "update", "stop"},
                 router' = [pc |-> "forward", e |-> [Head(routerQ) EXCEPT !.type = t]]
          PROVE  <2>3!:
      BY <3>1, <3>3
    <3>4. QED
      BY <1>1, <3>2, <3>3 DEF RouterTakes
  <2>4. isPush' \in SUBSET Accounts
    BY <1>1, <2>1 DEF RouterTakes, ServerRegister, TypeInv, RouterPopped, RouterEvents, Events
  <2>5. Len(routerQ') <= RouterCap
    BY <2>1, PushAssumption DEF RouterPopped, TypeInv
  <2>6. QED
    BY <2>1, <2>2, <2>3, <2>4, <2>5 DEF TypeInv, RouterPopped, Reports
<1>2. CASE RouterForwards
  <2>1. router.e \in ForwardEvents /\ router.e \in PushEvents
    BY <1>2 DEF RouterForwards, TypeInv, ForwardEvents, PushEvents, Events
  <2>2. Pushed(router.e) /\ Len(pushQ') <= PushCap
    BY <1>2, <2>1, AppendPushes, PushAssumption DEF RouterForwards, TypeInv, Pushed
  <2>3. /\ UNCHANGED <<members, unsent, isPush, reg, ids, mgr, retry, sending>>
        /\ routerQ' = routerQ \/ routerQ' = <<>>
        /\ router' \in [pc : {"run", "forward", "stopped"}, e : ForwardEvents \cup {NoEvent}]
        /\ router'.pc # "forward"
    BY <1>2 DEF RouterForwards, environment, managerVars
  <2>4. routerQ' \in Seq(RouterEvents) /\ Len(routerQ') <= RouterCap
    <3>1. CASE routerQ' = routerQ
      BY <3>1 DEF TypeInv
    <3>2. CASE routerQ' = <<>>
      <4>1. routerQ' \in Seq(RouterEvents) /\ Len(routerQ') = 0
        BY <3>2, EmptyFacts
      <4>2. QED
        BY <4>1, PushAssumption
    <3>3. QED
      BY <2>3, <3>1, <3>2
  <2>5. \A i \in 1..Len(pushQ') : i \in 1..Len(pushQ) \/ i = Len(pushQ) + 1
    BY <2>2 DEF Pushed
  <2>6. \A i \in 1..Len(pushQ') : Reports(i)' =>
            i \in 1..Len(pushQ) /\ Reports(i) /\ pushQ'[i] = pushQ[i]
    BY <2>1, <2>2, <2>5 DEF Reports, Pushed, ForwardEvents, Events
  <2>7. QED
    BY <2>2, <2>3, <2>4, <2>6 DEF TypeInv, Pushed
<1>3. QED
  BY <1>1, <1>2 DEF Router

\* What the manager does to a registration.
Reloaded(r) == [r EXCEPT !.mem = members, !.exp = FALSE]
Queued(r, N) == [r EXCEPT !.notes = @ \cup N]
Dropped(r) == [r EXCEPT !.notes = {}, !.attempts = 0]
Succeeded(r) == [r EXCEPT !.attempts = 0, !.busy = FALSE]

LEMMA ReloadedFacts ==
  ASSUME NEW r \in Registrations, members \in SUBSET Accounts
  PROVE  /\ Reloaded(r) \in Registrations /\ (Reloaded(r).up <=> r.up)
         /\ (Reloaded(r).busy <=> r.busy) /\ Reloaded(r).notes = r.notes
         /\ Reloaded(r).attempts = r.attempts
BY DEF Reloaded, Registrations
LEMMA QueuedFacts ==
  ASSUME NEW r \in Registrations, NEW N \in SUBSET Notes
  PROVE  /\ Queued(r, N) \in Registrations /\ (Queued(r, N).up <=> r.up)
         /\ (Queued(r, N).busy <=> r.busy) /\ Queued(r, N).notes = r.notes \cup N
         /\ Queued(r, N).attempts = r.attempts
BY DEF Queued, Registrations
LEMMA SentFacts ==
  ASSUME NEW r \in Registrations
  PROVE  /\ Sent(r) \in Registrations /\ (Sent(r).up <=> r.up) /\ Sent(r).busy
         /\ Sent(r).notes = {} /\ Sent(r).attempts = r.attempts
BY DEF Sent, Registrations
LEMMA DroppedFacts ==
  ASSUME NEW r \in Registrations
  PROVE  /\ Dropped(r) \in Registrations /\ (Dropped(r).up <=> r.up)
         /\ (Dropped(r).busy <=> r.busy) /\ Dropped(r).notes = {} /\ Dropped(r).attempts = 0
BY DEF Dropped, Registrations
LEMMA SucceededFacts ==
  ASSUME NEW r \in Registrations
  PROVE  /\ Succeeded(r) \in Registrations /\ (Succeeded(r).up <=> r.up) /\ ~Succeeded(r).busy
         /\ Succeeded(r).notes = r.notes /\ Succeeded(r).attempts = 0
BY DEF Succeeded, Registrations
LEMMA FailedFacts ==
  ASSUME NEW r \in Registrations, NEW N \in SUBSET Notes
  PROVE  /\ Failed(r, N) \in Registrations /\ (Failed(r, N).up <=> r.up) /\ ~Failed(r, N).busy
         /\ Failed(r, N).notes = r.notes \cup N /\ Failed(r, N).attempts = r.attempts + 1
<1>1. r.attempts + 1 \in Nat /\ r.notes \cup N \in SUBSET Notes
  BY DEF Registrations
<1> DEFINE m == r.attempts + 1
           M == r.notes \cup N
<1>2. Failed(r, N) = [r EXCEPT !.age = 0, !.attempts = m, !.notes = M, !.busy = FALSE]
  BY DEF Failed, Registrations
<1>3. m \in Nat /\ M \in SUBSET Notes
  BY <1>1
<1> HIDE DEF m, M
<1>4. (Failed(r, N).up <=> r.up) /\ ~Failed(r, N).busy
  BY <1>2 DEF Registrations
<1>5. Failed(r, N).notes = M
  BY <1>2 DEF Registrations
<1>6. Failed(r, N).attempts = m
  BY <1>2 DEF Registrations
<1>7. Failed(r, N) \in Registrations
  <2>1. [r EXCEPT !.attempts = m] \in Registrations
    BY <1>3 DEF Registrations
  <2>2. \A x \in Registrations : [x EXCEPT !.age = 0, !.notes = M, !.busy = FALSE] \in Registrations
    BY <1>3 DEF Registrations
  <2>3. Failed(r, N) = [[r EXCEPT !.attempts = m] EXCEPT !.age = 0, !.notes = M, !.busy = FALSE]
    BY <1>2 DEF Registrations
  <2>4. QED
    BY <2>1, <2>2, <2>3
<1>8. QED
  BY <1>4, <1>5, <1>6, <1>7 DEF m, M

\* What becomes of the running requests when registrations go away.
Late(S, d) == [d EXCEPT !.late = @ \/ d.sub \in S]
LEMMA OrphanedTasks ==
  ASSUME sending \in SUBSET Tasks, NEW S
  PROVE  /\ Orphaned(S) = {Late(S, d) : d \in sending}
         /\ Orphaned(S) \in SUBSET Tasks
         /\ \A d \in sending : /\ Late(S, d).sub = d.sub /\ Late(S, d).notes = d.notes
                               /\ Late(S, d).late <=> d.late \/ d.sub \in S
BY DEF Orphaned, Late, Tasks

LEMMA TaskFacts ==
  ASSUME NEW s \in Subs, NEW N \in SUBSET Notes
  PROVE  /\ Task(s, N) \in Tasks /\ Task(s, N).sub = s /\ Task(s, N).notes = N
         /\ ~Task(s, N).late
BY DEF Task, Tasks

\* The manager's variables after it has handled an event.
LEMMA HandledTypeInv ==
  ASSUME TypeInv, NEW S, Popped(S), UNCHANGED <<environment, routerQ, routerVars>>,
         NEW A \in SUBSET Accounts, NEW B \in SUBSET Accounts, mgr' = After(A, B),
         reg' \in [Subs -> Registrations],
         \A s \in Subs : ~reg'[s].up => reg'[s] = NoReg,
         ids' \in [Accounts -> SUBSET Subs],
         retry' \in SUBSET Subs, sending' \in SUBSET Tasks
  PROVE  TypeInv'
<1>1. /\ pushQ' \in Seq(PushEvents) /\ Len(pushQ') <= PushCap
      /\ \A i \in 1..Len(pushQ') : Reports(i)' => pushQ'[i].sub \in Subs
  <2>1. Len(pushQ') <= PushCap
    BY PushAssumption DEF Popped, TypeInv
  <2>2. \A i \in 1..Len(pushQ') : Reports(i)' => pushQ'[i].sub \in Subs
    BY DEF Popped, TypeInv, Reports
  <2>3. QED
    BY <2>1, <2>2 DEF Popped
<1>2. /\ mgr' \in [pc : {"boot", "reply", "retry", "wait"}, act : SUBSET Accounts,
                   exp : SUBSET Accounts, due : BOOLEAN, timer : BOOLEAN]
      /\ mgr'.pc # "boot"
  <2>1. A \cup B = {} \/ A \cup B # {}
    OBVIOUS
  <2>2. QED
    BY <2>1, AfterFacts
<1>3. QED
  BY <1>1, <1>2 DEF TypeInv, environment, routerVars

LEMMA UpdateTypeInv == ASSUME TypeInv, Update PROVE TypeInv'
<1> DEFINE old == ids[Owner]
           removed == old \ Current
           active == Activated(old)
           joined == [a \in Accounts |-> IF a = Owner THEN Current
                                         ELSE IF a \in members THEN ids[a] \cup Current
                                         ELSE ids[a]]
           left == [a \in Accounts |->
                      joined[a] \ {s \in removed : reg[s].up /\ a \in reg[s].mem}]
           inactive == {a \in Accounts : joined[a] # {} /\ left[a] = {}}
<1>1. /\ Receives({"update"}) /\ ids' = left
      /\ reg' = [s \in Subs |->
              IF s \in removed THEN NoReg
              ELSE IF s \notin Current THEN reg[s]
              ELSE IF reg[s].up THEN Reloaded(reg[s])
              ELSE NewReg]
      /\ mgr' = After(active, inactive)
      /\ sending' = Orphaned(removed)
      /\ pushQ' = QueueOrphaned(Tail(pushQ), removed)
      /\ UNCHANGED <<environment, routerQ, routerVars, retry>>
  BY DEF Update, Reloaded
<1>2. Popped(removed)
  BY <1>1, OrphanPops DEF Receives, TypeInv
<1>3. active \in SUBSET Accounts /\ inactive \in SUBSET Accounts
  BY DEF TypeInv, Activated
<1>4. ids' \in [Accounts -> SUBSET Subs]
  <2>1. Current \subseteq Subs
    BY DEF Current, Live
  <2>2. joined \in [Accounts -> SUBSET Subs]
    BY <2>1 DEF TypeInv
  <2>3. QED
    BY <1>1, <2>2
<1>5. sending' \in SUBSET Tasks
  BY <1>1, OrphanedTasks DEF TypeInv
<1>6. \A s \in Subs : reg'[s] \in Registrations /\ (~reg'[s].up => reg'[s] = NoReg)
  <2> HIDE DEF removed
  <2>1. \A s \in Subs : reg[s] \in Registrations /\ (~reg[s].up => reg[s] = NoReg)
    BY DEF TypeInv
  <2>2. \A s \in Subs : Reloaded(reg[s]) \in Registrations /\ (Reloaded(reg[s]).up <=> reg[s].up)
    BY <2>1, ReloadedFacts DEF TypeInv
  <2>3. NoReg \in Registrations /\ NewReg \in Registrations /\ NewReg.up
    BY RegFacts DEF TypeInv
  <2>4. QED
    BY <1>1, <2>1, <2>2, <2>3
<1>7. reg' \in [Subs -> Registrations]
  BY <1>1, <1>6
<1> HIDE DEF old, removed, active, joined, left, inactive
<1>8. retry' \in SUBSET Subs
  BY <1>1 DEF TypeInv
<1>9. QED
  BY <1>1, <1>2, <1>3, <1>4, <1>5, <1>6, <1>7, <1>8, HandledTypeInv

LEMMA PushTypeInv == ASSUME TypeInv, Push PROVE TypeInv'
<1> DEFINE e == Head(pushQ)
           a == e.account
           gone == {s \in ids[a] : ~reg[s].up}
           ended == {s \in ids[a] : reg[s].up /\ reg[s].exp}
           live == ids[a] \ (gone \cup ended)
           now == {s \in live : ~reg[s].busy /\ Elapsed(reg[s]) /\ reg[s].attempts < PushAttemptsMax}
           queued == [s \in live |-> [reg[s] EXCEPT !.notes = @ \cup e.notes]]
<1>1. /\ Receives({"push"})
      /\ reg' = [s \in Subs |-> IF s \in now THEN Sent(queued[s])
                                ELSE IF s \in live THEN queued[s]
                                ELSE IF s \in ended THEN NoReg ELSE reg[s]]
      /\ retry' = (retry \ now) \cup (live \ now)
      /\ ids' = [ids EXCEPT ![a] = @ \ gone]
      /\ mgr' = After({}, IF gone # {} /\ ids[a] = gone THEN {a} ELSE {})
      /\ sending' = Orphaned(ended) \cup {Task(s, queued[s].notes) : s \in now}
      /\ pushQ' = QueueOrphaned(Tail(pushQ), ended)
      /\ UNCHANGED <<environment, routerQ, routerVars>>
  BY DEF Push
<1>2. Popped(ended)
  BY <1>1, OrphanPops DEF Receives, TypeInv
<1>3. e \in PushEvents /\ a \in Accounts /\ e.notes \in SUBSET Notes
  BY <1>2 DEF Popped, PushEvents, Events
<1>4. ids[a] \in SUBSET Subs
  BY <1>3 DEF TypeInv
<1>5. live \in SUBSET Subs /\ now \in SUBSET live
  BY <1>4
<1>6. \A s \in live : queued[s] \in Registrations /\ queued[s].up
  <2>1. \A s \in live : reg[s] \in Registrations /\ reg[s].up
    BY <1>4 DEF TypeInv
  <2>2. \A s \in live : queued[s] = Queued(reg[s], e.notes)
    BY DEF Queued
  <2> HIDE DEF live, queued
  <2>3. QED
    BY <1>3, <2>1, <2>2, QueuedFacts
<1> HIDE DEF queued, live, now, ended, gone, e, a
<1>7. \A s \in Subs : reg'[s] \in Registrations /\ (~reg'[s].up => reg'[s] = NoReg)
  BY <1>1, <1>5, <1>6, RegFacts, SentFacts DEF TypeInv
<1>8. reg' \in [Subs -> Registrations]
  BY <1>1, <1>7
<1>9. sending' \in SUBSET Tasks
  <2>1. Orphaned(ended) \in SUBSET Tasks
    BY OrphanedTasks DEF TypeInv
  <2>2. \A s \in now : queued[s].notes \in SUBSET Notes
    BY <1>5, <1>6 DEF Registrations
  <2>3. \A s \in now : Task(s, queued[s].notes) \in Tasks
    BY <1>5, <2>2, TaskFacts
  <2>4. QED
    BY <1>1, <2>1, <2>3
<1>10. retry' \in SUBSET Subs /\ ids' \in [Accounts -> SUBSET Subs]
  BY <1>1, <1>3, <1>4, <1>5 DEF TypeInv
<1>11. {} \in SUBSET Accounts
       /\ (IF gone # {} /\ ids[a] = gone THEN {a} ELSE {}) \in SUBSET Accounts
  BY <1>3
<1>12. QED
  BY <1>1, <1>2, <1>7, <1>8, <1>9, <1>10, <1>11, HandledTypeInv

LEMMA ResetTypeInv == ASSUME TypeInv, Reset PROVE TypeInv'
<1>1. Popped(Subs) /\ mgr' = After({}, {}) /\ UNCHANGED <<environment, routerQ, routerVars, retry>>
  BY OrphanPops DEF Reset, Receives, TypeInv
<1>2. sending' \in SUBSET Tasks
  BY OrphanedTasks DEF Reset, TypeInv
<1>3. reg' \in [Subs -> Registrations] /\ \A s \in Subs : reg'[s] = NoReg
  BY RegFacts DEF Reset, TypeInv
<1>4. ids' \in [Accounts -> SUBSET Subs] /\ retry' \in SUBSET Subs
  BY DEF Reset, TypeInv
<1>5. QED
  BY <1>1, <1>2, <1>3, <1>4, HandledTypeInv

LEMMA ReportedTypeInv == ASSUME TypeInv, DeliverySuccess \/ DeliveryFailure PROVE TypeInv'
<1> DEFINE e == Head(pushQ)
           s == e.sub
<1>1. /\ pushQ # <<>> /\ pushQ' = Tail(pushQ) /\ mgr' = After({}, {})
      /\ e.type \in {"success", "failure"}
      /\ UNCHANGED <<environment, routerQ, routerVars, ids, sending>>
  BY DEF DeliverySuccess, DeliveryFailure, Receives
<1>2. Popped({})
  BY <1>1, TailPops DEF TypeInv
<1>3. s \in Subs /\ e.notes \in SUBSET Notes
  BY <1>1, <1>2 DEF Popped, TypeInv, Reports, PushEvents, Events
<1>4. /\ retry' \in SUBSET Subs
      /\ \/ reg' = reg
         \/ reg[s].up /\ reg' = [reg EXCEPT ![s] = Succeeded(reg[s])]
         \/ reg[s].up /\ reg' = [reg EXCEPT ![s] = Failed(reg[s], e.notes)]
  BY <1>3 DEF DeliverySuccess, DeliveryFailure, TypeInv, Succeeded
<1>5. reg[s] \in Registrations
  BY <1>3 DEF TypeInv
<1> HIDE DEF s, e
<1>6. reg' \in [Subs -> Registrations] /\ \A t \in Subs : ~reg'[t].up => reg'[t] = NoReg
  <2>1. /\ Succeeded(reg[s]) \in Registrations /\ (Succeeded(reg[s]).up <=> reg[s].up)
        /\ Failed(reg[s], e.notes) \in Registrations /\ (Failed(reg[s], e.notes).up <=> reg[s].up)
    BY <1>3, <1>5, SucceededFacts, FailedFacts
  <2>2. QED
    BY <1>3, <1>4, <2>1 DEF TypeInv
<1>7. ids' \in [Accounts -> SUBSET Subs] /\ sending' \in SUBSET Tasks
  BY <1>1 DEF TypeInv
<1>8. QED
  BY <1>1, <1>2, <1>4, <1>6, <1>7, HandledTypeInv

LEMMA RetryTypeInv == ASSUME TypeInv, RetryPass PROVE TypeInv'
<1> DEFINE gone == {s \in retry : ~reg[s].up}
           ready == {s \in retry : reg[s].up /\ ~reg[s].busy /\ Elapsed(reg[s])}
           send == {s \in ready : ~TooManyAttempts(reg[s])}
           dropped == ready \ send
<1>1. UNCHANGED <<environment, routerQ, pushQ, routerVars, ids>> /\ mgr.pc = "retry"
  BY DEF RetryPass
<1>2. mgr' \in [pc : {"boot", "reply", "retry", "wait"}, act : SUBSET Accounts,
                exp : SUBSET Accounts, due : BOOLEAN, timer : BOOLEAN] /\ mgr'.pc = "wait"
  <2>1. \E t, u \in BOOLEAN : mgr' = [mgr EXCEPT !.pc = "wait", !.timer = t, !.due = u]
    <3>1. CASE mgr' = [mgr EXCEPT !.pc = "wait", !.timer = retry # {}]
      BY <3>1 DEF TypeInv
    <3>2. QED
      BY <3>1 DEF RetryPass
  <2>2. QED
    BY <2>1 DEF TypeInv
<1>3. CASE UNCHANGED <<reg, retry, sending>>
  BY <1>1, <1>2, <1>3 DEF TypeInv, environment, routerVars, Reports
<1>4. CASE ~UNCHANGED <<reg, retry, sending>>
  <2>1. /\ retry' \subseteq retry
        /\ reg' = [s \in Subs |-> IF s \in send THEN Sent(reg[s])
                               ELSE IF s \in dropped THEN Dropped(reg[s])
                               ELSE reg[s]]
        /\ sending' = sending \cup {Task(s, reg[s].notes) : s \in send}
    BY <1>4 DEF RetryPass, Remaining, Dropped
  <2>2. \A s \in send \cup dropped : s \in Subs /\ reg[s].up
    BY DEF TypeInv
  <2> HIDE DEF send, dropped
  <2>3. \A s \in Subs : reg'[s] \in Registrations /\ (~reg'[s].up => reg'[s] = NoReg)
    BY <2>1, <2>2, SentFacts, DroppedFacts DEF TypeInv
  <2>4. reg' \in [Subs -> Registrations]
    BY <2>1, <2>3
  <2>5. \A s \in send : Task(s, reg[s].notes) \in Tasks
    <3>1. \A s \in send : s \in Subs /\ reg[s].notes \in SUBSET Notes
      BY <2>2 DEF TypeInv, Registrations
    <3>2. QED
      BY <3>1, TaskFacts
  <2>6. sending' \in SUBSET Tasks /\ retry' \in SUBSET Subs
    BY <2>1, <2>5 DEF TypeInv
  <2>7. QED
    BY <1>1, <1>2, <2>3, <2>4, <2>6 DEF TypeInv, environment, routerVars, Reports
<1>5. QED
  BY <1>3, <1>4

LEMMA ManagerTypeInv == ASSUME TypeInv, Boot \/ Reply \/ UpdateSkipped PROVE TypeInv'
<1>1. CASE Boot
  <2>1. PICK S \in {Current, {}} :
          /\ reg' = [s \in Subs |-> IF s \in S THEN NewReg ELSE NoReg]
          /\ ids' = [a \in Accounts |-> IF a \in members THEN S ELSE {}]
          /\ mgr' = After(IF S # {} THEN members ELSE {}, {})
    BY <1>1 DEF Boot
  <2>2. S \in SUBSET Subs
    BY DEF Current, Live
  <2>3. ids' \in [Accounts -> SUBSET Subs]
    BY <2>1, <2>2
  <2>4. reg' \in [Subs -> Registrations] /\ \A s \in Subs : ~reg'[s].up => reg'[s] = NoReg
    BY <2>1, RegFacts DEF TypeInv
  <2>5. /\ mgr' \in [pc : {"boot", "reply", "retry", "wait"}, act : SUBSET Accounts,
                     exp : SUBSET Accounts, due : BOOLEAN, timer : BOOLEAN]
        /\ mgr'.pc # "boot"
    <3> DEFINE A == IF S # {} THEN members ELSE {}
    <3>1. A \in SUBSET Accounts /\ {} \in SUBSET Accounts
      BY DEF TypeInv
    <3>2. mgr' = After(A, {}) /\ (A \cup {} = {} \/ A \cup {} # {})
      BY <2>1
    <3> HIDE DEF A
    <3>3. QED
      BY <3>1, <3>2, AfterFacts
  <2>6. UNCHANGED <<environment, routerQ, pushQ, routerVars, retry, sending>>
    BY <1>1 DEF Boot
  <2>7. QED
    BY <2>3, <2>4, <2>5, <2>6 DEF TypeInv, environment, routerVars, Reports
<1>2. CASE Reply
  <2>1. CASE RouterAccepts /\ routerQ' = Append(routerQ, [Event("register") EXCEPT
                                                !.act = mgr.act, !.exp = mgr.exp])
    <3>1. [Event("register") EXCEPT !.act = mgr.act, !.exp = mgr.exp] \in RouterEvents
      BY EventFacts DEF TypeInv
    <3>2. QED
      BY <1>2, <2>1, <3>1, SendTypeInv DEF Reply, RouterAccepts, TypeInv, environment, routerVars
  <2>2. CASE UNCHANGED routerQ
    BY <1>2, <2>2 DEF Reply, TypeInv, environment, routerVars, Reports
  <2>3. QED
    BY <1>2, <2>1, <2>2 DEF Reply
<1>3. CASE UpdateSkipped
  <2>1. Popped({})
    BY <1>3, TailPops DEF UpdateSkipped, Receives, TypeInv
  <2>2. Len(pushQ') <= PushCap
    BY <2>1, PushAssumption DEF Popped, TypeInv
  <2>3. \A i \in 1..Len(pushQ') : Reports(i)' => pushQ'[i].sub \in Subs
    BY <2>1 DEF Popped, TypeInv, Reports
  <2>4. mgr.pc = "wait"
    BY <1>3 DEF UpdateSkipped, Receives
  <2>5. QED
    BY <1>3, <2>1, <2>2, <2>3, <2>4 DEF UpdateSkipped, Popped, TypeInv, environment, routerVars, managerVars
<1>4. QED
  BY <1>1, <1>2, <1>3

\* The event that a request sends to the manager.
ReportOf(d, failed) ==
    [Event(IF failed = {} THEN "success" ELSE "failure") EXCEPT
       !.sub = d.sub, !.notes = failed, !.late = d.late]
LEMMA ReportFacts ==
  ASSUME TypeInv, NEW d \in sending, NEW failed \in SUBSET d.notes, Report(d, failed)
  PROVE  /\ Pushed(ReportOf(d, failed)) /\ Len(pushQ') <= PushCap
         /\ d \in Tasks /\ failed \in SUBSET Notes
         /\ LET e == ReportOf(d, failed)
            IN  /\ e.sub = d.sub /\ e.notes = failed /\ (e.late <=> d.late)
                /\ e.type \in {"success", "failure"} /\ (failed # {} => e.type = "failure")
<1>1. d \in Tasks
  BY DEF TypeInv
<1>2. failed \in SUBSET Notes
  BY <1>1 DEF Tasks
<1>3. /\ ReportOf(d, failed) \in PushEvents
      /\ LET e == ReportOf(d, failed)
         IN  /\ e.sub = d.sub /\ e.notes = failed /\ (e.late <=> d.late)
             /\ e.type \in {"success", "failure"} /\ (failed # {} => e.type = "failure")
  BY <1>1, <1>2, PushAssumption DEF ReportOf, Event, Tasks, PushEvents, Events
<1>4. pushQ' = Append(pushQ, ReportOf(d, failed)) /\ Len(pushQ) < PushCap
  BY DEF Report, ReportOf
<1>5. Pushed(ReportOf(d, failed))
  BY <1>3, <1>4, AppendPushes DEF TypeInv
<1>6. Len(pushQ') <= PushCap
  BY <1>4, <1>5, PushAssumption DEF Pushed
<1>7. QED
  BY <1>1, <1>2, <1>3, <1>5, <1>6

LEMMA ReportTypeInv ==
  ASSUME TypeInv, NEW d \in sending, NEW failed \in SUBSET d.notes, Report(d, failed)
  PROVE  TypeInv'
<1> DEFINE e == ReportOf(d, failed)
<1>1. /\ Pushed(e) /\ Len(pushQ') <= PushCap /\ d \in Tasks /\ e.sub = d.sub
  BY ReportFacts
<1>2. sending' = sending \ {d}
      /\ UNCHANGED <<environment, routerQ, routerVars, managerVars>>
  BY DEF Report
<1> HIDE DEF e
<1>3. \A i \in 1..Len(pushQ') : i \in 1..Len(pushQ) \/ i = Len(pushQ) + 1
  BY <1>1 DEF Pushed
<1>4. \A i \in 1..Len(pushQ') : Reports(i)' => pushQ'[i].sub \in Subs
  BY <1>1, <1>3 DEF Pushed, TypeInv, Reports, Tasks
<1>5. mgr'.pc # "boot"
  BY <1>2 DEF TypeInv, managerVars
<1>6. QED
  BY <1>1, <1>2, <1>4, <1>5 DEF Pushed, TypeInv, environment, routerVars, managerVars

LEMMA NextTypeInv == ASSUME TypeInv, [Next]_vars PROVE TypeInv'
<1>1. CASE UNCHANGED vars
  BY <1>1 DEF TypeInv, vars, environment, routerVars, managerVars, Reports
<1>2. ASSUME NEW d \in sending, Ends(d) PROVE TypeInv'
  BY <1>2, ReportTypeInv DEF Ends
<1>3. QED
  BY <1>1, <1>2, ClientTypeInv, ClockTypeInv, RouterTypeInv, ManagerTypeInv, UpdateTypeInv,
     PushTypeInv, ResetTypeInv, ReportedTypeInv, RetryTypeInv DEF Next, Handle

LEMMA TypeInvHolds == Spec => []TypeInv
BY InitTypeInv, NextTypeInv, PTL DEF Spec

-----------------------------------------------------------------------------
(* Listeners stay.  A subscription in the channel has the owner's account. *)

ListenInv == SubscribesOwner /\ ListenersStay

LEMMA PushedListenInv ==
  ASSUME TypeInv, ListenInv, NEW e, RouterPushed(e), UNCHANGED <<router, ipc>>,
         e.type = "subscribe" => Owner \in e.act,
         \A l \in open' : l \in open \/ (e.type = "subscribe" /\ e.sub = l)
  PROVE  ListenInv'
<1>1. \A i \in 1..Len(routerQ') : i \in 1..Len(routerQ) \/ i = Len(routerQ) + 1
  BY DEF RouterPushed
<1>2. \A i \in 1..Len(routerQ) : i \in 1..Len(routerQ')
  BY DEF RouterPushed
<1>3. Len(routerQ) + 1 \in 1..Len(routerQ')
  BY DEF RouterPushed
<1>4. SubscribesOwner'
  BY <1>1 DEF ListenInv, SubscribesOwner, RouterPushed
<1>5. ASSUME NEW l \in open', router.pc # "stopped", <<l, Owner>> \notin ipc
      PROVE  \E i \in 1..Len(routerQ') : routerQ'[i].type = "subscribe" /\ routerQ'[i].sub = l
  <2>1. CASE l \in open
    <3>1. PICK i \in 1..Len(routerQ) : routerQ[i].type = "subscribe" /\ routerQ[i].sub = l
      BY <1>5, <2>1 DEF ListenInv, ListenersStay
    <3>2. QED
      BY <1>2, <3>1 DEF RouterPushed
  <2>2. CASE l \notin open
    BY <1>3, <2>2 DEF RouterPushed
  <2>3. QED
    BY <2>1, <2>2
<1>6. QED
  BY <1>4, <1>5 DEF ListenInv, ListenersStay

LEMMA RouterListenInv == ASSUME TypeInv, ListenInv, Router PROVE ListenInv'
<1>1. CASE RouterTakes
  <2>1. RouterPopped
    BY <1>1, TailPopsRouter DEF RouterTakes, TypeInv
  <2>2. SubscribesOwner'
    BY <2>1 DEF RouterPopped, ListenInv, SubscribesOwner
  <2>3. open' = open /\ router.pc = "run"
    BY <1>1 DEF RouterTakes, environment
  <2>4. \A x \in ipc : x[1] \in open => x \in ipc'
    BY <1>1 DEF RouterTakes, ServerRegister, Purged, RouterPurge
  <2>5. routerQ[1].type = "subscribe" =>
            \A l \in open, a \in routerQ[1].act : l = routerQ[1].sub => <<l, a>> \in ipc'
    BY <1>1, <2>1 DEF RouterTakes, RouterPopped, Purged, RouterPurge
  <2>6. 1 \in 1..Len(routerQ)
    BY <2>1 DEF RouterPopped
  <2>7. ASSUME NEW l \in open, <<l, Owner>> \notin ipc'
        PROVE  \E i \in 1..Len(routerQ') : routerQ'[i].type = "subscribe" /\ routerQ'[i].sub = l
    <3>1. PICK i \in 1..Len(routerQ) : routerQ[i].type = "subscribe" /\ routerQ[i].sub = l
      BY <2>3, <2>4, <2>7 DEF ListenInv, ListenersStay
    <3>2. i # 1
      BY <2>5, <2>6, <2>7, <3>1 DEF ListenInv, SubscribesOwner
    <3>3. i - 1 \in 1..Len(routerQ') /\ routerQ'[i - 1] = routerQ[i]
      BY <2>1, <3>1, <3>2 DEF RouterPopped
    <3>4. QED
      BY <3>1, <3>3
  <2>8. QED
    BY <2>2, <2>3, <2>7 DEF ListenInv, ListenersStay
<1>2. CASE RouterForwards
  <2>1. CASE router'.pc = "stopped" /\ routerQ' = <<>>
    BY <2>1, EmptyFacts DEF ListenInv, ListenersStay, SubscribesOwner
  <2>2. CASE UNCHANGED routerQ /\ router.pc = "forward"
    BY <1>2, <2>2 DEF RouterForwards, environment, ListenInv, ListenersStay, SubscribesOwner
  <2>3. QED
    BY <1>2, <2>1, <2>2 DEF RouterForwards
<1>3. QED
  BY <1>1, <1>2 DEF Router

LEMMA FrameListenInv ==
  ASSUME ListenInv, UNCHANGED <<routerQ, router, ipc>>, open' \subseteq open PROVE ListenInv'
BY DEF ListenInv, ListenersStay, SubscribesOwner

LEMMA NextListenInv == ASSUME TypeInv, ListenInv, [Next]_vars PROVE ListenInv'
<1>1. ASSUME NEW n \in Notes, NEW a \in Accounts, Publish(n, a) PROVE ListenInv'
  <2> DEFINE e == [Event("publish") EXCEPT !.account = a, !.notes = {n}]
  <2>1. e \in RouterEvents /\ e.type = "publish"
    BY <1>1, EventFacts DEF TypeInv, Event
  <2>2. RouterPushed(e)
    BY <1>1, <2>1, AppendPushesRouter DEF Publish, TypeInv
  <2> HIDE DEF e
  <2>3. QED
    BY <1>1, <2>1, <2>2, PushedListenInv DEF Publish, routerVars
<1>2. ASSUME NEW l \in Listeners, Subscribe(l) PROVE ListenInv'
  <2> DEFINE e == [Event("subscribe") EXCEPT !.act = members, !.sub = l]
  <2>1. e \in RouterEvents /\ e.act = members /\ e.sub = l /\ e.type = "subscribe"
    BY <1>2, EventFacts DEF TypeInv, Event
  <2>2. RouterPushed(e)
    BY <1>2, <2>1, AppendPushesRouter DEF Subscribe, TypeInv
  <2> HIDE DEF e
  <2>3. open' = open \cup {l} /\ UNCHANGED <<router, ipc>> /\ Owner \in members
    BY <1>2 DEF Subscribe, routerVars, TypeInv
  <2>4. QED
    BY <2>1, <2>2, <2>3, PushedListenInv
<1>3. ASSUME NEW t \in {"update", "stop"}, routerQ' = Append(routerQ, Event(t)),
             UNCHANGED <<open, router, ipc>>
      PROVE  ListenInv'
  <2>1. Event(t) \in RouterEvents /\ Event(t).type = t
    BY EventFacts
  <2>2. RouterPushed(Event(t))
    BY <1>3, <2>1, AppendPushesRouter DEF TypeInv
  <2>3. QED
    BY <1>3, <2>1, <2>2, PushedListenInv
<1>4. ASSUME NEW new, Stores(new) PROVE ListenInv'
  BY <1>3, <1>4 DEF Stores, routerVars
<1>5. CASE Shutdown
  BY <1>3, <1>5 DEF Shutdown, routerVars, environment
<1>6. CASE Reply
  <2> DEFINE e == [Event("register") EXCEPT !.act = mgr.act, !.exp = mgr.exp]
  <2>1. e \in RouterEvents /\ e.type = "register"
    BY EventFacts DEF TypeInv, Event
  <2>2. CASE routerQ' = Append(routerQ, e)
    <3>1. RouterPushed(e)
      BY <2>1, <2>2, AppendPushesRouter DEF TypeInv
    <3> HIDE DEF e
    <3>2. QED
      BY <1>6, <2>1, <3>1, PushedListenInv DEF Reply, environment, routerVars
  <2>3. CASE UNCHANGED routerQ
    BY <1>6, <2>3, FrameListenInv DEF Reply, environment, routerVars
  <2>4. QED
    BY <1>6, <2>2, <2>3 DEF Reply
<1>7. CASE Boot \/ Handle \/ TimerFires \/ RetryPass \/ RetryInterval
  BY <1>7, FrameListenInv DEF Boot, Handle, Update, UpdateSkipped, Push, Reset, DeliverySuccess,
     DeliveryFailure, TimerFires, RetryPass, RetryInterval, environment, routerVars
<1>8. ASSUME NEW s \in Subs, Expire(s) \/ Ages(s) PROVE ListenInv'
  BY <1>8, FrameListenInv DEF Expire, Ages, environment, routerVars
<1>9. ASSUME NEW d \in sending, Ends(d) PROVE ListenInv'
  BY <1>9, FrameListenInv DEF Ends, Report, environment, routerVars
<1>10. ASSUME NEW l \in Listeners, Close(l) PROVE ListenInv'
  BY <1>10, FrameListenInv DEF Close, routerVars
<1>11. CASE ChangeGroups \/ UNCHANGED vars
  BY <1>11, FrameListenInv DEF ChangeGroups, vars, environment, routerVars
<1>12. QED
  BY <1>1, <1>2, <1>4, <1>5, <1>6, <1>7, <1>8, <1>9, <1>10, <1>11, RouterListenInv
     DEF Next, Create, Verify, Destroy, Purge

\* A listener that is open hears of its account until it closes or the router
\* stops: no registration, purge or other listener takes it out.
THEOREM ListenersAreKept == Spec => []ListenersStay
<1>1. Init => ListenInv
  BY EmptyFacts DEF Init, ListenInv, ListenersStay, SubscribesOwner
<1>2. ListenInv => ListenersStay
  BY DEF ListenInv
<1>3. QED
  BY <1>1, <1>2, NextListenInv, TypeInvHolds, PTL DEF Spec

-----------------------------------------------------------------------------
(* The router knows.  RouterKnows is not inductive: an account it knows may *)
(* be taken back by an answer that is still in the channel.  What holds is  *)
(* that the last word on the way is the manager's present state.            *)

KnowInv == AnswerIsTrue /\ RouterWillKnow

LEMMA PushedLastWord ==
  ASSUME NEW e, RouterPushed(e), isPush' = isPush, NEW a, LastWord(a),
         a \in mgr.act => \/ a \in mgr'.act
                          \/ e.type = "register" /\ a \in e.act,
         e.type = "register" => a \notin e.exp
  PROVE  LastWord(a)'
<1>1. \A i \in 1..Len(routerQ') : i \in 1..Len(routerQ) \/ i = Len(routerQ) + 1
  BY DEF RouterPushed
<1>2. \A i \in 1..Len(routerQ) : i \in 1..Len(routerQ')
  BY DEF RouterPushed
<1>3. Len(routerQ) + 1 \in 1..Len(routerQ')
  BY DEF RouterPushed
<1>4. \A i \in Nat : NotTakenBack(a, i) => NotTakenBack(a, i)'
  BY <1>1 DEF NotTakenBack, RouterPushed
<1>5. CASE a \in mgr.act
  <2>1. CASE e.type = "register" /\ a \in e.act
    <3> DEFINE k == Len(routerQ) + 1
    <3>1. \A j \in 1..Len(routerQ') : ~(j > k)
      BY DEF RouterPushed
    <3>2. k \in 1..Len(routerQ') /\ routerQ'[k] = e
      BY <1>3 DEF RouterPushed
    <3> HIDE DEF k
    <3>3. QED
      BY <2>1, <3>1, <3>2 DEF LastWord, NotTakenBack
  <2>2. QED
    BY <1>5, <2>1 DEF LastWord
<1>6. CASE a \in isPush /\ NotTakenBack(a, 0)
  <2>1. NotTakenBack(a, 0)'
    BY <1>4, <1>6
  <2>2. QED
    BY <1>6, <2>1 DEF LastWord
<1>7. ASSUME NEW i \in 1..Len(routerQ), routerQ[i].type = "register", a \in routerQ[i].act,
             a \notin routerQ[i].exp, NotTakenBack(a, i)
      PROVE  LastWord(a)'
  <2>1. NotTakenBack(a, i)' /\ i \in 1..Len(routerQ') /\ routerQ'[i] = routerQ[i]
    BY <1>2, <1>4, <1>7 DEF RouterPushed
  <2>2. QED
    BY <1>7, <2>1 DEF LastWord
<1>8. QED
  BY <1>5, <1>6, <1>7 DEF LastWord

LEMMA PoppedLastWord ==
  ASSUME RouterPopped, mgr' = mgr, NEW a, LastWord(a),
         isPush' = IF routerQ[1].type = "register"
                     THEN (isPush \cup routerQ[1].act) \ routerQ[1].exp ELSE isPush
  PROVE  LastWord(a)'
<1>1. 1 \in 1..Len(routerQ)
  BY DEF RouterPopped
<1>2. \A i \in 1..Len(routerQ) : NotTakenBack(a, i) =>
         \A j \in 1..Len(routerQ') : j > i - 1 /\ routerQ'[j].type = "register" =>
            a \notin routerQ'[j].exp
  BY DEF NotTakenBack, RouterPopped
<1>3. NotTakenBack(a, 0) => NotTakenBack(a, 0)' /\ (routerQ[1].type = "register" => a \notin routerQ[1].exp)
  BY <1>1 DEF NotTakenBack, RouterPopped
<1>4. CASE a \in isPush /\ NotTakenBack(a, 0)
  BY <1>3, <1>4 DEF LastWord
<1>5. ASSUME NEW i \in 1..Len(routerQ), routerQ[i].type = "register", a \in routerQ[i].act,
             a \notin routerQ[i].exp, NotTakenBack(a, i)
      PROVE  LastWord(a)'
  <2>1. CASE i = 1
    <3>1. NotTakenBack(a, 0)'
      BY <1>2, <1>5, <2>1 DEF NotTakenBack
    <3>2. QED
      BY <1>5, <2>1, <3>1 DEF LastWord
  <2>2. CASE i # 1
    <3>1. PICK k \in 1..Len(routerQ') : k = i - 1 /\ routerQ'[k] = routerQ[i]
      BY <2>2 DEF RouterPopped
    <3>2. NotTakenBack(a, k)'
      BY <1>2, <1>5, <3>1 DEF NotTakenBack
    <3>3. QED
      BY <1>5, <3>1, <3>2 DEF LastWord
  <2>3. QED
    BY <2>1, <2>2
<1>6. QED
  BY <1>4, <1>5 DEF LastWord

LEMMA FrameLastWord ==
  ASSUME UNCHANGED <<routerQ, isPush>>, NEW a, LastWord(a), a \in mgr.act => a \in mgr'.act
  PROVE  LastWord(a)'
BY DEF LastWord, NotTakenBack

\* Steps that only send something else to the router.
LEMMA SendKnowInv ==
  ASSUME KnowInv, NEW e, RouterPushed(e), e.type # "register",
         UNCHANGED <<router, isPush, ids, mgr, unannounced>>
  PROVE  KnowInv'
<1>1. \A a : LastWord(a) => LastWord(a)'
  BY PushedLastWord
<1>2. QED
  BY <1>1 DEF KnowInv, AnswerIsTrue, RouterWillKnow

LEMMA FrameKnowInv ==
  ASSUME KnowInv, UNCHANGED <<router, routerQ, isPush, ids, unannounced>>,
         mgr'.pc # "reply", mgr'.act = mgr.act, mgr'.exp = mgr.exp, mgr.pc # "reply"
  PROVE  KnowInv'
<1>1. \A a : LastWord(a) => LastWord(a)'
  BY FrameLastWord
<1>2. QED
  BY <1>1 DEF KnowInv, AnswerIsTrue, RouterWillKnow

LEMMA SameKnowInv ==
  ASSUME KnowInv, UNCHANGED <<router, routerQ, isPush, ids, unannounced>>,
         mgr'.pc = mgr.pc, mgr'.act = mgr.act, mgr'.exp = mgr.exp
  PROVE  KnowInv'
<1>1. \A a : LastWord(a) => LastWord(a)'
  BY FrameLastWord
<1>2. QED
  BY <1>1 DEF KnowInv, AnswerIsTrue, RouterWillKnow

\* The manager has handled something and changed its accounts.
LEMMA HandledKnowInv ==
  ASSUME TypeInv, KnowInv, mgr.pc # "reply", UNCHANGED <<router, routerQ, isPush>>,
         NEW A \in SUBSET Accounts, NEW B \in SUBSET Accounts, mgr' = After(A, B),
         \A a \in B : ids'[a] = {},
         \A a \in Accounts \ unannounced' :
            ids'[a] # {} => a \in A \/ (a \notin unannounced /\ ids[a] # {})
  PROVE  KnowInv'
<1>1. mgr.act = {} /\ mgr.exp = {}
  BY DEF KnowInv, AnswerIsTrue
<1>2. mgr'.act = A /\ mgr'.exp = B /\ (mgr'.pc # "reply" => A = {} /\ B = {})
  <2>1. CASE A \cup B = {}
    <3>1. A = {} /\ B = {}
      BY <2>1
    <3>2. After(A, B).act = mgr.act /\ After(A, B).exp = mgr.exp
      BY <2>1 DEF After, TypeInv
    <3>3. QED
      BY <1>1, <3>1, <3>2
  <2>2. CASE A \cup B # {}
    <3>1. After(A, B).pc = "reply" /\ After(A, B).act = A /\ After(A, B).exp = B
      BY <2>2, AfterFacts
    <3>2. QED
      BY <3>1
  <2>3. QED
    BY <2>1, <2>2
<1>3. AnswerIsTrue'
  BY <1>2 DEF AnswerIsTrue
<1>4. \A a : LastWord(a) => LastWord(a)'
  BY <1>1, FrameLastWord
<1>5. \A a \in A : LastWord(a)'
  BY <1>2 DEF LastWord
<1>6. RouterWillKnow'
  BY <1>4, <1>5 DEF KnowInv, RouterWillKnow
<1>7. QED
  BY <1>3, <1>6 DEF KnowInv

LEMMA UpdateKnowInv == ASSUME TypeInv, KnowInv, Update PROVE KnowInv'
<1> DEFINE old == ids[Owner]
           removed == old \ Current
           active == Activated(old)
           joined == [a \in Accounts |-> IF a = Owner THEN Current
                                         ELSE IF a \in members THEN ids[a] \cup Current
                                         ELSE ids[a]]
           left == [a \in Accounts |->
                      joined[a] \ {s \in removed : reg[s].up /\ a \in reg[s].mem}]
           inactive == {a \in Accounts : joined[a] # {} /\ left[a] = {}}
<1>1. /\ mgr.pc = "wait" /\ UNCHANGED <<router, routerQ, isPush>> /\ ids' = left
      /\ mgr' = After(active, inactive)
      /\ unannounced' = (unannounced \ (active \cup inactive)) \cup
              {a \in members : old = Current /\ ids[a] = {} /\ left[a] # {}}
  BY DEF Update, Receives, routerVars
<1>2. active \in SUBSET Accounts /\ inactive \in SUBSET Accounts
  BY DEF TypeInv, Activated
<1>3. \A a \in inactive : ids'[a] = {}
  BY <1>1
<1>4. ASSUME NEW a \in Accounts \ unannounced', ids'[a] # {}, a \notin active
      PROVE  a \notin unannounced /\ ids[a] # {}
  <2>1. left[a] # {} /\ a \notin inactive
    BY <1>1, <1>4
  <2>2. a \notin unannounced
    BY <1>1, <1>4, <2>1
  <2>3. CASE a \in members
    <3>1. CASE old = Current
      BY <1>1, <1>4, <2>1, <2>3, <3>1
    <3>2. CASE old # Current
      <4>1. Current = {}
        BY <1>4, <2>3, <3>2 DEF Activated
      <4>2. QED
        BY <2>1, <2>2, <4>1
    <3>3. QED
      BY <3>1, <3>2
  <2>4. CASE a \notin members
    BY <2>1, <2>2, <2>4 DEF TypeInv
  <2>5. QED
    BY <2>2, <2>3, <2>4
<1> HIDE DEF old, removed, active, joined, left, inactive
<1>5. QED
  BY <1>1, <1>2, <1>3, <1>4, HandledKnowInv

LEMMA PushKnowInv == ASSUME TypeInv, KnowInv, Push PROVE KnowInv'
<1> DEFINE a == Head(pushQ).account
           gone == {s \in ids[a] : ~reg[s].up}
           B == IF gone # {} /\ ids[a] = gone THEN {a} ELSE {}
<1>1. /\ mgr.pc = "wait" /\ UNCHANGED <<router, routerQ, isPush>>
      /\ ids' = [ids EXCEPT ![a] = @ \ gone]
      /\ mgr' = After({}, B)
      /\ unannounced' = IF ids[a] = gone THEN unannounced \ {a} ELSE unannounced
      /\ pushQ # <<>> /\ pushQ' = QueueOrphaned(Tail(pushQ), {s \in ids[a] : reg[s].up /\ reg[s].exp})
  BY DEF Push, Receives, routerVars
<1>2. a \in Accounts
  <2>1. \E S : Popped(S)
    BY <1>1, OrphanPops DEF TypeInv
  <2>2. QED
    BY <2>1 DEF Popped, PushEvents, Events
<1>3. /\ \A b \in B : ids'[b] = {}
      /\ \A b \in Accounts \ unannounced' : ids'[b] # {} => b \notin unannounced /\ ids[b] # {}
  BY <1>1, <1>2 DEF TypeInv
<1>4. B \in SUBSET Accounts /\ {} \in SUBSET Accounts
  BY <1>2
<1> HIDE DEF B
<1>5. QED
  BY <1>1, <1>3, <1>4, HandledKnowInv

LEMMA NextKnowInv == ASSUME TypeInv, KnowInv, [Next]_vars PROVE KnowInv'
<1>1. ASSUME NEW n \in Notes, NEW a \in Accounts, Publish(n, a) PROVE KnowInv'
  <2> DEFINE e == [Event("publish") EXCEPT !.account = a, !.notes = {n}]
  <2>1. e \in RouterEvents /\ e.type = "publish"
    BY <1>1, EventFacts DEF TypeInv, Event
  <2>2. RouterPushed(e)
    BY <1>1, <2>1, AppendPushesRouter DEF Publish, TypeInv
  <2> HIDE DEF e
  <2>3. QED
    BY <1>1, <2>1, <2>2, SendKnowInv DEF Publish, routerVars, managerVars, history
<1>2. ASSUME NEW l \in Listeners, Subscribe(l) PROVE KnowInv'
  <2> DEFINE e == [Event("subscribe") EXCEPT !.act = members, !.sub = l]
  <2>1. e \in RouterEvents /\ e.type = "subscribe"
    BY <1>2, EventFacts DEF TypeInv, Event
  <2>2. RouterPushed(e)
    BY <1>2, <2>1, AppendPushesRouter DEF Subscribe, TypeInv
  <2> HIDE DEF e
  <2>3. QED
    BY <1>2, <2>1, <2>2, SendKnowInv DEF Subscribe, routerVars, managerVars, history
<1>3. ASSUME NEW t \in {"update", "stop"}, routerQ' = Append(routerQ, Event(t)),
             UNCHANGED <<router, isPush, ids, mgr, unannounced>>
      PROVE  KnowInv'
  <2>1. Event(t) \in RouterEvents /\ Event(t).type = t
    BY EventFacts
  <2>2. RouterPushed(Event(t))
    BY <1>3, <2>1, AppendPushesRouter DEF TypeInv
  <2>3. QED
    BY <1>3, <2>1, <2>2, SendKnowInv
<1>4. ASSUME NEW new, Stores(new) PROVE KnowInv'
  BY <1>3, <1>4 DEF Stores, routerVars, managerVars, history
<1>5. CASE Shutdown
  BY <1>3, <1>5 DEF Shutdown, routerVars, managerVars, history
<1>6. CASE Reply
  <2> DEFINE e == [Event("register") EXCEPT !.act = mgr.act, !.exp = mgr.exp]
  <2>1. e \in RouterEvents /\ e.type = "register" /\ e.act = mgr.act /\ e.exp = mgr.exp
    BY EventFacts DEF TypeInv, Event
  <2>2. /\ mgr'.pc = "retry" /\ mgr'.act = {} /\ mgr'.exp = {}
        /\ UNCHANGED <<router, isPush, ids, unannounced>>
    BY <1>6 DEF Reply, TypeInv, routerVars, history
  <2>3. CASE routerQ' = Append(routerQ, e)
    <3>1. RouterPushed(e)
      BY <2>1, <2>3, AppendPushesRouter DEF TypeInv
    <3> HIDE DEF e
    <3>2. ASSUME NEW a \in Accounts, ids[a] # {}, LastWord(a) PROVE LastWord(a)'
      <4>1. a \notin e.exp
        BY <2>1, <3>2 DEF KnowInv, AnswerIsTrue
      <4>2. QED
        BY <2>1, <2>2, <3>1, <3>2, <4>1, PushedLastWord
    <3>3. QED
      BY <2>2, <3>2 DEF KnowInv, AnswerIsTrue, RouterWillKnow
  <2>4. CASE router.pc = "stopped"
    BY <2>2, <2>4 DEF KnowInv, AnswerIsTrue, RouterWillKnow
  <2>5. QED
    BY <1>6, <2>3, <2>4 DEF Reply
<1>7. CASE RouterTakes
  <2>1. RouterPopped
    BY <1>7, TailPopsRouter DEF RouterTakes, TypeInv
  <2>2. isPush' = IF routerQ[1].type = "register"
                    THEN (isPush \cup routerQ[1].act) \ routerQ[1].exp ELSE isPush
    BY <1>7, <2>1 DEF RouterTakes, RouterPopped, ServerRegister
  <2>3. UNCHANGED <<mgr, ids, unannounced>> /\ router.pc = "run"
    BY <1>7 DEF RouterTakes, managerVars, history
  <2>4. \A a : LastWord(a) => LastWord(a)'
    BY <2>1, <2>2, <2>3, PoppedLastWord
  <2>5. QED
    BY <2>3, <2>4 DEF KnowInv, AnswerIsTrue, RouterWillKnow
<1>8. CASE RouterForwards
  <2>1. UNCHANGED <<mgr, ids, isPush, unannounced>> /\ router.pc = "forward"
    BY <1>8 DEF RouterForwards, managerVars, history
  <2>2. CASE router'.pc = "stopped"
    BY <2>1, <2>2 DEF KnowInv, AnswerIsTrue, RouterWillKnow
  <2>3. CASE UNCHANGED routerQ
    <3>1. \A a : LastWord(a) => LastWord(a)'
      BY <2>1, <2>3, FrameLastWord
    <3>2. QED
      BY <2>1, <3>1 DEF KnowInv, AnswerIsTrue, RouterWillKnow
  <2>4. QED
    BY <1>8, <2>2, <2>3 DEF RouterForwards
<1>9. CASE Boot
  <2>1. PICK S \in {Current, {}} :
          /\ ids' = [a \in Accounts |-> IF a \in members THEN S ELSE {}]
          /\ mgr' = After(IF S # {} THEN members ELSE {}, {})
    BY <1>9 DEF Boot
  <2> DEFINE A == IF S # {} THEN members ELSE {}
  <2>2. /\ A \in SUBSET Accounts /\ {} \in SUBSET Accounts /\ mgr' = After(A, {})
        /\ \A a \in Accounts : ids'[a] # {} => a \in A
    BY <2>1 DEF TypeInv
  <2> HIDE DEF A
  <2>3. QED
    BY <1>9, <2>2, HandledKnowInv DEF Boot, routerVars
<1>10. CASE Reset
  <2>1. /\ mgr' = After({}, {}) /\ {} \in SUBSET Accounts /\ mgr.pc = "wait"
        /\ \A a \in Accounts : ids'[a] = {}
        /\ UNCHANGED <<router, routerQ, isPush>>
    BY <1>10 DEF Reset, Receives, routerVars
  <2>2. QED
    BY <2>1, HandledKnowInv
<1>11. CASE DeliverySuccess \/ DeliveryFailure \/ TimerFires
  <2>1. /\ mgr' = After({}, {}) /\ {} \in SUBSET Accounts /\ mgr.pc = "wait"
        /\ UNCHANGED <<router, routerQ, isPush, ids, unannounced>>
    BY <1>11 DEF DeliverySuccess, DeliveryFailure, TimerFires, Receives, routerVars, history
  <2>2. QED
    BY <2>1, HandledKnowInv
<1>12. CASE RetryPass
  <2>1. mgr'.pc = "wait" /\ mgr'.act = mgr.act /\ mgr'.exp = mgr.exp /\ mgr.pc = "retry"
    BY <1>12 DEF RetryPass, TypeInv
  <2>2. QED
    BY <1>12, <2>1, FrameKnowInv DEF RetryPass, routerVars
<1>13. CASE RetryInterval
  <2>1. mgr'.pc = mgr.pc /\ mgr'.act = mgr.act /\ mgr'.exp = mgr.exp
    BY <1>13 DEF RetryInterval, TypeInv
  <2>2. QED
    BY <1>13, <2>1, SameKnowInv DEF RetryInterval, routerVars, history
<1>14. CASE ChangeGroups \/ UpdateSkipped \/ UNCHANGED vars
  BY <1>14, SameKnowInv DEF ChangeGroups, UpdateSkipped, vars, routerVars, managerVars, history
<1>15. ASSUME NEW s \in Subs, Expire(s) \/ Ages(s) PROVE KnowInv'
  BY <1>15, SameKnowInv DEF Expire, Ages, routerVars, history
<1>16. ASSUME NEW d \in sending, Ends(d) PROVE KnowInv'
  BY <1>16, SameKnowInv DEF Ends, Report, routerVars, managerVars
<1>17. ASSUME NEW l \in Listeners, Close(l) PROVE KnowInv'
  BY <1>17, SameKnowInv DEF Close, routerVars, managerVars, history
<1>18. QED
  BY <1>1, <1>2, <1>4, <1>5, <1>6, <1>7, <1>8, <1>9, <1>10, <1>11, <1>12, <1>13, <1>14, <1>15,
     <1>16, <1>17, UpdateKnowInv, PushKnowInv
     DEF Next, Router, Handle, Create, Verify, Destroy, Purge

\* The router forwards the notifications of every account for which the manager
\* has subscriptions, or is about to be told to, although the manager's
\* answers reach it late; but for groups joined after the subscriptions were
\* loaded.
THEOREM RouterIsTold == Spec => []RouterKnows
<1>1. Init => KnowInv
  BY DEF Init, KnowInv, AnswerIsTrue, RouterWillKnow
<1>2. KnowInv => RouterKnows
  BY DEF KnowInv, RouterWillKnow, LastWord, RouterKnows, Registering
<1>3. QED
  BY <1>1, <1>2, NextKnowInv, TypeInvHolds, PTL DEF Spec

-----------------------------------------------------------------------------
(* Requests in flight.                                                     *)

\* The same requests and reports of a registration, before and after.
SameBacking(s) ==
    /\ \A c, d \in sending' : Request(s, c) /\ Request(s, d) => c = d
    /\ (\E d \in sending' : Request(s, d)) <=> (\E d \in sending : Request(s, d))
    /\ \A i, j \in 1..Len(pushQ') : Answer(s, i)' /\ Answer(s, j)' => i = j
    /\ (\E i \in 1..Len(pushQ') : Answer(s, i)') <=> (\E i \in 1..Len(pushQ) : Answer(s, i))

LEMMA SameFlight ==
  ASSUME NEW s \in Subs, AtMostOne(s), Pending(s) <=> reg[s].busy, SameBacking(s),
         reg'[s].busy <=> reg[s].busy
  PROVE  AtMostOne(s)' /\ (Pending(s)' <=> reg'[s].busy)
<1>1. Pending(s)' <=> Pending(s)
  BY DEF SameBacking, Pending, Request
<1>2. AtMostOne(s)'
  BY DEF SameBacking, AtMostOne, Request
<1>3. QED
  BY <1>1, <1>2

\* The reports when an event that is none is taken from the channel.
LEMMA PoppedAnswers ==
  ASSUME NEW S, Popped(S), NEW s, ~Reports(1) \/ pushQ[1].sub # s \/ pushQ[1].late
  PROVE  /\ s \in S => \A i \in 1..Len(pushQ') : ~Answer(s, i)'
         /\ s \notin S =>
              /\ \A i \in 1..Len(pushQ') : i + 1 \in 1..Len(pushQ) /\ (Answer(s, i)' <=> Answer(s, i + 1))
              /\ \A k \in 1..Len(pushQ) : Answer(s, k) =>
                    \E i \in 1..Len(pushQ') : k = i + 1 /\ Answer(s, i)'
<1>1. s \in S => \A i \in 1..Len(pushQ') : ~Answer(s, i)'
  BY DEF Popped, Answer, Reports
<1>2. ASSUME s \notin S, NEW i \in 1..Len(pushQ')
      PROVE  i + 1 \in 1..Len(pushQ) /\ (Answer(s, i)' <=> Answer(s, i + 1))
  BY <1>2 DEF Popped, Answer, Reports
<1>3. ASSUME s \notin S, NEW k \in 1..Len(pushQ), Answer(s, k)
      PROVE  \E i \in 1..Len(pushQ') : k = i + 1 /\ Answer(s, i)'
  <2>1. k # 1
    BY <1>3 DEF Answer
  <2>2. PICK i \in 1..Len(pushQ') : k = i + 1
    BY <2>1 DEF Popped
  <2>3. QED
    BY <1>2, <1>3, <2>2
<1>4. QED
  BY <1>1, <1>2, <1>3

LEMMA PoppedSame ==
  ASSUME TypeInv, NEW s \in Subs, AtMostOne(s), NEW S, Popped(S), s \notin S,
         ~Reports(1) \/ pushQ[1].sub # s \/ pushQ[1].late
  PROVE  /\ \A i, j \in 1..Len(pushQ') : Answer(s, i)' /\ Answer(s, j)' => i = j
         /\ (\E i \in 1..Len(pushQ') : Answer(s, i)') <=> (\E i \in 1..Len(pushQ) : Answer(s, i))
<1>1. /\ \A i \in 1..Len(pushQ') : i + 1 \in 1..Len(pushQ) /\ (Answer(s, i)' <=> Answer(s, i + 1))
      /\ \A k \in 1..Len(pushQ) : Answer(s, k) =>
            \E i \in 1..Len(pushQ') : k = i + 1 /\ Answer(s, i)'
  BY PoppedAnswers
<1>2. ASSUME NEW i \in 1..Len(pushQ'), NEW j \in 1..Len(pushQ'), Answer(s, i)', Answer(s, j)'
      PROVE  i = j
  <2>1. i + 1 = j + 1
    BY <1>1, <1>2 DEF AtMostOne
  <2>2. QED
    BY <2>1 DEF Popped
<1>3. QED
  BY <1>1, <1>2

\* A set of new requests, one for each registration in T.
Batch(F, T) ==
    /\ F \subseteq Tasks
    /\ \A d \in F : d.sub \in T /\ ~d.late
    /\ \A t \in T : \E d \in F : d.sub = t
    /\ \A c, d \in F : c.sub = d.sub => c = d

\* The requests when some registrations go and others send.
LEMMA OrphanedRequests ==
  ASSUME TypeInv, NEW S, NEW T, NEW F, Batch(F, T), sending' = Orphaned(S) \cup F, NEW s
  PROVE  /\ s \in S /\ s \notin T => \A d \in sending' : ~Request(s, d)
         /\ s \in T /\ (\A d \in sending : ~Request(s, d)) =>
               /\ \E d \in sending' : Request(s, d)
               /\ \A c, d \in sending' : Request(s, c) /\ Request(s, d) => c = d
         /\ s \notin S /\ s \notin T =>
               /\ \A d \in sending : Request(s, d) => Late(S, d) \in sending' /\ Request(s, Late(S, d))
               /\ \A d \in sending' : Request(s, d) => \E c \in sending : Request(s, c) /\ d = Late(S, c)
<1>1. /\ Orphaned(S) = {Late(S, d) : d \in sending}
      /\ \A d \in sending : /\ Late(S, d).sub = d.sub
                            /\ Late(S, d).late <=> d.late \/ d.sub \in S
  <2>1. sending \in SUBSET Tasks
    BY DEF TypeInv
  <2>2. QED
    BY <2>1, OrphanedTasks, Zenon
<1>2. \A d \in sending' : (\E c \in sending : d = Late(S, c)) \/ d \in F
  BY <1>1
<1>3. \A c \in sending : Late(S, c) \in sending'
  BY <1>1
<1>4. QED
  BY <1>1, <1>2, <1>3 DEF Request, Batch

LEMMA SentRequests ==
  ASSUME TypeInv, NEW T, NEW F, Batch(F, T), sending' = sending \cup F, NEW s
  PROVE  /\ s \in T /\ (\A d \in sending : ~Request(s, d)) =>
               /\ \E d \in sending' : Request(s, d)
               /\ \A c, d \in sending' : Request(s, c) /\ Request(s, d) => c = d
         /\ s \notin T => \A d : d \in sending' /\ Request(s, d) <=> d \in sending /\ Request(s, d)
BY DEF Request, Batch

\* A handler of the manager: registrations in S go, those in T send.
LEMMA HandledInFlight ==
  ASSUME TypeInv, InFlight, NEW S, Popped(S), ~Reports(1), crossed' = crossed,
         NEW T \in SUBSET Subs, NEW F, Batch(F, T), sending' = Orphaned(S) \cup F,
         \A s \in Subs \cap S : s \notin T /\ ~reg'[s].busy /\ reg'[s].attempts <= PushAttemptsMax,
         \A s \in T : /\ ~reg[s].busy /\ reg'[s].busy
                      /\ reg[s].attempts < PushAttemptsMax /\ reg'[s].attempts = reg[s].attempts,
         \A s \in Subs \ (S \cup T) : /\ reg'[s].busy <=> reg[s].busy
                                      /\ reg'[s].attempts = reg[s].attempts
  PROVE  InFlight'
<1> SUFFICES ASSUME NEW s \in Subs \ crossed
             PROVE  /\ AtMostOne(s)' /\ (Pending(s)' <=> reg'[s].busy)
                    /\ reg'[s].attempts <= PushAttemptsMax
                    /\ reg'[s].busy => reg'[s].attempts < PushAttemptsMax
  BY DEF InFlight
<1>1. AtMostOne(s) /\ (Pending(s) <=> reg[s].busy) /\ reg[s].attempts <= PushAttemptsMax
      /\ (reg[s].busy => reg[s].attempts < PushAttemptsMax)
  BY DEF InFlight
<1>2. CASE s \in S
  <2>1. \A i \in 1..Len(pushQ') : ~Answer(s, i)'
    BY <1>2, PoppedAnswers
  <2>2. \A d \in sending' : ~Request(s, d)
    BY <1>2, OrphanedRequests
  <2>3. AtMostOne(s)' /\ ~Pending(s)'
    BY <2>1, <2>2 DEF AtMostOne, Pending, Request
  <2>4. QED
    BY <1>2, <2>3
<1>3. CASE s \in T
  <2>1. ~Pending(s)
    BY <1>1, <1>3
  <2>2. /\ \E d \in sending' : Request(s, d)
        /\ \A c, d \in sending' : Request(s, c) /\ Request(s, d) => c = d
    <3>1. \A d \in sending : ~Request(s, d)
      BY <2>1 DEF Pending
    <3>2. QED
      BY <1>3, <3>1, OrphanedRequests
  <2>3. \A i \in 1..Len(pushQ') : ~Answer(s, i)'
    <3>1. s \notin S
      BY <1>3
    <3>2. \A i \in 1..Len(pushQ') : i + 1 \in 1..Len(pushQ) /\ (Answer(s, i)' <=> Answer(s, i + 1))
      BY <3>1, PoppedAnswers
    <3>3. QED
      BY <2>1, <3>2 DEF Pending
  <2>4. AtMostOne(s)' /\ Pending(s)'
    BY <2>2, <2>3 DEF AtMostOne, Pending, Request
  <2>5. reg'[s].attempts < PushAttemptsMax /\ reg'[s].attempts <= PushAttemptsMax
    BY <1>1, <1>3
  <2>6. QED
    BY <1>3, <2>4, <2>5
<1>4. CASE s \notin S \cup T
  <2>1. /\ \A d \in sending : Request(s, d) => Late(S, d) \in sending' /\ Request(s, Late(S, d))
        /\ \A d \in sending' : Request(s, d) => \E c \in sending : Request(s, c) /\ d = Late(S, c)
    BY <1>4, OrphanedRequests
  <2>2. SameBacking(s)
    <3>1. /\ \A i, j \in 1..Len(pushQ') : Answer(s, i)' /\ Answer(s, j)' => i = j
          /\ (\E i \in 1..Len(pushQ') : Answer(s, i)') <=> (\E i \in 1..Len(pushQ) : Answer(s, i))
      BY <1>1, <1>4, PoppedSame
    <3>2. \A c, d \in sending' : Request(s, c) /\ Request(s, d) => c = d
      BY <1>1, <2>1 DEF AtMostOne
    <3>3. QED
      BY <2>1, <3>1, <3>2 DEF SameBacking
  <2>3. AtMostOne(s)' /\ (Pending(s)' <=> reg'[s].busy)
    BY <1>1, <1>4, <2>2, SameFlight
  <2>4. QED
    BY <1>1, <1>4, <2>3
<1>5. QED
  BY <1>2, <1>3, <1>4

LEMMA FrameInFlight ==
  ASSUME InFlight, UNCHANGED <<pushQ, sending, crossed>>,
         \A s \in Subs : (reg'[s].busy <=> reg[s].busy) /\ reg'[s].attempts = reg[s].attempts
  PROVE  InFlight'
<1>1. \A s : (AtMostOne(s)' <=> AtMostOne(s)) /\ (Pending(s)' <=> Pending(s))
  BY DEF AtMostOne, Pending, Request, Answer, Reports
<1>2. QED
  BY <1>1 DEF InFlight

\* What a handler of Update, Push or Reset does to the registrations: those in
\* S go, those in L queue the notifications M, and of these the ones in T send
\* the requests F.
HandledStep(S, L, M, T, F) ==
    /\ Popped(S) /\ ~Reports(1)
    /\ M = IF pushQ[1].type = "push" THEN pushQ[1].notes ELSE {}
    /\ S \subseteq Subs /\ L \subseteq Subs /\ T \subseteq L /\ S \cap L = {}
    /\ Batch(F, T) /\ \A d \in F : d.notes = reg[d.sub].notes \cup M
    /\ sending' = Orphaned(S) \cup F
    /\ \A s \in S : reg'[s] = NoReg
    /\ \A s \in T : /\ ~reg[s].busy /\ reg[s].attempts < PushAttemptsMax
                    /\ reg'[s].busy /\ reg'[s].attempts = reg[s].attempts
                    /\ reg'[s].notes = {}
    /\ \A s \in Subs \ (S \cup T) : /\ reg'[s].busy <=> reg[s].busy
                                    /\ reg'[s].attempts = reg[s].attempts
    /\ \A s \in L \ T : reg'[s].notes = reg[s].notes \cup M
    /\ \A s \in Subs \ (S \cup L) : reg'[s].notes = reg[s].notes
    /\ owed' = (owed \ Settled(S)) \cup (L \X M)
    /\ UNCHANGED <<crossed, unsent, routerQ, router>>

LEMMA EmptyBatch == Batch({}, {})
BY DEF Batch

LEMMA UpdateHandles ==
  ASSUME TypeInv, Update PROVE \E S : HandledStep(S, {}, {}, {}, {})
<1> DEFINE removed == ids[Owner] \ Current
<1>1. /\ Receives({"update"})
      /\ reg' = [s \in Subs |->
              IF s \in removed THEN NoReg
              ELSE IF s \notin Current THEN reg[s]
              ELSE IF reg[s].up THEN Reloaded(reg[s])
              ELSE NewReg]
      /\ sending' = Orphaned(removed)
      /\ pushQ' = QueueOrphaned(Tail(pushQ), removed)
      /\ owed' = owed \ Settled(removed)
      /\ UNCHANGED <<crossed, environment, routerQ, routerVars>>
  BY DEF Update, Reloaded
<1>2. Popped(removed) /\ pushQ[1].type = "update"
  <2>1. Popped(removed)
    BY <1>1, OrphanPops DEF Receives, TypeInv
  <2>2. QED
    BY <1>1, <2>1 DEF Receives, Popped
<1>3. removed \subseteq Subs
  BY PushAssumption DEF TypeInv
<1> HIDE DEF removed
<1>4. \A s \in removed : reg'[s] = NoReg
  BY <1>1, <1>3
<1>5. ASSUME NEW s \in Subs \ removed
      PROVE  /\ reg'[s].busy <=> reg[s].busy
             /\ reg'[s].attempts = reg[s].attempts /\ reg'[s].notes = reg[s].notes
  <2>1. reg[s] \in Registrations /\ (~reg[s].up => reg[s] = NoReg) /\ members \in SUBSET Accounts
    BY DEF TypeInv
  <2>2. /\ Reloaded(reg[s]).busy <=> reg[s].busy
        /\ Reloaded(reg[s]).notes = reg[s].notes /\ Reloaded(reg[s]).attempts = reg[s].attempts
    BY <2>1, ReloadedFacts
  <2>3. /\ NoReg.busy <=> NewReg.busy
        /\ NoReg.notes = NewReg.notes /\ NoReg.attempts = NewReg.attempts
    BY <2>1, RegFacts
  <2>4. QED
    BY <1>1, <2>1, <2>2, <2>3
<1>6. ~Reports(1)
  BY <1>2 DEF Reports
<1>7. HandledStep(removed, {}, {}, {}, {})
  BY <1>1, <1>2, <1>3, <1>4, <1>5, <1>6, EmptyBatch DEF HandledStep, environment, routerVars
<1>8. QED
  BY <1>7

LEMMA ResetHandles ==
  ASSUME TypeInv, Reset PROVE HandledStep(Subs, {}, {}, {}, {})
<1>1. Popped(Subs)
  BY OrphanPops DEF Reset, Receives, TypeInv
<1>2. pushQ[1].type = "stop"
  BY <1>1 DEF Reset, Receives, Popped
<1>3. ~Reports(1)
  BY <1>2 DEF Reports
<1>4. \A s \in Subs : reg'[s] = NoReg
  BY DEF Reset
<1>5. QED
  BY <1>1, <1>2, <1>3, <1>4, EmptyBatch DEF Reset, HandledStep, environment, routerVars

LEMMA SkippedHandles ==
  ASSUME TypeInv, UpdateSkipped PROVE HandledStep({}, {}, {}, {}, {})
<1>1. Popped({})
  BY TailPops DEF UpdateSkipped, Receives, TypeInv
<1>2. pushQ[1].type = "update"
  BY <1>1 DEF UpdateSkipped, Receives, Popped
<1>3. ~Reports(1)
  BY <1>2 DEF Reports
<1>4. sending' = Orphaned({})
  <2>1. \A d \in sending : d \in Tasks
    BY DEF TypeInv
  <2>2. \A d \in sending : [d EXCEPT !.late = @ \/ d.sub \in {}] = d
    BY <2>1 DEF Tasks
  <2>3. Orphaned({}) = sending
    BY <2>2 DEF Orphaned
  <2>4. QED
    BY <2>3 DEF UpdateSkipped
<1>5. QED
  BY <1>1, <1>2, <1>3, <1>4, EmptyBatch
     DEF UpdateSkipped, HandledStep, environment, routerVars, managerVars, history, Settled

LEMMA PushHandles ==
  ASSUME TypeInv, Push PROVE \E S, L, M, T, F : HandledStep(S, L, M, T, F)
<1> DEFINE e == Head(pushQ)
           a == e.account
           gone == {s \in ids[a] : ~reg[s].up}
           ended == {s \in ids[a] : reg[s].up /\ reg[s].exp}
           live == ids[a] \ (gone \cup ended)
           now == {s \in live : ~reg[s].busy /\ Elapsed(reg[s]) /\ reg[s].attempts < PushAttemptsMax}
           queued == [s \in live |-> [reg[s] EXCEPT !.notes = @ \cup e.notes]]
           F == {Task(s, queued[s].notes) : s \in now}
<1>1. /\ Receives({"push"})
      /\ reg' = [s \in Subs |-> IF s \in now THEN Sent(queued[s])
                                ELSE IF s \in live THEN queued[s]
                                ELSE IF s \in ended THEN NoReg ELSE reg[s]]
      /\ sending' = Orphaned(ended) \cup F
      /\ pushQ' = QueueOrphaned(Tail(pushQ), ended)
      /\ owed' = (owed \ Settled(ended)) \cup (live \X e.notes)
      /\ UNCHANGED <<crossed, environment, routerQ, routerVars>>
  BY DEF Push
<1>2. Popped(ended) /\ e = pushQ[1] /\ e.type = "push"
  <2>1. Popped(ended)
    BY <1>1, OrphanPops DEF Receives, TypeInv
  <2>2. QED
    BY <1>1, <2>1 DEF Receives, Popped
<1>3. a \in Accounts /\ e.notes \in SUBSET Notes
  BY <1>2 DEF Popped, PushEvents, Events
<1>4. ids[a] \in SUBSET Subs
  BY <1>3 DEF TypeInv
<1>5. /\ live \subseteq Subs /\ ended \subseteq Subs /\ now \subseteq live /\ ended \cap live = {}
      /\ \A s \in now : ~reg[s].busy /\ reg[s].attempts < PushAttemptsMax
  BY <1>4
<1>6. \A s \in live : queued[s] = Queued(reg[s], e.notes)
  BY DEF Queued
<1>7. \A s \in now : Task(s, queued[s].notes) \in F
  OBVIOUS
<1>8. \A d \in F : \E s \in now : d = Task(s, queued[s].notes)
  OBVIOUS
<1> HIDE DEF queued, live, now, ended, gone, e, a, F
<1>9. \A s \in live : /\ queued[s] \in Registrations
                      /\ queued[s].busy <=> reg[s].busy
                      /\ queued[s].notes = reg[s].notes \cup e.notes
                      /\ queued[s].notes \in SUBSET Notes
                      /\ queued[s].attempts = reg[s].attempts
  <2>1. \A s \in live : reg[s] \in Registrations
    BY <1>5 DEF TypeInv
  <2>2. \A s \in live : /\ queued[s] \in Registrations
                        /\ queued[s].busy <=> reg[s].busy
                        /\ queued[s].notes = reg[s].notes \cup e.notes
                        /\ queued[s].attempts = reg[s].attempts
    BY <1>3, <1>6, <2>1, QueuedFacts
  <2>3. QED
    BY <2>2 DEF Registrations
<1>10. \A s \in now : /\ Sent(queued[s]).busy /\ Sent(queued[s]).notes = {}
                      /\ Sent(queued[s]).attempts = reg[s].attempts
  BY <1>5, <1>9, SentFacts
<1>11. \A s \in now : /\ Task(s, queued[s].notes) \in Tasks /\ Task(s, queued[s].notes).sub = s
                      /\ Task(s, queued[s].notes).notes = reg[s].notes \cup e.notes
                      /\ ~Task(s, queued[s].notes).late
  BY <1>5, <1>9, TaskFacts
<1>12. Batch(F, now) /\ \A d \in F : d.notes = reg[d.sub].notes \cup e.notes
  BY <1>7, <1>8, <1>11 DEF Batch
<1>13. /\ \A s \in ended : reg'[s] = NoReg
       /\ \A s \in now : reg'[s] = Sent(queued[s])
       /\ \A s \in live \ now : reg'[s] = queued[s]
       /\ \A s \in Subs \ (ended \cup live) : reg'[s] = reg[s]
  BY <1>1, <1>5
<1>14. ~Reports(1)
  BY <1>2 DEF Reports
<1>15. HandledStep(ended, live, e.notes, now, F)
  <2>1. \A s \in Subs \ (ended \cup now) : /\ reg'[s].busy <=> reg[s].busy
                                           /\ reg'[s].attempts = reg[s].attempts
    BY <1>9, <1>13
  <2>2. \A s \in live \ now : reg'[s].notes = reg[s].notes \cup e.notes
    BY <1>9, <1>13
  <2>3. \A s \in now : /\ reg'[s].busy /\ reg'[s].attempts = reg[s].attempts
                       /\ reg'[s].notes = {}
    BY <1>10, <1>13
  <2>4. QED
    BY <1>1, <1>2, <1>5, <1>12, <1>13, <1>14, <2>1, <2>2, <2>3
       DEF HandledStep, environment, routerVars
<1>16. QED
  BY <1>15

LEMMA HandledStepInFlight ==
  ASSUME TypeInv, InFlight, NEW S, NEW L, NEW M, NEW T, NEW F, HandledStep(S, L, M, T, F)
  PROVE  InFlight'
<1>1. ~NoReg.busy /\ NoReg.attempts <= PushAttemptsMax
  BY PushAssumption DEF NoReg
<1>2. T \in SUBSET Subs /\ Batch(F, T) /\ sending' = Orphaned(S) \cup F /\ Popped(S)
      /\ ~Reports(1) /\ crossed' = crossed
  BY DEF HandledStep
<1>3. \A s \in Subs \cap S : s \notin T /\ ~reg'[s].busy /\ reg'[s].attempts <= PushAttemptsMax
  BY <1>1 DEF HandledStep
<1>4. /\ \A s \in T : /\ ~reg[s].busy /\ reg'[s].busy
                      /\ reg[s].attempts < PushAttemptsMax /\ reg'[s].attempts = reg[s].attempts
      /\ \A s \in Subs \ (S \cup T) : /\ reg'[s].busy <=> reg[s].busy
                                      /\ reg'[s].attempts = reg[s].attempts
  BY DEF HandledStep
<1>5. QED
  BY <1>2, <1>3, <1>4, HandledInFlight

\* What the retry pass does: the registrations in T send the requests F, and
\* those in D drop what they have.
RetryStep(T, D, F) ==
    /\ T \subseteq Subs /\ D \subseteq Subs /\ T \cap D = {}
    /\ Batch(F, T) /\ \A d \in F : d.notes = reg[d.sub].notes
    /\ sending' = sending \cup F
    /\ \A s \in T : /\ ~reg[s].busy /\ reg[s].attempts < PushAttemptsMax
                    /\ reg'[s].busy /\ reg'[s].attempts = reg[s].attempts
                    /\ reg'[s].notes = {}
    /\ \A s \in D : (reg'[s].busy <=> reg[s].busy) /\ reg'[s].attempts = 0 /\ reg'[s].notes = {}
    /\ \A s \in Subs \ (T \cup D) : reg'[s] = reg[s]
    /\ owed' = owed \ Settled(D)
    /\ UNCHANGED <<pushQ, crossed, unsent, routerQ, router>>

LEMMA RetryRetries ==
  ASSUME TypeInv, RetryPass
  PROVE  \/ UNCHANGED <<reg, sending, owed, pushQ, crossed, unsent, routerQ, router>>
         \/ \E T, D, F : RetryStep(T, D, F)
<1> DEFINE ready == {s \in retry : reg[s].up /\ ~reg[s].busy /\ Elapsed(reg[s])}
           send == {s \in ready : ~TooManyAttempts(reg[s])}
           dropped == ready \ send
           F == {Task(s, reg[s].notes) : s \in send}
<1>1. UNCHANGED <<pushQ, crossed, unsent, routerQ, router>>
  BY DEF RetryPass, environment, routerVars
<1>2. CASE UNCHANGED <<reg, sending, owed>>
  BY <1>1, <1>2
<1>3. CASE ~UNCHANGED <<reg, sending, owed>>
  <2>1. /\ reg' = [s \in Subs |-> IF s \in send THEN Sent(reg[s])
                               ELSE IF s \in dropped THEN Dropped(reg[s])
                               ELSE reg[s]]
        /\ sending' = sending \cup F
        /\ owed' = owed \ Settled(dropped)
    BY <1>3 DEF RetryPass, Dropped
  <2>2. send \subseteq Subs /\ dropped \subseteq Subs /\ send \cap dropped = {}
    BY DEF TypeInv
  <2>3. \A s \in send : ~reg[s].busy /\ ~TooManyAttempts(reg[s])
    OBVIOUS
  <2>4. \A s \in send : Task(s, reg[s].notes) \in F
    OBVIOUS
  <2>5. \A d \in F : \E s \in send : d = Task(s, reg[s].notes)
    OBVIOUS
  <2> HIDE DEF ready, send, dropped, F
  <2>6. \A s \in Subs : reg[s] \in Registrations /\ reg[s].attempts \in Nat
                        /\ reg[s].notes \in SUBSET Notes
    <3>1. \A s \in Subs : reg[s] \in Registrations
      BY DEF TypeInv
    <3>2. QED
      BY <3>1 DEF Registrations
  <2>7. \A s \in send : reg[s].attempts < PushAttemptsMax
    BY <2>2, <2>3, <2>6, PushAssumption DEF TooManyAttempts
  <2>8. \A s \in send : /\ Task(s, reg[s].notes) \in Tasks /\ Task(s, reg[s].notes).sub = s
                        /\ Task(s, reg[s].notes).notes = reg[s].notes
                        /\ ~Task(s, reg[s].notes).late
    BY <2>2, <2>6, TaskFacts
  <2>9. Batch(F, send) /\ \A d \in F : d.notes = reg[d.sub].notes
    BY <2>4, <2>5, <2>8 DEF Batch
  <2>10. /\ \A s \in send : reg'[s] = Sent(reg[s])
         /\ \A s \in dropped : reg'[s] = Dropped(reg[s])
         /\ \A s \in Subs \ (send \cup dropped) : reg'[s] = reg[s]
    BY <2>1, <2>2
  <2>11. \A s \in send : /\ reg'[s].busy /\ reg'[s].attempts = reg[s].attempts
                         /\ reg'[s].notes = {}
    BY <2>2, <2>6, <2>10, SentFacts
  <2>12. \A s \in dropped : /\ reg'[s].busy <=> reg[s].busy
                            /\ reg'[s].attempts = 0 /\ reg'[s].notes = {}
    BY <2>2, <2>6, <2>10, DroppedFacts
  <2>13. RetryStep(send, dropped, F)
    BY <1>1, <2>1, <2>2, <2>3, <2>7, <2>9, <2>10, <2>11, <2>12 DEF RetryStep
  <2>14. QED
    BY <2>13
<1>4. QED
  BY <1>2, <1>3

LEMMA RetryStepInFlight ==
  ASSUME TypeInv, InFlight, NEW T, NEW D, NEW F, RetryStep(T, D, F) PROVE InFlight'
<1> SUFFICES ASSUME NEW s \in Subs \ crossed
             PROVE  /\ AtMostOne(s)' /\ (Pending(s)' <=> reg'[s].busy)
                    /\ reg'[s].attempts <= PushAttemptsMax
                    /\ reg'[s].busy => reg'[s].attempts < PushAttemptsMax
  BY DEF InFlight, RetryStep
<1>1. AtMostOne(s) /\ (Pending(s) <=> reg[s].busy) /\ reg[s].attempts <= PushAttemptsMax
      /\ (reg[s].busy => reg[s].attempts < PushAttemptsMax)
  BY DEF InFlight
<1>2. Batch(F, T) /\ sending' = sending \cup F /\ pushQ' = pushQ
  BY DEF RetryStep
<1>3. \A i : Answer(s, i)' <=> Answer(s, i)
  BY <1>2 DEF Answer, Reports
<1>4. CASE s \in T
  <2>1. ~Pending(s) /\ reg'[s].busy /\ reg'[s].attempts < PushAttemptsMax
    BY <1>1, <1>4 DEF RetryStep
  <2>2. /\ \E d \in sending' : Request(s, d)
        /\ \A c, d \in sending' : Request(s, c) /\ Request(s, d) => c = d
    <3>1. \A d \in sending : ~Request(s, d)
      BY <2>1 DEF Pending
    <3>2. QED
      BY <1>2, <1>4, <3>1, SentRequests
  <2>3. AtMostOne(s)' /\ Pending(s)'
    BY <1>2, <1>3, <2>1, <2>2 DEF AtMostOne, Pending, Request
  <2>4. reg'[s].attempts <= PushAttemptsMax
    BY <1>1, <1>4 DEF RetryStep
  <2>5. QED
    BY <2>1, <2>3, <2>4
<1>5. CASE s \notin T
  <2>1. \A d : d \in sending' /\ Request(s, d) <=> d \in sending /\ Request(s, d)
    BY <1>2, <1>5, SentRequests
  <2>2. AtMostOne(s)' /\ (Pending(s)' <=> Pending(s))
    BY <1>1, <1>2, <1>3, <2>1 DEF AtMostOne, Pending, Request
  <2>3. CASE s \in D
    <3>1. (reg'[s].busy <=> reg[s].busy) /\ reg'[s].attempts = 0
      BY <2>3 DEF RetryStep
    <3>2. QED
      BY <1>1, <2>2, <3>1, PushAssumption
  <2>4. CASE s \notin D
    <3>1. reg'[s] = reg[s]
      BY <1>5, <2>4 DEF RetryStep
    <3>2. QED
      BY <1>1, <2>2, <3>1
  <2>5. QED
    BY <2>3, <2>4
<1>6. QED
  BY <1>4, <1>5

\* A report is applied to the registration s, or to nobody.
ReportedStep(s) ==
    /\ Popped({}) /\ Reports(1) /\ s = pushQ[1].sub /\ s \in Subs
    /\ \A t \in Subs \ {s} : reg'[t] = reg[t]
    /\ IF reg[s].up
         THEN /\ ~reg'[s].busy
              /\ reg'[s].attempts = IF pushQ[1].type = "success" THEN 0 ELSE reg[s].attempts + 1
              /\ reg'[s].notes = IF pushQ[1].type = "success" THEN reg[s].notes
                                 ELSE reg[s].notes \cup pushQ[1].notes
              /\ owed' = owed
              /\ crossed' = IF pushQ[1].late THEN crossed \cup {s} ELSE crossed
         ELSE /\ reg'[s] = reg[s] /\ crossed' = crossed
              /\ owed' = IF pushQ[1].type = "success" THEN owed
                         ELSE owed \ ({s} \X pushQ[1].notes)
    /\ UNCHANGED <<sending, unsent, routerQ, router>>

LEMMA ReportedReports ==
  ASSUME TypeInv, DeliverySuccess \/ DeliveryFailure PROVE \E s : ReportedStep(s)
<1> DEFINE e == Head(pushQ)
           s == e.sub
<1>1. /\ pushQ # <<>> /\ pushQ' = Tail(pushQ)
      /\ UNCHANGED <<environment, sending, routerQ, routerVars>>
      /\ e.type = "success" \/ e.type = "failure"
  BY DEF DeliverySuccess, DeliveryFailure, Receives
<1>2. Popped({}) /\ e = pushQ[1]
  <2>1. Popped({})
    BY <1>1, TailPops DEF TypeInv
  <2>2. QED
    BY <2>1 DEF Popped
<1>3. Reports(1) /\ s \in Subs /\ e.notes \in SUBSET Notes
  BY <1>1, <1>2 DEF Popped, TypeInv, Reports, PushEvents, Events
<1>4. IF reg[s].up
        THEN /\ reg' = [reg EXCEPT ![s] = IF e.type = "success" THEN Succeeded(reg[s])
                                          ELSE Failed(reg[s], e.notes)]
             /\ owed' = owed /\ crossed' = IF e.late THEN crossed \cup {s} ELSE crossed
        ELSE /\ reg' = reg /\ crossed' = crossed
             /\ owed' = IF e.type = "success" THEN owed ELSE owed \ ({s} \X e.notes)
  <2>1. CASE DeliverySuccess
    BY <1>3, <2>1 DEF DeliverySuccess, TypeInv, Succeeded, Receives
  <2>2. CASE DeliveryFailure
    BY <1>3, <2>2 DEF DeliveryFailure, TypeInv, Receives
  <2>3. QED
    BY <2>1, <2>2
<1>5. reg[s] \in Registrations /\ reg \in [Subs -> Registrations]
  BY <1>3 DEF TypeInv
<1> HIDE DEF s, e
<1>6. /\ ~Succeeded(reg[s]).busy /\ Succeeded(reg[s]).attempts = 0
      /\ Succeeded(reg[s]).notes = reg[s].notes
      /\ ~Failed(reg[s], e.notes).busy /\ Failed(reg[s], e.notes).attempts = reg[s].attempts + 1
      /\ Failed(reg[s], e.notes).notes = reg[s].notes \cup e.notes
  BY <1>3, <1>5, SucceededFacts, FailedFacts
<1>7. s = pushQ[1].sub
  BY <1>2 DEF s
<1>8. \A t \in Subs \ {s} : reg'[t] = reg[t]
  BY <1>3, <1>4, <1>5
<1>9. ReportedStep(s)
  <2>1. CASE reg[s].up
    <3>1. reg'[s] = IF e.type = "success" THEN Succeeded(reg[s]) ELSE Failed(reg[s], e.notes)
      BY <1>3, <1>4, <1>5, <2>1
    <3>2. QED
      BY <1>1, <1>2, <1>3, <1>4, <1>6, <1>7, <1>8, <2>1, <3>1 DEF ReportedStep, environment, routerVars
  <2>2. CASE ~reg[s].up
    BY <1>1, <1>2, <1>3, <1>4, <1>7, <1>8, <2>2 DEF ReportedStep, environment, routerVars
  <2>3. QED
    BY <2>1, <2>2
<1>10. QED
  BY <1>9

LEMMA ReportedStepInFlight ==
  ASSUME TypeInv, InFlight, NEW s, ReportedStep(s) PROVE InFlight'
<1>1. /\ Popped({}) /\ Reports(1) /\ s = pushQ[1].sub /\ s \in Subs
      /\ sending' = sending /\ crossed \subseteq crossed'
  BY DEF ReportedStep
<1>2. 1 \in 1..Len(pushQ)
  BY <1>1 DEF Popped
<1> SUFFICES ASSUME NEW t \in Subs \ crossed'
             PROVE  /\ AtMostOne(t)' /\ (Pending(t)' <=> reg'[t].busy)
                    /\ reg'[t].attempts <= PushAttemptsMax
                    /\ reg'[t].busy => reg'[t].attempts < PushAttemptsMax
  BY DEF InFlight
<1>3. AtMostOne(t) /\ (Pending(t) <=> reg[t].busy) /\ reg[t].attempts <= PushAttemptsMax
      /\ (reg[t].busy => reg[t].attempts < PushAttemptsMax)
  BY <1>1 DEF InFlight
<1>4. CASE pushQ[1].sub # t \/ pushQ[1].late
  <2>1. reg'[t] = reg[t]
    BY <1>1, <1>4 DEF ReportedStep
  <2>2. /\ \A i, j \in 1..Len(pushQ') : Answer(t, i)' /\ Answer(t, j)' => i = j
        /\ (\E i \in 1..Len(pushQ') : Answer(t, i)') <=> (\E i \in 1..Len(pushQ) : Answer(t, i))
    BY <1>1, <1>3, <1>4, PoppedSame
  <2>3. SameBacking(t)
    BY <1>1, <1>3, <2>2 DEF SameBacking, AtMostOne
  <2>4. AtMostOne(t)' /\ (Pending(t)' <=> reg'[t].busy)
    BY <1>3, <2>1, <2>3, SameFlight
  <2>5. QED
    BY <1>3, <2>1, <2>4
<1>5. CASE t = s /\ ~pushQ[1].late
  <2>1. Answer(t, 1) /\ Pending(t) /\ reg[t].busy
    BY <1>1, <1>2, <1>3, <1>5 DEF Answer, Pending
  <2>2. reg[t].up
    <3>1. ~NoReg.busy
      BY DEF NoReg
    <3>2. QED
      BY <2>1, <3>1 DEF TypeInv
  <2>3. \A i \in 1..Len(pushQ') : ~Answer(t, i)'
    <3> SUFFICES ASSUME NEW i \in 1..Len(pushQ'), Answer(t, i)' PROVE FALSE
      OBVIOUS
    <3>1. i + 1 \in 1..Len(pushQ) /\ Answer(t, i + 1)
      BY <1>1 DEF Popped, Answer, Reports
    <3>2. i + 1 = 1
      BY <1>2, <1>3, <2>1, <3>1 DEF AtMostOne
    <3>3. QED
      BY <1>1, <3>2 DEF Popped
  <2>4. \A d \in sending' : ~Request(t, d)
    BY <1>1, <1>2, <1>3, <2>1 DEF AtMostOne
  <2>5. AtMostOne(t)' /\ ~Pending(t)'
    BY <2>3, <2>4 DEF AtMostOne, Pending, Request
  <2>6. ~reg'[t].busy /\ reg'[t].attempts <= PushAttemptsMax
    <3>1. reg[t].attempts \in Nat /\ reg[t].attempts < PushAttemptsMax
      BY <1>3, <2>1 DEF TypeInv, Registrations
    <3>2. ~reg'[t].busy /\ (reg'[t].attempts = 0 \/ reg'[t].attempts = reg[t].attempts + 1)
      BY <1>5, <2>2 DEF ReportedStep
    <3>3. QED
      BY <3>1, <3>2, PushAssumption
  <2>7. QED
    BY <2>5, <2>6
<1>6. QED
  BY <1>1, <1>4, <1>5

LEMMA PushedInFlight ==
  ASSUME TypeInv, InFlight, NEW e, Pushed(e), e.type \notin {"success", "failure"},
         UNCHANGED <<reg, sending, crossed>>
  PROVE  InFlight'
<1>1. \A i \in 1..Len(pushQ') : i \in 1..Len(pushQ) \/ i = Len(pushQ) + 1
  BY DEF Pushed
<1>2. \A i \in 1..Len(pushQ) : i \in 1..Len(pushQ')
  BY DEF Pushed
<1>3. \A s : /\ \A i \in 1..Len(pushQ') : Answer(s, i)' => i \in 1..Len(pushQ)
             /\ \A i \in 1..Len(pushQ) : Answer(s, i)' <=> Answer(s, i)
  BY <1>1 DEF Answer, Reports, Pushed
<1>4. \A s : AtMostOne(s) => AtMostOne(s)'
  BY <1>3 DEF AtMostOne, Request
<1>5. \A s : Pending(s)' <=> Pending(s)
  BY <1>2, <1>3 DEF Pending, Request
<1>6. QED
  BY <1>4, <1>5 DEF InFlight

LEMMA ReportInFlight ==
  ASSUME TypeInv, InFlight, NEW d \in sending, NEW failed \in SUBSET d.notes, Report(d, failed)
  PROVE  InFlight'
<1> DEFINE e == ReportOf(d, failed)
           k == Len(pushQ) + 1
<1>1. /\ Pushed(e) /\ d \in Tasks /\ e.sub = d.sub /\ (e.late <=> d.late)
      /\ e.type \in {"success", "failure"}
  BY ReportFacts
<1>2. sending' = sending \ {d} /\ UNCHANGED <<reg, crossed>>
  BY DEF Report, managerVars
<1> HIDE DEF e
<1>3. /\ \A i \in 1..Len(pushQ') : i \in 1..Len(pushQ) \/ i = k
      /\ \A i \in 1..Len(pushQ) : i \in 1..Len(pushQ') /\ i # k
      /\ k \in 1..Len(pushQ') /\ pushQ'[k] = e
      /\ \A i \in 1..Len(pushQ) : pushQ'[i] = pushQ[i]
  BY <1>1 DEF Pushed
<1> HIDE DEF k
<1> SUFFICES ASSUME NEW s \in Subs \ crossed, AtMostOne(s)
             PROVE  AtMostOne(s)' /\ (Pending(s)' <=> Pending(s))
  BY <1>2 DEF InFlight
<1>4. \A i \in 1..Len(pushQ) : Answer(s, i)' <=> Answer(s, i)
  BY <1>3 DEF Answer, Reports
<1>5. (pushQ'[k].type \in {"success", "failure"} /\ pushQ'[k].sub = s /\ ~pushQ'[k].late)
      <=> Request(s, d)
  BY <1>1, <1>3 DEF Request
<1>6. \A i \in 1..Len(pushQ') : Answer(s, i)' <=>
         (i \in 1..Len(pushQ) /\ Answer(s, i)) \/ (i = k /\ Request(s, d))
  BY <1>3, <1>4, <1>5 DEF Answer, Reports
<1>7. AtMostOne(s)'
  BY <1>2, <1>3, <1>6 DEF AtMostOne, Request
<1>8. Pending(s)' <=> Pending(s)
  BY <1>2, <1>3, <1>6 DEF Pending, AtMostOne, Request
<1>9. QED
  BY <1>7, <1>8

LEMMA AgeFacts ==
  ASSUME TypeInv, NEW s \in Subs, Expire(s) \/ Ages(s)
  PROVE  \A t \in Subs : /\ reg'[t].busy = reg[t].busy /\ reg'[t].attempts = reg[t].attempts
                         /\ reg'[t].notes = reg[t].notes
<1>1. \/ reg' = [reg EXCEPT ![s] = [reg[s] EXCEPT !.exp = reg[s].up]]
      \/ reg' = [reg EXCEPT ![s] = [reg[s] EXCEPT !.age = reg[s].age + 1]]
  BY DEF Expire, Ages
<1>2. reg[s] \in Registrations /\ reg \in [Subs -> Registrations]
  BY DEF TypeInv
<1>3. \A t \in Subs \ {s} : reg'[t] = reg[t]
  BY <1>1, <1>2
<1>4. \/ reg'[s] = [reg[s] EXCEPT !.exp = reg[s].up]
      \/ \E n : reg'[s] = [reg[s] EXCEPT !.age = n]
  BY <1>1, <1>2
<1>5. /\ reg'[s].busy = reg[s].busy /\ reg'[s].attempts = reg[s].attempts
      /\ reg'[s].notes = reg[s].notes
  BY <1>2, <1>4 DEF Registrations
<1>6. QED
  BY <1>3, <1>5

LEMMA NextInFlight == ASSUME TypeInv, InFlight, [Next]_vars PROVE InFlight'
<1>1. CASE Update \/ UpdateSkipped \/ Push \/ Reset
  BY <1>1, UpdateHandles, SkippedHandles, PushHandles, ResetHandles, HandledStepInFlight
<1>2. CASE DeliverySuccess \/ DeliveryFailure
  BY <1>2, ReportedReports, ReportedStepInFlight
<1>3. CASE RetryPass
  BY <1>3, RetryRetries, RetryStepInFlight, FrameInFlight
<1>4. ASSUME NEW d \in sending, Ends(d) PROVE InFlight'
  BY <1>4, ReportInFlight DEF Ends
<1>5. CASE RouterForwards
  <2>1. router.e \in PushEvents /\ router.e.type \notin {"success", "failure"}
    BY <1>5 DEF RouterForwards, TypeInv, ForwardEvents, PushEvents, Events
  <2>2. Pushed(router.e)
    BY <1>5, <2>1, AppendPushes DEF RouterForwards, TypeInv
  <2>3. QED
    BY <1>5, <2>1, <2>2, PushedInFlight DEF RouterForwards, managerVars, history
<1>6. CASE Boot
  <2>1. UNCHANGED <<pushQ, sending, crossed>>
    BY <1>6 DEF Boot, history
  <2>2. \A s \in Subs : reg'[s].busy = NoReg.busy /\ reg'[s].attempts = NoReg.attempts
    <3>1. \A s \in Subs : reg'[s] \in {NewReg, NoReg}
      BY <1>6 DEF Boot
    <3>2. NewReg.busy = NoReg.busy /\ NewReg.attempts = NoReg.attempts
      BY DEF NewReg, NoReg
    <3>3. QED
      BY <3>1, <3>2
  <2>3. \A s \in Subs : reg[s] = NoReg
    BY <1>6 DEF Boot, TypeInv
  <2>4. QED
    BY <2>1, <2>2, <2>3, FrameInFlight
<1>7. ASSUME NEW s \in Subs, Expire(s) \/ Ages(s) PROVE InFlight'
  <2>1. \A t \in Subs : reg'[t].busy = reg[t].busy /\ reg'[t].attempts = reg[t].attempts
    BY <1>7, AgeFacts
  <2>2. QED
    BY <1>7, <2>1, FrameInFlight DEF Expire, Ages, history
<1>8. CASE UNCHANGED <<pushQ, sending, crossed, reg>>
  BY <1>8, FrameInFlight
<1>9. \/ (\E n \in Notes, a \in Accounts : Publish(n, a))
      \/ (\E l \in Listeners : Subscribe(l) \/ Close(l))
      \/ (\E new : Stores(new)) \/ ChangeGroups \/ Shutdown \/ RouterTakes \/ Reply \/ TimerFires
      \/ RetryInterval \/ UNCHANGED vars
      => UNCHANGED <<pushQ, sending, crossed, reg>>
  BY DEF Publish, Subscribe, Close, Stores, ChangeGroups, Shutdown, RouterTakes, Reply, TimerFires,
     RetryInterval, vars, managerVars, history
<1>10. QED
  BY <1>1, <1>2, <1>3, <1>4, <1>5, <1>6, <1>7, <1>8, <1>9
     DEF Next, Router, Handle, Create, Verify, Destroy, Purge

LEMMA InFlightHolds == Spec => []InFlight
<1>1. Init => InFlight
  <2> SUFFICES ASSUME Init PROVE InFlight
    OBVIOUS
  <2>1. Len(pushQ) = 0 /\ sending = {} /\ \A s \in Subs : reg[s] = NoReg
    BY EmptyFacts DEF Init
  <2>2. \A s \in Subs : AtMostOne(s) /\ ~Pending(s)
    BY <2>1 DEF AtMostOne, Pending
  <2>3. ~NoReg.busy /\ NoReg.attempts <= PushAttemptsMax
    BY PushAssumption DEF NoReg
  <2>4. QED
    BY <2>1, <2>2, <2>3 DEF InFlight
<1>2. QED
  BY <1>1, NextInFlight, TypeInvHolds, PTL DEF Spec

\* A registration in flight has exactly one request or report on the way, and
\* one that is not has none: no order of failures, updates, retries and
\* notifications lets it hang or send two requests at once, as long as no report
\* of a former registration reached it.
THEOREM FlightsAreBacked == Spec => []InFlightIsBacked
<1>1. TypeInv /\ InFlight => InFlightIsBacked
  <2> SUFFICES ASSUME TypeInv, InFlight, NEW s \in Subs \ crossed
               PROVE  Cardinality({d \in sending : d.sub = s /\ ~d.late})
                      + Cardinality({i \in 1..Len(pushQ) : pushQ[i].type \in {"success", "failure"}
                                                           /\ pushQ[i].sub = s /\ ~pushQ[i].late})
                      = IF reg[s].busy THEN 1 ELSE 0
    BY DEF InFlightIsBacked
  <2> DEFINE X == {d \in sending : d.sub = s /\ ~d.late}
             Y == {i \in 1..Len(pushQ) : pushQ[i].type \in {"success", "failure"}
                                         /\ pushQ[i].sub = s /\ ~pushQ[i].late}
  <2>1. /\ \A d : d \in X <=> d \in sending /\ Request(s, d)
        /\ \A i : i \in Y <=> i \in 1..Len(pushQ) /\ Answer(s, i)
    BY DEF Request, Answer, Reports
  <2>2. AtMostOne(s) /\ (Pending(s) <=> reg[s].busy)
    BY DEF InFlight
  <2> HIDE DEF X, Y
  <2>3. Cardinality({}) = 0 /\ \A x : Cardinality({x}) = 1
    BY FS_EmptySet, FS_Singleton
  <2>4. CASE reg[s].busy
    <3>1. (\E d : X = {d} /\ Y = {}) \/ (\E i : Y = {i} /\ X = {})
      <4>1. CASE \E d \in sending : Request(s, d)
        BY <2>1, <2>2, <4>1 DEF AtMostOne
      <4>2. CASE \E i \in 1..Len(pushQ) : Answer(s, i)
        BY <2>1, <2>2, <4>2 DEF AtMostOne
      <4>3. QED
        BY <2>2, <2>4, <4>1, <4>2 DEF Pending
    <3>2. Cardinality(X) + Cardinality(Y) = 1
      <4>1. Cardinality(X) \in {0, 1} /\ Cardinality(Y) = 1 - Cardinality(X)
        <5>1. CASE \E d : X = {d} /\ Y = {}
          <6>1. Cardinality(X) = 1 /\ Cardinality(Y) = 0
            BY <2>3, <5>1
          <6>2. QED
            BY <6>1
        <5>2. CASE \E i : Y = {i} /\ X = {}
          <6>1. Cardinality(X) = 0 /\ Cardinality(Y) = 1
            BY <2>3, <5>2
          <6>2. QED
            BY <6>1
        <5>3. QED
          BY <3>1, <5>1, <5>2
      <4>2. QED
        BY <4>1
    <3>3. QED
      BY <2>4, <3>2 DEF X, Y
  <2>5. CASE ~reg[s].busy
    <3>1. X = {} /\ Y = {}
      BY <2>1, <2>2, <2>5 DEF Pending
    <3>2. Cardinality(X) + Cardinality(Y) = 0
      BY <2>3, <3>1
    <3>3. QED
      BY <2>5, <3>2 DEF X, Y
  <2>6. QED
    BY <2>4, <2>5
<1>2. QED
  BY <1>1, TypeInvHolds, InFlightHolds, PTL

\* The bounds of both channels and of the number of attempts are kept; a
\* registration that was removed leaves nothing behind.
THEOREM TypeCorrect == Spec => []TypeOK
<1>1. TypeInv /\ InFlight => TypeOK
  <2> SUFFICES ASSUME TypeInv, InFlight PROVE TypeOK
    OBVIOUS
  <2>1. \A s \in Subs : reg[s].notes \subseteq Notes /\ reg[s].mem \subseteq Accounts
    BY DEF TypeInv, Registrations
  <2>2. QED
    BY <2>1 DEF TypeInv, InFlight, TypeOK
<1>2. QED
  BY <1>1, TypeInvHolds, InFlightHolds, PTL

-----------------------------------------------------------------------------
(* Nothing is lost.  What is owed is what was accepted, because nothing is  *)
(* in two places: what a step delivers or drops is nowhere else.  First,    *)
(* the notifications that the manager does not have yet.                    *)

LEMMA FrameNew ==
  ASSUME NewOnce, UNCHANGED <<unsent, routerQ, router, pushQ>>
  PROVE  NewOnce' /\ \A n : New(n)' => New(n)
BY DEF NewOnce, New, InRouterQ, InRouter, InPushQ

LEMMA RouterPushedNew ==
  ASSUME NewOnce, NEW e, RouterPushed(e), e.type # "publish", UNCHANGED <<unsent, router, pushQ>>
  PROVE  NewOnce' /\ \A n : New(n)' => New(n)
<1>1. \A n : /\ \A i \in 1..Len(routerQ') : InRouterQ(n, i)' => i \in 1..Len(routerQ) /\ InRouterQ(n, i)
             /\ InRouter(n)' <=> InRouter(n)
             /\ \A i : InPushQ(n, i)' <=> InPushQ(n, i)
  <2>1. \A i \in 1..Len(routerQ') : i \in 1..Len(routerQ) \/ i = Len(routerQ) + 1
    BY DEF RouterPushed
  <2>2. QED
    BY <2>1 DEF InRouterQ, InRouter, InPushQ, RouterPushed
<1>2. NewOnce'
  BY <1>1 DEF NewOnce
<1>3. QED
  BY <1>1, <1>2 DEF New

LEMMA PublishNew ==
  ASSUME TypeInv, NewOnce, NEW m \in Notes, NEW a \in Accounts, Publish(m, a)
  PROVE  NewOnce' /\ \A n : New(n)' => New(n)
<1> DEFINE e == [Event("publish") EXCEPT !.account = a, !.notes = {m}]
           k == Len(routerQ) + 1
<1>1. e \in RouterEvents /\ e.type = "publish" /\ e.notes = {m}
  BY EventFacts DEF Event
<1>2. RouterPushed(e)
  BY <1>1, AppendPushesRouter DEF Publish, TypeInv
<1>3. UNCHANGED <<router, pushQ>> /\ unsent' = unsent \ {m} /\ m \in unsent
  BY DEF Publish, routerVars
<1> HIDE DEF e
<1>4. /\ \A i \in 1..Len(routerQ') : i \in 1..Len(routerQ) \/ i = k
      /\ \A i \in 1..Len(routerQ) : routerQ'[i] = routerQ[i] /\ i # k
      /\ routerQ'[k] = e
  BY <1>2 DEF RouterPushed
<1> HIDE DEF k
<1>5. \A n : /\ \A i \in 1..Len(routerQ') : InRouterQ(n, i)' =>
                   (i \in 1..Len(routerQ) /\ InRouterQ(n, i)) \/ (i = k /\ n = m)
             /\ InRouter(n)' <=> InRouter(n)
             /\ \A i : InPushQ(n, i)' <=> InPushQ(n, i)
  BY <1>1, <1>3, <1>4 DEF InRouterQ, InRouter, InPushQ
<1>6. NewOnce'
  BY <1>3, <1>5 DEF NewOnce
<1>7. QED
  BY <1>3, <1>5, <1>6 DEF New

LEMMA RouterTakesNew ==
  ASSUME TypeInv, NewOnce, RouterTakes
  PROVE  NewOnce' /\ \A n : New(n)' => New(n)
<1>1. RouterPopped
  BY TailPopsRouter DEF RouterTakes, TypeInv
<1>2. UNCHANGED <<unsent, pushQ>> /\ router.pc = "run"
  BY DEF RouterTakes, environment
<1>3. 1 \in 1..Len(routerQ)
  BY <1>1 DEF RouterPopped
<1>4. \A n : InRouter(n)' => InRouterQ(n, 1)
  <2>1. \/ router' = router
        \/ /\ routerQ[1].type = "publish"
           /\ router' = [pc |-> "forward", e |-> [routerQ[1] EXCEPT !.type = "push"]]
        \/ /\ routerQ[1].type \in {"update", "stop"}
           /\ router' = [pc |-> "forward", e |-> [routerQ[1] EXCEPT !.type = routerQ[1].type]]
    BY <1>1 DEF RouterTakes, RouterPopped
  <2>2. routerQ[1] \in RouterEvents
    BY <1>1 DEF RouterPopped
  <2>3. CASE router' = router
    BY <1>2, <2>3 DEF InRouter
  <2>4. CASE /\ routerQ[1].type = "publish"
             /\ router' = [pc |-> "forward", e |-> [routerQ[1] EXCEPT !.type = "push"]]
    <3>1. router'.e.notes = routerQ[1].notes
      BY <2>2, <2>4 DEF RouterEvents, Events
    <3>2. QED
      BY <2>4, <3>1 DEF InRouter, InRouterQ
  <2>5. CASE /\ routerQ[1].type \in {"update", "stop"}
             /\ router' = [pc |-> "forward", e |-> [routerQ[1] EXCEPT !.type = routerQ[1].type]]
    <3>1. router'.e.type # "push"
      BY <2>2, <2>5 DEF RouterEvents, Events
    <3>2. QED
      BY <3>1 DEF InRouter
  <2>6. QED
    BY <2>1, <2>3, <2>4, <2>5
<1>5. \A n : /\ \A i \in 1..Len(routerQ') : /\ i + 1 \in 1..Len(routerQ) /\ i + 1 # 1
                                            /\ InRouterQ(n, i)' => InRouterQ(n, i + 1)
             /\ \A i : InPushQ(n, i)' <=> InPushQ(n, i)
  BY <1>1, <1>2 DEF InRouterQ, InPushQ, RouterPopped
<1>6. \A i, j \in 1..Len(routerQ') : i + 1 = j + 1 => i = j
  BY <1>1 DEF RouterPopped
<1>7. NewOnce'
  <2>1. \A n \in unsent' : /\ \A i \in 1..Len(routerQ') : ~InRouterQ(n, i)'
                           /\ ~InRouter(n)'
                           /\ \A i \in 1..Len(pushQ') : ~InPushQ(n, i)'
    BY <1>2, <1>3, <1>4, <1>5 DEF NewOnce
  <2>2. \A n \in Notes : InRouter(n)' => /\ \A i \in 1..Len(routerQ') : ~InRouterQ(n, i)'
                                         /\ \A i \in 1..Len(pushQ') : ~InPushQ(n, i)'
    BY <1>2, <1>3, <1>4, <1>5 DEF NewOnce
  <2>3. \A n \in Notes, i \in 1..Len(routerQ') : InRouterQ(n, i)' =>
          /\ \A j \in 1..Len(routerQ') : InRouterQ(n, j)' => i = j
          /\ \A j \in 1..Len(pushQ') : ~InPushQ(n, j)'
    BY <1>2, <1>5, <1>6 DEF NewOnce
  <2>4. \A n \in Notes, i, j \in 1..Len(pushQ') : InPushQ(n, i)' /\ InPushQ(n, j)' => i = j
    BY <1>2, <1>5 DEF NewOnce
  <2>5. QED
    BY <2>1, <2>2, <2>3, <2>4 DEF NewOnce
<1>8. QED
  BY <1>2, <1>3, <1>4, <1>5, <1>7 DEF New

LEMMA ForwardNew ==
  ASSUME TypeInv, NewOnce, RouterForwards
  PROVE  NewOnce' /\ \A n : New(n)' => New(n)
<1> DEFINE e == router.e
           k == Len(pushQ) + 1
<1>1. e \in PushEvents /\ router.pc = "forward"
  BY DEF RouterForwards, TypeInv, ForwardEvents, PushEvents, Events
<1>2. Pushed(e)
  BY <1>1, AppendPushes DEF RouterForwards, TypeInv
<1>3. /\ unsent' = unsent /\ router'.pc # "forward"
      /\ routerQ' = routerQ \/ Len(routerQ') = 0
  BY EmptyFacts DEF RouterForwards, environment
<1>4. /\ \A i \in 1..Len(pushQ') : i \in 1..Len(pushQ) \/ i = k
      /\ \A i \in 1..Len(pushQ) : pushQ'[i] = pushQ[i] /\ i # k
      /\ pushQ'[k] = e
  BY <1>2 DEF Pushed
<1> HIDE DEF k
<1>5. \A n : /\ \A i \in 1..Len(pushQ') : InPushQ(n, i)' =>
                   (i \in 1..Len(pushQ) /\ InPushQ(n, i)) \/ (i = k /\ InRouter(n))
             /\ ~InRouter(n)'
             /\ \A i \in 1..Len(routerQ') : i \in 1..Len(routerQ) /\ (InRouterQ(n, i)' => InRouterQ(n, i))
  BY <1>1, <1>3, <1>4 DEF InRouterQ, InRouter, InPushQ
<1>6. NewOnce'
  BY <1>3, <1>5 DEF NewOnce
<1>7. QED
  BY <1>3, <1>5, <1>6 DEF New

\* What is taken from the manager's channel is not new any more.
LEMMA PoppedNew ==
  ASSUME NewOnce, NEW S, Popped(S), UNCHANGED <<unsent, routerQ, router>>
  PROVE  /\ NewOnce'
         /\ \A n \in Notes : New(n)' => New(n) /\ ~InPushQ(n, 1)
<1>1. 1 \in 1..Len(pushQ)
  BY DEF Popped
<1>2. \A n : /\ \A i \in 1..Len(pushQ') : /\ i + 1 \in 1..Len(pushQ) /\ i + 1 # 1
                                          /\ InPushQ(n, i)' => InPushQ(n, i + 1)
             /\ InRouter(n)' <=> InRouter(n)
             /\ \A i : InRouterQ(n, i)' <=> InRouterQ(n, i)
  BY DEF InRouterQ, InRouter, InPushQ, Popped
<1>3. \A i, j \in 1..Len(pushQ') : i + 1 = j + 1 => i = j
  BY DEF Popped
<1>4. NewOnce'
  <2>1. \A n \in unsent' : /\ \A i \in 1..Len(routerQ') : ~InRouterQ(n, i)'
                           /\ ~InRouter(n)'
                           /\ \A i \in 1..Len(pushQ') : ~InPushQ(n, i)'
    BY <1>2 DEF NewOnce
  <2>2. \A n \in Notes : InRouter(n)' => /\ \A i \in 1..Len(routerQ') : ~InRouterQ(n, i)'
                                         /\ \A i \in 1..Len(pushQ') : ~InPushQ(n, i)'
    BY <1>2 DEF NewOnce
  <2>3. \A n \in Notes, i \in 1..Len(routerQ') : InRouterQ(n, i)' =>
          /\ \A j \in 1..Len(routerQ') : InRouterQ(n, j)' => i = j
          /\ \A j \in 1..Len(pushQ') : ~InPushQ(n, j)'
    BY <1>2 DEF NewOnce
  <2>4. \A n \in Notes, i, j \in 1..Len(pushQ') : InPushQ(n, i)' /\ InPushQ(n, j)' => i = j
    BY <1>2, <1>3 DEF NewOnce
  <2>5. QED
    BY <2>1, <2>2, <2>3, <2>4 DEF NewOnce
<1>5. \A n \in Notes : New(n)' => New(n)
  BY <1>2 DEF New
<1>6. ASSUME NEW n \in Notes, New(n)', InPushQ(n, 1) PROVE FALSE
  BY <1>1, <1>2, <1>6 DEF New, NewOnce
<1>7. QED
  BY <1>4, <1>5, <1>6

LEMMA PushedNew ==
  ASSUME NewOnce, NEW e, Pushed(e), e.type # "push", UNCHANGED <<unsent, routerQ, router>>
  PROVE  NewOnce' /\ \A n : New(n)' => New(n)
<1>1. \A n : /\ \A i \in 1..Len(pushQ') : InPushQ(n, i)' => i \in 1..Len(pushQ) /\ InPushQ(n, i)
             /\ InRouter(n)' <=> InRouter(n)
             /\ \A i : InRouterQ(n, i)' <=> InRouterQ(n, i)
  <2>1. \A i \in 1..Len(pushQ') : i \in 1..Len(pushQ) \/ i = Len(pushQ) + 1
    BY DEF Pushed
  <2>2. QED
    BY <2>1 DEF InRouterQ, InRouter, InPushQ, Pushed
<1>2. NewOnce'
  BY <1>1 DEF NewOnce
<1>3. QED
  BY <1>1, <1>2 DEF New

(* Then, those that were accepted for a subscription.                      *)

NoteInv == NewOnce /\ NewIsNew /\ AcceptedOnce /\ OwedIsAccepted

\* The reports after the first event was taken: the others have moved up.
LEMMA PoppedReports ==
  ASSUME NEW S, Popped(S), NEW s, NEW n
  PROVE  /\ 1 \in 1..Len(pushQ)
         /\ \A i \in 1..Len(pushQ') : /\ i + 1 \in 1..Len(pushQ) /\ i + 1 # 1
                                      /\ InReport(s, n, i)' <=> InReport(s, n, i + 1)
         /\ \A k \in 1..Len(pushQ) : k # 1 => \E i \in 1..Len(pushQ') : k = i + 1
         /\ \A i, j \in 1..Len(pushQ') : i + 1 = j + 1 => i = j
<1>1. /\ 1 \in 1..Len(pushQ)
      /\ \A i \in 1..Len(pushQ') : i + 1 \in 1..Len(pushQ) /\ i + 1 # 1
      /\ \A i, j \in 1..Len(pushQ') : i + 1 = j + 1 => i = j
  BY DEF Popped
<1>2. \A i \in 1..Len(pushQ') : InReport(s, n, i)' <=> InReport(s, n, i + 1)
  BY DEF Popped, InReport
<1>3. ASSUME NEW k \in 1..Len(pushQ), k # 1 PROVE \E i \in 1..Len(pushQ') : k = i + 1
  <2>1. k - 1 \in 1..Len(pushQ') /\ k = (k - 1) + 1
    BY <1>3 DEF Popped
  <2>2. QED
    BY <2>1
<1>4. QED
  BY <1>1, <1>2, <1>3

\* Nothing changes for the subscriptions.
LEMMA SameNotes ==
  ASSUME NoteInv, NewOnce', \A n \in Notes : New(n)' => New(n), UNCHANGED <<sending, owed>>,
         \A s \in Subs : reg'[s].notes = reg[s].notes,
         \/ pushQ' = pushQ
         \/ \E e : Pushed(e) /\ e.type # "failure"
  PROVE  NoteInv'
<1>1. \A s \in Subs, n \in Notes :
         /\ \A i \in 1..Len(pushQ') : InReport(s, n, i)' => i \in 1..Len(pushQ) /\ InReport(s, n, i)
         /\ \A i \in 1..Len(pushQ) : InReport(s, n, i) => i \in 1..Len(pushQ') /\ InReport(s, n, i)'
  <2>1. CASE pushQ' = pushQ
    BY <2>1 DEF InReport
  <2>2. ASSUME NEW e, Pushed(e), e.type # "failure" PROVE <1>1
    <3>1. /\ \A i \in 1..Len(pushQ') : i \in 1..Len(pushQ) \/ i = Len(pushQ) + 1
          /\ \A i \in 1..Len(pushQ) : i \in 1..Len(pushQ')
      BY <2>2 DEF Pushed
    <3>2. QED
      BY <2>2, <3>1 DEF Pushed, InReport
  <2>3. QED
    BY <2>1, <2>2
<1>2. \A s \in Subs, n \in Notes : Accepted(s, n)' <=> Accepted(s, n)
  BY <1>1 DEF Accepted, InTask
<1>3. NewIsNew'
  BY <1>2 DEF NoteInv, NewIsNew
<1>4. AcceptedOnce'
  BY <1>1 DEF NoteInv, AcceptedOnce, InTask
<1>5. OwedIsAccepted'
  BY <1>2 DEF NoteInv, OwedIsAccepted
<1>6. QED
  BY <1>3, <1>4, <1>5 DEF NoteInv

\* What the handlers of Update, Push and Reset do for one subscription and one
\* notification: what the registrations in S had queued is dropped, and what
\* was pushed is accepted by those in L.
LEMMA HandledAccepts ==
  ASSUME TypeInv, NoteInv, NEW S, NEW L, NEW M, NEW T, NEW F, HandledStep(S, L, M, T, F),
         NEW s \in Subs, NEW n \in Notes
  PROVE  /\ Accepted(s, n)' <=> \/ Accepted(s, n) /\ ~(s \in S /\ n \in reg[s].notes)
                                \/ s \in L /\ n \in M
         /\ n \in reg'[s].notes => /\ \A d \in sending' : ~InTask(s, n, d)
                                   /\ \A i \in 1..Len(pushQ') : ~InReport(s, n, i)'
         /\ \A d \in sending' : InTask(s, n, d) =>
              /\ \A c \in sending' : InTask(s, n, c) => c = d
              /\ \A i \in 1..Len(pushQ') : ~InReport(s, n, i)'
         /\ \A i, j \in 1..Len(pushQ') : InReport(s, n, i)' /\ InReport(s, n, j)' => i = j
<1>1. /\ Orphaned(S) = {Late(S, d) : d \in sending}
      /\ \A d \in sending : InTask(s, n, Late(S, d)) <=> InTask(s, n, d)
  <2>1. sending \in SUBSET Tasks
    BY DEF TypeInv
  <2>2. /\ Orphaned(S) = {Late(S, d) : d \in sending}
        /\ \A d \in sending : Late(S, d).sub = d.sub /\ Late(S, d).notes = d.notes
    BY <2>1, OrphanedTasks, Zenon
  <2>3. QED
    BY <2>2 DEF InTask
<1>2. /\ \A d \in sending' : (\E c \in sending : d = Late(S, c)) \/ d \in F
      /\ \A c \in sending : Late(S, c) \in sending'
      /\ \A d \in F : d \in sending'
  BY <1>1 DEF HandledStep
<1>3. /\ \A d \in F : InTask(s, n, d) => s \in T /\ (n \in reg[s].notes \/ n \in M)
      /\ \A c, d \in F : InTask(s, n, c) /\ InTask(s, n, d) => c = d
      /\ s \in T /\ (n \in reg[s].notes \/ n \in M) => \E d \in F : InTask(s, n, d)
  BY DEF HandledStep, Batch, InTask
<1>4. n \in M => ~Accepted(s, n)
  <2>1. n \in M => New(n)
    <3>1. n \in M => InPushQ(n, 1) /\ 1 \in 1..Len(pushQ)
      BY DEF HandledStep, InPushQ, Popped
    <3>2. QED
      BY <3>1 DEF New
  <2>2. QED
    BY <2>1 DEF NoteInv, NewIsNew
<1>5. /\ 1 \in 1..Len(pushQ) /\ ~InReport(s, n, 1)
      /\ \A i \in 1..Len(pushQ') : /\ i + 1 \in 1..Len(pushQ) /\ i + 1 # 1
                                   /\ InReport(s, n, i)' <=> InReport(s, n, i + 1)
      /\ \A k \in 1..Len(pushQ) : k # 1 => \E i \in 1..Len(pushQ') : k = i + 1
      /\ \A i, j \in 1..Len(pushQ') : i + 1 = j + 1 => i = j
  <2>1. Popped(S) /\ ~InReport(s, n, 1)
    BY DEF HandledStep, InReport, Reports
  <2>2. QED
    BY <2>1, PoppedReports
<1>6. (\E i \in 1..Len(pushQ') : InReport(s, n, i)') <=> (\E i \in 1..Len(pushQ) : InReport(s, n, i))
  BY <1>5
<1>7. (\E d \in sending' : InTask(s, n, d)) <=>
         \/ \E d \in sending : InTask(s, n, d)
         \/ s \in T /\ (n \in reg[s].notes \/ n \in M)
  BY <1>1, <1>2, <1>3
<1>8. n \in reg'[s].notes <=> \/ s \notin S /\ s \notin T /\ n \in reg[s].notes
                              \/ s \in L /\ s \notin T /\ n \in M
  <2>1. CASE s \in S
    BY <2>1 DEF HandledStep, NoReg
  <2>2. CASE s \in T
    BY <2>2 DEF HandledStep
  <2>3. CASE s \in L \ T
    BY <2>3 DEF HandledStep
  <2>4. CASE s \in Subs \ (S \cup L)
    BY <2>4 DEF HandledStep
  <2>5. QED
    BY <2>1, <2>2, <2>3, <2>4
<1>9. /\ T \subseteq L /\ S \cap L = {}
  BY DEF HandledStep
<1>10. /\ n \in reg[s].notes => /\ \A d \in sending : ~InTask(s, n, d)
                                /\ \A i \in 1..Len(pushQ) : ~InReport(s, n, i)
       /\ \A d \in sending : InTask(s, n, d) =>
             /\ \A c \in sending : InTask(s, n, c) => c = d
             /\ \A i \in 1..Len(pushQ) : ~InReport(s, n, i)
       /\ \A i, j \in 1..Len(pushQ) : InReport(s, n, i) /\ InReport(s, n, j) => i = j
  BY DEF NoteInv, AcceptedOnce
<1>11. n \in M => /\ n \notin reg[s].notes /\ \A d \in sending : ~InTask(s, n, d)
                  /\ \A i \in 1..Len(pushQ) : ~InReport(s, n, i)
  BY <1>4 DEF Accepted
<1>12. Accepted(s, n)' <=> \/ Accepted(s, n) /\ ~(s \in S /\ n \in reg[s].notes)
                           \/ s \in L /\ n \in M
  <2>1. Accepted(s, n)' <=> \/ n \in reg'[s].notes \/ (\E d \in sending' : InTask(s, n, d))
                            \/ (\E i \in 1..Len(pushQ') : InReport(s, n, i)')
    BY DEF Accepted, InTask
  <2>2. QED
    BY <1>6, <1>7, <1>8, <1>9, <1>10, <2>1 DEF Accepted
<1>13. n \in reg'[s].notes => /\ \A d \in sending' : ~InTask(s, n, d)
                              /\ \A i \in 1..Len(pushQ') : ~InReport(s, n, i)'
  BY <1>6, <1>7, <1>8, <1>9, <1>10, <1>11
<1>14. ASSUME NEW d \in sending', InTask(s, n, d)
       PROVE  /\ \A c \in sending' : InTask(s, n, c) => c = d
              /\ \A i \in 1..Len(pushQ') : ~InReport(s, n, i)'
  BY <1>1, <1>2, <1>3, <1>6, <1>10, <1>11, <1>14
<1>15. \A i, j \in 1..Len(pushQ') : InReport(s, n, i)' /\ InReport(s, n, j)' => i = j
  BY <1>5, <1>10
<1>16. QED
  BY <1>12, <1>13, <1>14, <1>15

LEMMA HandledStepNotes ==
  ASSUME TypeInv, NoteInv, NEW S, NEW L, NEW M, NEW T, NEW F, HandledStep(S, L, M, T, F)
  PROVE  NoteInv'
<1>1. /\ NewOnce' /\ \A n \in Notes : New(n)' => New(n) /\ ~InPushQ(n, 1)
  BY PoppedNew DEF HandledStep, NoteInv
<1>2. \A s \in Subs, n \in Notes :
         Accepted(s, n)' <=> \/ Accepted(s, n) /\ ~(s \in S /\ n \in reg[s].notes)
                             \/ s \in L /\ n \in M
  BY HandledAccepts
<1>3. M \in SUBSET Notes /\ \A n \in M : InPushQ(n, 1)
  BY DEF HandledStep, Popped, PushEvents, Events, InPushQ
<1>4. NewIsNew'
  BY <1>1, <1>2, <1>3 DEF NoteInv, NewIsNew
<1>5. AcceptedOnce'
  <2>1. \A s \in Subs, n \in Notes :
         /\ n \in reg'[s].notes => /\ \A d \in sending' : ~InTask(s, n, d)
                                   /\ \A i \in 1..Len(pushQ') : ~InReport(s, n, i)'
         /\ \A d \in sending' : InTask(s, n, d) =>
              /\ \A c \in sending' : InTask(s, n, c) => c = d
              /\ \A i \in 1..Len(pushQ') : ~InReport(s, n, i)'
         /\ \A i, j \in 1..Len(pushQ') : InReport(s, n, i)' /\ InReport(s, n, j)' => i = j
    BY HandledAccepts
  <2>2. QED
    BY <2>1 DEF AcceptedOnce, InTask
<1>6. OwedIsAccepted'
  <2>1. L \subseteq Subs /\ owed' = (owed \ Settled(S)) \cup (L \X M)
    BY DEF HandledStep
  <2>2. owed' \in SUBSET (Subs \X Notes)
    BY <1>3, <2>1 DEF NoteInv, OwedIsAccepted
  <2>3. \A s \in Subs, n \in Notes :
           <<s, n>> \in owed' <=> \/ <<s, n>> \in owed /\ ~(s \in S /\ n \in reg[s].notes)
                                  \/ s \in L /\ n \in M
    BY <2>1 DEF Settled
  <2>4. QED
    BY <1>2, <2>2, <2>3 DEF NoteInv, OwedIsAccepted
<1>7. QED
  BY <1>1, <1>4, <1>5, <1>6 DEF NoteInv

\* The retry pass: what is sent moves to the requests.
LEMMA RetryStepNotes ==
  ASSUME TypeInv, NoteInv, NEW T, NEW D, NEW F, RetryStep(T, D, F)
  PROVE  NoteInv'
<1>1. /\ NewOnce' /\ \A n : New(n)' => New(n)
  BY FrameNew DEF RetryStep, NoteInv
<1>2. /\ sending' = sending \cup F /\ pushQ' = pushQ /\ owed' = owed \ Settled(D)
      /\ T \subseteq Subs /\ D \subseteq Subs /\ T \cap D = {}
  BY DEF RetryStep
<1>3. \A s \in Subs, n \in Notes :
         /\ \A d \in F : InTask(s, n, d) => s \in T /\ n \in reg[s].notes
         /\ \A c, d \in F : InTask(s, n, c) /\ InTask(s, n, d) => c = d
         /\ s \in T /\ n \in reg[s].notes => \E d \in F : InTask(s, n, d)
  BY DEF RetryStep, Batch, InTask
<1>4. \A s \in Subs, n \in Notes :
         n \in reg'[s].notes <=> s \notin T /\ s \notin D /\ n \in reg[s].notes
  BY DEF RetryStep
<1>5. \A s, n, i : InReport(s, n, i)' <=> InReport(s, n, i)
  BY <1>2 DEF InReport
<1>6. AcceptedOnce'
  <2> SUFFICES ASSUME NEW s \in Subs, NEW n \in Notes
               PROVE  /\ n \in reg'[s].notes => /\ \A d \in sending' : ~InTask(s, n, d)
                                                /\ \A i \in 1..Len(pushQ') : ~InReport(s, n, i)'
                      /\ \A d \in sending' : InTask(s, n, d) =>
                           /\ \A c \in sending' : InTask(s, n, c) => c = d
                           /\ \A i \in 1..Len(pushQ') : ~InReport(s, n, i)'
                      /\ \A i, j \in 1..Len(pushQ') : InReport(s, n, i)' /\ InReport(s, n, j)' => i = j
    BY DEF AcceptedOnce, InTask
  <2>1. /\ n \in reg[s].notes => /\ \A d \in sending : ~InTask(s, n, d)
                                 /\ \A i \in 1..Len(pushQ) : ~InReport(s, n, i)
        /\ \A d \in sending : InTask(s, n, d) =>
             /\ \A c \in sending : InTask(s, n, c) => c = d
             /\ \A i \in 1..Len(pushQ) : ~InReport(s, n, i)
        /\ \A i, j \in 1..Len(pushQ) : InReport(s, n, i) /\ InReport(s, n, j) => i = j
    BY DEF NoteInv, AcceptedOnce
  <2>2. QED
    BY <1>2, <1>3, <1>4, <1>5, <2>1
<1>7. \A s \in Subs, n \in Notes :
         Accepted(s, n)' <=> Accepted(s, n) /\ ~(s \in D /\ n \in reg[s].notes)
  <2> SUFFICES ASSUME NEW s \in Subs, NEW n \in Notes
               PROVE  Accepted(s, n)' <=> Accepted(s, n) /\ ~(s \in D /\ n \in reg[s].notes)
    OBVIOUS
  <2>1. Accepted(s, n)' <=> \/ n \in reg'[s].notes \/ (\E d \in sending' : InTask(s, n, d))
                            \/ (\E i \in 1..Len(pushQ') : InReport(s, n, i)')
    BY DEF Accepted, InTask
  <2>2. (\E d \in sending' : InTask(s, n, d)) <=>
           (\E d \in sending : InTask(s, n, d)) \/ (s \in T /\ n \in reg[s].notes)
    BY <1>2, <1>3
  <2>3. n \in reg[s].notes => /\ \A d \in sending : ~InTask(s, n, d)
                              /\ \A i \in 1..Len(pushQ) : ~InReport(s, n, i)
    BY DEF NoteInv, AcceptedOnce
  <2>4. QED
    BY <1>2, <1>4, <1>5, <2>1, <2>2, <2>3 DEF Accepted
<1>8. NewIsNew'
  BY <1>1, <1>7 DEF NoteInv, NewIsNew
<1>9. OwedIsAccepted'
  <2>1. owed' \in SUBSET (Subs \X Notes)
    BY <1>2 DEF NoteInv, OwedIsAccepted
  <2>2. \A s \in Subs, n \in Notes :
           <<s, n>> \in owed' <=> <<s, n>> \in owed /\ ~(s \in D /\ n \in reg[s].notes)
    BY <1>2 DEF Settled
  <2>3. QED
    BY <1>7, <2>1, <2>2 DEF NoteInv, OwedIsAccepted
<1>10. QED
  BY <1>1, <1>6, <1>8, <1>9 DEF NoteInv

\* The report of a request: what failed is queued again, or has no registration
\* any more.
LEMMA ReportedStepNotes ==
  ASSUME TypeInv, NoteInv, NEW r, ReportedStep(r)
  PROVE  NoteInv'
<1>1. /\ NewOnce' /\ \A n \in Notes : New(n)' => New(n)
  BY PoppedNew DEF ReportedStep, NoteInv
<1>2. r \in Subs /\ Popped({}) /\ sending' = sending
  BY DEF ReportedStep
<1>3. \A s \in Subs, n \in Notes :
         /\ n \in reg'[s].notes <=> n \in reg[s].notes \/ (reg[s].up /\ InReport(s, n, 1))
         /\ <<s, n>> \in owed' <=> <<s, n>> \in owed /\ (reg[s].up \/ ~InReport(s, n, 1))
  BY DEF ReportedStep, InReport, Reports
<1>4. owed' \in SUBSET (Subs \X Notes)
  BY DEF ReportedStep, NoteInv, OwedIsAccepted
<1>5. ASSUME NEW s \in Subs, NEW n \in Notes
      PROVE  /\ Accepted(s, n)' <=> Accepted(s, n) /\ (reg[s].up \/ ~InReport(s, n, 1))
             /\ n \in reg'[s].notes => /\ \A d \in sending' : ~InTask(s, n, d)
                                       /\ \A i \in 1..Len(pushQ') : ~InReport(s, n, i)'
             /\ \A d \in sending' : InTask(s, n, d) =>
                  /\ \A c \in sending' : InTask(s, n, c) => c = d
                  /\ \A i \in 1..Len(pushQ') : ~InReport(s, n, i)'
             /\ \A i, j \in 1..Len(pushQ') : InReport(s, n, i)' /\ InReport(s, n, j)' => i = j
  <2>1. /\ 1 \in 1..Len(pushQ)
        /\ \A i \in 1..Len(pushQ') : /\ i + 1 \in 1..Len(pushQ) /\ i + 1 # 1
                                     /\ InReport(s, n, i)' <=> InReport(s, n, i + 1)
        /\ \A k \in 1..Len(pushQ) : k # 1 => \E i \in 1..Len(pushQ') : k = i + 1
        /\ \A i, j \in 1..Len(pushQ') : i + 1 = j + 1 => i = j
    BY <1>2, PoppedReports
  <2>2. /\ n \in reg[s].notes => /\ \A d \in sending : ~InTask(s, n, d)
                                 /\ \A i \in 1..Len(pushQ) : ~InReport(s, n, i)
        /\ \A d \in sending : InTask(s, n, d) =>
             /\ \A c \in sending : InTask(s, n, c) => c = d
             /\ \A i \in 1..Len(pushQ) : ~InReport(s, n, i)
        /\ \A i, j \in 1..Len(pushQ) : InReport(s, n, i) /\ InReport(s, n, j) => i = j
    BY DEF NoteInv, AcceptedOnce
  <2>3. (\E i \in 1..Len(pushQ) : InReport(s, n, i)) <=>
           InReport(s, n, 1) \/ (\E i \in 1..Len(pushQ') : InReport(s, n, i)')
    BY <2>1
  <2>4. ~(InReport(s, n, 1) /\ \E i \in 1..Len(pushQ') : InReport(s, n, i)')
    BY <2>1, <2>2
  <2>5. Accepted(s, n)' <=> \/ n \in reg'[s].notes \/ (\E d \in sending' : InTask(s, n, d))
                            \/ (\E i \in 1..Len(pushQ') : InReport(s, n, i)')
    BY DEF Accepted, InTask
  <2>6. Accepted(s, n)' <=> Accepted(s, n) /\ (reg[s].up \/ ~InReport(s, n, 1))
    BY <1>2, <1>3, <2>1, <2>2, <2>3, <2>4, <2>5 DEF Accepted
  <2>7. n \in reg'[s].notes => /\ \A d \in sending' : ~InTask(s, n, d)
                               /\ \A i \in 1..Len(pushQ') : ~InReport(s, n, i)'
    BY <1>2, <1>3, <2>1, <2>2, <2>3, <2>4
  <2>8. \A d \in sending' : InTask(s, n, d) =>
           /\ \A c \in sending' : InTask(s, n, c) => c = d
           /\ \A i \in 1..Len(pushQ') : ~InReport(s, n, i)'
    BY <1>2, <2>2, <2>3
  <2>9. \A i, j \in 1..Len(pushQ') : InReport(s, n, i)' /\ InReport(s, n, j)' => i = j
    BY <2>1, <2>2
  <2>10. QED
    BY <2>6, <2>7, <2>8, <2>9
<1>6. NewIsNew'
  BY <1>1, <1>5 DEF NoteInv, NewIsNew
<1>7. AcceptedOnce'
  BY <1>5 DEF AcceptedOnce, InTask
<1>8. OwedIsAccepted'
  BY <1>3, <1>4, <1>5 DEF NoteInv, OwedIsAccepted
<1>9. QED
  BY <1>1, <1>6, <1>7, <1>8 DEF NoteInv

\* A request ends: what was delivered is settled, what failed is in the report.
LEMMA ReportNotes ==
  ASSUME TypeInv, NoteInv, NEW r \in sending, NEW failed \in SUBSET r.notes, Report(r, failed)
  PROVE  NoteInv'
<1> DEFINE e == ReportOf(r, failed)
           k == Len(pushQ) + 1
<1>1. /\ Pushed(e) /\ r \in Tasks /\ e.sub = r.sub /\ e.notes = failed
      /\ e.type \in {"success", "failure"} /\ (failed # {} => e.type = "failure")
  BY ReportFacts
<1>2. /\ sending' = sending \ {r} /\ owed' = owed \ ({r.sub} \X (r.notes \ failed))
      /\ UNCHANGED <<reg, unsent, routerQ, router>>
  BY DEF Report, managerVars, environment, routerVars
<1> HIDE DEF e
<1>3. /\ NewOnce' /\ \A n : New(n)' => New(n)
  BY <1>1, <1>2, PushedNew DEF NoteInv
<1>4. /\ \A i \in 1..Len(pushQ') : i \in 1..Len(pushQ) \/ i = k
      /\ \A i \in 1..Len(pushQ) : i \in 1..Len(pushQ') /\ i # k
      /\ k \in 1..Len(pushQ') /\ pushQ'[k] = e
      /\ \A i \in 1..Len(pushQ) : pushQ'[i] = pushQ[i]
  BY <1>1 DEF Pushed
<1> HIDE DEF k
<1>5. \A s \in Subs, n \in Notes : \A i \in 1..Len(pushQ') :
         InReport(s, n, i)' <=> \/ i \in 1..Len(pushQ) /\ InReport(s, n, i)
                                \/ i = k /\ InTask(s, n, r) /\ n \in failed
  BY <1>1, <1>4 DEF InReport, InTask
<1>6. ASSUME NEW s \in Subs, NEW n \in Notes
      PROVE  /\ Accepted(s, n)' <=> Accepted(s, n) /\ ~(InTask(s, n, r) /\ n \notin failed)
             /\ n \in reg'[s].notes => /\ \A d \in sending' : ~InTask(s, n, d)
                                       /\ \A i \in 1..Len(pushQ') : ~InReport(s, n, i)'
             /\ \A d \in sending' : InTask(s, n, d) =>
                  /\ \A c \in sending' : InTask(s, n, c) => c = d
                  /\ \A i \in 1..Len(pushQ') : ~InReport(s, n, i)'
             /\ \A i, j \in 1..Len(pushQ') : InReport(s, n, i)' /\ InReport(s, n, j)' => i = j
  <2>1. /\ n \in reg[s].notes => /\ \A d \in sending : ~InTask(s, n, d)
                                 /\ \A i \in 1..Len(pushQ) : ~InReport(s, n, i)
        /\ \A d \in sending : InTask(s, n, d) =>
             /\ \A c \in sending : InTask(s, n, c) => c = d
             /\ \A i \in 1..Len(pushQ) : ~InReport(s, n, i)
        /\ \A i, j \in 1..Len(pushQ) : InReport(s, n, i) /\ InReport(s, n, j) => i = j
    BY DEF NoteInv, AcceptedOnce
  <2>2. (\E i \in 1..Len(pushQ') : InReport(s, n, i)') <=>
           (\E i \in 1..Len(pushQ) : InReport(s, n, i)) \/ (InTask(s, n, r) /\ n \in failed)
    BY <1>4, <1>5
  <2>3. (\E d \in sending' : InTask(s, n, d)) <=>
           (\E d \in sending : InTask(s, n, d)) /\ ~InTask(s, n, r)
    BY <1>2, <2>1
  <2>4. Accepted(s, n)' <=> \/ n \in reg[s].notes \/ (\E d \in sending' : InTask(s, n, d))
                            \/ (\E i \in 1..Len(pushQ') : InReport(s, n, i)')
    BY <1>2 DEF Accepted, InTask
  <2>5. Accepted(s, n)' <=> Accepted(s, n) /\ ~(InTask(s, n, r) /\ n \notin failed)
    BY <2>1, <2>2, <2>3, <2>4 DEF Accepted
  <2>6. n \in reg'[s].notes => /\ \A d \in sending' : ~InTask(s, n, d)
                               /\ \A i \in 1..Len(pushQ') : ~InReport(s, n, i)'
    BY <1>2, <2>1, <2>2, <2>3
  <2>7. \A d \in sending' : InTask(s, n, d) =>
           /\ \A c \in sending' : InTask(s, n, c) => c = d
           /\ \A i \in 1..Len(pushQ') : ~InReport(s, n, i)'
    BY <1>2, <2>1, <2>2, <2>3
  <2>8. \A i, j \in 1..Len(pushQ') : InReport(s, n, i)' /\ InReport(s, n, j)' => i = j
    BY <1>5, <2>1
  <2>9. QED
    BY <2>5, <2>6, <2>7, <2>8
<1>7. NewIsNew'
  BY <1>3, <1>6 DEF NoteInv, NewIsNew
<1>8. AcceptedOnce'
  BY <1>6 DEF AcceptedOnce, InTask
<1>9. OwedIsAccepted'
  <2>1. owed' \in SUBSET (Subs \X Notes)
    BY <1>2 DEF NoteInv, OwedIsAccepted
  <2>2. \A s \in Subs, n \in Notes :
           <<s, n>> \in owed' <=> <<s, n>> \in owed /\ ~(InTask(s, n, r) /\ n \notin failed)
    BY <1>2 DEF InTask
  <2>3. QED
    BY <1>6, <2>1, <2>2 DEF NoteInv, OwedIsAccepted
<1>10. QED
  BY <1>3, <1>7, <1>8, <1>9 DEF NoteInv

\* An event other than a notification is put in the router's channel.
LEMMA SendNotes ==
  ASSUME NoteInv, NEW e, RouterPushed(e), e.type # "publish",
         UNCHANGED <<unsent, router, pushQ, sending, owed, reg>>
  PROVE  NoteInv'
BY RouterPushedNew, SameNotes DEF NoteInv

\* Nothing that concerns notifications changes.
LEMMA FrameNotes ==
  ASSUME NoteInv, UNCHANGED <<unsent, routerQ, router, pushQ, sending, owed>>,
         \A s \in Subs : reg'[s].notes = reg[s].notes
  PROVE  NoteInv'
BY FrameNew, SameNotes DEF NoteInv

LEMMA NextNoteInv == ASSUME TypeInv, NoteInv, [Next]_vars PROVE NoteInv'
<1>1. CASE Update \/ UpdateSkipped \/ Push \/ Reset
  BY <1>1, UpdateHandles, SkippedHandles, PushHandles, ResetHandles, HandledStepNotes
<1>2. CASE DeliverySuccess \/ DeliveryFailure
  BY <1>2, ReportedReports, ReportedStepNotes
<1>3. CASE RetryPass
  BY <1>3, RetryRetries, RetryStepNotes, FrameNotes
<1>4. ASSUME NEW d \in sending, Ends(d) PROVE NoteInv'
  BY <1>4, ReportNotes DEF Ends
<1>5. ASSUME NEW n \in Notes, NEW a \in Accounts, Publish(n, a) PROVE NoteInv'
  <2>1. NewOnce' /\ \A m : New(m)' => New(m)
    BY <1>5, PublishNew DEF NoteInv
  <2>2. QED
    BY <1>5, <2>1, SameNotes DEF Publish, managerVars, history
<1>6. ASSUME NEW l \in Listeners, Subscribe(l) PROVE NoteInv'
  <2> DEFINE e == [Event("subscribe") EXCEPT !.act = members, !.sub = l]
  <2>1. e \in RouterEvents /\ e.type = "subscribe"
    BY <1>6, EventFacts DEF TypeInv, Event
  <2>2. RouterPushed(e)
    BY <1>6, <2>1, AppendPushesRouter DEF Subscribe, TypeInv
  <2> HIDE DEF e
  <2>3. QED
    BY <1>6, <2>1, <2>2, SendNotes DEF Subscribe, routerVars, managerVars, history
<1>7. ASSUME NEW t \in {"update", "stop"}, routerQ' = Append(routerQ, Event(t)),
             UNCHANGED <<unsent, router, pushQ, sending, owed, reg>>
      PROVE  NoteInv'
  <2>1. Event(t) \in RouterEvents /\ Event(t).type = t
    BY EventFacts
  <2>2. RouterPushed(Event(t))
    BY <1>7, <2>1, AppendPushesRouter DEF TypeInv
  <2>3. QED
    BY <1>7, <2>1, <2>2, SendNotes
<1>8. CASE (\E new : Stores(new)) \/ Shutdown
  BY <1>7, <1>8 DEF Stores, Shutdown, environment, routerVars, managerVars, history
<1>9. CASE Reply
  <2> DEFINE e == [Event("register") EXCEPT !.act = mgr.act, !.exp = mgr.exp]
  <2>1. e \in RouterEvents /\ e.type = "register"
    BY EventFacts DEF TypeInv, Event
  <2>2. UNCHANGED <<unsent, router, pushQ, sending, owed, reg>>
    BY <1>9 DEF Reply, environment, routerVars, history
  <2>3. CASE routerQ' = Append(routerQ, e)
    <3>1. RouterPushed(e)
      BY <2>1, <2>3, AppendPushesRouter DEF TypeInv
    <3> HIDE DEF e
    <3>2. QED
      BY <2>1, <2>2, <3>1, SendNotes
  <2>4. CASE UNCHANGED routerQ
    BY <2>2, <2>4, FrameNotes
  <2>5. QED
    BY <1>9, <2>3, <2>4 DEF Reply
<1>10. CASE RouterTakes
  <2>1. NewOnce' /\ \A n : New(n)' => New(n)
    BY <1>10, RouterTakesNew DEF NoteInv
  <2>2. QED
    BY <1>10, <2>1, SameNotes DEF RouterTakes, managerVars, history
<1>11. CASE RouterForwards
  <2>1. NewOnce' /\ \A n : New(n)' => New(n)
    BY <1>11, ForwardNew DEF NoteInv
  <2>2. router.e \in PushEvents /\ router.e.type # "failure"
    BY <1>11 DEF RouterForwards, TypeInv, ForwardEvents, PushEvents, Events
  <2>3. Pushed(router.e)
    BY <1>11, <2>2, AppendPushes DEF RouterForwards, TypeInv
  <2>4. QED
    BY <1>11, <2>1, <2>2, <2>3, SameNotes DEF RouterForwards, managerVars, history
<1>12. CASE Boot
  <2>1. \A s \in Subs : reg'[s].notes = NoReg.notes
    <3>1. \A s \in Subs : reg'[s] \in {NewReg, NoReg}
      BY <1>12 DEF Boot
    <3>2. NewReg.notes = NoReg.notes
      BY DEF NewReg, NoReg
    <3>3. QED
      BY <3>1, <3>2
  <2>2. \A s \in Subs : reg[s] = NoReg
    BY <1>12 DEF Boot, TypeInv
  <2>3. QED
    BY <1>12, <2>1, <2>2, FrameNotes DEF Boot, environment, routerVars, history
<1>13. ASSUME NEW s \in Subs, Expire(s) \/ Ages(s) PROVE NoteInv'
  <2>1. \A t \in Subs : reg'[t].notes = reg[t].notes
    BY <1>13, AgeFacts
  <2>2. QED
    BY <1>13, <2>1, FrameNotes DEF Expire, Ages, environment, routerVars, history
<1>14. CASE UNCHANGED <<unsent, routerQ, router, pushQ, sending, owed, reg>>
  BY <1>14, FrameNotes
<1>15. \/ (\E l \in Listeners : Close(l)) \/ ChangeGroups \/ TimerFires \/ RetryInterval
       \/ UNCHANGED vars
       => UNCHANGED <<unsent, routerQ, router, pushQ, sending, owed, reg>>
  BY DEF Close, ChangeGroups, TimerFires, RetryInterval, vars, environment, routerVars, managerVars,
     history
<1>16. QED
  BY <1>1, <1>2, <1>3, <1>4, <1>5, <1>6, <1>8, <1>9, <1>10, <1>11, <1>12, <1>13, <1>14, <1>15
     DEF Next, Router, Handle, Create, Verify, Destroy, Purge

LEMMA InitNoteInv == Init => NoteInv
<1> SUFFICES ASSUME Init PROVE NoteInv
  OBVIOUS
<1>1. /\ Len(pushQ) = 0 /\ Len(routerQ) = 0 /\ sending = {} /\ owed = {} /\ router.pc = "run"
      /\ \A s \in Subs : reg[s].notes = {}
  BY EmptyFacts DEF Init, NoReg
<1>2. \A i : i \notin 1..Len(pushQ) /\ i \notin 1..Len(routerQ)
  BY <1>1
<1>3. \A s \in Subs, n \in Notes : ~Accepted(s, n)
  BY <1>1, <1>2 DEF Accepted
<1>4. NewOnce
  BY <1>1, <1>2 DEF NewOnce, InRouter
<1>5. QED
  BY <1>1, <1>2, <1>3, <1>4 DEF NoteInv, NewIsNew, AcceptedOnce, OwedIsAccepted

\* Every notification the manager accepted for a subscription is queued, being
\* sent or in the report of a failure until it is delivered or dropped, whatever
\* the order of reports, updates, retries and expiries.
THEOREM OwedIsKept == Spec => []NothingIsLost
<1>1. TypeInv /\ NoteInv => NothingIsLost
  <2> SUFFICES ASSUME TypeInv, NoteInv PROVE NothingIsLost
    OBVIOUS
  <2> DEFINE A == UNION {{s} \X reg[s].notes : s \in Subs}
             B == UNION {{d.sub} \X d.notes : d \in sending}
             C == UNION {{pushQ[i].sub} \X pushQ[i].notes :
                          i \in {j \in 1..Len(pushQ) : pushQ[j].type = "failure"}}
  <2>1. \A s \in Subs : reg[s].notes \subseteq Notes
    BY DEF TypeInv, Registrations
  <2>2. \A d \in sending : d.sub \in Subs /\ d.notes \subseteq Notes
    BY DEF TypeInv, Tasks
  <2>3. \A i \in 1..Len(pushQ) : pushQ[i].type = "failure" =>
           pushQ[i].sub \in Subs /\ pushQ[i].notes \subseteq Notes
    <3>1. \A i \in 1..Len(pushQ) : pushQ[i] \in PushEvents
      BY DEF TypeInv
    <3>2. QED
      BY <3>1 DEF TypeInv, Reports, PushEvents, Events
  <2>4. \A x \in A : x \in Subs \X Notes
    BY <2>1
  <2>5. \A x \in B : x \in Subs \X Notes
    BY <2>2
  <2>6. \A x \in C : x \in Subs \X Notes
    BY <2>3
  <2>7. \A s \in Subs, n \in Notes : <<s, n>> \in A <=> n \in reg[s].notes
    OBVIOUS
  <2>8. \A s \in Subs, n \in Notes : <<s, n>> \in B <=> \E d \in sending : InTask(s, n, d)
    BY DEF InTask
  <2>9. \A s \in Subs, n \in Notes :
           <<s, n>> \in C <=> \E i \in 1..Len(pushQ) : InReport(s, n, i)
    BY DEF InReport
  <2> HIDE DEF A, B, C
  <2>10. \A s \in Subs, n \in Notes : <<s, n>> \in owed <=> <<s, n>> \in A \cup B \cup C
    BY <2>7, <2>8, <2>9 DEF NoteInv, OwedIsAccepted, Accepted
  <2>11. owed = A \cup B \cup C
    BY <2>4, <2>5, <2>6, <2>10 DEF NoteInv, OwedIsAccepted
  <2>12. NothingIsLost <=> owed = A \cup B \cup C
    BY Zenon DEF NothingIsLost, A, B, C
  <2>13. QED
    BY <2>11, <2>12
<1>2. QED
  BY <1>1, InitNoteInv, NextNoteInv, TypeInvHolds, PTL DEF Spec
=============================================================================
