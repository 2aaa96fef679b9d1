---------------------------- MODULE PushManager ----------------------------
(***************************************************************************)
(* The push router and the push manager of one node                        *)
(* (crates/services/src/state_manager): two loops that feed each other     *)
(* through bounded channels.                                               *)
(*                                                                         *)
(* The router (manager.rs) gives every published notification to the open  *)
(* listeners of the account (IMAP IDLE, event source) and, if the account  *)
(* has push subscriptions, to the manager (push.rs).  The manager sends    *)
(* the notifications of a subscription in one request at a time, in a task *)
(* that reports back through the manager's own channel; what cannot be     *)
(* sent now, or failed, waits for the retry pass.  It loads subscriptions  *)
(* from the store when it starts and when it is told that they changed,    *)
(* and tells the router which accounts have any.                           *)
(*                                                                         *)
(* Notifications carry no data: types and payloads are not modelled.       *)
(***************************************************************************)
EXTENDS Naturals, Sequences, FiniteSets

CONSTANTS
    Accounts,     \* accounts and groups
    Owner,        \* the account that has subscriptions
    Subs,         \* ids of its push subscriptions: numbers
    Listeners,    \* in-process subscribers, all of Owner
    Notes,        \* notifications
    PushAttemptsMax,
    ThrottleAge, AttemptAge,  \* push_throttle and push_attempt_interval, as ages
    RouterCap, PushCap,       \* IPC_CHANNEL_BUFFER
    MaxSets       \* bound: changes of the subscriptions and of memberships

ASSUME PushAssumption ==
    /\ Owner \in Accounts /\ Subs \subseteq Nat
    /\ PushAttemptsMax \in Nat \ {0} /\ {ThrottleAge, AttemptAge} \subseteq 1..2
    /\ RouterCap \in Nat \ {0} /\ PushCap \in Nat \ {0} /\ MaxSets \in Nat

VARIABLES
    stored,     \* the subscriptions in the store: "none", "unverified", "verified"
    expired,    \* the stored ones that have expired
    asked,      \* the ones whose verification code was sent
    members,    \* member_ids of the owner: itself and its groups
    sets,       \* changes so far
    unsent,     \* notifications nobody published yet
    open,       \* listeners that have not closed their channel
    routerQ,    \* change_rx
    pushQ,      \* push_rx
    router,     \* the router: where it is, and the event it forwards
    isPush,     \* accounts with Subscriber::is_push
    ipc,        \* Subscriber::ipc: <<listener, account>>
    reg,        \* push_servers
    ids,        \* account_push_ids
    mgr,        \* the manager: where it is, its reply, the timer
    retry,      \* retry_ids
    sending,    \* tasks spawned by PushRegistration::send
    stalled, crossed, unannounced, owed  \* history, see the properties

environment == <<stored, expired, members, sets, unsent, open>>
routerVars == <<router, isPush, ipc>>
managerVars == <<reg, ids, mgr, retry>>
history == <<stalled, crossed, unannounced, owed>>
vars == <<environment, asked, routerQ, pushQ, routerVars, managerVars, sending, history>>

\* A PushRegistration; the age of its last request is counted in intervals, up
\* to the longer one.
Old == IF ThrottleAge > AttemptAge THEN ThrottleAge ELSE AttemptAge
NoReg == [up |-> FALSE, mem |-> {}, exp |-> FALSE, attempts |-> 0, age |-> 0,
          notes |-> {}, busy |-> FALSE]
NewReg == [NoReg EXCEPT !.up = TRUE, !.mem = members, !.age = Old]

Event(type) == [type |-> type, account |-> Owner, notes |-> {}, sub |-> 0,
                act |-> {}, exp |-> {}, late |-> FALSE]
NoEvent == Event("none")

Init ==
    /\ stored \in [Subs -> {"none", "verified"}]
    /\ expired = {} /\ asked = {}
    /\ members \in {{Owner}, Accounts}
    /\ sets = 0 /\ unsent = Notes
    /\ open = {}
    /\ routerQ = <<>> /\ pushQ = <<>>
    /\ router = [pc |-> "run", e |-> NoEvent] /\ isPush = {} /\ ipc = {}
    /\ reg = [s \in Subs |-> NoReg]
    /\ ids = [a \in Accounts |-> {}]
    /\ mgr = [pc |-> "boot", act |-> {}, exp |-> {},
              due |-> FALSE, timer |-> FALSE]
    /\ retry = {} /\ sending = {}
    /\ stalled = {} /\ crossed = {} /\ unannounced = {} /\ owed = {}

-----------------------------------------------------------------------------
(* The rest of the server.  A sender waits while the channel is full; once *)
(* the router has stopped the channel is closed and sending fails.         *)

RouterAccepts == router.pc # "stopped" /\ Len(routerQ) < RouterCap

\* broadcast_push_notification, here or on another node.
Publish(n, a) ==
    /\ n \in unsent /\ RouterAccepts
    /\ unsent' = unsent \ {n}
    /\ routerQ' = Append(routerQ, [Event("publish") EXCEPT !.account = a, !.notes = {n}])
    /\ UNCHANGED <<stored, expired, asked, members, sets, open, pushQ, routerVars,
                   managerVars, sending, history>>

\* subscribe_push_manager, on all the accounts of the owner.
Subscribe(l) ==
    /\ l \notin open /\ \A a \in Accounts : <<l, a>> \notin ipc
    /\ RouterAccepts
    /\ open' = open \cup {l}
    /\ routerQ' = Append(routerQ, [Event("subscribe") EXCEPT !.act = members, !.sub = l])
    /\ UNCHANGED <<stored, expired, asked, members, sets, unsent, pushQ, routerVars,
                   managerVars, sending, history>>

Close(l) ==
    /\ l \in open
    /\ open' = open \ {l}
    /\ UNCHANGED <<stored, expired, asked, members, sets, unsent, routerQ, pushQ,
                   routerVars, managerVars, sending, history>>

Live == {s \in Subs : stored[s] # "none" /\ s \notin expired}
Kept == [s \in Subs |-> IF s \in Live THEN stored[s] ELSE "none"]
Highest == CHOOSE i \in Subs \cup {0} :
              /\ i = 0 \/ stored[i] # "none"
              /\ \A s \in Subs : stored[s] # "none" => s <= i

\* PushSubscription/set, and get when something has expired, commit what is
\* left of the subscriptions and notify.
Stores(new) ==
    /\ sets < MaxSets /\ RouterAccepts
    /\ sets' = sets + 1
    /\ stored' = new /\ expired' = {}
    /\ routerQ' = Append(routerQ, Event("update"))
    /\ UNCHANGED <<members, unsent, open, pushQ, routerVars, managerVars, sending, history>>
Create(s) ==
    /\ s = Highest + 1
    /\ Stores([Kept EXCEPT ![s] = "unverified"])
    /\ asked' = asked \ {s}
Verify(s) ==
    /\ s \in asked \cap Live /\ stored[s] = "unverified"
    /\ Stores([Kept EXCEPT ![s] = "verified"])
    /\ UNCHANGED asked
Destroy(s) ==
    /\ s \in Live
    /\ Stores([Kept EXCEPT ![s] = "none"])
    /\ UNCHANGED asked
Purge ==
    /\ expired # {}
    /\ Stores(Kept)
    /\ UNCHANGED asked

\* Time passes for a subscription, and the owner joins or leaves a group.
Expire(s) ==
    /\ s \in Live /\ sets < MaxSets
    /\ expired' = expired \cup {s} /\ sets' = sets + 1
    /\ reg' = [reg EXCEPT ![s].exp = reg[s].up]
    /\ UNCHANGED <<stored, asked, members, unsent, open, routerQ, pushQ, routerVars,
                   ids, mgr, retry, sending, history>>
ChangeGroups ==
    /\ sets < MaxSets
    /\ members' = (Accounts \ members) \cup {Owner} /\ sets' = sets + 1
    /\ UNCHANGED <<stored, expired, asked, unsent, open, routerQ, pushQ, routerVars,
                   managerVars, sending, history>>

\* HttpSessionManager::shutdown.
Shutdown ==
    /\ RouterAccepts
    /\ \A i \in 1..Len(routerQ) : routerQ[i].type # "stop"
    /\ routerQ' = Append(routerQ, Event("stop"))
    /\ UNCHANGED <<environment, asked, pushQ, routerVars, managerVars, sending, history>>

-----------------------------------------------------------------------------
(* The router.                                                             *)

\* Dead listeners are dropped when one is met, and by the first event of every
\* hour: by any event.
RouterPurge(I) == {x \in I : x[1] \in open}
Purged(I) == {I, RouterPurge(I)}

\* Mutant: the account is dropped with its listeners.
ServerRegister_DropsAll(e) ==
    /\ isPush' = (isPush \cup e.act) \ e.exp
    /\ ipc' = {x \in ipc : x[2] \notin e.exp}

\* PushServerRegister: the accounts that have subscriptions, and those that
\* have none any more.
ServerRegister(e) ==
    /\ isPush' = (isPush \cup e.act) \ e.exp
    /\ ipc' \in Purged(ipc)

RouterTakes ==
    /\ router.pc = "run" /\ routerQ # <<>>
    /\ routerQ' = Tail(routerQ)
    /\ LET e == Head(routerQ)
           Forward(type) == [pc |-> "forward", e |-> [e EXCEPT !.type = type]]
       IN  \/ /\ e.type = "publish"
              /\ ipc' \in IF \E x \in ipc : x[2] = e.account /\ x[1] \notin open
                            THEN {RouterPurge(ipc)} ELSE Purged(ipc)
              /\ router' = IF e.account \in isPush THEN Forward("push") ELSE router
              /\ UNCHANGED isPush
           \/ /\ e.type = "subscribe"
              /\ ipc' \in Purged(ipc \cup ({e.sub} \X e.act))
              /\ UNCHANGED <<router, isPush>>
           \/ /\ e.type = "register"
              /\ ServerRegister(e)
              /\ UNCHANGED router
           \/ /\ e.type \in {"update", "stop"}
              /\ router' = Forward(e.type)
              /\ ipc' \in Purged(ipc)
              /\ UNCHANGED isPush
    /\ UNCHANGED <<environment, asked, pushQ, managerVars, sending, history>>

\* Sending to the manager waits while its channel is full.  After Stop the
\* router is gone, and its channel with what it holds.
RouterForwards ==
    /\ router.pc = "forward" /\ Len(pushQ) < PushCap
    /\ pushQ' = Append(pushQ, router.e)
    /\ IF router.e.type = "stop"
         THEN router' = [pc |-> "stopped", e |-> NoEvent] /\ routerQ' = <<>>
         ELSE router' = [pc |-> "run", e |-> NoEvent] /\ UNCHANGED routerQ
    /\ UNCHANGED <<environment, asked, isPush, ipc, managerVars, sending, history>>

-----------------------------------------------------------------------------
(* The manager.                                                            *)

\* Verified subscriptions in the store that have not expired.
Current == {s \in Live : stored[s] = "verified"}

\* After an event: the answer to the router if there is one, and the retries.
After(active, inactive) ==
    IF active \cup inactive # {}
      THEN [mgr EXCEPT !.pc = "reply", !.act = active, !.exp = inactive]
      ELSE [mgr EXCEPT !.pc = "retry"]

\* Registrations go away; requests that are running report to nobody.
Orphaned(S) == {[d EXCEPT !.late = @ \/ d.sub \in S] : d \in sending}
QueueOrphaned(Q, S) ==
    [i \in 1..Len(Q) |-> [Q[i] EXCEPT !.late =
       @ \/ (Q[i].type \in {"success", "failure"} /\ Q[i].sub \in S)]]
Settled(S) == {x \in owed : x[1] \in S /\ x[2] \in reg[x[1]].notes}

\* The subscriptions are loaded at startup; a failed load leaves them out.
Boot ==
    /\ mgr.pc = "boot"
    /\ \E S \in {Current, {}} :
          /\ reg' = [s \in Subs |-> IF s \in S THEN NewReg ELSE NoReg]
          /\ ids' = [a \in Accounts |-> IF a \in members THEN S ELSE {}]
          /\ mgr' = After(IF S # {} THEN members ELSE {}, {})
    /\ UNCHANGED <<environment, asked, routerQ, pushQ, routerVars, retry, sending, history>>

\* The answer: it waits while the router's channel is full.
Reply ==
    /\ mgr.pc = "reply"
    /\ \/ /\ RouterAccepts
          /\ routerQ' = Append(routerQ, [Event("register") EXCEPT !.act = mgr.act, !.exp = mgr.exp])
       \/ /\ router.pc = "stopped"
          /\ UNCHANGED routerQ
    /\ mgr' = [mgr EXCEPT !.pc = "retry", !.act = {}, !.exp = {}]
    /\ UNCHANGED <<environment, asked, pushQ, routerVars, reg, ids, retry, sending, history>>

Receives(types) ==
    /\ mgr.pc = "wait" /\ pushQ # <<>>
    /\ Head(pushQ).type \in types

\* Update of another shard's account, or a load that fails: no retry pass.
UpdateSkipped ==
    /\ Receives({"update"})
    /\ pushQ' = Tail(pushQ)
    /\ UNCHANGED <<environment, asked, routerQ, routerVars, managerVars, sending, history>>

\* The newest unverified subscription is sent its code, unless one was sent
\* within push_verify_timeout; and the request may fail.
Verification ==
    LET new == {s \in Live : stored[s] = "unverified"}
    IN  \/ asked' = asked
        \/ /\ new # {}
           /\ asked' = asked \cup {s \in new : \A t \in new : t <= s}

\* Mutant: the groups are not announced.
Activated_Owner(old) == IF Current # {} /\ old # Current THEN {Owner} ELSE {}

\* The accounts to announce: all of the owner's, if its subscriptions changed.
Activated(old) == IF Current # {} /\ old # Current THEN members ELSE {}

\* Event::Update: the subscriptions in the store replace the owner's entry
\* and are added to its groups; the registrations that are gone are removed
\* from the accounts they were loaded with.
Update ==
    LET old == ids[Owner]
        removed == old \ Current
        active == Activated(old)
        joined == [a \in Accounts |-> IF a = Owner THEN Current
                                      ELSE IF a \in members THEN ids[a] \cup Current
                                      ELSE ids[a]]
        left == [a \in Accounts |->
                   joined[a] \ {s \in removed : reg[s].up /\ a \in reg[s].mem}]
        inactive == {a \in Accounts : joined[a] # {} /\ left[a] = {}}
    IN  /\ Receives({"update"})
        /\ Verification
        /\ ids' = left
        /\ reg' = [s \in Subs |->
              IF s \in removed THEN NoReg
              ELSE IF s \notin Current THEN reg[s]
              ELSE IF reg[s].up THEN [reg[s] EXCEPT !.mem = members, !.exp = FALSE]
              ELSE NewReg]
        /\ mgr' = After(active, inactive)
        /\ sending' = Orphaned(removed)
        /\ pushQ' = QueueOrphaned(Tail(pushQ), removed)
        /\ owed' = owed \ Settled(removed)
        /\ stalled' = stalled \ removed
        /\ unannounced' = (unannounced \ (active \cup inactive)) \cup
              {a \in members : old = Current /\ ids[a] = {} /\ left[a] # {}}
        /\ UNCHANGED <<environment, routerQ, routerVars, retry, crossed>>

\* PushRegistration::send takes the notifications and spawns the request.
Sent(r) == [r EXCEPT !.notes = {}, !.busy = TRUE, !.age = 0]
Task(s, N) == [sub |-> s, notes |-> N, late |-> FALSE]
Elapsed(r) == r.age >= (IF r.attempts = 0 THEN ThrottleAge ELSE AttemptAge)

\* Event::Push: every subscription of the account queues the notification,
\* and sends unless it is sending, too early, or has failed too often.
Push ==
    LET e == Head(pushQ)
        a == e.account
        gone == {s \in ids[a] : ~reg[s].up}
        ended == {s \in ids[a] : reg[s].up /\ reg[s].exp}
        live == ids[a] \ (gone \cup ended)
        now == {s \in live : ~reg[s].busy /\ Elapsed(reg[s]) /\ reg[s].attempts < PushAttemptsMax}
        queued == [s \in live |-> [reg[s] EXCEPT !.notes = @ \cup e.notes]]
    IN  /\ Receives({"push"})
        /\ reg' = [s \in Subs |-> IF s \in now THEN Sent(queued[s])
                                  ELSE IF s \in live THEN queued[s]
                                  ELSE IF s \in ended THEN NoReg ELSE reg[s]]
        /\ retry' = (retry \ now) \cup (live \ now)
        /\ ids' = [ids EXCEPT ![a] = @ \ gone]
        /\ mgr' = After({}, IF gone # {} /\ ids[a] = gone THEN {a} ELSE {})
        /\ sending' = Orphaned(ended) \cup {Task(s, queued[s].notes) : s \in now}
        /\ pushQ' = QueueOrphaned(Tail(pushQ), ended)
        /\ owed' = (owed \ Settled(ended)) \cup (live \X e.notes)
        /\ stalled' = stalled \ ids[a]
        /\ unannounced' = IF ids[a] = gone THEN unannounced \ {a} ELSE unannounced
        /\ UNCHANGED <<environment, asked, routerQ, routerVars, crossed>>

Reset ==
    /\ Receives({"stop"})
    /\ reg' = [s \in Subs |-> NoReg]
    /\ ids' = [a \in Accounts |-> {}]
    /\ mgr' = After({}, {})
    /\ sending' = Orphaned(Subs)
    /\ pushQ' = QueueOrphaned(Tail(pushQ), Subs)
    /\ owed' = owed \ Settled(Subs)
    /\ stalled' = {} /\ unannounced' = {}
    /\ UNCHANGED <<environment, asked, routerQ, routerVars, retry, crossed>>

\* The report of a request is applied to whatever registration has the id.
DeliverySuccess ==
    LET e == Head(pushQ)
        s == e.sub
    IN  /\ Receives({"success"})
        /\ pushQ' = Tail(pushQ)
        /\ mgr' = After({}, {})
        /\ IF reg[s].up
             THEN /\ reg' = [reg EXCEPT ![s] = [@ EXCEPT !.attempts = 0, !.busy = FALSE]]
                  /\ retry' = retry \ {s}
                  /\ stalled' = IF reg[s].notes # {} THEN stalled \cup {s} ELSE stalled
                  /\ crossed' = IF e.late THEN crossed \cup {s} ELSE crossed
             ELSE UNCHANGED <<reg, retry, stalled, crossed>>
        /\ UNCHANGED <<environment, asked, routerQ, routerVars, ids, sending, unannounced, owed>>

\* Mutants: what failed is not queued again; the registration stays in flight.
Failed_Forgets(r, N) == [r EXCEPT !.age = 0, !.attempts = @ + 1, !.busy = FALSE]
Failed_StaysBusy(r, N) ==
    [r EXCEPT !.age = 0, !.attempts = @ + 1, !.notes = @ \cup N]

Failed(r, N) ==
    [r EXCEPT !.age = 0, !.attempts = @ + 1, !.notes = @ \cup N, !.busy = FALSE]

DeliveryFailure ==
    LET e == Head(pushQ)
        s == e.sub
    IN  /\ Receives({"failure"})
        /\ pushQ' = Tail(pushQ)
        /\ mgr' = After({}, {})
        /\ IF reg[s].up
             THEN /\ reg' = [reg EXCEPT ![s] = Failed(@, e.notes)]
                  /\ retry' = retry \cup {s}
                  /\ crossed' = IF e.late THEN crossed \cup {s} ELSE crossed
                  /\ UNCHANGED owed
             ELSE owed' = owed \ ({s} \X e.notes) /\ UNCHANGED <<reg, retry, crossed>>
        /\ UNCHANGED <<environment, asked, routerQ, routerVars, ids, sending, stalled, unannounced>>

\* The wait for an event times out.
TimerFires ==
    /\ mgr.pc = "wait" /\ pushQ = <<>> /\ mgr.timer /\ mgr.due
    /\ mgr' = After({}, {})
    /\ UNCHANGED <<environment, asked, routerQ, pushQ, routerVars, reg, ids, retry, sending, history>>

\* Mutants: a registration that was not ready is forgotten with the others,
\* and no number of attempts is too many.
Remaining_None(handled) == {}
TooManyAttempts_Never(r) == FALSE

\* Either some registrations are left for the next pass, or all were handled.
Remaining(handled) == retry \ handled
TooManyAttempts(r) == r.attempts >= PushAttemptsMax

\* The end of the loop: once per push_retry_interval, what waits is sent or,
\* after too many attempts, dropped; then the next timeout is chosen.
RetryPass ==
    LET gone == {s \in retry : ~reg[s].up}
        ready == {s \in retry : reg[s].up /\ ~reg[s].busy /\ Elapsed(reg[s])}
        send == {s \in ready : ~TooManyAttempts(reg[s])}
        dropped == ready \ send
        left == Remaining(gone \cup ready)
    IN  /\ mgr.pc = "retry"
        /\ IF retry = {} \/ ~mgr.due
             THEN /\ mgr' = [mgr EXCEPT !.pc = "wait", !.timer = retry # {}]
                  /\ UNCHANGED <<reg, retry, sending, owed>>
             ELSE /\ mgr' = [mgr EXCEPT !.pc = "wait", !.timer = left # {}, !.due = left = {}]
                  /\ retry' = left
                  /\ reg' = [s \in Subs |-> IF s \in send THEN Sent(reg[s])
                               ELSE IF s \in dropped THEN [reg[s] EXCEPT !.notes = {}, !.attempts = 0]
                               ELSE reg[s]]
                  /\ sending' = sending \cup {Task(s, reg[s].notes) : s \in send}
                  /\ owed' = owed \ Settled(dropped)
        /\ UNCHANGED <<environment, asked, routerQ, pushQ, routerVars, ids, stalled, crossed, unannounced>>

-----------------------------------------------------------------------------
(* The requests and the clock.                                             *)

\* Every request of the task succeeded, or the ones in failed did not; the
\* report waits while the manager's channel is full.
Report(d, failed) ==
    /\ d \in sending /\ failed \subseteq d.notes /\ Len(pushQ) < PushCap
    /\ sending' = sending \ {d}
    /\ pushQ' = Append(pushQ,
          [Event(IF failed = {} THEN "success" ELSE "failure") EXCEPT
             !.sub = d.sub, !.notes = failed, !.late = d.late])
    /\ owed' = owed \ ({d.sub} \X (d.notes \ failed))
    /\ UNCHANGED <<environment, asked, routerQ, routerVars, managerVars, stalled, crossed,
                   unannounced>>

Ages(s) ==
    /\ reg[s].up /\ reg[s].age < Old
    /\ reg' = [reg EXCEPT ![s].age = @ + 1]
    /\ UNCHANGED <<environment, asked, routerQ, pushQ, routerVars, ids, mgr, retry, sending, history>>
RetryInterval ==
    /\ ~mgr.due
    /\ mgr' = [mgr EXCEPT !.due = TRUE]
    /\ UNCHANGED <<environment, asked, routerQ, pushQ, routerVars, reg, ids, retry, sending, history>>

-----------------------------------------------------------------------------
Router == RouterTakes \/ RouterForwards
Handle ==
    \/ Update \/ UpdateSkipped \/ Push \/ Reset \/ DeliverySuccess \/ DeliveryFailure
Manager == Boot \/ Reply \/ Handle \/ TimerFires \/ RetryPass
Ends(d) == \E failed \in SUBSET d.notes : Report(d, failed)

\* Nothing happens between an event and the retry pass that follows it in the
\* same turn of the loop: nobody else sees the manager's state.
Next ==
    \/ RetryPass
    \/ /\ mgr.pc # "retry"
       /\ \/ \E n \in Notes, a \in Accounts : Publish(n, a)
          \/ \E l \in Listeners : Subscribe(l) \/ Close(l)
          \/ \E s \in Subs : Create(s) \/ Verify(s) \/ Destroy(s) \/ Expire(s) \/ Ages(s)
          \/ Purge \/ ChangeGroups \/ Shutdown
          \/ Router
          \/ Boot \/ Reply \/ Handle \/ TimerFires
          \/ \E d \in sending : Ends(d)
          \/ RetryInterval

Spec == Init /\ [][Next]_vars

\* The loops run, the clock advances, and every request ends: it has a
\* timeout (push_timeout).
Fairness ==
    /\ WF_vars(Router) /\ WF_vars(Manager)
    /\ \A s \in Subs : WF_vars(Ages(s)) /\ WF_vars(\E d \in sending : d.sub = s /\ Ends(d))
    /\ WF_vars(RetryInterval)
FairSpec == Spec /\ Fairness

-----------------------------------------------------------------------------
(* Properties.                                                             *)

TypeOK ==
    /\ \A s \in Subs : /\ s \in crossed \/ reg[s].attempts <= PushAttemptsMax
                       /\ reg[s].notes \subseteq Notes /\ reg[s].mem \subseteq Accounts
                       /\ ~reg[s].up => reg[s] = NoReg
    /\ ids \in [Accounts -> SUBSET Subs]
    /\ Len(routerQ) <= RouterCap /\ Len(pushQ) <= PushCap
    /\ isPush \subseteq Accounts /\ retry \subseteq Subs

\* A registration in flight has exactly one request that will report, and one
\* that is not has none: it can neither hang nor send twice at once.  Only the
\* late report of a registration that was removed, taken for the one that has
\* its id now, breaks this.
InFlightIsBacked ==
    \A s \in Subs \ crossed :
        Cardinality({d \in sending : d.sub = s /\ ~d.late})
        + Cardinality({i \in 1..Len(pushQ) : pushQ[i].type \in {"success", "failure"}
                                             /\ pushQ[i].sub = s /\ ~pushQ[i].late})
        = IF reg[s].busy THEN 1 ELSE 0

\* Every notification accepted for a subscription is queued, being sent, or in
\* a report, until it is delivered or dropped (too many attempts, or the
\* subscription ends): no interleaving of reports, updates and retries loses
\* one.
NothingIsLost ==
    owed = (UNION {{s} \X reg[s].notes : s \in Subs})
           \cup (UNION {{d.sub} \X d.notes : d \in sending})
           \cup (UNION {{pushQ[i].sub} \X pushQ[i].notes :
                         i \in {j \in 1..Len(pushQ) : pushQ[j].type = "failure"}})

Registering(a) ==
    \/ a \in mgr.act
    \/ \E i \in 1..Len(routerQ) : routerQ[i].type = "register" /\ a \in routerQ[i].act

\* The router knows, or is about to learn, of every account for which the
\* manager has subscriptions, although both change their minds concurrently.
\* The exception is a group joined after the subscriptions were loaded: an
\* update that finds the same subscriptions announces nothing.
RouterKnows ==
    \A a \in Accounts \ unannounced :
        ids[a] # {} /\ router.pc # "stopped" => a \in isPush \/ Registering(a)

\* An open listener stays subscribed to its accounts, whatever happens to the
\* push subscriptions of these accounts and to other listeners.
ListenersStay ==
    \A l \in open :
        \/ router.pc = "stopped"
        \/ <<l, Owner>> \in ipc
        \/ \E i \in 1..Len(routerQ) : routerQ[i].type = "subscribe" /\ routerQ[i].sub = l

\* The two loops wait for each other: both channels are full, and each is
\* sending to the other.
MutualWait ==
    /\ router.pc = "forward" /\ Len(pushQ) = PushCap
    /\ mgr.pc = "reply" /\ Len(routerQ) = RouterCap

\* "Multiple change updates should be grouped and pushed in intervals"
\* (tests/src/jmap/core/push_subscription.rs): what waits is sent in the end,
\* or dropped after too many attempts.
ChangesArePushed == \A s \in Subs : reg[s].notes # {} ~> reg[s].notes = {}

\* The same, but for the stalled notifications and the mutual wait.
ChangesArePushedUnlessStalled ==
    \A s \in Subs : reg[s].notes # {} ~>
                      reg[s].notes = {} \/ s \in stalled \/ MutualWait
=============================================================================
