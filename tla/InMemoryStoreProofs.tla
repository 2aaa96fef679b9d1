------------------------ MODULE InMemoryStoreProofs ------------------------
(***************************************************************************)
(* For any clients, locks and durations: the locks of InMemoryStore are    *)
(* exclusive while nobody deletes them under their holder, and they        *)
(* implement LeaseService.                                                 *)
(*                                                                         *)
(* Exclusion is not inductive.  What makes try_lock safe is that a lease   *)
(* in force is the value in the store (LeaseIsStored), and that a caller   *)
(* about to write asserts a value that has expired (WritesOverExpired):    *)
(* the two cannot be the same value.                                       *)
(*                                                                         *)
(* The second part is about rate limits: see there.                        *)
(***************************************************************************)
EXTENDS InMemoryStore, TLAPS

LockTypeOK ==
    /\ now \in Nat
    /\ key \in [Locks -> Nat \cup {OldFormat}]
    /\ client \in [Clients -> [pc : {"idle", "clear", "read", "write", "held"},
                               lock : Locks, seen : Nat \cup {OldFormat},
                               until : Nat]]
    /\ robbed \in SUBSET Clients

WritesOverExpired == \A c \in Clients : client[c].pc = "write" => client[c].seen <= now
LeaseIsStored ==
    \A c \in Clients \ robbed : Leased(c) => key[client[c].lock] = client[c].until
RobbedHold == \A c \in robbed : client[c].pc = "held"

IInv ==
    /\ LockTypeOK
    /\ WritesOverExpired
    /\ LeaseIsStored
    /\ RobbedHold
    /\ MutualExclusion

\* The variables the leases depend on.
lockVars == <<now, key, client, robbed>>

LEMMA InitIInv == Init => IInv
<1> SUFFICES ASSUME Init PROVE IInv
  OBVIOUS
<1>1. PICK l \in Locks : client = [c \in Clients |-> Idle(l)]
  BY DEF Init
<1>2. LockTypeOK
  BY <1>1 DEF Init, LockTypeOK, Idle, None, OldFormat
<1>3. \A c \in Clients : client[c].pc = "idle"
  BY <1>1 DEF Idle
<1>4. QED
  BY <1>2, <1>3 DEF IInv, WritesOverExpired, LeaseIsStored, RobbedHold, MutualExclusion,
                    Leased, Init

\* A step that leaves the locks alone.
LEMMA StutterIInv == ASSUME IInv, UNCHANGED lockVars PROVE IInv'
BY DEF IInv, LockTypeOK, WritesOverExpired, LeaseIsStored, RobbedHold, MutualExclusion,
       Leased, lockVars

LEMMA TickIInv == ASSUME IInv, Tick PROVE IInv'
<1>1. now \in Nat /\ now' = now + 1 /\ UNCHANGED <<key, client, robbed>>
  BY DEF Tick, IInv, LockTypeOK
<1>2. LockTypeOK' /\ RobbedHold'
  BY <1>1 DEF IInv, LockTypeOK, RobbedHold
<1>3. WritesOverExpired'
  <2>1. SUFFICES ASSUME NEW c \in Clients, client[c].pc = "write"
                 PROVE  client[c].seen <= now + 1
    BY <1>1 DEF WritesOverExpired
  <2>2. client[c].seen \in Int /\ client[c].seen <= now
    BY <2>1 DEF IInv, LockTypeOK, WritesOverExpired, OldFormat
  <2>3. QED
    BY <1>1, <2>2
<1>4. \A c \in Clients : Leased(c)' => Leased(c)
  <2>1. SUFFICES ASSUME NEW c \in Clients, client[c].pc = "held", now + 1 < client[c].until
                 PROVE  now < client[c].until
    BY <1>1 DEF Leased
  <2>2. client[c].until \in Nat
    BY DEF IInv, LockTypeOK
  <2>3. QED
    BY <1>1, <2>1, <2>2
<1>5. LeaseIsStored' /\ MutualExclusion'
  BY <1>1, <1>4 DEF IInv, LeaseIsStored, MutualExclusion
<1>6. QED
  BY <1>2, <1>3, <1>5 DEF IInv

\* One client changes, to a state in which it holds no lease; the store and
\* the other clients stay.
LEMMA QuietIInv ==
  ASSUME IInv, NEW c \in Clients,
         NEW x \in [pc : {"idle", "clear", "read", "write"}, lock : Locks,
                    seen : Nat \cup {OldFormat}, until : Nat],
         x.pc = "write" => x.seen <= now,
         client' = [client EXCEPT ![c] = x],
         robbed' = robbed \ {c}, UNCHANGED <<now, key>>
  PROVE  IInv'
BY DEF IInv, LockTypeOK, WritesOverExpired, LeaseIsStored, RobbedHold, MutualExclusion,
       Leased

LEMMA LockReadIInv ==
  ASSUME IInv, NEW c \in Clients, NEW l \in Locks, LockRead(c, l) PROVE IInv'
<1> DEFINE x == [pc |-> IF key[l] = OldFormat THEN "clear" ELSE "read",
                 lock |-> l, seen |-> key[l], until |-> 0]
<1>1. x \in [pc : {"idle", "clear", "read", "write"}, lock : Locks,
             seen : Nat \cup {OldFormat}, until : Nat]
  BY DEF IInv, LockTypeOK
<1>2. x.pc = "write" => x.seen <= now
  OBVIOUS
<1>3. robbed' = robbed \ {c}
  BY DEF LockRead, IInv, RobbedHold
<1>4. client' = [client EXCEPT ![c] = x] /\ UNCHANGED <<now, key>>
  BY DEF LockRead
<1> HIDE DEF x
<1>5. QED
  BY <1>1, <1>2, <1>3, <1>4, QuietIInv

LEMMA LockDecideIInv ==
  ASSUME IInv, NEW c \in Clients, LockDecide(c) PROVE IInv'
<1> DEFINE x == IF client[c].seen > now
                  THEN Idle(client[c].lock)
                  ELSE [client[c] EXCEPT !.pc = "write", !.until = now + LockDuration]
<1>1. /\ x \in [pc : {"idle", "clear", "read", "write"}, lock : Locks,
                seen : Nat \cup {OldFormat}, until : Nat]
      /\ x.pc = "write" => x.seen <= now
  <2>1. /\ client[c] \in [pc : {"idle", "clear", "read", "write", "held"},
                          lock : Locks, seen : Nat \cup {OldFormat}, until : Nat]
        /\ client[c].seen \in Int /\ now \in Nat
    BY DEF IInv, LockTypeOK, OldFormat
  <2>2. CASE client[c].seen > now
    BY <2>1, <2>2 DEF Idle, None
  <2>3. CASE ~(client[c].seen > now)
    <3>1. now + LockDuration \in Nat /\ client[c].seen <= now
      BY <2>1, <2>3, DurationsAssumption
    <3>2. QED
      BY <2>1, <2>3, <3>1
  <2>4. QED
    BY <2>2, <2>3
<1>2. robbed' = robbed \ {c}
  BY DEF LockDecide, IInv, RobbedHold
<1>3. client' = [client EXCEPT ![c] = x] /\ UNCHANGED <<now, key>>
  BY DEF LockDecide
<1> HIDE DEF x
<1>4. QED
  BY <1>1, <1>2, <1>3, QuietIInv

LEMMA GiveUpIInv ==
  ASSUME IInv, NEW c \in Clients, GiveUp(c) PROVE IInv'
<1>1. Idle(client[c].lock) \in
        [pc : {"idle", "clear", "read", "write"}, lock : Locks,
         seen : Nat \cup {OldFormat}, until : Nat]
  BY DEF IInv, LockTypeOK, Idle, None
<1>2. QED
  BY <1>1, QuietIInv DEF GiveUp, Idle

\* The heart of the matter: a conditional write that succeeds meets no lease
\* in force that was not broken.
LEMMA WriteMeetsNoLease ==
  ASSUME IInv, NEW c \in Clients, client[c].pc = "write",
         key[client[c].lock] = client[c].seen,
         NEW d \in Clients \ robbed, Leased(d)
  PROVE  client[d].lock # client[c].lock
BY DEF IInv, LockTypeOK, WritesOverExpired, LeaseIsStored, Leased, OldFormat

LEMMA LockWriteIInv ==
  ASSUME IInv, NEW c \in Clients, LockWrite(c) PROVE IInv'
<1>1. CASE key[client[c].lock] # client[c].seen
  <2>1. client' = [client EXCEPT ![c] = Idle(client[c].lock)]
    BY <1>1 DEF LockWrite
  <2>2. UNCHANGED <<now, key, robbed>>
    BY <1>1 DEF LockWrite
  <2>3. robbed' = robbed \ {c}
    BY <2>2 DEF LockWrite, IInv, RobbedHold
  <2>4. Idle(client[c].lock) \in
          [pc : {"idle", "clear", "read", "write"}, lock : Locks,
           seen : Nat \cup {OldFormat}, until : Nat]
    BY DEF IInv, LockTypeOK, Idle, None
  <2>5. QED
    BY <2>1, <2>2, <2>3, <2>4, QuietIInv DEF Idle
<1>2. CASE key[client[c].lock] = client[c].seen
  <2> DEFINE l == client[c].lock
  <2>1. /\ client[c].pc = "write"
        /\ key' = [key EXCEPT ![l] = client[c].until]
        /\ client' = [client EXCEPT ![c] = [client[c] EXCEPT !.pc = "held", !.seen = None]]
        /\ UNCHANGED <<now, robbed>>
    BY <1>2 DEF LockWrite
  <2>2. \A d \in Clients \ robbed : Leased(d) => client[d].lock # l
    BY <1>2, <2>1, WriteMeetsNoLease
  <2>3. \A d \in Clients : d # c => client'[d] = client[d]
    BY <2>1 DEF IInv, LockTypeOK
  <2>4. /\ client'[c].pc = "held" /\ client'[c].lock = l
        /\ client'[c].until = client[c].until
    BY <2>1 DEF IInv, LockTypeOK
  <2>5. LockTypeOK'
    BY <2>1 DEF IInv, LockTypeOK, None
  <2>6. WritesOverExpired' /\ RobbedHold'
    BY <2>1, <2>3, <2>4 DEF IInv, WritesOverExpired, RobbedHold, LockTypeOK
  <2>7. LeaseIsStored'
    BY <2>1, <2>2, <2>3, <2>4 DEF IInv, LeaseIsStored, LockTypeOK, Leased
  <2>8. MutualExclusion'
    BY <2>1, <2>2, <2>3, <2>4 DEF IInv, MutualExclusion, LockTypeOK, Leased
  <2>9. QED
    BY <2>5, <2>6, <2>7, <2>8 DEF IInv
<1>3. QED
  BY <1>1, <1>2

\* Entries are deleted, and whoever has a lease on one is robbed.
LEMMA DeleteIInv ==
  ASSUME IInv, NEW S \in SUBSET Locks,
         key' = [l \in Locks |-> IF l \in S THEN None ELSE key[l]],
         robbed' = robbed \cup LeasedOn(S), UNCHANGED <<now, client>>
  PROVE  IInv'
BY DEF IInv, LockTypeOK, WritesOverExpired, LeaseIsStored, RobbedHold, MutualExclusion,
       Leased, LeasedOn, None

LEMMA LockClearIInv ==
  ASSUME IInv, NEW c \in Clients, LockClear(c) PROVE IInv'
<1> DEFINE l == client[c].lock
<1>1. /\ client[c].pc = "clear" /\ l \in Locks
      /\ key' = [key EXCEPT ![l] = None]
      /\ client' = [client EXCEPT ![c] = [client[c] EXCEPT !.pc = "read", !.seen = None]]
      /\ robbed' = robbed \cup LeasedOn({l}) /\ UNCHANGED now
  BY DEF LockClear, IInv, LockTypeOK
<1>2. LockTypeOK'
  BY <1>1 DEF IInv, LockTypeOK, LeasedOn, None
<1>3. \A d \in Clients : d # c => client'[d] = client[d]
  BY <1>1 DEF IInv, LockTypeOK
<1>4. client'[c].pc = "read"
  BY <1>1 DEF IInv, LockTypeOK
<1>5. \A d \in Clients : key'[client[d].lock] = key[client[d].lock]
                         \/ client[d].lock = l
  BY <1>1 DEF IInv, LockTypeOK
<1>6. WritesOverExpired' /\ RobbedHold'
  BY <1>1, <1>3, <1>4 DEF IInv, WritesOverExpired, RobbedHold, LockTypeOK, LeasedOn, Leased
<1>7. LeaseIsStored' /\ MutualExclusion'
  BY <1>1, <1>3, <1>4, <1>5 DEF IInv, LeaseIsStored, MutualExclusion, LockTypeOK,
                                LeasedOn, Leased
<1>8. QED
  BY <1>2, <1>6, <1>7 DEF IInv

LEMMA RemoveLockIInv ==
  ASSUME IInv, NEW c \in Clients, RemoveLock(c) PROVE IInv'
<1> DEFINE l == client[c].lock
<1>1. /\ client[c].pc = "held" /\ l \in Locks
      /\ key' = [key EXCEPT ![l] = None]
      /\ client' = [client EXCEPT ![c] = Idle(l)]
      /\ robbed' = (robbed \cup LeasedOn({l})) \ {c} /\ UNCHANGED now
  BY DEF RemoveLock, IInv, LockTypeOK
<1>2. LockTypeOK'
  BY <1>1 DEF IInv, LockTypeOK, LeasedOn, None, Idle
<1>3. \A d \in Clients : d # c => client'[d] = client[d]
  BY <1>1 DEF IInv, LockTypeOK
<1>4. client'[c].pc = "idle"
  BY <1>1 DEF IInv, LockTypeOK, Idle
<1>5. \A d \in Clients : key'[client[d].lock] = key[client[d].lock]
                         \/ client[d].lock = l
  BY <1>1 DEF IInv, LockTypeOK
<1>6. WritesOverExpired' /\ RobbedHold'
  BY <1>1, <1>3, <1>4 DEF IInv, WritesOverExpired, RobbedHold, LockTypeOK, LeasedOn, Leased
<1>7. LeaseIsStored' /\ MutualExclusion'
  BY <1>1, <1>3, <1>4, <1>5 DEF IInv, LeaseIsStored, MutualExclusion, LockTypeOK,
                                LeasedOn, Leased
<1>8. QED
  BY <1>2, <1>6, <1>7 DEF IInv

LEMMA PurgeKeysIInv ==
  ASSUME IInv, NEW S \in SUBSET purge.keys, PurgeKeys(S) PROVE IInv'
<1>1. PICK T \in SUBSET Locks : T = S \cap Locks
  OBVIOUS
<1>2. LeasedOn(T) = LeasedOn(S)
  BY <1>1 DEF LeasedOn, IInv, LockTypeOK
<1>3. QED
  BY <1>1, <1>2, DeleteIInv DEF PurgeKeys

LEMMA RemoveLocksIInv == ASSUME IInv, RemoveLocks PROVE IInv'
BY DeleteIInv DEF RemoveLocks

\* The steps of Next that touch no lock.
Elsewhere ==
    \/ \E r \in Requests : RateStart(r) \/ CounterIncr(r) \/ CounterFails(r)
    \/ PurgeScan \/ PurgeFails
    \/ \E S \in SUBSET purge.ctrs : PurgeCounters(S)
    \/ ResetCounters \/ ResetMarks

LEMMA ElsewhereStutters == Elsewhere => UNCHANGED lockVars
BY DEF Elsewhere, RateStart, CounterIncr, CounterFails, PurgeScan, PurgeFails,
       PurgeCounters, ResetCounters, ResetMarks, lockVars

LEMMA NextIInv == IInv /\ [Next]_vars => IInv'
<1> SUFFICES ASSUME IInv, [Next]_vars PROVE IInv'
  OBVIOUS
<1>1. CASE UNCHANGED vars
  BY <1>1, StutterIInv DEF vars, lockVars
<1>2. CASE Elsewhere
  BY <1>2, ElsewhereStutters, StutterIInv
<1>3. CASE Tick
  BY <1>3, TickIInv
<1>4. CASE \E c \in Clients : ClientStep(c)
  BY <1>4, LockReadIInv, LockClearIInv, LockDecideIInv, LockWriteIInv, RemoveLockIInv,
     GiveUpIInv DEF ClientStep
<1>5. CASE \E S \in SUBSET purge.keys : PurgeKeys(S)
  BY <1>5, PurgeKeysIInv
<1>6. CASE RemoveLocks
  BY <1>6, RemoveLocksIInv
<1>7. QED
  BY <1>1, <1>2, <1>3, <1>4, <1>5, <1>6 DEF Next, Elsewhere

LEMMA AlwaysIInv == Spec => []IInv
<1>1. Init => IInv
  BY InitIInv
<1>2. IInv /\ [Next]_vars => IInv'
  BY NextIInv
<1>3. QED
  BY <1>1, <1>2, PTL DEF Spec

\* However many clients call try_lock, on however many locks, and however
\* long their leases: a lease that nobody deleted is the only one.
THEOREM LocksAreExclusive == Spec => []MutualExclusion
<1>1. IInv => MutualExclusion
  BY DEF IInv
<1>2. QED
  BY <1>1, AlwaysIInv, PTL

-----------------------------------------------------------------------------
(* The refinement.  LeasesInForce and LeasesBroken are the mapping.        *)

\* What a pair of the mapping says of its client.
LEMMA InForce ==
  /\ \A c, l : <<c, l>> \in LeasesInForce
                 <=> c \in Clients /\ Leased(c) /\ l = client[c].lock
  /\ \A c, l : <<c, l>> \in LeasesBroken
                 <=> c \in robbed /\ Leased(c) /\ l = client[c].lock
  /\ \A x \in LeasesInForce : x = <<x[1], x[2]>>
  /\ \A x \in LeasesBroken : x = <<x[1], x[2]>>
BY DEF LeasesInForce, LeasesBroken

LEMMA InForceNext ==
  /\ \A c, l : <<c, l>> \in LeasesInForce'
                 <=> c \in Clients /\ Leased(c)' /\ l = client'[c].lock
  /\ \A c, l : <<c, l>> \in LeasesBroken'
                 <=> c \in robbed' /\ Leased(c)' /\ l = client'[c].lock
  /\ \A x \in LeasesInForce' : x = <<x[1], x[2]>>
  /\ \A x \in LeasesBroken' : x = <<x[1], x[2]>>
BY DEF LeasesInForce, LeasesBroken

LEMMA SamePairs ==
  ASSUME NEW A, NEW B, \A x \in A : x = <<x[1], x[2]>>, \A x \in B : x = <<x[1], x[2]>>,
         \A c, l : <<c, l>> \in A <=> <<c, l>> \in B
  PROVE  A = B
<1>1. \A x \in A : x \in B
  OBVIOUS
<1>2. \A x \in B : x \in A
  OBVIOUS
<1>3. QED
  BY <1>1, <1>2

\* Leases end, their locks and the other leases stay.
LEMMA EndsAreLeave ==
  ASSUME IInv, robbed' \subseteq robbed,
         \A c \in Clients : Leased(c)' => Leased(c) /\ client'[c].lock = client[c].lock,
         \A c \in Clients : Leased(c)' /\ c \in robbed => c \in robbed'
  PROVE  Leases!Leave
<1>1. robbed \subseteq Clients
  BY DEF IInv, LockTypeOK
<1>2. LeasesInForce' \subseteq LeasesInForce
  BY InForce, InForceNext
<1>3. LeasesBroken' = LeasesBroken \cap LeasesInForce'
  BY <1>1, InForce, InForceNext
<1>4. QED
  BY <1>2, <1>3 DEF Leases!Leave

\* Locks are deleted: the leases on them that remain are robbed.
LEMMA DeletesAreBreak ==
  ASSUME IInv, NEW L \in SUBSET Locks, robbed' \subseteq robbed \cup LeasedOn(L),
         \A c \in Clients : Leased(c)' => Leased(c) /\ client'[c].lock = client[c].lock,
         \A c \in Clients : Leased(c)' /\ c \in robbed \cup LeasedOn(L) => c \in robbed'
  PROVE  Leases!Break(L)
<1>1. robbed \subseteq Clients
  BY DEF IInv, LockTypeOK
<1>2. LeasesInForce' \subseteq LeasesInForce
  BY InForce, InForceNext
<1>3. LeasesBroken' = (LeasesBroken \cap LeasesInForce')
                        \cup {x \in LeasesInForce' : x[2] \in L}
  <2>1. ASSUME NEW c, NEW l
        PROVE  <<c, l>> \in LeasesBroken'
                 <=> \/ <<c, l>> \in LeasesBroken /\ <<c, l>> \in LeasesInForce'
                     \/ <<c, l>> \in LeasesInForce' /\ l \in L
    BY <1>1, InForce, InForceNext DEF LeasedOn
  <2>2. QED
    BY <2>1, InForce, InForceNext
<1>4. QED
  BY <1>2, <1>3 DEF Leases!Break

LEMMA WriteIsGrant ==
  ASSUME IInv, NEW c \in Clients, LockWrite(c) PROVE [Leases!Next]_(Leases!vars)
<1>1. client[c].pc = "write" /\ UNCHANGED <<now, robbed>> /\ client[c].lock \in Locks
  BY DEF LockWrite, IInv, LockTypeOK
<1>2. \A d \in Clients : d # c => client'[d] = client[d]
  BY DEF LockWrite, IInv, LockTypeOK
<1>3. ~Leased(c) /\ c \notin robbed /\ robbed \subseteq Clients
  BY <1>1 DEF Leased, IInv, RobbedHold, LockTypeOK
<1>4. \A d \in Clients : d # c => (Leased(d)' <=> Leased(d))
  BY <1>1, <1>2 DEF Leased
<1>5. LeasesBroken' = LeasesBroken
  <2>1. ASSUME NEW d, NEW l PROVE <<d, l>> \in LeasesBroken' <=> <<d, l>> \in LeasesBroken
    BY <1>1, <1>2, <1>3, <1>4, InForce, InForceNext
  <2>2. QED
    BY <2>1, InForce, InForceNext, SamePairs
<1>6. CASE ~Leased(c)'
  <2>1. ASSUME NEW d, NEW l PROVE <<d, l>> \in LeasesInForce' <=> <<d, l>> \in LeasesInForce
    BY <1>2, <1>3, <1>4, <1>6, InForce, InForceNext
  <2>2. LeasesInForce' = LeasesInForce
    BY <2>1, InForce, InForceNext, SamePairs
  <2>3. QED
    BY <1>5, <2>2 DEF Leases!vars
<1>7. CASE Leased(c)'
  <2> DEFINE k == client[c].lock
  <2>1. key[k] = client[c].seen /\ client'[c].lock = k
    <3>1. CASE key[k] = client[c].seen
      <4>1. client' = [client EXCEPT ![c] = [client[c] EXCEPT !.pc = "held", !.seen = None]]
        BY <3>1 DEF LockWrite
      <4>2. QED
        BY <3>1, <4>1 DEF IInv, LockTypeOK
    <3>2. CASE key[k] # client[c].seen
      <4>1. client' = [client EXCEPT ![c] = Idle(k)]
        BY <3>2 DEF LockWrite
      <4>2. QED
        BY <1>7, <4>1 DEF Leased, Idle, IInv, LockTypeOK
    <3>3. QED
      BY <3>1, <3>2
  <2>2. \A d \in Clients : <<d, k>> \in LeasesInForce => <<d, k>> \in LeasesBroken
    BY <1>1, <2>1, WriteMeetsNoLease, InForce
  <2>3. LeasesInForce' = LeasesInForce \cup {<<c, k>>}
    <3>1. ASSUME NEW d, NEW l
          PROVE  <<d, l>> \in LeasesInForce'
                   <=> <<d, l>> \in LeasesInForce \/ <<d, l>> = <<c, k>>
      BY <1>2, <1>3, <1>4, <1>7, <2>1, InForce, InForceNext
    <3>2. QED
      BY <3>1, InForce, InForceNext
  <2>4. Leases!Grant(c, k)
    BY <1>5, <2>2, <2>3 DEF Leases!Grant
  <2>5. QED
    BY <1>1, <2>4 DEF Leases!Next
<1>8. QED
  BY <1>6, <1>7

LEMMA ClientStepMaps ==
  ASSUME IInv, NEW c \in Clients, ClientStep(c) PROVE [Leases!Next]_(Leases!vars)
<1> USE DEF Leases!Next
<1>1. CASE \E l \in Locks : LockRead(c, l)
  <2>1. Leases!Leave
    BY <1>1, EndsAreLeave DEF LockRead, Leased, IInv, LockTypeOK
  <2>2. QED
    BY <2>1
<1>2. CASE LockDecide(c)
  <2>1. client'[c].pc # "held" /\ robbed' = robbed /\ UNCHANGED now
    BY <1>2 DEF LockDecide, Idle, IInv, LockTypeOK
  <2>2. \A d \in Clients : d # c => client'[d] = client[d]
    BY <1>2 DEF LockDecide, IInv, LockTypeOK
  <2>3. Leases!Leave
    BY <2>1, <2>2, EndsAreLeave DEF Leased
  <2>4. QED
    BY <2>3
<1>3. CASE GiveUp(c)
  <2>1. client'[c].pc # "held" /\ robbed' = robbed \ {c} /\ UNCHANGED now
    BY <1>3 DEF GiveUp, Idle, IInv, LockTypeOK
  <2>2. \A d \in Clients : d # c => client'[d] = client[d]
    BY <1>3 DEF GiveUp, IInv, LockTypeOK
  <2>3. Leases!Leave
    BY <2>1, <2>2, EndsAreLeave DEF Leased
  <2>4. QED
    BY <2>3
<1>4. CASE LockWrite(c)
  BY <1>4, WriteIsGrant
<1>5. CASE LockClear(c)
  <2>1. /\ client'[c].pc # "held" /\ client[c].lock \in Locks /\ UNCHANGED now
        /\ robbed' = robbed \cup LeasedOn({client[c].lock})
    BY <1>5 DEF LockClear, IInv, LockTypeOK
  <2>2. \A d \in Clients : d # c => client'[d] = client[d]
    BY <1>5 DEF LockClear, IInv, LockTypeOK
  <2>3. Leases!Break({client[c].lock})
    BY <2>1, <2>2, DeletesAreBreak DEF Leased
  <2>4. QED
    BY <2>1, <2>3
<1>6. CASE RemoveLock(c)
  <2>1. /\ client'[c].pc # "held" /\ client[c].lock \in Locks /\ UNCHANGED now
        /\ robbed' = (robbed \cup LeasedOn({client[c].lock})) \ {c}
    BY <1>6 DEF RemoveLock, Idle, IInv, LockTypeOK
  <2>2. \A d \in Clients : d # c => client'[d] = client[d]
    BY <1>6 DEF RemoveLock, IInv, LockTypeOK
  <2>3. Leases!Break({client[c].lock})
    BY <2>1, <2>2, DeletesAreBreak DEF Leased
  <2>4. QED
    BY <2>1, <2>3
<1>7. QED
  BY <1>1, <1>2, <1>3, <1>4, <1>5, <1>6 DEF ClientStep

LEMMA StepMaps == IInv /\ [Next]_vars => [Leases!Next]_(Leases!vars)
<1> SUFFICES ASSUME IInv, [Next]_vars PROVE [Leases!Next]_(Leases!vars)
  OBVIOUS
<1>1. ASSUME UNCHANGED lockVars PROVE UNCHANGED Leases!vars
  BY <1>1 DEF lockVars, Leases!vars, LeasesInForce, LeasesBroken, Leased
<1>2. CASE UNCHANGED vars
  BY <1>1, <1>2 DEF vars, lockVars
<1>3. CASE Elsewhere
  BY <1>1, <1>3, ElsewhereStutters
<1>4. CASE Tick
  <2>1. now \in Nat /\ now' = now + 1 /\ UNCHANGED <<client, robbed>>
    BY <1>4 DEF Tick, IInv, LockTypeOK
  <2>2. \A c \in Clients : client[c].until \in Nat
    BY DEF IInv, LockTypeOK
  <2>3. \A c \in Clients : Leased(c)' => Leased(c)
    BY <2>1, <2>2 DEF Leased
  <2>4. Leases!Leave
    BY <2>1, <2>3, EndsAreLeave
  <2>5. QED
    BY <2>4 DEF Leases!Next
<1>5. CASE \E c \in Clients : ClientStep(c)
  BY <1>5, ClientStepMaps
<1>6. CASE \E S \in SUBSET purge.keys : PurgeKeys(S)
  <2>1. PICK S : PurgeKeys(S)
    BY <1>6
  <2>2. LeasedOn(S \cap Locks) = LeasedOn(S)
    BY DEF LeasedOn, IInv, LockTypeOK
  <2>3. UNCHANGED <<now, client>> /\ robbed' = robbed \cup LeasedOn(S \cap Locks)
    BY <2>1, <2>2 DEF PurgeKeys
  <2>4. Leases!Break(S \cap Locks)
    BY <2>3, DeletesAreBreak DEF Leased
  <2>5. QED
    BY <2>4 DEF Leases!Next
<1>7. CASE RemoveLocks
  <2>1. UNCHANGED <<now, client>> /\ robbed' = robbed \cup LeasedOn(Locks)
    BY <1>7 DEF RemoveLocks
  <2>2. Leases!Break(Locks)
    BY <2>1, DeletesAreBreak DEF Leased
  <2>3. QED
    BY <2>2 DEF Leases!Next
<1>8. QED
  BY <1>2, <1>3, <1>4, <1>5, <1>6, <1>7 DEF Next, Elsewhere

\* The locks kept in the data store implement the service that the queue and
\* the task manager rely on, for any clients, locks and durations.
THEOREM StoreImplementsLeases == Spec => ImplementsLeases
<1>1. Init => Leases!Init
  BY DEF Init, Leases!Init, LeasesInForce, LeasesBroken, Leased, Idle
<1>2. IInv /\ [Next]_vars => [Leases!Next]_(Leases!vars)
  BY StepMaps
<1>3. QED
  BY <1>1, <1>2, AlwaysIInv, PTL DEF Spec, ImplementsLeases, Leases!Spec
-----------------------------------------------------------------------------
(* Rate limits.  RateIsKept is not inductive: the counter of the current   *)
(* window must not be deleted.  The purge finds a counter by its entry,    *)
(* which does not expire before the window ends (MarkOutlivesWindow),      *)
(* because a request reads the clock before it is counted.                 *)

LEMMA DivFacts ==
  ASSUME NEW n \in Nat, NEW p \in Nat \ {0}
  PROVE  n \div p \in Nat /\ n % p \in 0..(p - 1) /\ n = p * (n \div p) + (n % p)
OBVIOUS

LEMMA MulStep ==
  ASSUME NEW a \in Nat, NEW b \in Nat, NEW p \in Nat \ {0}, a < b
  PROVE  a * p + p <= b * p
OBVIOUS

\* A window is the numbers with one quotient.
LEMMA WindowIsQuotient ==
  ASSUME NEW n \in Nat, NEW w \in Nat, w * Period <= n, n < WindowEnd(w)
  PROVE  WindowOf(n) = w
BY DivFacts, MulStep, DurationsAssumption DEF WindowOf, WindowEnd

LEMMA WindowBounds ==
  ASSUME NEW n \in Nat
  PROVE  /\ WindowOf(n) \in Nat /\ WindowOf(n) * Period \in Nat
         /\ WindowOf(n) * Period <= n /\ n < WindowEnd(WindowOf(n))
         /\ n % Period # 0 => WindowOf(n) * Period < n
BY DivFacts, DurationsAssumption DEF WindowOf, WindowEnd

\* The windows of the model are those of the times it reaches.
LEMMA WindowInRange ==
  ASSUME NEW n \in Nat, n <= MaxNow PROVE WindowOf(n) \in Windows
BY DivFacts, MulStep, DurationsAssumption DEF WindowOf, Windows

LEMMA WindowEndNat ==
  ASSUME NEW w \in Nat PROVE WindowEnd(w) \in Nat \ {0}
<1>1. w * Period \in Nat
  BY DurationsAssumption
<1>2. QED
  BY <1>1, DurationsAssumption DEF WindowEnd

\* The window changes only when the clock reaches a multiple of the period.
LEMMA SameWindow ==
  ASSUME NEW n \in Nat, (n + 1) % Period # 0
  PROVE  WindowOf(n + 1) = WindowOf(n)
<1> DEFINE w == WindowOf(n + 1)
<1>1. /\ w \in Nat /\ w * Period \in Nat /\ w * Period < n + 1 /\ n + 1 < WindowEnd(w)
  BY WindowBounds
<1>2. WindowEnd(w) \in Nat
  BY <1>1, WindowEndNat
<1> HIDE DEF w
<1>3. w * Period <= n /\ n < WindowEnd(w)
  BY <1>1, <1>2
<1>4. WindowOf(n) = w
  BY <1>1, <1>3, WindowIsQuotient
<1>5. QED
  BY <1>4 DEF w

RateTypeOK ==
    /\ now \in Nat /\ now <= MaxNow
    /\ ctr \in [Windows -> Nat] /\ mark \in [Windows -> Nat]
    /\ request \in [Requests -> Nat]
    /\ purge.ctrs \in SUBSET Windows
    /\ reset \in BOOLEAN /\ torn \in SUBSET Windows
    /\ granted \in Nat

RequestInPast == \A r \in Requests : request[r] <= now
MarkOutlivesWindow == \A w \in Windows : mark[w] # None => WindowEnd(w) <= mark[w]
PurgesPastWindows == \A w \in purge.ctrs : WindowEnd(w) <= now
GrantsAreCounted == granted <= ctr[WindowOf(now)]
ResetIsClean == reset => \A w \in Windows \ torn : ctr[w] = 0

RateInv ==
    /\ RateTypeOK
    /\ RequestInPast /\ MarkOutlivesWindow /\ PurgesPastWindows
    /\ GrantsAreCounted /\ ResetIsClean
    /\ RateIsKept /\ CountersArePurgeable

rateVars == <<now, ctr, mark, request, purge, reset, torn, granted>>

LEMMA WindowsNat == \A w \in Windows : w \in Nat /\ WindowEnd(w) \in Nat \ {0}
<1>1. \A w \in Windows : w \in Nat
  BY DEF Windows
<1>2. QED
  BY <1>1, WindowEndNat

LEMMA InitRateInv == Init => RateInv
<1> SUFFICES ASSUME Init PROVE RateInv
  OBVIOUS
<1>1. RateTypeOK
  <2>1. /\ ctr \in [Windows -> Nat] /\ mark \in [Windows -> Nat]
        /\ request \in [Requests -> Nat]
    BY DEF Init, None
  <2>2. now \in Nat /\ now <= MaxNow /\ granted \in Nat
    BY DurationsAssumption DEF Init
  <2>3. purge.ctrs \in SUBSET Windows /\ reset \in BOOLEAN /\ torn \in SUBSET Windows
    BY DEF Init, NoPurge
  <2>4. QED
    BY <2>1, <2>2, <2>3 DEF RateTypeOK
<1>2. RequestInPast /\ MarkOutlivesWindow /\ PurgesPastWindows /\ ResetIsClean
  BY DEF Init, RequestInPast, MarkOutlivesWindow, PurgesPastWindows, ResetIsClean, None, NoPurge
<1>3. GrantsAreCounted
  <2>1. WindowOf(now) \in Windows
    BY <1>1, WindowInRange DEF RateTypeOK
  <2>2. QED
    BY <2>1 DEF Init, GrantsAreCounted
<1>4. RateIsKept /\ CountersArePurgeable
  BY DurationsAssumption DEF Init, RateIsKept, CountersArePurgeable
<1>5. QED
  BY <1>1, <1>2, <1>3, <1>4 DEF RateInv

LEMMA StutterRateInv == ASSUME RateInv, UNCHANGED rateVars PROVE RateInv'
BY DEF RateInv, RateTypeOK, RequestInPast, MarkOutlivesWindow, PurgesPastWindows,
       GrantsAreCounted, ResetIsClean, RateIsKept, CountersArePurgeable, rateVars

LEMMA TickRateInv == ASSUME RateInv, Tick PROVE RateInv'
<1>1. /\ now \in Nat /\ now' = now + 1 /\ now' <= MaxNow
      /\ granted' = IF (now + 1) % Period = 0 THEN 0 ELSE granted
      /\ UNCHANGED <<ctr, mark, request, purge, reset, torn>>
  BY DurationsAssumption DEF Tick, RateInv, RateTypeOK
<1>2. RateTypeOK' /\ RateIsKept'
  BY <1>1, DurationsAssumption DEF RateInv, RateTypeOK, RateIsKept
<1>3. RequestInPast'
  BY <1>1 DEF RateInv, RateTypeOK, RequestInPast
<1>4. PurgesPastWindows'
  BY <1>1, WindowsNat DEF RateInv, RateTypeOK, PurgesPastWindows
<1>5. GrantsAreCounted'
  <2>1. WindowOf(now') \in Windows
    BY <1>1, WindowInRange
  <2>2. CASE (now + 1) % Period = 0
    BY <1>1, <2>1, <2>2 DEF GrantsAreCounted, RateInv, RateTypeOK
  <2>3. CASE (now + 1) % Period # 0
    BY <1>1, <2>3, SameWindow DEF GrantsAreCounted, RateInv
  <2>4. QED
    BY <2>2, <2>3
<1>6. MarkOutlivesWindow' /\ ResetIsClean' /\ CountersArePurgeable'
  BY <1>1 DEF RateInv, MarkOutlivesWindow, ResetIsClean, CountersArePurgeable
<1>7. QED
  BY <1>2, <1>3, <1>4, <1>5, <1>6 DEF RateInv

LEMMA RateStartRateInv ==
  ASSUME RateInv, NEW r \in Requests, RateStart(r) \/ CounterFails(r) PROVE RateInv'
<1>1. /\ request' = [request EXCEPT ![r] = now] \/ request' = [request EXCEPT ![r] = None]
      /\ UNCHANGED <<now, ctr, mark, purge, reset, torn, granted>>
  BY DEF RateStart, CounterFails
<1>2. RateTypeOK' /\ RequestInPast'
  BY <1>1 DEF RateInv, RateTypeOK, RequestInPast, None
<1>3. QED
  BY <1>1, <1>2 DEF RateInv, MarkOutlivesWindow, PurgesPastWindows, GrantsAreCounted,
                    ResetIsClean, RateIsKept, CountersArePurgeable

LEMMA CounterIncrRateInv ==
  ASSUME RateInv, NEW r \in Requests, CounterIncr(r) PROVE RateInv'
<1> DEFINE w == WindowOf(request[r])
           m == now + WindowEnd(w) - request[r]
<1>1. /\ request[r] \in Nat /\ now \in Nat /\ request[r] <= now /\ now <= MaxNow
      /\ granted \in Nat /\ ctr[w] \in Nat
  <2>1. request[r] \in Nat /\ now \in Nat /\ request[r] <= now /\ now <= MaxNow /\ granted \in Nat
    BY DEF RateInv, RateTypeOK, RequestInPast
  <2>2. w \in Windows
    BY <2>1, WindowInRange, DurationsAssumption
  <2>3. QED
    BY <2>1, <2>2 DEF RateInv, RateTypeOK
<1>2. w \in Windows /\ w \in Nat /\ w * Period <= request[r]
  BY <1>1, WindowInRange, WindowBounds, DurationsAssumption
<1>3. WindowEnd(w) \in Nat \ {0}
  BY <1>2, WindowEndNat
<1>4. m \in Nat \ {0} /\ WindowEnd(w) <= m
  BY <1>1, <1>3
<1>5. /\ ctr' = [ctr EXCEPT ![w] = @ + 1]
      /\ mark' = [mark EXCEPT ![w] = m]
      /\ granted' = IF ctr'[w] <= RateCount /\ now < WindowEnd(w) THEN granted + 1 ELSE granted
      /\ torn' = IF reset THEN torn \cup {w} ELSE torn
      /\ request' = [request EXCEPT ![r] = None]
      /\ UNCHANGED <<now, purge, reset>>
  BY DEF CounterIncr
<1>6. now < WindowEnd(w) => WindowOf(now) = w
  <2>1. w * Period <= now
    BY <1>1, <1>2, DurationsAssumption
  <2>2. QED
    BY <1>1, <1>2, <2>1, WindowIsQuotient
<1>7. WindowOf(now) \in Windows
  BY <1>1, WindowInRange
<1> HIDE DEF w, m
<1>8. ctr' \in [Windows -> Nat] /\ ctr'[w] = ctr[w] + 1
  BY <1>1, <1>2, <1>5 DEF RateInv, RateTypeOK
<1>9. RateTypeOK'
  BY <1>1, <1>2, <1>4, <1>5, <1>8 DEF RateInv, RateTypeOK, None
<1>10. RequestInPast' /\ PurgesPastWindows'
  BY <1>1, <1>5 DEF RateInv, RateTypeOK, RequestInPast, PurgesPastWindows, None
<1>11. MarkOutlivesWindow'
  BY <1>2, <1>4, <1>5 DEF RateInv, RateTypeOK, MarkOutlivesWindow, None
<1>12. GrantsAreCounted' /\ RateIsKept'
  <2>1. granted <= ctr[WindowOf(now)] /\ granted <= RateCount
    BY DEF RateInv, GrantsAreCounted, RateIsKept
  <2>2. CASE ctr'[w] <= RateCount /\ now < WindowEnd(w)
    BY <1>1, <1>5, <1>6, <1>8, <2>1, <2>2, DurationsAssumption DEF GrantsAreCounted, RateIsKept
  <2>3. CASE ~(ctr'[w] <= RateCount /\ now < WindowEnd(w))
    <3>1. ctr[WindowOf(now)] <= ctr'[WindowOf(now)]
      <4>1. ctr'[WindowOf(now)] = IF WindowOf(now) = w THEN ctr[WindowOf(now)] + 1
                                                       ELSE ctr[WindowOf(now)]
        BY <1>5, <1>7 DEF RateInv, RateTypeOK
      <4>2. ctr[WindowOf(now)] \in Nat
        BY <1>7 DEF RateInv, RateTypeOK
      <4>3. QED
        BY <4>1, <4>2
    <3>2. ctr[WindowOf(now)] \in Nat /\ ctr'[WindowOf(now)] \in Nat
      BY <1>7, <1>8 DEF RateInv, RateTypeOK
    <3>3. QED
      BY <1>1, <1>5, <2>1, <2>3, <3>1, <3>2 DEF GrantsAreCounted, RateIsKept
  <2>4. QED
    BY <2>2, <2>3
<1>13. ResetIsClean'
  BY <1>2, <1>5 DEF RateInv, RateTypeOK, ResetIsClean
<1>14. CountersArePurgeable'
  BY <1>2, <1>4, <1>5 DEF RateInv, RateTypeOK, CountersArePurgeable, None
<1>15. QED
  BY <1>9, <1>10, <1>11, <1>12, <1>13, <1>14 DEF RateInv

LEMMA PurgeScanRateInv == ASSUME RateInv, PurgeScan PROVE RateInv'
<1>1. /\ purge'.ctrs = {w \in Windows : Expired(mark[w])}
      /\ UNCHANGED <<now, ctr, mark, request, reset, torn, granted>>
  BY DEF PurgeScan
<1>2. RateTypeOK'
  BY <1>1 DEF RateInv, RateTypeOK
<1>3. PurgesPastWindows'
  <2>1. SUFFICES ASSUME NEW w \in Windows, mark[w] # None, mark[w] <= now
                 PROVE  WindowEnd(w) <= now
    BY <1>1 DEF PurgesPastWindows, Expired
  <2>2. mark[w] \in Nat /\ now \in Nat /\ WindowEnd(w) \in Nat /\ WindowEnd(w) <= mark[w]
    BY <2>1, WindowsNat DEF RateInv, RateTypeOK, MarkOutlivesWindow
  <2>3. QED
    BY <2>1, <2>2
<1>4. QED
  BY <1>1, <1>2, <1>3 DEF RateInv, RequestInPast, MarkOutlivesWindow, GrantsAreCounted,
                          ResetIsClean, RateIsKept, CountersArePurgeable

\* A step that takes the purge further, or ends it, without clearing counters.
LEMMA PurgeRestRateInv ==
  ASSUME RateInv, purge'.ctrs \in SUBSET purge.ctrs,
         UNCHANGED <<now, ctr, mark, request, reset, torn, granted>>
  PROVE  RateInv'
BY DEF RateInv, RateTypeOK, RequestInPast, MarkOutlivesWindow, PurgesPastWindows,
       GrantsAreCounted, ResetIsClean, RateIsKept, CountersArePurgeable

LEMMA PurgeCountersRateInv ==
  ASSUME RateInv, NEW S, PurgeCounters(S) PROVE RateInv'
<1>1. /\ ctr' = [w \in Windows |-> IF w \in S THEN 0 ELSE ctr[w]]
      /\ mark' = [w \in Windows |-> IF w \in S THEN None ELSE mark[w]]
      /\ S \in SUBSET purge.ctrs /\ purge'.ctrs \in SUBSET purge.ctrs
      /\ UNCHANGED <<now, request, reset, torn, granted>>
  <2>1. purge'.ctrs \in SUBSET purge.ctrs
    BY DEF PurgeCounters, RateInv, RateTypeOK
  <2>2. QED
    BY <2>1 DEF PurgeCounters
<1>2. RateTypeOK'
  BY <1>1 DEF RateInv, RateTypeOK, None
<1>3. MarkOutlivesWindow' /\ PurgesPastWindows' /\ RequestInPast' /\ RateIsKept'
  BY <1>1 DEF RateInv, RateTypeOK, MarkOutlivesWindow, PurgesPastWindows, RequestInPast, RateIsKept
<1>4. GrantsAreCounted'
  <2>1. now \in Nat /\ WindowOf(now) \in Windows
    BY WindowInRange DEF RateInv, RateTypeOK
  <2>2. WindowEnd(WindowOf(now)) \in Nat /\ now < WindowEnd(WindowOf(now))
    BY <2>1, WindowsNat, WindowBounds
  <2>3. WindowOf(now) \notin S
    BY <1>1, <2>1, <2>2 DEF RateInv, PurgesPastWindows
  <2>4. QED
    BY <1>1, <2>1, <2>3 DEF RateInv, GrantsAreCounted
<1>5. ResetIsClean' /\ CountersArePurgeable'
  BY <1>1 DEF RateInv, RateTypeOK, ResetIsClean, CountersArePurgeable
<1>6. QED
  BY <1>2, <1>3, <1>4, <1>5 DEF RateInv

LEMMA ResetRateInv == ASSUME RateInv, ResetCounters \/ ResetMarks PROVE RateInv'
<1>1. WindowOf(now) \in Windows
  BY WindowInRange DEF RateInv, RateTypeOK
<1>2. CASE ResetCounters
  BY <1>1, <1>2, DurationsAssumption
     DEF ResetCounters, RateInv, RateTypeOK, RequestInPast, MarkOutlivesWindow, PurgesPastWindows,
         GrantsAreCounted, ResetIsClean, RateIsKept, CountersArePurgeable
<1>3. CASE ResetMarks
  <2>1. /\ reset /\ reset' = FALSE /\ mark' = [w \in Windows |-> None]
        /\ UNCHANGED <<now, ctr, request, purge, torn, granted>>
    BY <1>3 DEF ResetMarks
  <2>2. RateTypeOK' /\ MarkOutlivesWindow'
    <3>1. mark' \in [Windows -> Nat]
      BY <2>1 DEF None
    <3>2. reset' \in BOOLEAN
      BY <2>1
    <3>3. QED
      BY <2>1, <3>1, <3>2 DEF RateInv, RateTypeOK, MarkOutlivesWindow
  <2>3. CountersArePurgeable'
    BY <2>1 DEF RateInv, ResetIsClean, CountersArePurgeable
  <2>4. QED
    BY <2>1, <2>2, <2>3 DEF RateInv, RequestInPast, PurgesPastWindows, GrantsAreCounted,
                            ResetIsClean, RateIsKept
<1>4. QED
  BY <1>2, <1>3

LEMMA NextRateInv == ASSUME RateInv, [Next]_vars PROVE RateInv'
<1>1. CASE UNCHANGED vars
  BY <1>1, StutterRateInv DEF vars, rateVars
<1>2. ASSUME NEW c \in Clients, ClientStep(c) PROVE RateInv'
  BY <1>2, StutterRateInv DEF ClientStep, LockRead, LockClear, LockDecide, LockWrite,
                              RemoveLock, GiveUp, rateVars
<1>3. ASSUME NEW S, PurgeKeys(S) PROVE RateInv'
  <2>1. purge'.ctrs = purge.ctrs
    BY <1>3 DEF PurgeKeys, RateInv, RateTypeOK
  <2>2. QED
    BY <1>3, <2>1, PurgeRestRateInv DEF PurgeKeys
<1>4. CASE PurgeFails
  BY <1>4, PurgeRestRateInv DEF PurgeFails, NoPurge
<1>5. CASE RemoveLocks
  BY <1>5, StutterRateInv DEF RemoveLocks, rateVars
<1>6. QED
  BY <1>1, <1>2, <1>3, <1>4, <1>5, TickRateInv, RateStartRateInv, CounterIncrRateInv,
     PurgeScanRateInv, PurgeCountersRateInv, ResetRateInv DEF Next

LEMMA AlwaysRateInv == Spec => []RateInv
BY InitRateInv, NextRateInv, PTL DEF Spec

\* is_rate_allowed never grants more than Rate::count in a window, for any rate
\* and period: the purge cannot delete the counter of a window that lasts.
THEOREM RatesAreKept == Spec => []RateIsKept
<1>1. RateInv => RateIsKept
  BY DEF RateInv
<1>2. QED
  BY <1>1, AlwaysRateInv, PTL

\* Every counter can be purged, but those counted in the middle of a reset.
THEOREM CountersCanBePurged == Spec => []CountersArePurgeable
<1>1. RateInv => CountersArePurgeable
  BY DEF RateInv
<1>2. QED
  BY <1>1, AlwaysRateInv, PTL
=============================================================================
