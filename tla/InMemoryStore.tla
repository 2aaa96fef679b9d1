--------------------------- MODULE InMemoryStore ---------------------------
(***************************************************************************)
(* The key-value store with expiry of crates/store/src/dispatch/lookup.rs, *)
(* kept in the data store: locks (try_lock, remove_lock), the counters of  *)
(* rate limits (is_rate_allowed, counter_incr), the purge of what has      *)
(* expired, and the administrator's deletion of a whole prefix             *)
(* (key_delete_prefix).                                                    *)
(*                                                                         *)
(* Every batch is atomic.  Everything else interleaves: a lock is read and *)
(* written in two steps, a request computes its window before it is        *)
(* counted, the purge deletes later what it saw expired, and a prefix is   *)
(* deleted in two ranges.                                                  *)
(***************************************************************************)
EXTENDS Integers, FiniteSets

CONSTANTS
    Clients,       \* tasks, of any node, that use locks
    Requests,      \* requests, on any node, of one rate limited client
    Locks,         \* lock keys
    LockDuration,  \* try_lock's duration
    Period,        \* Rate::period, in seconds
    RateCount,     \* Rate::count
    MaxNow         \* bound: the clock stops here

ASSUME DurationsAssumption ==
    /\ LockDuration \in Nat \ {0} /\ Period \in Nat \ {0} /\ RateCount \in Nat
    /\ MaxNow \in Nat \ {0}

Windows == 0..(MaxNow \div Period)
MaxCounted == RateCount + 1   \* bound: requests counted per window

None == 0        \* no entry; an expiry is never zero
OldFormat == -1  \* an entry that is not a lock: "TODO remove in 1.0"

VARIABLES
    now,       \* the clock of the cluster
    key,       \* InMemoryClass::Key entries: the expiry in their value
    ctr,       \* InMemoryClass::Counter of one rate limited key, per window
    mark,      \* its InMemoryClass::Key entries <0, expiry>: the expiry
    client,    \* try_lock calls and leases
    request,   \* requests: when is_rate_allowed read the clock, until it counts
    purge,     \* purge_in_memory_store: expired_keys and expired_counters
    reset,     \* a ResetRateLimiters task between its two ranges
    robbed,    \* history: clients whose lock was deleted under their lease
    torn,      \* history: windows counted in the middle of a reset
    granted    \* history: requests granted in the window that lasts

vars == <<now, key, ctr, mark, client, request, purge, reset, robbed, torn,
          granted>>

Idle(l) == [pc |-> "idle", lock |-> l, seen |-> None, until |-> 0]
NoPurge == [keys |-> {}, ctrs |-> {}]

Init ==
    /\ now = 1
    /\ key \in [Locks -> {None, OldFormat}]
    /\ ctr = [w \in Windows |-> 0]
    /\ mark = [w \in Windows |-> None]
    /\ \E l \in Locks : client = [c \in Clients |-> Idle(l)]
    /\ request = [r \in Requests |-> None]
    /\ purge = NoPurge
    /\ reset = FALSE
    /\ robbed = {} /\ torn = {}
    /\ granted = 0

Tick ==
    /\ now < MaxNow
    /\ now' = now + 1
    /\ granted' = IF (now + 1) % Period = 0 THEN 0 ELSE granted
    /\ UNCHANGED <<key, ctr, mark, client, request, purge, reset, robbed, torn>>

\* A lease: what a caller of try_lock that got TRUE believes to have.
Leased(c) == client[c].pc = "held" /\ now < client[c].until
LeasedOn(L) == {c \in Clients : Leased(c) /\ client[c].lock \in L}

-----------------------------------------------------------------------------
(* Locks.                                                                  *)

\* try_lock reads the entry; one that is not eight bytes is data corruption.
LockRead(c, l) ==
    /\ client[c].pc = "idle"
    /\ client' = [client EXCEPT ![c] =
          [pc |-> IF key[l] = OldFormat THEN "clear" ELSE "read",
           lock |-> l, seen |-> key[l], until |-> 0]]
    /\ UNCHANGED <<now, key, ctr, mark, request, purge, reset, robbed, torn,
                   granted>>

\* The corrupted entry is cleared, whatever is there by now.
LockClear(c) ==
    LET l == client[c].lock
    IN  /\ client[c].pc = "clear"
        /\ key' = [key EXCEPT ![l] = None]
        /\ robbed' = robbed \cup LeasedOn({l})
        /\ client' = [client EXCEPT ![c] = [@ EXCEPT !.pc = "read", !.seen = None]]
        /\ UNCHANGED <<now, ctr, mark, request, purge, reset, torn, granted>>

\* Mutant: a lock that expires in the future is taken for free.
LockDecide_Ignores(c) ==
    /\ client[c].pc = "read"
    /\ client' = [client EXCEPT ![c] =
                    [@ EXCEPT !.pc = "write", !.until = now + LockDuration]]
    /\ UNCHANGED <<now, key, ctr, mark, request, purge, reset, robbed, torn,
                   granted>>

\* The expiry read is compared with the clock.
LockDecide(c) ==
    /\ client[c].pc = "read"
    /\ client' = [client EXCEPT ![c] =
          IF @.seen > now THEN Idle(@.lock)
                          ELSE [@ EXCEPT !.pc = "write", !.until = now + LockDuration]]
    /\ UNCHANGED <<now, key, ctr, mark, request, purge, reset, robbed, torn,
                   granted>>

\* Mutant: the entry is set without asserting the value read.
LockWrite_NoAssert(c) ==
    /\ client[c].pc = "write"
    /\ key' = [key EXCEPT ![client[c].lock] = client[c].until]
    /\ client' = [client EXCEPT ![c] = [@ EXCEPT !.pc = "held", !.seen = None]]
    /\ UNCHANGED <<now, ctr, mark, request, purge, reset, robbed, torn, granted>>

\* assert_value and set, in one batch.
LockWrite(c) ==
    LET l == client[c].lock
    IN  /\ client[c].pc = "write"
        /\ \/ /\ key[l] = client[c].seen
              /\ key' = [key EXCEPT ![l] = client[c].until]
              /\ client' = [client EXCEPT ![c] = [@ EXCEPT !.pc = "held", !.seen = None]]
           \/ /\ key[l] # client[c].seen
              /\ client' = [client EXCEPT ![c] = Idle(l)]
              /\ UNCHANGED key
        /\ UNCHANGED <<now, ctr, mark, request, purge, reset, robbed, torn,
                       granted>>

\* remove_lock deletes the entry, whoever it belongs to.
RemoveLock(c) ==
    LET l == client[c].lock
    IN  /\ client[c].pc = "held"
        /\ key' = [key EXCEPT ![l] = None]
        /\ robbed' = (robbed \cup LeasedOn({l})) \ {c}
        /\ client' = [client EXCEPT ![c] = Idle(l)]
        /\ UNCHANGED <<now, ctr, mark, request, purge, reset, torn, granted>>

\* A store error ends the call, a crash the client; what is stored stays.
GiveUp(c) ==
    /\ client[c].pc # "idle"
    /\ client' = [client EXCEPT ![c] = Idle(@.lock)]
    /\ robbed' = robbed \ {c}
    /\ UNCHANGED <<now, key, ctr, mark, request, purge, reset, torn, granted>>

-----------------------------------------------------------------------------
(* Rate limits.  A soft check reads the counter and changes nothing.       *)

WindowOf(t) == t \div Period
WindowEnd(w) == w * Period + Period

\* is_rate_allowed computes the bucket and what is left of it from the clock,
RateStart(r) ==
    /\ request[r] = None
    /\ request' = [request EXCEPT ![r] = now]
    /\ UNCHANGED <<now, key, ctr, mark, client, purge, reset, robbed, torn,
                   granted>>

\* Mutant: the entry expires when the window starts.
CounterIncr_Early(r) ==
    LET w == WindowOf(request[r])
    IN  /\ request[r] # None /\ ctr[w] < MaxCounted
        /\ ctr' = [ctr EXCEPT ![w] = @ + 1]
        /\ mark' = [mark EXCEPT ![w] = w * Period + 1]
        /\ granted' = IF ctr'[w] <= RateCount /\ now < WindowEnd(w) THEN granted + 1 ELSE granted
        /\ torn' = IF reset THEN torn \cup {w} ELSE torn
        /\ request' = [request EXCEPT ![r] = None]
        /\ UNCHANGED <<now, key, client, purge, reset, robbed>>

\* and counter_incr counts in it: the entry, which expires that much after a
\* second look at the clock, and AddAndGet, in one batch.
CounterIncr(r) ==
    LET w == WindowOf(request[r])
    IN  /\ request[r] # None /\ ctr[w] < MaxCounted
        /\ ctr' = [ctr EXCEPT ![w] = @ + 1]
        /\ mark' = [mark EXCEPT ![w] = now + WindowEnd(w) - request[r]]
        /\ granted' = IF ctr'[w] <= RateCount /\ now < WindowEnd(w) THEN granted + 1 ELSE granted
        /\ torn' = IF reset THEN torn \cup {w} ELSE torn
        /\ request' = [request EXCEPT ![r] = None]
        /\ UNCHANGED <<now, key, client, purge, reset, robbed>>

\* The store fails; the caller gets the error.
CounterFails(r) ==
    /\ request[r] # None
    /\ request' = [request EXCEPT ![r] = None]
    /\ UNCHANGED <<now, key, ctr, mark, client, purge, reset, robbed, torn, granted>>

-----------------------------------------------------------------------------
(* The purge and the administrator.                                        *)

Expired(expiry) == expiry # None /\ expiry <= now

\* The iteration collects what has expired.
PurgeScan ==
    /\ purge = NoPurge
    /\ purge' = [keys |-> {l \in Locks : Expired(key[l])},
                 ctrs |-> {w \in Windows : Expired(mark[w])}]
    /\ UNCHANGED <<now, key, ctr, mark, client, request, reset, robbed, torn,
                   granted>>

\* Then the keys are cleared, in one or several batches,
PurgeKeys(S) ==
    /\ purge.keys # {} /\ S \in SUBSET purge.keys \ {{}}
    /\ key' = [l \in Locks |-> IF l \in S THEN None ELSE key[l]]
    /\ robbed' = robbed \cup LeasedOn(S)
    /\ purge' = [purge EXCEPT !.keys = @ \ S]
    /\ UNCHANGED <<now, ctr, mark, client, request, reset, torn, granted>>

\* Mutant: the counters are left.
PurgeCounters_MarksOnly(S) ==
    /\ purge.keys = {} /\ purge.ctrs # {} /\ S \in SUBSET purge.ctrs \ {{}}
    /\ mark' = [w \in Windows |-> IF w \in S THEN None ELSE mark[w]]
    /\ purge' = [purge EXCEPT !.ctrs = @ \ S]
    /\ UNCHANGED <<now, key, ctr, client, request, reset, robbed, torn, granted>>

\* and the counters with their entries.
PurgeCounters(S) ==
    /\ purge.keys = {} /\ purge.ctrs # {} /\ S \in SUBSET purge.ctrs \ {{}}
    /\ ctr' = [w \in Windows |-> IF w \in S THEN 0 ELSE ctr[w]]
    /\ mark' = [w \in Windows |-> IF w \in S THEN None ELSE mark[w]]
    /\ purge' = [purge EXCEPT !.ctrs = @ \ S]
    /\ UNCHANGED <<now, key, client, request, reset, robbed, torn, granted>>

\* A store error, or a crash, ends the purge.
PurgeFails ==
    /\ purge # NoPurge
    /\ purge' = NoPurge
    /\ UNCHANGED <<now, key, ctr, mark, client, request, reset, robbed, torn,
                   granted>>

\* key_delete_prefix on a prefix of locks (RemoveLockTask and others).
RemoveLocks ==
    /\ key' = [l \in Locks |-> None]
    /\ robbed' = robbed \cup LeasedOn(Locks)
    /\ UNCHANGED <<now, ctr, mark, client, request, purge, reset, torn,
                   granted>>

\* key_delete_prefix on rate limits: the counters first, then their entries.
ResetCounters ==
    /\ ~reset
    /\ reset' = TRUE
    /\ ctr' = [w \in Windows |-> 0]
    /\ granted' = 0
    /\ UNCHANGED <<now, key, mark, client, request, purge, robbed, torn>>
ResetMarks ==
    /\ reset
    /\ reset' = FALSE
    /\ mark' = [w \in Windows |-> None]
    /\ UNCHANGED <<now, key, ctr, client, request, purge, robbed, torn, granted>>

-----------------------------------------------------------------------------
ClientStep(c) ==
    \/ \E l \in Locks : LockRead(c, l)
    \/ LockClear(c) \/ LockDecide(c) \/ LockWrite(c)
    \/ RemoveLock(c) \/ GiveUp(c)

Next ==
    \/ Tick
    \/ \E c \in Clients : ClientStep(c)
    \/ \E r \in Requests : RateStart(r) \/ CounterIncr(r) \/ CounterFails(r)
    \/ PurgeScan
    \/ \E S \in SUBSET purge.keys : PurgeKeys(S)
    \/ \E S \in SUBSET purge.ctrs : PurgeCounters(S)
    \/ PurgeFails
    \/ RemoveLocks
    \/ ResetCounters \/ ResetMarks

Spec == Init /\ [][Next]_vars

-----------------------------------------------------------------------------
(* Properties.                                                             *)

TypeOK ==
    /\ now \in Nat
    /\ key \in [Locks -> Nat \cup {OldFormat}]
    /\ ctr \in [Windows -> Nat] /\ mark \in [Windows -> Nat]
    /\ client \in [Clients -> [pc : {"idle", "clear", "read", "write", "held"},
                               lock : Locks, seen : Nat \cup {OldFormat},
                               until : Nat]]
    /\ request \in [Requests -> 0..MaxNow] /\ \A r \in Requests : WindowOf(request[r]) \in Windows
    /\ purge \in [keys : SUBSET Locks, ctrs : SUBSET Windows]
    /\ reset \in BOOLEAN
    /\ robbed \subseteq Clients /\ torn \subseteq Windows
    /\ granted \in Nat

\* A lock in force has one holder, unless somebody deleted the entry under
\* the other: however reads, the clock and the conditional writes of several
\* callers of try_lock interleave.
MutualExclusion ==
    \A c, d \in Clients \ robbed :
        Leased(c) /\ Leased(d) /\ client[c].lock = client[d].lock => c = d

\* In its window a key is granted no more requests than the rate allows,
\* although the purge deletes counters while requests are being counted.
RateIsKept == granted <= RateCount

\* A counter has the entry by which the purge finds it, whatever fails or
\* interleaves; only a request counted between the two deletions of a reset
\* leaves a counter that nobody will ever delete.
CountersArePurgeable ==
    \A w \in Windows \ torn : ctr[w] > 0 => mark[w] # None \/ reset

\* The leases that callers believe to have, and the ones that were broken.
LeasesInForce == {<<c, client[c].lock>> : c \in {d \in Clients : Leased(d)}}
LeasesBroken == {<<c, client[c].lock>> : c \in {d \in robbed : Leased(d)}}

Leases == INSTANCE LeaseService WITH leases <- LeasesInForce, broken <- LeasesBroken

\* The locks implement the service their users rely on: every step of
\* try_lock, remove_lock, the purge and the clock is a step of LeaseService
\* or changes no lease.
ImplementsLeases == Leases!Spec
=============================================================================
