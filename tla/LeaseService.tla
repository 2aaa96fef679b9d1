---------------------------- MODULE LeaseService ----------------------------
(***************************************************************************)
(* What the users of InMemoryStore::try_lock and remove_lock rely on (the  *)
(* cluster locks of the mail queue and of the task manager): a lock is     *)
(* granted only while nobody has a lease on it, and a lease ends when it   *)
(* is released or runs out.  The store can also break a lease: somebody    *)
(* else deletes the lock while it is in force.  Its holder does not learn  *)
(* of it, and the lock may be granted again.                               *)
(***************************************************************************)
CONSTANTS Clients, Locks

VARIABLES
    leases,   \* <<client, lock>>: the leases in force
    broken    \* the ones among them that were broken

vars == <<leases, broken>>

Init == leases = {} /\ broken = {}

Grant(c, l) ==
    /\ \A d \in Clients : <<d, l>> \in leases => <<d, l>> \in broken
    /\ leases' = leases \cup {<<c, l>>}
    /\ UNCHANGED broken

\* Leases are released, or run out: several at once may.
Leave ==
    /\ leases' \subseteq leases
    /\ broken' = broken \cap leases'

\* The leases on a set of locks are broken, perhaps by somebody's release.
Break(L) ==
    /\ leases' \subseteq leases
    /\ broken' = (broken \cap leases') \cup {x \in leases' : x[2] \in L}

Next ==
    \/ \E c \in Clients, l \in Locks : Grant(c, l)
    \/ Leave
    \/ \E L \in SUBSET Locks : Break(L)

Spec == Init /\ [][Next]_vars
=============================================================================
