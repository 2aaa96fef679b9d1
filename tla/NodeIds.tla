------------------------------ MODULE NodeIds ------------------------------
(***************************************************************************)
(* How the nodes of a cluster get their ids                                *)
(* (crates/store/src/build/registry.rs).  The data store holds one entry   *)
(* per id: a host name and the time of the last renewal.  A node that      *)
(* starts takes the first entry that has its own host name or that nobody  *)
(* renewed lately, or else a new id, in a batch that asserts what it has   *)
(* read; from then on a timer (crates/services/src/task_manager/           *)
(* scheduler.rs) renews the entry, without looking at it.                  *)
(*                                                                         *)
(* The id is in every change id and document id a node makes               *)
(* (crates/utils/src/snowflake.rs), and a node ignores the broadcasts that *)
(* carry its own id (crates/services/src/broadcast/subscriber.rs).         *)
(*                                                                         *)
(* A unit of time is refresh_node_id_interval.  A node is its host name.   *)
(* The timer runs only when a coordinator is configured, as it is here.    *)
(***************************************************************************)
EXTENDS Integers

CONSTANTS
    Nodes,
    NoHost,              \* the host of an id without entry
    STALE_NODE_TIMEOUT,
    DEAD_NODE_TIMEOUT,
    MaxId, MaxNow, MaxFailures  \* bounds: ids, the clock, renewals that fail

Ids == 0..MaxId

ASSUME NodesAssumption == NoHost \notin Nodes
ASSUME LeaseAssumption ==
    /\ STALE_NODE_TIMEOUT \in Nat \ {0} /\ DEAD_NODE_TIMEOUT \in Nat
    /\ STALE_NODE_TIMEOUT <= DEAD_NODE_TIMEOUT
    /\ MaxId \in Nat /\ MaxNow \in Nat /\ MaxFailures \in Nat

VARIABLES
    now,
    entry,     \* the NodeId keys: host name and time of the last renewal
    writer,    \* history: the node that wrote the entry
    node,      \* where each node is in its life, its id and its batch
    failures,
    late,      \* history: ids whose holder did not renew in time
    revived    \* history: ids taken back by the name of a former holder

vars == <<now, entry, writer, node, failures, late, revived>>

Free == [host |-> NoHost, at |-> 0]
Down == [pc |-> "down", id |-> 0, new |-> Free, seen |-> <<>>, next |-> 0]

Init ==
    /\ now = 0
    /\ entry = [i \in Ids |-> Free]
    /\ writer = [i \in Ids |-> NoHost]
    /\ node = [n \in Nodes |-> Down]
    /\ failures = 0 /\ late = {} /\ revived = {}

Taken == {i \in Ids : entry[i] # Free}
Up == {n \in Nodes : node[n].pc = "up"}

\* Renewals are on time unless they fail: the clock waits for them.
Tick ==
    /\ now < MaxNow
    /\ \A n \in Up : node[n].next > now
    /\ now' = now + 1
    /\ UNCHANGED <<entry, writer, node, failures, late, revived>>

-----------------------------------------------------------------------------
(* RegistryStore::from_inner.                                              *)

Value(name) == [host |-> name, at |-> now]

Older(i, age) == now - entry[i].at > age
IsFirst(i, S) == i \in S /\ \A j \in S : i <= j

\* The entries a starting node may take: its own, and stale ones.
Candidates(n) == {i \in Taken : entry[i].host = n \/ Older(i, STALE_NODE_TIMEOUT)}

\* A node starts, or tries again: one iteration over the entries fills the
\* batch.  Bound: some id is free, or not needed.
Scan(n) ==
    LET mine == Candidates(n)
        Dead(id) == {i \in mine \ {id} : Older(i, DEAD_NODE_TIMEOUT)}
    IN  /\ node[n].pc = "down"
        /\ \E id \in Ids :
              /\ IsFirst(id, IF mine # {} THEN mine ELSE Ids \ Taken)
              /\ node' = [node EXCEPT ![n] =
                    [Down EXCEPT !.pc = "write", !.id = id,
                                 !.new = Value(IF mine # {} THEN entry[id].host ELSE n),
                                 !.seen = [i \in Dead(id) \cup {id} |-> entry[i]]]]
        /\ UNCHANGED <<now, entry, writer, failures, late, revived>>

\* Mutant: the entries are overwritten whatever they are now.
AssertValue_Never(n) == TRUE

\* The entries are still what the scan has read.
AssertValue(n) ==
    \A i \in DOMAIN node[n].seen : entry[i] = node[n].seen[i]

\* The batch succeeds.  The entry keeps the name it had; the first renewal is
\* one interval away.
Write(n) ==
    LET x == node[n]
    IN  /\ x.pc = "write" /\ AssertValue(n)
        /\ entry' = [i \in Ids |-> IF i = x.id THEN x.new
                                   ELSE IF i \in DOMAIN x.seen THEN Free ELSE entry[i]]
        /\ writer' = [writer EXCEPT ![x.id] = n]
        /\ node' = [node EXCEPT ![n] = [Down EXCEPT !.pc = "up", !.id = x.id, !.next = now + 1]]
        /\ late' = IF now - x.new.at >= STALE_NODE_TIMEOUT THEN late \cup {x.id} ELSE late
        /\ revived' = IF entry[x.id].host = n /\ writer[x.id] # n THEN revived \cup {x.id} ELSE revived
        /\ UNCHANGED <<now, failures>>

\* is_assertion_failure: it scans again, or after five times gives up, which
\* is the same for everybody else.
WriteConflict(n) ==
    /\ node[n].pc = "write" /\ ~AssertValue(n)
    /\ node' = [node EXCEPT ![n] = Down]
    /\ UNCHANGED <<now, entry, writer, failures, late, revived>>

\* The node stops, or an error keeps it from starting.
Stop(n) ==
    /\ node[n].pc # "down"
    /\ node' = [node EXCEPT ![n] = Down]
    /\ UNCHANGED <<now, entry, writer, failures, late, revived>>

-----------------------------------------------------------------------------
(* Event::RenewNodeIdLease.                                                *)

\* Mutant: the timer is started again only once the lease has run out.
NextRenewal_Late == now + STALE_NODE_TIMEOUT + 1

NextRenewal == now + 1

Renew(n) ==
    LET i == node[n].id
    IN  /\ n \in Up /\ node[n].next = now
        /\ entry' = [entry EXCEPT ![i] = Value(n)]
        /\ writer' = [writer EXCEPT ![i] = n]
        /\ node' = [node EXCEPT ![n].next = NextRenewal]
        /\ UNCHANGED <<now, failures, late, revived>>

RenewFails(n) ==
    /\ n \in Up /\ node[n].next = now /\ failures < MaxFailures
    /\ failures' = failures + 1
    /\ node' = [node EXCEPT ![n].next = NextRenewal]
    /\ late' = late \cup {node[n].id}
    /\ UNCHANGED <<now, entry, writer, revived>>

-----------------------------------------------------------------------------
Next ==
    \/ Tick
    \/ \E n \in Nodes :
          \/ Scan(n) \/ Write(n) \/ WriteConflict(n) \/ Stop(n)
          \/ Renew(n) \/ RenewFails(n)

Spec == Init /\ [][Next]_vars

-----------------------------------------------------------------------------
(* Properties.                                                             *)

TypeOK ==
    /\ entry \in [Ids -> [host : Nodes \cup {NoHost}, at : 0..now]]
    /\ \A n \in Nodes : node[n].id \in Ids /\ DOMAIN node[n].seen \subseteq Ids
    /\ late \subseteq Ids /\ revived \subseteq Ids

\* No two running nodes have the same id: not when they start at once, take
\* over the entry of a node that is gone, or remove dead entries.  The
\* exceptions are a holder that did not renew in time, and a node that comes
\* back while another has taken its entry over but not renewed it: the entry
\* still has the old name, so both use the id.
NodeIdIsUnique ==
    \A m, n \in Up : m # n /\ node[m].id = node[n].id => node[n].id \in late \cup revived

\* A running node that renews in time keeps its entry: nobody else writes it,
\* and it never looks stale to a node that starts.
LeaseIsKept ==
    \A n \in Up : node[n].id \notin late \cup revived =>
        /\ writer[node[n].id] = n /\ entry[node[n].id] # Free
        /\ ~Older(node[n].id, STALE_NODE_TIMEOUT)
=============================================================================
