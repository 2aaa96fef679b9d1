--------------------------- MODULE NodeIdsProofs ---------------------------
(***************************************************************************)
(* NodeIdIsUnique and LeaseIsKept for every set of nodes and all timeouts. *)
(*                                                                         *)
(* A node that takes an id has read an entry that was free, had its name,  *)
(* or was stale, and what is stale stays stale until it is written         *)
(* (PlanOK).  The entry of a running node is none of these: it was written *)
(* by the node itself, and the next renewal comes before it can be stale   *)
(* (HeldOK).  So the assertion of the batch fails, or the entry has the    *)
(* name of the newcomer, which is the exception of the property.           *)
(***************************************************************************)
EXTENDS NodeIds, TLAPS

Entries == [host : Nodes, at : Int] \cup {Free}

TypeInv ==
    /\ now \in Int
    /\ entry \in [Ids -> Entries]
    /\ writer \in [Ids -> Nodes \cup {NoHost}]
    /\ DOMAIN node = Nodes
    /\ \A n \in Nodes : node[n].pc \in {"down", "write", "up"}

\* A node that is about to write.
PlanOK ==
    \A n \in Nodes : node[n].pc = "write" =>
        /\ node[n].id \in Ids /\ node[n].id \in DOMAIN node[n].seen
        /\ DOMAIN node[n].seen \subseteq Ids
        /\ node[n].new \in [host : Nodes, at : Int]
        /\ \A i \in DOMAIN node[n].seen :
             \/ i = node[n].id /\ node[n].seen[i] = Free
             \/ i = node[n].id /\ node[n].seen[i].host = n
             \/ node[n].seen[i].at \in Int /\ now - node[n].seen[i].at > STALE_NODE_TIMEOUT

\* A node that is running.
HeldOK ==
    \A n \in Up :
        /\ node[n].id \in Ids /\ node[n].next \in Int
        /\ node[n].id \notin late \cup revived =>
             /\ writer[node[n].id] = n
             /\ entry[node[n].id] \in [host : Nodes, at : Int]
             /\ now <= node[n].next
             /\ node[n].next - entry[node[n].id].at <= STALE_NODE_TIMEOUT

IInv == TypeInv /\ PlanOK /\ HeldOK

LEMMA FreeIsFree == Free \notin [host : Nodes, at : Int]
BY NodesAssumption DEF Free

LEMMA InitIInv == Init => IInv
<1> SUFFICES ASSUME Init PROVE IInv
  OBVIOUS
<1>1. \A n \in Nodes : node[n].pc = "down"
  BY DEF Init, Down
<1>2. TypeInv
  BY <1>1 DEF Init, TypeInv, Entries
<1> QED
  BY <1>1, <1>2 DEF IInv, PlanOK, HeldOK, Up

LEMMA TickIInv == IInv /\ Tick => IInv'
<1> SUFFICES ASSUME IInv, Tick PROVE IInv'
  OBVIOUS
<1> USE LeaseAssumption
<1>1. TypeInv'
  BY DEF IInv, TypeInv, Tick
<1>2. PlanOK'
  <2> SUFFICES ASSUME NEW n \in Nodes, node[n].pc = "write", NEW i \in DOMAIN node[n].seen,
                      node[n].seen[i].at \in Int, now - node[n].seen[i].at > STALE_NODE_TIMEOUT
               PROVE  now' - node[n].seen[i].at > STALE_NODE_TIMEOUT
    BY DEF IInv, PlanOK, Tick
  <2> QED
    BY DEF IInv, TypeInv, Tick
<1>3. HeldOK'
  <2> SUFFICES ASSUME NEW n \in Up, node[n].id \notin late \cup revived
               PROVE  now' <= node[n].next
    BY DEF IInv, HeldOK, Tick, Up
  <2> QED
    BY DEF IInv, TypeInv, HeldOK, Tick
<1> QED
  BY <1>1, <1>2, <1>3 DEF IInv

LEMMA ScanIInv == ASSUME IInv, NEW n \in Nodes, Scan(n) PROVE IInv'
<1> USE LeaseAssumption
<1> DEFINE mine == Candidates(n)
           Dead(id) == {i \in mine \ {id} : Older(i, DEAD_NODE_TIMEOUT)}
           Batch(id) == [Down EXCEPT !.pc = "write", !.id = id,
                                     !.new = Value(IF mine # {} THEN entry[id].host ELSE n),
                                     !.seen = [i \in Dead(id) \cup {id} |-> entry[i]]]
<1>1. PICK id \in Ids : /\ IsFirst(id, IF mine # {} THEN mine ELSE Ids \ Taken)
                        /\ node' = [node EXCEPT ![n] = Batch(id)]
  BY DEF Scan
<1>2. UNCHANGED <<now, entry, writer, late, revived>>
  BY DEF Scan
<1>3. /\ node'[n] = Batch(id) /\ DOMAIN node' = Nodes
      /\ \A m \in Nodes \ {n} : node'[m] = node[m]
  BY <1>1 DEF IInv, TypeInv
<1>4. /\ node'[n].pc = "write" /\ node'[n].id = id
      /\ node'[n].new = Value(IF mine # {} THEN entry[id].host ELSE n)
      /\ node'[n].seen = [i \in Dead(id) \cup {id} |-> entry[i]]
  BY <1>3 DEF Down
<1>5. TypeInv'
  BY <1>2, <1>3, <1>4 DEF IInv, TypeInv
<1>6. HeldOK'
  <2>1. \A m \in Up' : m \in Up /\ node'[m] = node[m]
    BY <1>3, <1>4 DEF Up
  <2> QED
    BY <1>2, <2>1 DEF IInv, HeldOK
<1>7. \A i \in Taken : entry[i] \in [host : Nodes, at : Int]
  BY DEF IInv, TypeInv, Taken, Entries
<1>8. mine \subseteq Taken /\ Taken \subseteq Ids
  BY DEF Candidates, Taken
<1>9. ASSUME mine # {} PROVE id \in mine
  BY <1>1, <1>9 DEF IsFirst
<1>10. ASSUME mine = {} PROVE entry[id] = Free
  BY <1>1, <1>10 DEF IsFirst, Taken
<1>11. node'[n].new \in [host : Nodes, at : Int]
  BY <1>4, <1>7, <1>8, <1>9 DEF Value, IInv, TypeInv
<1>12. ASSUME NEW i \in Dead(id) \cup {id}
       PROVE \/ i = id /\ entry[i] = Free
             \/ i = id /\ entry[i].host = n
             \/ entry[i].at \in Int /\ now - entry[i].at > STALE_NODE_TIMEOUT
  <2>1. CASE i \in Dead(id)
    BY <2>1, <1>7, <1>8 DEF Older, IInv, TypeInv
  <2>2. CASE i = id /\ mine # {}
    BY <2>2, <1>7, <1>8, <1>9 DEF Candidates, Older
  <2>3. CASE i = id /\ mine = {}
    BY <2>3, <1>10
  <2> QED
    BY <2>1, <2>2, <2>3
<1>13. PlanOK'
  <2> SUFFICES ASSUME NEW m \in Nodes, node'[m].pc = "write"
               PROVE  /\ node'[m].id \in Ids /\ node'[m].id \in DOMAIN node'[m].seen
                      /\ DOMAIN node'[m].seen \subseteq Ids
                      /\ node'[m].new \in [host : Nodes, at : Int]
                      /\ \A i \in DOMAIN node'[m].seen :
                           \/ i = node'[m].id /\ node'[m].seen[i] = Free
                           \/ i = node'[m].id /\ node'[m].seen[i].host = m
                           \/ /\ node'[m].seen[i].at \in Int
                              /\ now - node'[m].seen[i].at > STALE_NODE_TIMEOUT
    BY <1>2 DEF PlanOK
  <2>1. CASE m = n
    BY <2>1, <1>4, <1>8, <1>11, <1>12
  <2>2. CASE m # n
    BY <2>2, <1>3 DEF IInv, PlanOK
  <2> QED
    BY <2>1, <2>2
<1> QED
  BY <1>5, <1>6, <1>13 DEF IInv

LEMMA WriteIInv == ASSUME IInv, NEW n \in Nodes, Write(n) PROVE IInv'
<1> USE LeaseAssumption
<1> DEFINE x == node[n]
<1>1. /\ x.pc = "write" /\ AssertValue(n) /\ now' = now
      /\ entry' = [i \in Ids |-> IF i = x.id THEN x.new
                                 ELSE IF i \in DOMAIN x.seen THEN Free ELSE entry[i]]
      /\ writer' = [writer EXCEPT ![x.id] = n]
      /\ node' = [node EXCEPT ![n] = [Down EXCEPT !.pc = "up", !.id = x.id, !.next = now + 1]]
      /\ late' = IF now - x.new.at >= STALE_NODE_TIMEOUT THEN late \cup {x.id} ELSE late
      /\ revived' = IF entry[x.id].host = n /\ writer[x.id] # n
                     THEN revived \cup {x.id} ELSE revived
  BY DEF Write
<1>2. /\ x.id \in Ids /\ x.id \in DOMAIN x.seen /\ x.new \in [host : Nodes, at : Int]
      /\ \A i \in DOMAIN x.seen :
           \/ i = x.id /\ entry[i] = Free
           \/ i = x.id /\ entry[i].host = n
           \/ entry[i].at \in Int /\ now - entry[i].at > STALE_NODE_TIMEOUT
  BY <1>1 DEF IInv, PlanOK, AssertValue
<1>3. /\ node'[n].pc = "up" /\ node'[n].id = x.id /\ node'[n].next = now + 1
      /\ \A m \in Nodes \ {n} : node'[m] = node[m]
      /\ DOMAIN node' = Nodes
  BY <1>1 DEF IInv, TypeInv, Down
<1>4. late \subseteq late' /\ revived \subseteq revived'
  BY <1>1
<1>5. TypeInv'
  <2>1. entry' \in [Ids -> Entries]
    BY <1>1, <1>2 DEF IInv, TypeInv, Entries
  <2> QED
    BY <2>1, <1>1, <1>2, <1>3 DEF IInv, TypeInv
<1>6. PlanOK'
  <2>1. \A m \in Nodes : node'[m].pc = "write" => node'[m] = node[m]
    BY <1>3
  <2> QED
    BY <2>1, <1>1 DEF IInv, PlanOK
<1>7. ASSUME NEW m \in Up'
      PROVE  /\ node'[m].id \in Ids /\ node'[m].next \in Int
             /\ node'[m].id \notin late' \cup revived' =>
                  /\ writer'[node'[m].id] = m
                  /\ entry'[node'[m].id] \in [host : Nodes, at : Int]
                  /\ now' <= node'[m].next
                  /\ node'[m].next - entry'[node'[m].id].at <= STALE_NODE_TIMEOUT
  <2>1. CASE m = n
    <3>1. entry'[x.id] = x.new /\ writer'[x.id] = n
      BY <1>1, <1>2 DEF IInv, TypeInv
    <3>2. x.id \notin late' => ~(now - x.new.at >= STALE_NODE_TIMEOUT)
      BY <1>1
    <3> QED
      BY <2>1, <1>1, <1>2, <1>3, <3>1, <3>2 DEF IInv, TypeInv
  <2>2. CASE m # n
    <3> DEFINE i == node[m].id
    <3>1. m \in Up /\ node'[m] = node[m] /\ m \in Nodes
      BY <2>2, <1>3 DEF Up
    <3>2. i \in Ids /\ node[m].next \in Int
      BY <3>1 DEF IInv, HeldOK
    <3>3. ASSUME i \notin late' \cup revived'
          PROVE  /\ writer[i] = m
                 /\ entry[i] \in [host : Nodes, at : Int]
                 /\ now <= node[m].next
                 /\ node[m].next - entry[i].at <= STALE_NODE_TIMEOUT
      BY <3>1, <3>3, <1>4 DEF IInv, HeldOK
    <3>4. ASSUME i \notin late' \cup revived', i \in DOMAIN x.seen
          PROVE  FALSE
      <4>1. ~(now - entry[i].at > STALE_NODE_TIMEOUT) /\ entry[i] # Free
        BY <3>3, <3>4, <3>2, FreeIsFree DEF IInv, TypeInv
      <4>2. i = x.id /\ entry[i].host = n
        BY <4>1, <1>2, <3>4
      <4>3. i \in revived'
        BY <4>2, <1>1, <3>3, <3>4, <2>2
      <4> QED
        BY <4>3, <3>4
    <3>5. ASSUME i \notin late' \cup revived'
          PROVE  entry'[i] = entry[i] /\ writer'[i] = writer[i]
      BY <3>4, <3>5, <3>2, <1>1, <1>2 DEF IInv, TypeInv
    <3> QED
      BY <3>1, <3>2, <3>3, <3>5, <1>1
  <2> QED
    BY <2>1, <2>2
<1> QED
  BY <1>5, <1>6, <1>7 DEF IInv, HeldOK

LEMMA DownIInv ==
    ASSUME IInv, NEW n \in Nodes, node' = [node EXCEPT ![n] = Down],
           UNCHANGED <<now, entry, writer, late, revived>>
    PROVE  IInv'
<1>1. /\ node'[n].pc = "down" /\ DOMAIN node' = Nodes
      /\ \A m \in Nodes \ {n} : node'[m] = node[m]
  BY DEF IInv, TypeInv, Down
<1>2. TypeInv'
  BY <1>1 DEF IInv, TypeInv
<1>3. PlanOK'
  <2>1. \A m \in Nodes : node'[m].pc = "write" => node'[m] = node[m]
    BY <1>1
  <2> QED
    BY <2>1 DEF IInv, PlanOK
<1>4. HeldOK'
  <2>1. \A m \in Up' : m \in Up /\ node'[m] = node[m]
    BY <1>1 DEF Up
  <2> QED
    BY <2>1 DEF IInv, HeldOK
<1> QED
  BY <1>2, <1>3, <1>4 DEF IInv

LEMMA RenewIInv == ASSUME IInv, NEW n \in Nodes, Renew(n) PROVE IInv'
<1> USE LeaseAssumption
<1> DEFINE i == node[n].id
<1>1. /\ n \in Up /\ node[n].next = now /\ i \in Ids
      /\ entry' = [entry EXCEPT ![i] = Value(n)] /\ writer' = [writer EXCEPT ![i] = n]
      /\ node' = [node EXCEPT ![n].next = now + 1]
      /\ UNCHANGED <<now, late, revived>>
  BY DEF Renew, NextRenewal, IInv, HeldOK
<1>2. /\ node'[n].pc = node[n].pc /\ node'[n].id = i /\ DOMAIN node' = Nodes
      /\ \A m \in Nodes \ {n} : node'[m] = node[m]
  BY <1>1 DEF IInv, TypeInv
<1>3. Value(n) \in [host : Nodes, at : Int] /\ Value(n).at = now
  BY DEF Value, IInv, TypeInv
<1>4. TypeInv'
  <2>1. entry' \in [Ids -> Entries]
    BY <1>1, <1>3 DEF IInv, TypeInv, Entries
  <2> QED
    BY <2>1, <1>1, <1>2 DEF IInv, TypeInv
<1>5. PlanOK'
  <2>1. \A m \in Nodes : node'[m].pc = "write" => node'[m] = node[m]
    BY <1>1, <1>2 DEF Up
  <2> QED
    BY <2>1, <1>1 DEF IInv, PlanOK
<1>6. ASSUME NEW m \in Up'
      PROVE  /\ node'[m].id \in Ids /\ node'[m].next \in Int
             /\ node'[m].id \notin late' \cup revived' =>
                  /\ writer'[node'[m].id] = m
                  /\ entry'[node'[m].id] \in [host : Nodes, at : Int]
                  /\ now' <= node'[m].next
                  /\ node'[m].next - entry'[node'[m].id].at <= STALE_NODE_TIMEOUT
  <2>1. CASE m = n
    <3>1. entry'[i] = Value(n) /\ writer'[i] = n
      BY <1>1 DEF IInv, TypeInv
    <3>2. node'[n].next = now + 1
      BY <1>1, <1>2 DEF IInv, TypeInv
    <3> QED
      BY <2>1, <3>1, <3>2, <1>1, <1>2, <1>3 DEF IInv, TypeInv
  <2>2. CASE m # n
    <3>1. m \in Up /\ node'[m] = node[m]
      BY <2>2, <1>2 DEF Up
    <3>2. node[m].id \notin late \cup revived => node[m].id # i
      BY <3>1, <2>2, <1>1 DEF IInv, HeldOK
    <3>3. node[m].id # i => entry'[node[m].id] = entry[node[m].id]
                            /\ writer'[node[m].id] = writer[node[m].id]
      BY <3>1, <1>1 DEF IInv, TypeInv, HeldOK
    <3> QED
      BY <3>1, <3>2, <3>3, <1>1 DEF IInv, HeldOK
  <2> QED
    BY <2>1, <2>2
<1> QED
  BY <1>4, <1>5, <1>6 DEF IInv, HeldOK

LEMMA RenewFailsIInv == ASSUME IInv, NEW n \in Nodes, RenewFails(n) PROVE IInv'
<1>1. /\ n \in Up /\ late' = late \cup {node[n].id}
      /\ node' = [node EXCEPT ![n].next = now + 1]
      /\ UNCHANGED <<now, entry, writer, revived>>
  BY DEF RenewFails, NextRenewal
<1>2. /\ node'[n].pc = node[n].pc /\ node'[n].id = node[n].id /\ node'[n].next \in Int
      /\ DOMAIN node' = Nodes
      /\ \A m \in Nodes \ {n} : node'[m] = node[m]
  BY <1>1 DEF IInv, TypeInv
<1>3. TypeInv'
  BY <1>1, <1>2 DEF IInv, TypeInv
<1>4. PlanOK'
  <2>1. \A m \in Nodes : node'[m].pc = "write" => node'[m] = node[m]
    BY <1>1, <1>2 DEF Up
  <2> QED
    BY <2>1, <1>1 DEF IInv, PlanOK
<1>5. HeldOK'
  <2>1. \A m \in Up' : /\ m \in Up /\ node'[m].id = node[m].id /\ node'[m].next \in Int
                       /\ m # n => node'[m] = node[m]
    BY <1>2 DEF Up, IInv, HeldOK
  <2> QED
    BY <2>1, <1>1 DEF IInv, HeldOK
<1> QED
  BY <1>3, <1>4, <1>5 DEF IInv

LEMMA StepIInv == IInv /\ [Next]_vars => IInv'
<1> SUFFICES ASSUME IInv, [Next]_vars PROVE IInv'
  OBVIOUS
<1>1. CASE Tick
  BY <1>1, TickIInv
<1>2. CASE \E n \in Nodes : Scan(n) \/ Write(n) \/ Renew(n) \/ RenewFails(n)
  BY <1>2, ScanIInv, WriteIInv, RenewIInv, RenewFailsIInv
<1>3. CASE \E n \in Nodes : WriteConflict(n) \/ Stop(n)
  BY <1>3, DownIInv DEF WriteConflict, Stop
<1>4. CASE UNCHANGED vars
  <2>1. UNCHANGED <<now, entry, writer, node, late, revived>>
    BY <1>4 DEF vars
  <2> QED
    BY <2>1 DEF IInv, TypeInv, PlanOK, HeldOK, Up
<1> QED
  BY <1>1, <1>2, <1>3, <1>4 DEF Next

LEMMA InvariantHolds == Spec => []IInv
BY InitIInv, StepIInv, PTL DEF Spec

\* A running node that renews in time keeps its entry: nobody else writes it
\* (from_inner, refresh_node_id_lease), and it never looks stale.
THEOREM LeasesAreKept == Spec => []LeaseIsKept
<1>1. IInv => LeaseIsKept
  <2> SUFFICES ASSUME IInv, NEW n \in Up, node[n].id \notin late \cup revived
               PROVE  /\ writer[node[n].id] = n /\ entry[node[n].id] # Free
                      /\ ~Older(node[n].id, STALE_NODE_TIMEOUT)
    BY DEF LeaseIsKept
  <2>1. /\ writer[node[n].id] = n
        /\ entry[node[n].id] \in [host : Nodes, at : Int]
        /\ now <= node[n].next /\ node[n].next \in Int
        /\ node[n].next - entry[node[n].id].at <= STALE_NODE_TIMEOUT
    BY DEF IInv, HeldOK
  <2>2. ~Older(node[n].id, STALE_NODE_TIMEOUT)
    BY <2>1, LeaseAssumption DEF Older, IInv, TypeInv
  <2> QED
    BY <2>1, <2>2, FreeIsFree
<1> QED
  BY <1>1, InvariantHolds, PTL

\* Two running nodes never share an id, unless a holder did not renew in time
\* or a node came back under the name of an entry that was taken over.
THEOREM NodeIdsAreUnique == Spec => []NodeIdIsUnique
<1>1. IInv => NodeIdIsUnique
  BY DEF IInv, HeldOK, NodeIdIsUnique
<1> QED
  BY <1>1, InvariantHolds, PTL
=============================================================================
