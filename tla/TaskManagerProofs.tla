------------------------- MODULE TaskManagerProofs -------------------------
(***************************************************************************)
(* For any number of nodes, tasks, channel and batch sizes, retry limits   *)
(* and delays, in three layers.                                            *)
(*                                                                         *)
(* The lock of the shared store.  Two workers never run one task at the    *)
(* same time, unless a worker outlived its lock or the lock was removed    *)
(* with a destroyed task.  A job from the moment it is sent until its      *)
(* worker unlocks, and an administrator's update from its lock to its      *)
(* write, have a lock that has not run out (HoldersAreLocked), and no two  *)
(* of them are for the same task (OneJobPerTask); a lock that is free      *)
(* therefore has no holder, which is what TryLock relies on.  The map      *)
(* `locked' of the manager is not needed.                                  *)
(*                                                                         *)
(* The store.  Records, keys, jobs and requests are well formed (StoreInv) *)
(* and every task has its key (KeyInv).  A worker writes a whole batch at  *)
(* once, so what Written makes of the store is shown by induction over the *)
(* tasks of the batch (AfterTasks), from what is written for one of them   *)
(* (Recorded).                                                             *)
(*                                                                         *)
(* Keys and jobs.  Unless somebody was overtaken, a key has its task and a *)
(* job the task it was found for (ExactInv): the holder of a task is the   *)
(* only one to write it, by the first layer.                               *)
(***************************************************************************)
EXTENDS TaskManager, FiniteSetTheorems, WellFoundedInduction, TLAPS

IsSeq(s) == \E S : s \in Seq(S)

TypeInv ==
    /\ now \in Nat
    /\ lock \in [Ids -> Nat]
    /\ DOMAIN chan = Nodes /\ \A n \in Nodes : IsSeq(chan[n])
    /\ DOMAIN wrk = Nodes
    /\ \A n \in Nodes : /\ wrk[n] = [pc |-> wrk[n].pc, batch |-> wrk[n].batch,
                                     refresh |-> wrk[n].refresh]
                        /\ IsSeq(wrk[n].batch)

\* No worker outlived its lock, and no lock was removed with a task.
Undisturbed == odd \cap {"overrun", "unlocked"} = {}

\* Two places for the jobs of a node: the channel and the worker's batch.
Waiting(n, k, i) == k \in 1..Len(chan[n]) /\ chan[n][k].id = i
Taken(n, k, i) == k \in 1..Len(wrk[n].batch) /\ wrk[n].batch[k].job.id = i
Editing(i) == admin.pc = "locked" /\ admin.id = i

HoldersAreLocked ==
    Undisturbed => \A i \in Ids :
        /\ \A n \in Nodes : \A k \in Nat : Waiting(n, k, i) \/ Taken(n, k, i) => lock[i] > now
        /\ Editing(i) => lock[i] > now

OneJobPerTask ==
    Undisturbed => \A i \in Ids :
        /\ \A m, n \in Nodes : \A j, k \in Nat :
              /\ Waiting(m, j, i) /\ Waiting(n, k, i) => m = n /\ j = k
              /\ Taken(m, j, i) /\ Taken(n, k, i) => m = n /\ j = k
              /\ ~(Waiting(m, j, i) /\ Taken(n, k, i))
        /\ Editing(i) => \A n \in Nodes : \A k \in Nat : ~Waiting(n, k, i) /\ ~Taken(n, k, i)

IInv == TypeInv /\ HoldersAreLocked /\ OneJobPerTask

-----------------------------------------------------------------------------
LEMMA AppendFacts ==
  ASSUME NEW s, IsSeq(s), NEW e
  PROVE  /\ IsSeq(Append(s, e)) /\ Len(s) \in Nat /\ Len(Append(s, e)) = Len(s) + 1
         /\ \A k \in 1..Len(s) : Append(s, e)[k] = s[k]
         /\ Append(s, e)[Len(s) + 1] = e
<1>1. PICK S : s \in Seq(S)
  BY DEF IsSeq
<1>2. s \in Seq(S \cup {e})
  BY <1>1
<1>3. Append(s, e) \in Seq(S \cup {e})
  BY <1>2
<1>4. QED
  BY <1>2, <1>3 DEF IsSeq

LEMMA TailFacts ==
  ASSUME NEW s, IsSeq(s), s # <<>>
  PROVE  /\ IsSeq(Tail(s)) /\ Len(s) \in Nat /\ Len(s) >= 1 /\ Len(Tail(s)) = Len(s) - 1
         /\ Head(s) = s[1] /\ \A k \in 1..Len(s) - 1 : Tail(s)[k] = s[k + 1]
<1>1. PICK S : s \in Seq(S)
  BY DEF IsSeq
<1>2. Tail(s) \in Seq(S)
  BY <1>1
<1>3. QED
  BY <1>1, <1>2 DEF IsSeq

LEMMA EmptyFacts == IsSeq(<<>>) /\ Len(<<>>) = 0
<1>1. <<>> \in Seq({})
  OBVIOUS
<1>2. QED
  BY <1>1 DEF IsSeq

LEMMA Constants == LOCK_EXPIRY \in Nat \ {0}
BY TimeAssumption

LEMMA InitIInv == Init => IInv
<1> SUFFICES ASSUME Init PROVE IInv
  OBVIOUS
<1>1. \A n \in Nodes : Len(chan[n]) = 0 /\ wrk[n].batch = <<>> /\ Len(wrk[n].batch) = 0
  BY EmptyFacts DEF Init, Idle
<1>2. TypeInv
  BY EmptyFacts DEF Init, TypeInv, Idle
<1>3. admin.pc # "locked"
  BY DEF Init, NoRequest
<1>4. HoldersAreLocked /\ OneJobPerTask
  BY <1>1, <1>3 DEF HoldersAreLocked, OneJobPerTask, Waiting, Taken, Editing
<1>5. QED
  BY <1>2, <1>4 DEF IInv

\* Steps that move no job and touch no lock.
LEMMA FrameIInv ==
  ASSUME IInv, UNCHANGED <<now, lock, chan>>, odd \subseteq odd',
         DOMAIN wrk' = Nodes,
         \A n \in Nodes : /\ wrk'[n] = [pc |-> wrk'[n].pc, batch |-> wrk[n].batch,
                                         refresh |-> wrk'[n].refresh]
                          /\ wrk'[n].batch = wrk[n].batch,
         admin' = admin \/ admin'.pc # "locked"
  PROVE  IInv'
<1>1. TypeInv'
  BY DEF IInv, TypeInv
<1>2. /\ Undisturbed' => Undisturbed
      /\ \A n \in Nodes, k \in Nat, i \in Ids : /\ Waiting(n, k, i)' <=> Waiting(n, k, i)
                                                /\ Taken(n, k, i)' <=> Taken(n, k, i)
      /\ \A i \in Ids : Editing(i)' => Editing(i)
  BY DEF Undisturbed, Waiting, Taken, Editing
<1>3. HoldersAreLocked'
  BY <1>2 DEF IInv, HoldersAreLocked
<1>4. OneJobPerTask'
  BY <1>2 DEF IInv, OneJobPerTask
<1>5. QED
  BY <1>1, <1>3, <1>4 DEF IInv

LEMMA SendIInv ==
  ASSUME IInv, NEW n \in Nodes, NEW j, Send(n, j), UNCHANGED <<now, wrk, admin>> PROVE IInv'
<1>1. /\ lock[j.id] <= now /\ lock' = [lock EXCEPT ![j.id] = now + LOCK_EXPIRY]
      /\ chan' = [chan EXCEPT ![n] = Append(@, j)]
      /\ odd \subseteq odd'
  BY DEF Send, TryLock
<1>2. now \in Nat /\ now + LOCK_EXPIRY \in Nat /\ now + LOCK_EXPIRY > now
  BY Constants DEF IInv, TypeInv
<1>3. /\ IsSeq(Append(chan[n], j)) /\ Len(chan[n]) \in Nat
      /\ Len(Append(chan[n], j)) = Len(chan[n]) + 1
      /\ \A k \in 1..Len(chan[n]) : Append(chan[n], j)[k] = chan[n][k]
      /\ Append(chan[n], j)[Len(chan[n]) + 1] = j
  BY AppendFacts DEF IInv, TypeInv
<1>4. chan'[n] = Append(chan[n], j) /\ \A m \in Nodes \ {n} : chan'[m] = chan[m]
  BY <1>1 DEF IInv, TypeInv
<1>5. TypeInv'
  BY <1>1, <1>2, <1>3, <1>4 DEF IInv, TypeInv
<1>6. \A i \in Ids : lock'[i] = IF i = j.id THEN now + LOCK_EXPIRY ELSE lock[i]
  BY <1>1 DEF IInv, TypeInv
<1>7. \A m \in Nodes, k \in Nat, i \in Ids :
         /\ Waiting(m, k, i)' <=> Waiting(m, k, i) \/ (m = n /\ k = Len(chan[n]) + 1 /\ i = j.id)
         /\ Waiting(n, k, i) => k # Len(chan[n]) + 1
         /\ Taken(m, k, i)' <=> Taken(m, k, i)
         /\ Editing(i)' <=> Editing(i)
  BY <1>3, <1>4 DEF Waiting, Taken, Editing
<1>8. Undisturbed' => Undisturbed
  BY <1>1 DEF Undisturbed
<1>9. Undisturbed /\ j.id \in Ids =>
         ~Editing(j.id) /\ \A m \in Nodes, k \in Nat : ~Waiting(m, k, j.id) /\ ~Taken(m, k, j.id)
  BY <1>1, <1>2 DEF IInv, TypeInv, HoldersAreLocked
<1>10. HoldersAreLocked'
  BY <1>2, <1>6, <1>7, <1>8 DEF IInv, HoldersAreLocked
<1>11. OneJobPerTask'
  BY <1>7, <1>8, <1>9 DEF IInv, OneJobPerTask
<1>12. QED
  BY <1>5, <1>10, <1>11 DEF IInv

LEMMA TakeIInv ==
  ASSUME IInv, NEW n \in Nodes, Take(n) PROVE IInv'
<1> DEFINE j == Head(chan[n])
           x == [job |-> j, task |-> task[j.id]]
           full == [pc |-> "fill", batch |-> Append(wrk[n].batch, x), refresh |-> wrk[n].refresh]
           same == [pc |-> "fill", batch |-> wrk[n].batch, refresh |-> wrk[n].refresh]
<1>1. /\ chan[n] # <<>> /\ chan' = [chan EXCEPT ![n] = Tail(@)]
      /\ UNCHANGED <<now, lock, admin>> /\ odd \subseteq odd'
      /\ \/ wrk' = [wrk EXCEPT ![n].pc = "fill", ![n].batch = Append(@, x)]
         \/ wrk' = [wrk EXCEPT ![n].pc = "fill"]
  BY DEF Take, Fault
<1>2. /\ \/ wrk'[n] = full
         \/ wrk'[n] = same
      /\ DOMAIN wrk' = Nodes /\ \A m \in Nodes \ {n} : wrk'[m] = wrk[m]
  <2>1. wrk[n] = [pc |-> wrk[n].pc, batch |-> wrk[n].batch, refresh |-> wrk[n].refresh]
    BY DEF IInv, TypeInv
  <2>2. QED
    BY <1>1, <2>1 DEF IInv, TypeInv
<1>3. /\ IsSeq(Tail(chan[n])) /\ Len(chan[n]) \in Nat /\ Len(chan[n]) >= 1
      /\ Len(Tail(chan[n])) = Len(chan[n]) - 1
      /\ j = chan[n][1] /\ \A k \in 1..Len(chan[n]) - 1 : Tail(chan[n])[k] = chan[n][k + 1]
  BY <1>1, TailFacts DEF IInv, TypeInv
<1>4. chan'[n] = Tail(chan[n]) /\ \A m \in Nodes \ {n} : chan'[m] = chan[m]
  BY <1>1 DEF IInv, TypeInv
<1>5. /\ IsSeq(Append(wrk[n].batch, x)) /\ Len(wrk[n].batch) \in Nat
      /\ Len(Append(wrk[n].batch, x)) = Len(wrk[n].batch) + 1
      /\ \A k \in 1..Len(wrk[n].batch) : Append(wrk[n].batch, x)[k] = wrk[n].batch[k]
      /\ Append(wrk[n].batch, x)[Len(wrk[n].batch) + 1] = x
  BY AppendFacts DEF IInv, TypeInv
<1>6. x.job = j
  OBVIOUS
<1> HIDE DEF j, x
<1>7. TypeInv'
  <2>1. \A m \in Nodes : IsSeq(chan'[m])
    BY <1>3, <1>4 DEF IInv, TypeInv
  <2>2. \A m \in Nodes : /\ wrk'[m] = [pc |-> wrk'[m].pc, batch |-> wrk'[m].batch,
                                        refresh |-> wrk'[m].refresh]
                         /\ IsSeq(wrk'[m].batch)
    <3>1. CASE wrk'[n] = full
      <4>1. full.batch = Append(wrk[n].batch, x) /\ IsSeq(full.batch)
        BY <1>5
      <4>2. QED
        BY <1>2, <3>1, <4>1 DEF IInv, TypeInv
    <3>2. CASE wrk'[n] = same
      BY <1>2, <3>2 DEF IInv, TypeInv
    <3>3. QED
      BY <1>2, <3>1, <3>2
  <2>3. QED
    BY <1>1, <1>2, <2>1, <2>2 DEF IInv, TypeInv
<1>8. \A m \in Nodes, k \in Nat, i \in Ids :
         /\ Waiting(n, k, i)' => Waiting(n, k + 1, i)
         /\ m # n => (Waiting(m, k, i)' <=> Waiting(m, k, i))
  BY <1>3, <1>4 DEF Waiting
<1>9. \A m \in Nodes, k \in Nat, i \in Ids :
         /\ Taken(n, k, i)' =>
               \/ Taken(n, k, i)
               \/ k = Len(wrk[n].batch) + 1 /\ Waiting(n, 1, i)
         /\ Taken(n, k, i) => k # Len(wrk[n].batch) + 1
         /\ m # n => (Taken(m, k, i)' <=> Taken(m, k, i))
  <2>1. CASE wrk'[n] = full
    BY <1>2, <1>3, <1>5, <1>6, <2>1 DEF Taken, Waiting
  <2>2. CASE wrk'[n] = same
    BY <1>2, <1>5, <2>2 DEF Taken
  <2>3. QED
    BY <1>2, <2>1, <2>2
<1>10. /\ Undisturbed' => Undisturbed
       /\ \A i \in Ids : Editing(i)' => Editing(i)
  BY <1>1 DEF Undisturbed, Editing
<1>11. \A k \in Nat : k + 1 \in Nat /\ (k + 1 = 1 => k = 0)
  OBVIOUS
<1>12. HoldersAreLocked'
  <2>1. ASSUME Undisturbed', NEW i \in Ids, NEW m \in Nodes, NEW k \in Nat,
               Waiting(m, k, i)' \/ Taken(m, k, i)'
        PROVE  lock[i] > now
    <3>1. \E l \in Nat : Waiting(m, l, i) \/ Taken(m, l, i)
      BY <1>8, <1>9, <1>11, <2>1
    <3>2. QED
      BY <1>10, <2>1, <3>1 DEF IInv, HoldersAreLocked
  <2>2. ASSUME Undisturbed', NEW i \in Ids, Editing(i)' PROVE lock[i] > now
    BY <1>10, <2>2 DEF IInv, HoldersAreLocked
  <2>3. QED
    BY <1>1, <2>1, <2>2 DEF HoldersAreLocked
<1>13. ASSUME Undisturbed', NEW i \in Ids
       PROVE  /\ \A m, p \in Nodes : \A l, k \in Nat :
                   /\ Waiting(m, l, i) /\ Waiting(p, k, i) => m = p /\ l = k
                   /\ Taken(m, l, i) /\ Taken(p, k, i) => m = p /\ l = k
                   /\ ~(Waiting(m, l, i) /\ Taken(p, k, i))
              /\ Editing(i) => \A m \in Nodes : \A k \in Nat : ~Waiting(m, k, i) /\ ~Taken(m, k, i)
  BY <1>10, <1>13 DEF IInv, OneJobPerTask
<1>14. ASSUME NEW i \in Ids, NEW m \in Nodes, NEW k \in Nat, Waiting(m, k, i)'
       PROVE  \E l \in Nat : Waiting(m, l, i) /\ l = (IF m = n THEN k + 1 ELSE k) /\ k >= 1
  <2>1. k >= 1
    BY <1>14 DEF Waiting
  <2>2. QED
    BY <1>8, <1>11, <1>14, <2>1
<1>15. OneJobPerTask'
  <2>1. ASSUME Undisturbed', NEW i \in Ids, NEW m \in Nodes, NEW p \in Nodes, NEW l \in Nat,
               NEW k \in Nat
        PROVE  /\ Waiting(m, l, i)' /\ Waiting(p, k, i)' => m = p /\ l = k
               /\ Taken(m, l, i)' /\ Taken(p, k, i)' => m = p /\ l = k
               /\ ~(Waiting(m, l, i)' /\ Taken(p, k, i)')
    <3>1. Waiting(m, l, i)' /\ Waiting(p, k, i)' => m = p /\ l = k
      BY <1>13, <1>14, <2>1
    <3>2. Taken(m, l, i)' /\ Taken(p, k, i)' => m = p /\ l = k
      BY <1>9, <1>13, <2>1
    <3>3. ~(Waiting(m, l, i)' /\ Taken(p, k, i)')
      BY <1>9, <1>13, <1>14, <2>1
    <3>4. QED
      BY <3>1, <3>2, <3>3
  <2>2. ASSUME Undisturbed', NEW i \in Ids, Editing(i)', NEW m \in Nodes, NEW k \in Nat
        PROVE  ~Waiting(m, k, i)' /\ ~Taken(m, k, i)'
    BY <1>9, <1>10, <1>13, <1>14, <2>2
  <2>3. QED
    BY <2>1, <2>2 DEF OneJobPerTask
<1>16. QED
  BY <1>7, <1>12, <1>15 DEF IInv

\* Steps after which fewer jobs are held: the locks of those that are still
\* held are not touched.
LEMMA ReleaseIInv ==
  ASSUME IInv, TypeInv', now' = now, odd \subseteq odd',
         \A n \in Nodes : chan'[n] = chan[n] \/ chan'[n] = <<>>,
         \A n \in Nodes : wrk'[n].batch = wrk[n].batch \/ wrk'[n].batch = <<>>,
         admin' = admin \/ admin'.pc # "locked",
         Undisturbed' => \A i \in Ids :
            /\ \A n \in Nodes : \A k \in Nat :
                  Waiting(n, k, i)' \/ Taken(n, k, i)' => lock'[i] = lock[i]
            /\ Editing(i)' => lock'[i] = lock[i]
  PROVE  IInv'
<1>1. /\ Undisturbed' => Undisturbed
      /\ \A i \in Ids : Editing(i)' => Editing(i)
      /\ \A n \in Nodes, k \in Nat, i \in Ids : /\ Waiting(n, k, i)' => Waiting(n, k, i)
                                                /\ Taken(n, k, i)' => Taken(n, k, i)
  <2>1. Len(<<>>) = 0
    BY EmptyFacts
  <2>2. QED
    BY <2>1 DEF Undisturbed, Editing, Waiting, Taken
<1>2. HoldersAreLocked'
  BY <1>1 DEF IInv, HoldersAreLocked
<1>3. OneJobPerTask'
  BY <1>1 DEF IInv, OneJobPerTask
<1>4. QED
  BY <1>2, <1>3 DEF IInv

LEMMA UnlockIInv ==
  ASSUME IInv, NEW n \in Nodes, Unlock(n) PROVE IInv'
<1>1. /\ lock' = [i \in Ids |-> IF \E x \in Range(wrk[n].batch) : x.job.id = i THEN 0 ELSE lock[i]]
      /\ wrk' = [wrk EXCEPT ![n] = Idle] /\ UNCHANGED <<now, chan, admin, odd>>
  BY DEF Unlock
<1>2. DOMAIN wrk' = Nodes /\ wrk'[n] = Idle /\ \A m \in Nodes \ {n} : wrk'[m] = wrk[m]
  BY <1>1 DEF IInv, TypeInv
<1>3. TypeInv'
  <2>1. lock' \in [Ids -> Nat]
    BY <1>1 DEF IInv, TypeInv
  <2>2. \A m \in Nodes : /\ wrk'[m] = [pc |-> wrk'[m].pc, batch |-> wrk'[m].batch,
                                        refresh |-> wrk'[m].refresh]
                         /\ IsSeq(wrk'[m].batch)
    BY <1>2, EmptyFacts DEF IInv, TypeInv, Idle
  <2>3. QED
    BY <1>1, <1>2, <2>1, <2>2 DEF IInv, TypeInv
<1>4. \A m \in Nodes : wrk'[m].batch = wrk[m].batch \/ wrk'[m].batch = <<>>
  BY <1>2 DEF Idle
<1>5. ASSUME NEW i \in Ids, \A k \in Nat : ~Taken(n, k, i) PROVE lock'[i] = lock[i]
  <2>1. DOMAIN wrk[n].batch = 1..Len(wrk[n].batch) /\ Len(wrk[n].batch) \in Nat
    BY DEF IInv, TypeInv, IsSeq
  <2>2. ~\E x \in Range(wrk[n].batch) : x.job.id = i
    BY <1>5, <2>1 DEF Taken, Range
  <2>3. QED
    BY <1>1, <2>2
<1>6. ASSUME Undisturbed', NEW i \in Ids
      PROVE  /\ \A m \in Nodes : \A k \in Nat :
                   Waiting(m, k, i)' \/ Taken(m, k, i)' => \A l \in Nat : ~Taken(n, l, i)
             /\ Editing(i)' => \A l \in Nat : ~Taken(n, l, i)
  <2>1. Undisturbed
    BY <1>1, <1>6 DEF Undisturbed
  <2>2. \A m \in Nodes, k \in Nat : /\ Waiting(m, k, i)' => Waiting(m, k, i)
                                    /\ Taken(m, k, i)' => m # n /\ Taken(m, k, i)
    BY <1>1, <1>2, EmptyFacts DEF Waiting, Taken, Idle
  <2>3. Editing(i)' => Editing(i)
    BY <1>1 DEF Editing
  <2>4. QED
    BY <2>1, <2>2, <2>3 DEF IInv, OneJobPerTask
<1>7. QED
  BY <1>1, <1>3, <1>4, <1>5, <1>6, ReleaseIInv

LEMMA CrashIInv ==
  ASSUME IInv, NEW n \in Nodes, Crash(n) PROVE IInv'
<1>1. /\ chan' = [chan EXCEPT ![n] = <<>>] /\ wrk' = [wrk EXCEPT ![n] = Idle]
      /\ UNCHANGED <<now, lock, admin>> /\ odd \subseteq odd'
  BY DEF Crash, Fault
<1>2. /\ \A m \in Nodes : chan'[m] = chan[m] \/ chan'[m] = <<>>
      /\ \A m \in Nodes : wrk'[m] = wrk[m] \/ wrk'[m] = Idle
  BY <1>1 DEF IInv, TypeInv
<1>3. TypeInv'
  BY <1>1, <1>2, EmptyFacts DEF IInv, TypeInv, Idle
<1>4. QED
  BY <1>1, <1>2, <1>3, ReleaseIInv DEF Idle

LEMMA TickIInv ==
  ASSUME IInv, Tick PROVE IInv'
<1>1. /\ now' = now + 1 /\ UNCHANGED <<lock, chan, wrk, admin>>
      /\ odd \subseteq odd' /\ (Undisturbed' => ~Lapsing)
  BY DEF Tick, Fault, Undisturbed
<1>2. TypeInv'
  BY <1>1 DEF IInv, TypeInv
<1>3. /\ Undisturbed' => Undisturbed
      /\ \A n \in Nodes, k \in Nat, i \in Ids : /\ Waiting(n, k, i)' <=> Waiting(n, k, i)
                                                /\ Taken(n, k, i)' <=> Taken(n, k, i)
      /\ \A i \in Ids : Editing(i)' <=> Editing(i)
  BY <1>1 DEF Undisturbed, Waiting, Taken, Editing
<1>4. ASSUME Undisturbed', NEW i \in Ids, NEW n \in Nodes, NEW k \in Nat,
             Waiting(n, k, i) \/ Taken(n, k, i)
      PROVE  lock[i] # now + 1
  <2>1. /\ DOMAIN wrk[n].batch = 1..Len(wrk[n].batch)
        /\ DOMAIN chan[n] = 1..Len(chan[n])
    BY DEF IInv, TypeInv, IsSeq
  <2>2. \E j \in Range(chan[n]) \cup {x.job : x \in Range(wrk[n].batch)} : j.id = i
    BY <1>4, <2>1 DEF Waiting, Taken, Range
  <2>3. \E j \in Held : j.id = i
    BY <2>2 DEF Held
  <2>4. QED
    BY <1>1, <1>4, <2>3 DEF Lapsing
<1>5. ASSUME Undisturbed', NEW i \in Ids, Editing(i) PROVE lock[i] # now + 1
  BY <1>1, <1>5 DEF Lapsing, Editing
<1>6. now \in Nat /\ \A i \in Ids : lock[i] \in Nat
  BY DEF IInv, TypeInv
<1>7. HoldersAreLocked'
  BY <1>1, <1>3, <1>4, <1>5, <1>6 DEF IInv, HoldersAreLocked
<1>8. OneJobPerTask'
  BY <1>3 DEF IInv, OneJobPerTask
<1>9. QED
  BY <1>2, <1>7, <1>8 DEF IInv

\* A request that held the lock ends.
LEMMA AdminEndsIInv ==
  ASSUME IInv, UNCHANGED <<now, chan, wrk>>, odd \subseteq odd', admin' = NoRequest,
         lock' = lock \/ lock' = [lock EXCEPT ![admin.id] = 0],
         lock' = lock \/ admin.pc = "locked" \/ lock[admin.id] <= now \/ ~Undisturbed'
  PROVE  IInv'
<1>1. TypeInv'
  BY DEF IInv, TypeInv
<1>2. admin'.pc # "locked"
  BY DEF NoRequest
<1>3. ASSUME Undisturbed', NEW i \in Ids, NEW n \in Nodes, NEW k \in Nat,
             Waiting(n, k, i)' \/ Taken(n, k, i)'
      PROVE  lock'[i] = lock[i]
  <2>1. Undisturbed /\ (Waiting(n, k, i) \/ Taken(n, k, i))
    BY <1>3 DEF Undisturbed, Waiting, Taken
  <2>2. lock[i] > now /\ ~Editing(i)
    BY <2>1 DEF IInv, HoldersAreLocked, OneJobPerTask
  <2>3. lock' = lock \/ i # admin.id
    BY <1>3, <2>2 DEF Editing, IInv, TypeInv
  <2>4. QED
    BY <2>3 DEF IInv, TypeInv
<1>4. QED
  BY <1>1, <1>2, <1>3, ReleaseIInv DEF Editing

LEMMA AdminLockIInv ==
  ASSUME IInv, AdminLock PROVE IInv'
<1>1. CASE admin' = NoRequest /\ lock' = lock
  BY <1>1, AdminEndsIInv DEF AdminLock
<1>2. CASE TryLock(admin.id) /\ admin' = [admin EXCEPT !.pc = "locked"]
  <2>1. /\ lock[admin.id] <= now /\ lock' = [lock EXCEPT ![admin.id] = now + LOCK_EXPIRY]
        /\ UNCHANGED <<now, chan, wrk, odd>> /\ admin.pc = "update"
    BY <1>2 DEF AdminLock, TryLock
  <2>2. now \in Nat /\ now + LOCK_EXPIRY \in Nat /\ now + LOCK_EXPIRY > now
    BY Constants DEF IInv, TypeInv
  <2>3. TypeInv'
    BY <2>1, <2>2 DEF IInv, TypeInv
  <2>4. \A i \in Ids : lock'[i] = IF i = admin.id THEN now + LOCK_EXPIRY ELSE lock[i]
    BY <2>1 DEF IInv, TypeInv
  <2>5. /\ Undisturbed' => Undisturbed
        /\ \A n \in Nodes, k \in Nat, i \in Ids : /\ Waiting(n, k, i)' <=> Waiting(n, k, i)
                                                  /\ Taken(n, k, i)' <=> Taken(n, k, i)
        /\ \A i \in Ids : ~Editing(i)
    BY <2>1 DEF Undisturbed, Waiting, Taken, Editing
  <2>6. \A i \in Ids : Editing(i)' => i = admin.id
    BY <1>2 DEF Editing
  <2>7. \A i \in Ids : Undisturbed /\ i = admin.id =>
           \A n \in Nodes, k \in Nat : ~Waiting(n, k, i) /\ ~Taken(n, k, i)
    BY <2>1, <2>2 DEF IInv, TypeInv, HoldersAreLocked
  <2>8. HoldersAreLocked'
    BY <2>1, <2>2, <2>4, <2>5, <2>6 DEF IInv, HoldersAreLocked
  <2>9. OneJobPerTask'
    BY <2>5, <2>6, <2>7 DEF IInv, OneJobPerTask
  <2>10. QED
    BY <2>3, <2>8, <2>9 DEF IInv
<1>3. QED
  BY <1>1, <1>2 DEF AdminLock

\* The worker's own steps.
LEMMA WorkIInv ==
  ASSUME IInv, NEW n \in Nodes, Start(n) \/ Finish(n) \/ WriteFails(n) PROVE IInv'
<1>1. PICK p, f :
        /\ \/ wrk' = [wrk EXCEPT ![n].pc = p]
           \/ wrk' = [wrk EXCEPT ![n].pc = p, ![n].refresh = f]
        /\ UNCHANGED <<now, lock, chan, admin>> /\ odd \subseteq odd'
  BY DEF Start, Finish, WriteFails, Fault
<1>2. /\ DOMAIN wrk' = Nodes /\ \A m \in Nodes \ {n} : wrk'[m] = wrk[m]
      /\ \/ wrk'[n] = [pc |-> p, batch |-> wrk[n].batch, refresh |-> wrk[n].refresh]
         \/ wrk'[n] = [pc |-> p, batch |-> wrk[n].batch, refresh |-> f]
  <2>1. wrk[n] = [pc |-> wrk[n].pc, batch |-> wrk[n].batch, refresh |-> wrk[n].refresh]
    BY DEF IInv, TypeInv
  <2>2. QED
    BY <1>1, <2>1 DEF IInv, TypeInv
<1>3. \A m \in Nodes : /\ wrk'[m] = [pc |-> wrk'[m].pc, batch |-> wrk[m].batch,
                                      refresh |-> wrk'[m].refresh]
                       /\ wrk'[m].batch = wrk[m].batch
  BY <1>2 DEF IInv, TypeInv
<1>4. QED
  BY <1>1, <1>2, <1>3, FrameIInv

LEMMA NextIInv ==
  ASSUME IInv, [Next]_vars PROVE IInv'
<1>1. ASSUME UNCHANGED <<now, lock, chan, wrk>>, odd \subseteq odd',
             admin' = admin \/ admin'.pc # "locked"
      PROVE  IInv'
  <2>1. DOMAIN wrk' = Nodes /\ \A n \in Nodes :
           /\ wrk'[n] = [pc |-> wrk'[n].pc, batch |-> wrk[n].batch, refresh |-> wrk'[n].refresh]
           /\ wrk'[n].batch = wrk[n].batch
    BY <1>1 DEF IInv, TypeInv
  <2>2. QED
    BY <1>1, <2>1, FrameIInv
<1>2. CASE UNCHANGED vars
  BY <1>1, <1>2 DEF vars
<1>3. ASSUME NEW op \in AdminOps, AdminRead(op) PROVE IInv'
  <2>1. admin'.pc # "locked"
    BY <1>3, AdminAssumption DEF AdminRead
  <2>2. QED
    BY <1>1, <1>3, <2>1 DEF AdminRead
<1>4. ASSUME NEW n \in Nodes, NEW d, Schedule(n, d) PROVE IInv'
  BY <1>1, <1>4 DEF Schedule
<1>5. ASSUME NEW n \in Nodes, Scan(n) \/ ScanFails(n) \/ EndPass(n) PROVE IInv'
  BY <1>1, <1>5 DEF Scan, ScanFails, EndPass, Fault
<1>6. ASSUME NEW n \in Nodes, Dispatch(n) PROVE IInv'
  <2>1. PICK j \in mgr[n].jobs : Send(n, j) \/ LockedByAnother(n, j) \/ ChannelFull(n, j)
    BY <1>6 DEF Dispatch
  <2>2. UNCHANGED <<now, wrk, admin>>
    BY <1>6 DEF Dispatch
  <2>3. CASE LockedByAnother(n, j) \/ ChannelFull(n, j)
    BY <1>1, <2>2, <2>3 DEF LockedByAnother, ChannelFull, Fault
  <2>4. QED
    BY <2>1, <2>2, <2>3, SendIInv
<1>7. ASSUME NEW n \in Nodes, NEW d, AdminWrite(n, d) PROVE IInv'
  BY <1>7, AdminEndsIInv DEF AdminWrite
<1>8. CASE AdminGivesUp
  BY <1>8, AdminEndsIInv DEF AdminGivesUp, Fault
<1>9. ASSUME NEW n \in Nodes, AdminDestroy(n) PROVE IInv'
  <2>1. lock[admin.id] > now => ~Undisturbed'
    BY <1>9 DEF AdminDestroy, Undisturbed
  <2>2. CASE admin.id \in Ids
    <3>1. lock[admin.id] <= now \/ ~Undisturbed'
      BY <2>1, <2>2 DEF IInv, TypeInv
    <3>2. QED
      BY <1>9, <3>1, AdminEndsIInv DEF AdminDestroy
  <2>3. CASE admin.id \notin Ids
    <3>1. lock' = lock
      BY <1>9, <2>3 DEF AdminDestroy, IInv, TypeInv
    <3>2. QED
      BY <1>9, <3>1, AdminEndsIInv DEF AdminDestroy
  <2>4. QED
    BY <2>2, <2>3
<1>10. QED
  BY <1>2, <1>3, <1>4, <1>5, <1>6, <1>7, <1>8, <1>9, TickIInv, TakeIInv, WorkIInv, UnlockIInv,
     CrashIInv, AdminLockIInv DEF Next, NodeStep, AdminStep

\* However many nodes scan the same due keys, restart, and let passes overtake
\* each other, the lock of the shared store leaves a task to one worker.
THEOREM TasksRunOnce == Spec => []OneWorkerPerTask
<1>1. IInv => OneWorkerPerTask
  <2> SUFFICES ASSUME IInv, Undisturbed, NEW i \in Ids PROVE Cardinality(Running(i)) <= 1
    BY DEF OneWorkerPerTask, Undisturbed
  <2>1. \A x \in Running(i) : /\ x = <<x[1], x[2]>> /\ x[1] \in Nodes /\ x[2] \in Nat
                              /\ Taken(x[1], x[2], i)
    <3>1. \A n \in Nodes : DOMAIN wrk[n].batch = 1..Len(wrk[n].batch)
      BY DEF IInv, TypeInv, IsSeq
    <3>2. QED
      BY <3>1, SizesAssumption DEF Running, Taken
  <2>2. \A x, y \in Running(i) : x = y
    BY <2>1 DEF IInv, OneJobPerTask
  <2>3. CASE Running(i) = {}
    BY <2>3, FS_EmptySet
  <2>4. ASSUME NEW x \in Running(i) PROVE Cardinality(Running(i)) <= 1
    <3>1. Running(i) = {x}
      BY <2>2, <2>4
    <3>2. Cardinality({x}) = 1
      BY FS_Singleton
    <3>3. QED
      BY <3>1, <3>2
  <2>5. QED
    BY <2>3, <2>4
<1>2. QED
  BY <1>1, InitIInv, NextIInv, PTL DEF Spec

-----------------------------------------------------------------------------
(* The store.                                                              *)

TaskRecords ==
    [st : {"none", "Pending", "Retry", "Failed"}, due : 1..NEVER, attempt : 0..MaxAttempts,
     since : Nat]
Jobs == [id : used, due : 1..now]
Items == [job : Jobs, task : TaskRecords]

\* What holds of the store s, also between two tasks of a batch: ids are given
\* out in order, and what has no id yet has neither a task nor a key.
StoreOK(s) ==
    /\ s = [due |-> s.due, task |-> s.task, used |-> s.used, ok |-> s.ok]
    /\ s.task \in [Ids -> TaskRecords]
    /\ \E c \in Nat : s.used = 1..c
    /\ s.due \in SUBSET ((1..NEVER) \X s.used)
    /\ \A i \in Ids \ s.used : s.task[i] = NoTask
    /\ s.ok \in BOOLEAN

Stored == [due |-> due, task |-> task, used |-> used, ok |-> TRUE]

ManagerOK(m) ==
    /\ m = [pc |-> m.pc, wake |-> m.wake, permit |-> m.permit, jobs |-> m.jobs, seen |-> m.seen,
            next |-> m.next]
    /\ m.jobs \in SUBSET Jobs

ManagersOK == DOMAIN mgr = Nodes /\ \A n \in Nodes : ManagerOK(mgr[n])
ChannelsOK ==
    \A n \in Nodes : /\ Len(chan[n]) <= CHANNEL
                     /\ \A k \in 1..Len(chan[n]) : chan[n][k] \in Jobs
WorkersOK ==
    \A n \in Nodes : /\ Len(wrk[n].batch) <= BatchSize
                     /\ \A k \in 1..Len(wrk[n].batch) : wrk[n].batch[k] \in Items
RequestOK ==
    /\ admin \in [pc : {"idle", "update", "locked", "destroy"}, id : Ids \cup {0},
                  task : TaskRecords]
    /\ admin.pc # "idle" => admin.id \in used /\ admin.task # NoTask
StoreInv ==
    /\ now \in 1..MaxNow /\ StoreOK(Stored) /\ used \subseteq Ids
    /\ ManagersOK /\ ChannelsOK /\ WorkersOK /\ RequestOK

-----------------------------------------------------------------------------
(* Keys.                                                                   *)

\* Every task has its key, every key its task.
Keyed(s) == \A i \in Ids : s.task[i] # NoTask => <<s.task[i].due, i>> \in s.due
Exact(s) == \A i \in Ids, d \in 1..NEVER :
               <<d, i>> \in s.due => s.task[i] # NoTask /\ s.task[i].due = d

KeyInv == "edit" \notin odd => Keyed(Stored)

\* The task of a job is as it was when the job was found, until it is recorded.
WaitsForTask(j) == task[j.id] # NoTask /\ task[j.id].due = j.due
HasTask(x) == x.task = task[x.job.id] /\ WaitsForTask(x.job)
ExactInv ==
    ~Overtaken =>
        /\ Exact(Stored)
        /\ \A n \in Nodes : \A k \in 1..Len(chan[n]) : WaitsForTask(chan[n][k])
        /\ \A n \in Nodes : wrk[n].pc # "unlock" =>
              \A k \in 1..Len(wrk[n].batch) : HasTask(wrk[n].batch[k])

-----------------------------------------------------------------------------
(* Induction.  The smallest number without a property is not the first one *)
(* and does not follow one with the property.                              *)

LEMMA SmallestNat ==
  ASSUME NEW T, T \subseteq Nat, T # {} PROVE \E x \in T : \A y \in T : x <= y
<1>1. \E R : IsWellFoundedOn(R, Nat) /\ \A x, y \in Nat : y < x => <<y, x>> \in R
  <2>1. IsWellFoundedOn(OpToRel(<, Nat), Nat)
    BY NatLessThanWellFounded
  <2>2. \A x, y \in Nat : y < x => <<y, x>> \in OpToRel(<, Nat)
    BY DEF OpToRel
  <2>3. QED
    BY <2>1, <2>2, Zenon
<1>2. PICK R : IsWellFoundedOn(R, Nat) /\ \A x, y \in Nat : y < x => <<y, x>> \in R
  BY <1>1
<1>3. PICK x \in T : \A y \in T : ~(<<y, x>> \in R)
  BY <1>2, WFMin
<1>4. \A y \in T : ~(y < x)
  BY <1>2, <1>3
<1>5. \A y \in T : x <= y
  BY <1>4
<1>6. QED
  BY <1>5

LEMMA Induction ==
  ASSUME NEW S, 0 \in S, \A n \in Nat : n \in S => n + 1 \in S PROVE \A n \in Nat : n \in S
<1> DEFINE T == Nat \ S
<1> SUFFICES ASSUME T # {} PROVE FALSE
  OBVIOUS
<1>1. T \subseteq Nat /\ T # {}
  OBVIOUS
<1> HIDE DEF T
<1>2. PICK x \in T : \A y \in T : x <= y
  BY <1>1, SmallestNat
<1>3. x \in Nat /\ x # 0
  BY DEF T
<1>4. x - 1 \in Nat /\ x = (x - 1) + 1
  BY <1>3
<1>5. x - 1 \notin T
  BY <1>2, <1>4
<1>6. QED
  BY <1>4, <1>5 DEF T

\* The stores that update_tasks goes through: h[k] after k tasks of the batch.
Through(h, batch, res, n) ==
    /\ h = [k \in 0..n |-> h[k]]
    /\ h[0] = Stored
    /\ \A k \in 1..n : h[k] = Record(h[k - 1], batch[k], res[k])

LEMMA ThroughExists ==
  ASSUME NEW batch, NEW res, NEW n \in Nat PROVE \E h : Through(h, batch, res, n)
<1> DEFINE S == {m \in Nat : \E h : Through(h, batch, res, m)}
<1>1. 0 \in S
  <2> DEFINE h == [k \in 0..0 |-> Stored]
  <2>1. h = [k \in 0..0 |-> h[k]] /\ h[0] = Stored /\ 1..0 = {}
    OBVIOUS
  <2>2. Through(h, batch, res, 0)
    BY <2>1 DEF Through
  <2>3. QED
    BY <2>2
<1>2. ASSUME NEW m \in Nat, m \in S PROVE m + 1 \in S
  <2>1. PICK h : Through(h, batch, res, m)
    BY <1>2
  <2> DEFINE g == [k \in 0..m + 1 |->
                     IF k = m + 1 THEN Record(h[m], batch[m + 1], res[m + 1]) ELSE h[k]]
  <2>2. g = [k \in 0..m + 1 |-> g[k]]
    OBVIOUS
  <2>3. g[0] = Stored
    BY <2>1 DEF Through
  <2>4. ASSUME NEW k \in 1..m + 1 PROVE g[k] = Record(g[k - 1], batch[k], res[k])
    <3>1. CASE k = m + 1
      <4>1. g[k] = Record(h[m], batch[m + 1], res[m + 1])
        BY <3>1
      <4>2. k - 1 = m /\ g[k - 1] = h[m]
        BY <3>1
      <4>3. QED
        BY <3>1, <4>1, <4>2
    <3>2. CASE k # m + 1
      <4>1. k \in 1..m /\ k - 1 \in 0..m + 1 /\ k - 1 # m + 1 /\ k \in 0..m + 1
        BY <3>2
      <4>2. g[k] = h[k] /\ g[k - 1] = h[k - 1]
        BY <3>2, <4>1
      <4>3. QED
        BY <2>1, <4>1, <4>2 DEF Through
    <3>3. QED
      BY <3>1, <3>2
  <2> HIDE DEF g
  <2>5. Through(g, batch, res, m + 1)
    BY <2>2, <2>3, <2>4 DEF Through
  <2>6. QED
    BY <2>5
<1> HIDE DEF S
<1>3. n \in S
  BY <1>1, <1>2, Induction
<1>4. QED
  BY <1>3 DEF S

LEMMA WrittenIs ==
  ASSUME NEW batch, NEW res, Len(batch) \in Nat
  PROVE  \E h : Through(h, batch, res, Len(batch)) /\ Written(batch, res) = h[Len(batch)]
<1> DEFINE n == Len(batch)
           Def(h) == h = [k \in 0..n |->
                IF k = 0 THEN [due |-> due, task |-> task, used |-> used, ok |-> TRUE]
                ELSE Record(h[k - 1], batch[k], res[k])]
           f == CHOOSE h : Def(h)
<1>1. Written(batch, res) = f[n]
  BY DEF Written
<1>2. ASSUME NEW h PROVE Through(h, batch, res, n) <=> Def(h)
  <2> DEFINE F(k) == IF k = 0 THEN Stored ELSE Record(h[k - 1], batch[k], res[k])
  <2>1. Def(h) <=> h = [k \in 0..n |-> F(k)]
    BY DEF Stored
  <2>2. ASSUME Through(h, batch, res, n) PROVE h = [k \in 0..n |-> F(k)]
    <3>1. \A k \in 0..n : k = 0 \/ k \in 1..n
      OBVIOUS
    <3>2. \A k \in 0..n : h[k] = F(k)
      BY <2>2, <3>1 DEF Through
    <3> HIDE DEF F
    <3>3. QED
      BY <2>2, <3>2 DEF Through
  <2>3. ASSUME h = [k \in 0..n |-> F(k)] PROVE Through(h, batch, res, n)
    <3>1. 0 \in 0..n /\ \A k \in 1..n : k \in 0..n /\ k # 0
      OBVIOUS
    <3>2. F(0) = Stored /\ \A k \in 1..n : F(k) = Record(h[k - 1], batch[k], res[k])
      OBVIOUS
    <3> HIDE DEF F
    <3>3. /\ h = [k \in 0..n |-> h[k]]
          /\ \A k \in 0..n : h[k] = F(k)
      BY <2>3
    <3>4. QED
      BY <3>1, <3>2, <3>3 DEF Through
  <2> HIDE DEF F, Def
  <2>4. QED
    BY <2>1, <2>2, <2>3
<1>3. Def(f)
  BY <1>2, ThroughExists
<1>4. QED
  BY <1>1, <1>2, <1>3

-----------------------------------------------------------------------------
(* What update_tasks writes for one task.                                  *)

\* The three shapes of it: the task is removed, or removed and followed by a
\* new one, or written anew; the key it was found under is cleared.
Removed(s, j) ==
    [due |-> s.due \ {<<j.due, j.id>>}, task |-> [s.task EXCEPT ![j.id] = NoTask],
     used |-> s.used, ok |-> s.ok]
Chained(s, j, k, u) ==
    [due |-> (s.due \ {<<j.due, j.id>>}) \cup {<<u.due, k>>},
     task |-> [[s.task EXCEPT ![j.id] = NoTask] EXCEPT ![k] = u],
     used |-> s.used \cup {k}, ok |-> s.ok]
Rewritten(s, j, u, b) ==
    [due |-> (s.due \ {<<j.due, j.id>>}) \cup {<<u.due, j.id>>},
     task |-> [s.task EXCEPT ![j.id] = u], used |-> s.used, ok |-> b]

LEMMA TimeFacts ==
  ASSUME now \in 1..MaxNow, NEW r \in Results
  PROVE  /\ now + r.delay \in 1..NEVER /\ now + r.delay # NEVER /\ now \in Nat
         /\ NEVER \in 1..NEVER
<1>1. r.delay \in Delays \cup {0}
  BY DEF Results
<1>2. r.delay \in 0..50 /\ MaxNow \in Nat
  BY <1>1, TimeAssumption, SizesAssumption
<1>3. QED
  BY <1>2 DEF NEVER

LEMMA NewTaskFacts ==
  ASSUME now \in Nat, NEW d \in 1..NEVER
  PROVE  NewTask(d) \in TaskRecords /\ NewTask(d) # NoTask /\ NewTask(d).due = d
<1>1. NewTask(d).st # NoTask.st
  BY DEF NewTask, NoTask
<1>2. QED
  BY <1>1, SizesAssumption DEF NewTask, TaskRecords

LEMMA NoTaskFacts == NoTask \in TaskRecords
BY SizesAssumption DEF NoTask, TaskRecords, NEVER

LEMMA FailureFacts ==
  ASSUME now \in 1..MaxNow, NEW r \in Results, NEW t \in TaskRecords
  PROVE  AfterFailure(t, r) \in TaskRecords /\ AfterFailure(t, r) # NoTask
<1> DEFINE at == NextRetryTime(t, r)
<1>1. /\ now + r.delay \in 1..NEVER /\ now + r.delay # NEVER /\ now \in Nat
      /\ NEVER \in 1..NEVER
  BY TimeFacts
<1>2. t.attempt \in 0..MaxAttempts /\ t.since \in Nat /\ MaxAttempts \in Nat
  BY SizesAssumption DEF TaskRecords
<1>3. CASE at = NEVER
  <2>1. AfterFailure(t, r) =
          [st |-> "Failed", due |-> NEVER, attempt |-> t.attempt, since |-> now]
    BY <1>3 DEF AfterFailure
  <2>2. AfterFailure(t, r).st # NoTask.st
    BY <2>1 DEF NoTask
  <2>3. QED
    BY <1>1, <1>2, <2>1, <2>2 DEF TaskRecords
<1>4. CASE at # NEVER
  <2>1. at = now + r.delay /\ ~(t.attempt >= MaxAttempts)
    BY <1>4 DEF NextRetryTime
  <2>2. AfterFailure(t, r) =
          [st |-> "Retry", due |-> at, attempt |-> t.attempt + 1, since |-> t.since]
    BY <1>4 DEF AfterFailure
  <2>3. t.attempt + 1 \in 0..MaxAttempts
    BY <1>2, <2>1
  <2>4. AfterFailure(t, r).st # NoTask.st
    BY <2>2 DEF NoTask
  <2>5. QED
    BY <1>1, <1>2, <2>1, <2>2, <2>3, <2>4 DEF TaskRecords
<1>5. QED
  BY <1>3, <1>4

LEMMA PutIs ==
  ASSUME NEW D, NEW T, NEW U, NEW b, NEW i, NEW t
  PROVE  Put([due |-> D, task |-> T, used |-> U, ok |-> b], i, t)
           = [due |-> D \cup {<<t.due, i>>}, task |-> [T EXCEPT ![i] = t], used |-> U, ok |-> b]
<1> DEFINE s == [due |-> D, task |-> T, used |-> U, ok |-> b]
           V == [T EXCEPT ![i] = t]
           E == D \cup {<<t.due, i>>}
<1>1. s.task = T /\ s.due = D
  OBVIOUS
<1>2. [s EXCEPT !.task = V] = [due |-> D, task |-> V, used |-> U, ok |-> b]
  OBVIOUS
<1>3. [[due |-> D, task |-> V, used |-> U, ok |-> b] EXCEPT !.due = E]
        = [due |-> E, task |-> V, used |-> U, ok |-> b]
  OBVIOUS
<1> HIDE DEF s
<1>4. Put(s, i, t) =
        [[s EXCEPT !.task = [s.task EXCEPT ![i] = t]] EXCEPT !.due = s.due \cup {<<t.due, i>>}]
  BY Zenon DEF Put
<1>5. QED
  BY <1>1, <1>2, <1>3, <1>4 DEF s

LEMMA RecordIs ==
  ASSUME now \in 1..MaxNow, NEW s, StoreOK(s), NEW x, x.task \in TaskRecords, NEW r \in Results
  PROVE  \/ Record(s, x, r) = Removed(s, x.job)
         \/ \E u \in TaskRecords \ {NoTask} :
              \/ Record(s, x, r) = Chained(s, x.job, Cardinality(s.used) + 1, u)
              \/ \E b \in BOOLEAN : Record(s, x, r) = Rewritten(s, x.job, u, b)
<1> DEFINE j == x.job
           i == j.id
           k == Cardinality(s.used) + 1
           rest == [due |-> s.due \ {<<j.due, i>>}, task |-> s.task, used |-> s.used, ok |-> s.ok]
           gone == Removed(s, j)
           later == NewTask(now + r.delay)
           failed == AfterFailure(x.task, r)
<1>1. s = [due |-> s.due, task |-> s.task, used |-> s.used, ok |-> s.ok] /\ s.ok \in BOOLEAN
  BY DEF StoreOK
<1>2. Clear(s, j) = rest
  BY <1>1 DEF Clear
<1>3. [rest EXCEPT !.task[i] = NoTask] = gone
  BY DEF Removed
<1>4. \A u : Put(rest, i, u) = Rewritten(s, j, u, s.ok)
  BY PutIs DEF Rewritten
<1>5. ASSUME NEW u PROVE [Put(gone, k, u) EXCEPT !.used = @ \cup {k}] = Chained(s, j, k, u)
  <2> DEFINE D == s.due \ {<<j.due, i>>}
             T == [s.task EXCEPT ![i] = NoTask]
  <2>1. gone = [due |-> D, task |-> T, used |-> s.used, ok |-> s.ok]
    BY DEF Removed
  <2>2. Chained(s, j, k, u) = [due |-> D \cup {<<u.due, k>>}, task |-> [T EXCEPT ![k] = u],
                               used |-> s.used \cup {k}, ok |-> s.ok]
    BY DEF Chained
  <2> HIDE DEF D, T, gone
  <2>3. Put(gone, k, u) = [due |-> D \cup {<<u.due, k>>}, task |-> [T EXCEPT ![k] = u],
                           used |-> s.used, ok |-> s.ok]
    BY <2>1, PutIs
  <2> DEFINE P == Put(gone, k, u)
  <2>4. [P EXCEPT !.used = @ \cup {k}] = [P EXCEPT !.used = P.used \cup {k}]
    BY Zenon
  <2>5. P.used = s.used
    BY <2>3
  <2>6. [P EXCEPT !.used = s.used \cup {k}]
          = [due |-> D \cup {<<u.due, k>>}, task |-> [T EXCEPT ![k] = u],
             used |-> s.used \cup {k}, ok |-> s.ok]
    <3> DEFINE E == D \cup {<<u.due, k>>}
               V == [T EXCEPT ![k] = u]
               W == s.used \cup {k}
    <3> HIDE DEF P, E, V, W
    <3>1. P = [due |-> E, task |-> V, used |-> s.used, ok |-> s.ok]
      BY <2>3 DEF P, E, V
    <3>2. [P EXCEPT !.used = W] = [due |-> E, task |-> V, used |-> W, ok |-> s.ok]
      BY <3>1
    <3>3. QED
      BY <3>2 DEF E, V, W
  <2> HIDE DEF P
  <2>7. [P EXCEPT !.used = @ \cup {k}] = Chained(s, j, k, u)
    BY <2>2, <2>4, <2>5, <2>6
  <2>8. QED
    BY <2>7 DEF P
<1>6. later \in TaskRecords \ {NoTask} /\ failed \in TaskRecords \ {NoTask}
  BY TimeFacts, NewTaskFacts, FailureFacts
<1>7. Record(s, x, r) =
        CASE r.kind = "Success" -> gone
          [] r.kind = "Chain"   -> [Put(gone, k, later) EXCEPT !.used = @ \cup {k}]
          [] r.kind = "Update"  -> Put(rest, i, later)
          [] OTHER -> [Put(rest, i, failed) EXCEPT !.ok = @ /\ s.task[i] # NoTask]
  BY <1>2, <1>3 DEF Record
<1>8. [Put(rest, i, failed) EXCEPT !.ok = @ /\ s.task[i] # NoTask]
        = Rewritten(s, j, failed, s.ok /\ s.task[i] # NoTask)
  <2>1. Put(rest, i, failed) = Rewritten(s, j, failed, s.ok)
    BY <1>4
  <2> HIDE DEF failed, rest
  <2>2. QED
    BY <2>1 DEF Rewritten
<1>9. (s.ok /\ s.task[i] # NoTask) \in BOOLEAN
  BY <1>1
<1> HIDE DEF rest, gone, later, failed, k
<1>10. CASE r.kind = "Success"
  BY <1>7, <1>10 DEF gone
<1>11. CASE r.kind = "Chain"
  BY <1>5, <1>6, <1>7, <1>11 DEF k
<1>12. CASE r.kind = "Update"
  BY <1>1, <1>4, <1>6, <1>7, <1>12
<1>13. CASE r.kind \notin {"Success", "Chain", "Update"}
  BY <1>6, <1>7, <1>8, <1>9, <1>13
<1>14. QED
  BY <1>10, <1>11, <1>12, <1>13

\* The tasks and keys of the other ids are as they were.
Untouched(s, t, i) == /\ t.task[i] = s.task[i]
                      /\ \A d \in 1..NEVER : <<d, i>> \in t.due <=> <<d, i>> \in s.due

\* A store after the task of job j was recorded in it.
Recorded(s, t, j) ==
    /\ StoreOK(t) /\ s.used \subseteq t.used
    /\ \A i \in s.used \cap Ids : i # j.id => Untouched(s, t, i)
    /\ Keyed(s) => Keyed(t)
    /\ Exact(s) /\ (\A d \in 1..NEVER : <<d, j.id>> \in s.due => d = j.due) => Exact(t)

LEMMA RemovedRecords ==
  ASSUME NEW s, StoreOK(s), NEW j, j.id \in Ids \cap s.used PROVE Recorded(s, Removed(s, j), j)
<1> DEFINE t == Removed(s, j)
<1>1. /\ t = [due |-> t.due, task |-> t.task, used |-> t.used, ok |-> t.ok]
      /\ t.due = s.due \ {<<j.due, j.id>>} /\ t.used = s.used /\ t.ok = s.ok
      /\ t.task = [s.task EXCEPT ![j.id] = NoTask]
  BY DEF Removed
<1> HIDE DEF t
<1>2. /\ t.task \in [Ids -> TaskRecords] /\ t.task[j.id] = NoTask
      /\ \A i \in Ids \ {j.id} : t.task[i] = s.task[i]
  BY <1>1, NoTaskFacts DEF StoreOK
<1>3. StoreOK(t)
  BY <1>1, <1>2 DEF StoreOK
<1>4. \A i \in Ids \ {j.id} : Untouched(s, t, i)
  BY <1>1, <1>2 DEF Untouched
<1>5. Keyed(s) => Keyed(t)
  <2> SUFFICES ASSUME Keyed(s), NEW i \in Ids, t.task[i] # NoTask PROVE <<t.task[i].due, i>> \in t.due
    BY DEF Keyed
  <2>1. i # j.id /\ t.task[i] = s.task[i]
    BY <1>2
  <2>2. <<s.task[i].due, i>> \in s.due
    BY <2>1 DEF Keyed
  <2>3. QED
    BY <1>1, <2>1, <2>2
<1>6. ASSUME Exact(s), \A d \in 1..NEVER : <<d, j.id>> \in s.due => d = j.due PROVE Exact(t)
  <2>1. \A d \in 1..NEVER : <<d, j.id>> \notin t.due
    BY <1>1, <1>6
  <2>2. QED
    BY <1>4, <1>6, <2>1 DEF Exact, Untouched
<1>7. QED
  BY <1>1, <1>3, <1>4, <1>5, <1>6 DEF Recorded, t

LEMMA RewrittenRecords ==
  ASSUME NEW s, StoreOK(s), NEW j, j.id \in Ids \cap s.used, NEW u \in TaskRecords \ {NoTask},
         NEW b \in BOOLEAN
  PROVE  Recorded(s, Rewritten(s, j, u, b), j)
<1> DEFINE t == Rewritten(s, j, u, b)
<1>1. /\ t = [due |-> t.due, task |-> t.task, used |-> t.used, ok |-> t.ok]
      /\ t.due = (s.due \ {<<j.due, j.id>>}) \cup {<<u.due, j.id>>} /\ t.used = s.used /\ t.ok = b
      /\ t.task = [s.task EXCEPT ![j.id] = u]
  BY DEF Rewritten
<1> HIDE DEF t
<1>2. /\ t.task \in [Ids -> TaskRecords] /\ t.task[j.id] = u
      /\ \A i \in Ids \ {j.id} : t.task[i] = s.task[i]
  BY <1>1 DEF StoreOK
<1>3. u.due \in 1..NEVER
  BY DEF TaskRecords
<1>4. StoreOK(t)
  BY <1>1, <1>2, <1>3 DEF StoreOK
<1>5. \A i \in Ids \ {j.id} : Untouched(s, t, i)
  BY <1>1, <1>2 DEF Untouched
<1>6. Keyed(s) => Keyed(t)
  <2> SUFFICES ASSUME Keyed(s), NEW i \in Ids, t.task[i] # NoTask PROVE <<t.task[i].due, i>> \in t.due
    BY DEF Keyed
  <2>1. CASE i = j.id
    BY <1>1, <1>2, <2>1
  <2>2. CASE i # j.id
    <3>1. t.task[i] = s.task[i] /\ <<s.task[i].due, i>> \in s.due
      BY <1>2, <2>2 DEF Keyed
    <3>2. QED
      BY <1>1, <2>2, <3>1
  <2>3. QED
    BY <2>1, <2>2
<1>7. ASSUME Exact(s), \A d \in 1..NEVER : <<d, j.id>> \in s.due => d = j.due PROVE Exact(t)
  <2>1. \A d \in 1..NEVER : <<d, j.id>> \in t.due => d = u.due
    BY <1>1, <1>7
  <2>2. QED
    BY <1>2, <1>5, <1>7, <2>1 DEF Exact, Untouched
<1>8. QED
  BY <1>1, <1>4, <1>5, <1>6, <1>7 DEF Recorded, t

LEMMA ChainedRecords ==
  ASSUME NEW s, StoreOK(s), NEW j, j.id \in Ids \cap s.used, NEW u \in TaskRecords \ {NoTask}
  PROVE  Recorded(s, Chained(s, j, Cardinality(s.used) + 1, u), j)
<1>1. PICK c \in Nat : s.used = 1..c
  BY DEF StoreOK
<1> DEFINE k == Cardinality(s.used) + 1
           t == Chained(s, j, k, u)
<1>2. k = c + 1
  <2>1. Cardinality(1..c) = IF 1 > c THEN 0 ELSE c - 1 + 1
    BY FS_Interval
  <2>2. QED
    BY <1>1, <2>1
<1>3. /\ t = [due |-> t.due, task |-> t.task, used |-> t.used, ok |-> t.ok]
      /\ t.due = (s.due \ {<<j.due, j.id>>}) \cup {<<u.due, k>>}
      /\ t.used = s.used \cup {k} /\ t.ok = s.ok
      /\ t.task = [[s.task EXCEPT ![j.id] = NoTask] EXCEPT ![k] = u]
  BY DEF Chained
<1> HIDE DEF t, k
<1>4. k \notin s.used /\ k # j.id /\ t.used = 1..c + 1
  BY <1>1, <1>2, <1>3
<1>5. /\ t.task \in [Ids -> TaskRecords] /\ t.task[j.id] = NoTask
      /\ k \in Ids => t.task[k] = u
      /\ \A i \in Ids \ {j.id, k} : t.task[i] = s.task[i]
  <2> DEFINE T == [s.task EXCEPT ![j.id] = NoTask]
  <2>1. /\ T \in [Ids -> TaskRecords] /\ T[j.id] = NoTask
        /\ \A i \in Ids \ {j.id} : T[i] = s.task[i]
    BY NoTaskFacts DEF StoreOK
  <2>2. t.task = [T EXCEPT ![k] = u]
    BY <1>3
  <2> HIDE DEF T
  <2>3. QED
    BY <1>4, <2>1, <2>2
<1>6. u.due \in 1..NEVER
  BY DEF TaskRecords
<1>7. StoreOK(t)
  <2>1. c + 1 \in Nat
    BY <1>1
  <2>2. t.due \in SUBSET ((1..NEVER) \X t.used)
    BY <1>3, <1>6 DEF StoreOK
  <2>3. \A i \in Ids \ t.used : t.task[i] = NoTask
    BY <1>3, <1>5 DEF StoreOK
  <2>4. t.ok \in BOOLEAN
    BY <1>3 DEF StoreOK
  <2>5. QED
    BY <1>3, <1>4, <1>5, <2>1, <2>2, <2>3, <2>4 DEF StoreOK
<1>8. \A i \in Ids \ {j.id, k} : Untouched(s, t, i)
  BY <1>3, <1>5 DEF Untouched
<1>9. Keyed(s) => Keyed(t)
  <2> SUFFICES ASSUME Keyed(s), NEW i \in Ids, t.task[i] # NoTask PROVE <<t.task[i].due, i>> \in t.due
    BY DEF Keyed
  <2>1. CASE i = k
    BY <1>3, <1>5, <2>1
  <2>2. CASE i # k
    <3>1. t.task[i] = s.task[i] /\ i # j.id /\ <<s.task[i].due, i>> \in s.due
      BY <1>5, <2>2 DEF Keyed
    <3>2. QED
      BY <1>3, <2>2, <3>1
  <2>3. QED
    BY <2>1, <2>2
<1>10. ASSUME Exact(s), \A d \in 1..NEVER : <<d, j.id>> \in s.due => d = j.due PROVE Exact(t)
  <2>1. \A d \in 1..NEVER : <<d, j.id>> \notin t.due
    BY <1>3, <1>4, <1>10
  <2>2. \A d \in 1..NEVER : <<d, k>> \in t.due => d = u.due
    BY <1>3, <1>4 DEF StoreOK
  <2>3. ASSUME NEW i \in Ids, NEW d \in 1..NEVER, <<d, i>> \in t.due
        PROVE  t.task[i] # NoTask /\ t.task[i].due = d
    <3>1. CASE i = k
      BY <1>5, <2>2, <2>3, <3>1
    <3>2. CASE i = j.id
      BY <2>1, <2>3, <3>2
    <3>3. CASE i \notin {j.id, k}
      BY <1>8, <1>10, <2>3, <3>3 DEF Exact, Untouched
    <3>4. QED
      BY <3>1, <3>2, <3>3
  <2>4. QED
    BY <2>3 DEF Exact
<1>11. \A i \in s.used \cap Ids : i # j.id => Untouched(s, t, i)
  BY <1>4, <1>8
<1>12. QED
  BY <1>3, <1>7, <1>9, <1>10, <1>11 DEF Recorded, t, k

LEMMA RecordRecords ==
  ASSUME now \in 1..MaxNow, NEW s, StoreOK(s), NEW x, x.task \in TaskRecords,
         x.job.id \in Ids \cap s.used, NEW r \in Results
  PROVE  Recorded(s, Record(s, x, r), x.job)
BY RecordIs, RemovedRecords, ChainedRecords, RewrittenRecords

\* A batch of different tasks, each found under its only key.
Proper(batch) ==
    /\ \A k, l \in 1..Len(batch) : batch[k].job.id = batch[l].job.id => k = l
    /\ \A k \in 1..Len(batch) : \A d \in 1..NEVER :
          <<d, batch[k].job.id>> \in due => d = batch[k].job.due

\* The store s after the first m tasks of a batch.
AfterTasks(s, batch, m) ==
    /\ StoreOK(s) /\ used \subseteq s.used
    /\ \A i \in used : (\A k \in 1..m : batch[k].job.id # i) => Untouched(Stored, s, i)
    /\ Keyed(Stored) => Keyed(s)
    /\ Exact(Stored) /\ Proper(batch) => Exact(s)

LEMMA AfterOneMore ==
  ASSUME now \in 1..MaxNow, used \subseteq Ids, NEW batch, Len(batch) \in Nat,
         \A k \in 1..Len(batch) : batch[k] \in Items,
         NEW m \in Nat, m + 1 \in 1..Len(batch), NEW s, AfterTasks(s, batch, m), NEW r \in Results
  PROVE  AfterTasks(Record(s, batch[m + 1], r), batch, m + 1)
<1> DEFINE x == batch[m + 1]
           j == x.job
           t == Record(s, x, r)
<1>1. x.task \in TaskRecords /\ j.id \in used /\ j.id \in Ids \cap s.used
  BY DEF Items, Jobs, AfterTasks
<1>2. Recorded(s, t, j)
  BY <1>1, RecordRecords DEF AfterTasks
<1> HIDE DEF t
<1>3. StoreOK(t) /\ used \subseteq t.used /\ (Keyed(Stored) => Keyed(t))
  BY <1>2 DEF Recorded, AfterTasks
<1>4. m + 1 \in 1..m + 1 /\ \A k \in 1..m : k \in 1..m + 1
  OBVIOUS
<1>5. ASSUME NEW i \in used, \A k \in 1..m + 1 : batch[k].job.id # i
      PROVE  Untouched(Stored, t, i)
  <2>1. i # j.id /\ i \in s.used \cap Ids
    BY <1>4, <1>5 DEF AfterTasks
  <2>2. Untouched(Stored, s, i) /\ Untouched(s, t, i)
    BY <1>2, <1>4, <1>5, <2>1 DEF Recorded, AfterTasks
  <2>3. QED
    BY <2>2 DEF Untouched
<1>6. ASSUME Exact(Stored), Proper(batch) PROVE Exact(t)
  <2>1. \A k \in 1..m : k \in 1..Len(batch) /\ k # m + 1
    OBVIOUS
  <2>2. \A k \in 1..m : batch[k].job.id # j.id
    BY <1>6, <2>1 DEF Proper
  <2>3. Untouched(Stored, s, j.id)
    BY <1>1, <2>2 DEF AfterTasks
  <2>4. \A d \in 1..NEVER : <<d, j.id>> \in due => d = j.due
    BY <1>6 DEF Proper
  <2>5. \A d \in 1..NEVER : <<d, j.id>> \in s.due => d = j.due
    BY <2>3, <2>4 DEF Untouched, Stored
  <2>6. QED
    BY <1>2, <1>6, <2>5 DEF Recorded, AfterTasks
<1>7. QED
  BY <1>3, <1>5, <1>6 DEF AfterTasks, t

LEMMA WrittenFacts ==
  ASSUME now \in 1..MaxNow, StoreOK(Stored), used \subseteq Ids, NEW batch, Len(batch) \in Nat,
         \A k \in 1..Len(batch) : batch[k] \in Items,
         NEW res \in [1..Len(batch) -> Results]
  PROVE  AfterTasks(Written(batch, res), batch, Len(batch))
<1> DEFINE N == Len(batch)
<1>1. PICK h : Through(h, batch, res, N) /\ Written(batch, res) = h[N]
  BY WrittenIs
<1> DEFINE S == {m \in Nat : m <= N => AfterTasks(h[m], batch, m)}
<1>2. 0 \in S
  <2>1. h[0] = Stored /\ Stored.used = used
    BY <1>1 DEF Through, Stored
  <2>2. \A i : Untouched(Stored, Stored, i)
    BY DEF Untouched
  <2>3. AfterTasks(Stored, batch, 0)
    BY <2>1, <2>2 DEF AfterTasks
  <2>4. QED
    BY <2>1, <2>3
<1>3. ASSUME NEW m \in Nat, m \in S PROVE m + 1 \in S
  <2>1. CASE m + 1 <= N
    <3>1. m <= N /\ m + 1 \in 1..N /\ (m + 1) - 1 = m
      BY <2>1
    <3>2. h[m + 1] = Record(h[m], batch[m + 1], res[m + 1])
      BY <1>1, <3>1 DEF Through
    <3>3. AfterTasks(h[m], batch, m) /\ res[m + 1] \in Results
      BY <1>3, <3>1
    <3>4. AfterTasks(h[m + 1], batch, m + 1)
      BY <3>1, <3>2, <3>3, AfterOneMore
    <3>5. QED
      BY <3>4
  <2>2. QED
    BY <2>1
<1> HIDE DEF S
<1>4. N \in S
  BY <1>2, <1>3, Induction
<1>5. QED
  BY <1>1, <1>4 DEF S

-----------------------------------------------------------------------------
(* The store and the jobs are well formed.                                 *)

\* Ids are never taken back and the clock goes forward: jobs stay jobs.
Grows == now \in Nat /\ now' \in Nat /\ now <= now' /\ used \subseteq used'

LEMMA JobsStay == ASSUME Grows PROVE Jobs \subseteq Jobs' /\ Items \subseteq Items'
<1>1. 1..now \subseteq 1..now'
  BY DEF Grows
<1>2. Jobs \subseteq Jobs'
  BY <1>1 DEF Grows, Jobs
<1>3. QED
  BY <1>2 DEF Items

LEMMA NotifiedManagers ==
  ASSUME ManagersOK, Grows, mgr' = mgr \/ \E n \in Nodes : mgr' = Notified(n)
  PROVE  ManagersOK'
<1>1. Jobs \subseteq Jobs'
  BY JobsStay
<1>2. CASE mgr' = mgr
  BY <1>1, <1>2 DEF ManagersOK, ManagerOK
<1>3. ASSUME NEW n \in Nodes, mgr' = Notified(n) PROVE ManagersOK'
  <2>1. mgr' = [mgr EXCEPT ![n] = [mgr[n] EXCEPT !.permit = TRUE]]
    BY <1>3 DEF Notified
  <2>2. \A m \in Nodes : mgr[m] = [pc |-> mgr[m].pc, wake |-> mgr[m].wake,
           permit |-> mgr[m].permit, jobs |-> mgr[m].jobs, seen |-> mgr[m].seen,
           next |-> mgr[m].next] /\ mgr[m].jobs \in SUBSET Jobs
    BY DEF ManagersOK, ManagerOK
  <2>3. /\ DOMAIN mgr' = Nodes /\ \A m \in Nodes \ {n} : mgr'[m] = mgr[m]
        /\ mgr'[n] = [mgr[n] EXCEPT !.permit = TRUE]
    BY <2>1 DEF ManagersOK
  <2>4. mgr'[n] = [pc |-> mgr[n].pc, wake |-> mgr[n].wake, permit |-> TRUE,
                   jobs |-> mgr[n].jobs, seen |-> mgr[n].seen, next |-> mgr[n].next]
    BY <2>2, <2>3
  <2>5. \A m \in Nodes : mgr'[m].jobs \in SUBSET Jobs'
    BY <1>1, <2>2, <2>3, <2>4
  <2>6. \A m \in Nodes : mgr'[m] = [pc |-> mgr'[m].pc, wake |-> mgr'[m].wake,
           permit |-> mgr'[m].permit, jobs |-> mgr'[m].jobs, seen |-> mgr'[m].seen,
           next |-> mgr'[m].next]
    BY <2>2, <2>3, <2>4
  <2>7. QED
    BY <2>3, <2>5, <2>6 DEF ManagersOK, ManagerOK
<1>4. QED
  BY <1>2, <1>3

LEMMA FewerJobs ==
  ASSUME StoreInv, Grows,
         \A n \in Nodes : chan'[n] = chan[n] \/ chan'[n] = <<>>,
         \A n \in Nodes : wrk'[n].batch = wrk[n].batch \/ wrk'[n].batch = <<>>
  PROVE  ChannelsOK' /\ WorkersOK'
<1>1. Jobs \subseteq Jobs' /\ Items \subseteq Items'
  BY JobsStay
<1>2. Len(<<>>) = 0 /\ 0 <= CHANNEL /\ 0 <= BatchSize
  BY EmptyFacts, SizesAssumption
<1>3. ChannelsOK'
  BY <1>1, <1>2 DEF StoreInv, ChannelsOK
<1>4. WorkersOK'
  BY <1>1, <1>2 DEF StoreInv, WorkersOK
<1>5. QED
  BY <1>3, <1>4

LEMMA NoRequestFacts ==
  NoRequest \in [pc : {"idle", "update", "locked", "destroy"}, id : Ids \cup {0},
                 task : TaskRecords] /\ NoRequest.pc = "idle"
BY NoTaskFacts DEF NoRequest

LEMMA RequestEnds ==
  ASSUME RequestOK, Grows, admin' = admin \/ admin' = NoRequest PROVE RequestOK'
BY NoRequestFacts DEF RequestOK, Grows

\* Steps that do no more to the jobs than drop some.
LEMMA FrameStoreInv ==
  ASSUME StoreInv, now' \in 1..MaxNow, now <= now', StoreOK(Stored'), used \subseteq used',
         used' \subseteq Ids, ManagersOK',
         \A n \in Nodes : chan'[n] = chan[n] \/ chan'[n] = <<>>,
         \A n \in Nodes : wrk'[n].batch = wrk[n].batch \/ wrk'[n].batch = <<>>,
         admin' = admin \/ admin' = NoRequest
  PROVE  StoreInv'
<1>1. Grows
  BY DEF StoreInv, Grows
<1>2. ChannelsOK' /\ WorkersOK'
  BY <1>1, FewerJobs
<1>3. RequestOK'
  BY <1>1, RequestEnds DEF StoreInv
<1>4. StoreOK(Stored)'
  BY DEF StoreOK, Stored
<1>5. QED
  BY <1>2, <1>3, <1>4 DEF StoreInv

LEMMA SameStore ==
  ASSUME StoreInv, UNCHANGED <<now, task, due, used>>
  PROVE  /\ now' \in 1..MaxNow /\ now <= now' /\ StoreOK(Stored') /\ used \subseteq used'
         /\ used' \subseteq Ids /\ Grows
<1>1. Stored' = Stored
  BY DEF Stored
<1>2. QED
  BY <1>1 DEF StoreInv, Grows

LEMMA InitStoreInv == Init => StoreInv
<1> SUFFICES ASSUME Init PROVE StoreInv
  OBVIOUS
<1>1. now \in 1..MaxNow
  BY SizesAssumption DEF Init
<1>2. StoreOK(Stored) /\ used = {}
  <2>1. Stored = [due |-> {}, task |-> [i \in Ids |-> NoTask], used |-> {}, ok |-> TRUE]
    BY DEF Init, Stored
  <2>2. {} = 1..0 /\ 0 \in Nat
    OBVIOUS
  <2>3. QED
    BY <2>1, <2>2, NoTaskFacts DEF StoreOK, Init
<1>3. ManagersOK
  BY DEF Init, ManagersOK, ManagerOK, Asleep
<1>4. ChannelsOK /\ WorkersOK
  BY EmptyFacts, SizesAssumption DEF Init, ChannelsOK, WorkersOK, Idle
<1>5. RequestOK
  BY NoRequestFacts DEF Init, RequestOK
<1>6. QED
  BY <1>1, <1>2, <1>3, <1>4, <1>5 DEF StoreInv

LEMMA TickStoreInv == ASSUME StoreInv, Tick PROVE StoreInv'
<1>1. /\ now' = now + 1 /\ now < MaxNow
      /\ UNCHANGED <<task, due, used, mgr, chan, wrk, admin>>
  BY DEF Tick
<1>2. now' \in 1..MaxNow /\ now <= now' /\ Stored' = Stored
  BY <1>1, SizesAssumption DEF StoreInv, Stored
<1>3. ManagersOK'
  BY <1>1, <1>2, NotifiedManagers DEF StoreInv, Grows
<1>4. QED
  BY <1>1, <1>2, <1>3, FrameStoreInv DEF StoreInv

\* A new task: its id is new.
LEMMA ScheduleFacts ==
  ASSUME StoreInv, NEW n \in Nodes, NEW d \in {now, now + 1}, Schedule(n, d)
  PROVE  /\ NextId \in Ids \ used /\ d \in 1..NEVER
         /\ NewTask(d) \in TaskRecords /\ NewTask(d) # NoTask /\ NewTask(d).due = d
         /\ \E c \in Nat : used = 1..c /\ NextId = c + 1
<1>1. PICK c \in Nat : used = 1..c
  BY DEF StoreInv, StoreOK, Stored
<1>2. Cardinality(1..c) = IF 1 > c THEN 0 ELSE c - 1 + 1
  BY FS_Interval
<1>3. NextId = c + 1
  BY <1>1, <1>2 DEF NextId
<1>4. NextId \notin used /\ NextId \in Ids
  BY <1>1, <1>3 DEF Schedule
<1>5. now \in Nat /\ d \in 1..NEVER
  BY SizesAssumption DEF StoreInv, NEVER
<1>6. QED
  BY <1>1, <1>3, <1>4, <1>5, NewTaskFacts

LEMMA ScheduleStoreInv ==
  ASSUME StoreInv, NEW n \in Nodes, NEW d \in {now, now + 1}, Schedule(n, d) PROVE StoreInv'
<1>1. /\ NextId \in Ids \ used /\ d \in 1..NEVER /\ NewTask(d) \in TaskRecords
      /\ \E c \in Nat : used = 1..c /\ NextId = c + 1
  BY ScheduleFacts
<1>2. /\ task' = [task EXCEPT ![NextId] = NewTask(d)] /\ due' = due \cup {<<d, NextId>>}
      /\ used' = used \cup {NextId} /\ mgr' = Notified(n)
      /\ UNCHANGED <<now, chan, wrk, admin>>
  BY DEF Schedule
<1>3. StoreOK(Stored')
  <2>1. /\ task \in [Ids -> TaskRecords] /\ due \in SUBSET ((1..NEVER) \X used)
        /\ \A i \in Ids \ used : task[i] = NoTask
    BY DEF StoreInv, StoreOK, Stored
  <2>2. PICK c \in Nat : used = 1..c /\ NextId = c + 1
    BY <1>1
  <2>3. c + 1 \in Nat /\ used' = 1..c + 1
    BY <1>2, <2>2
  <2>4. task' \in [Ids -> TaskRecords] /\ \A i \in Ids \ {NextId} : task'[i] = task[i]
    BY <1>1, <1>2, <2>1
  <2>5. /\ due' \in SUBSET ((1..NEVER) \X used')
        /\ \A i \in Ids \ used' : task'[i] = NoTask
    BY <1>1, <1>2, <2>1, <2>4
  <2>6. Stored' = [due |-> due', task |-> task', used |-> used', ok |-> TRUE]
    BY DEF Stored
  <2> HIDE DEF Stored
  <2>7. QED
    BY <2>3, <2>4, <2>5, <2>6 DEF StoreOK
<1>4. Grows
  BY <1>2 DEF StoreInv, Grows
<1>5. ManagersOK'
  BY <1>2, <1>4, NotifiedManagers DEF StoreInv
<1>6. now' \in 1..MaxNow /\ now <= now' /\ used \subseteq used' /\ used' \subseteq Ids
  BY <1>1, <1>2 DEF StoreInv
<1>7. QED
  BY <1>2, <1>3, <1>5, <1>6, FrameStoreInv

\* The manager's pass.
LEMMA VisitManagers ==
  ASSUME StoreInv, NEW n \in Nodes, NEW keys \in SUBSET DueKeys(n), NEW next,
         Visit(n, keys, next), UNCHANGED <<now, used>>
  PROVE  ManagersOK'
<1> DEFINE J == {[id |-> k[2], due |-> k[1]] :
                   k \in {x \in keys : x[1] \in Picked(n, keys, x[2])}}
           m == [pc |-> "dispatch", wake |-> 0, permit |-> FALSE, next |-> next,
                 seen |-> {k[2] : k \in keys}, jobs |-> J]
<1>1. mgr' = [mgr EXCEPT ![n] = m]
  BY DEF Visit
<1>2. \A k \in keys : k \in (1..NEVER) \X used /\ k[1] <= now
  BY DEF DueKeys, StoreInv, StoreOK, Stored
<1>3. now \in Nat /\ \A k \in keys : k[1] \in 1..now /\ k[2] \in used
  BY <1>2 DEF StoreInv
<1>4. J \in SUBSET Jobs
  BY <1>3 DEF Jobs
<1> HIDE DEF J
<1>5. m.jobs = J /\ m = [pc |-> m.pc, wake |-> m.wake, permit |-> m.permit, jobs |-> m.jobs,
                         seen |-> m.seen, next |-> m.next]
  OBVIOUS
<1> HIDE DEF m
<1>6. Jobs' = Jobs
  BY DEF Jobs
<1>7. QED
  BY <1>1, <1>4, <1>5, <1>6 DEF StoreInv, ManagersOK, ManagerOK

LEMMA PassStoreInv ==
  ASSUME StoreInv, NEW n \in Nodes, Scan(n) \/ ScanFails(n) \/ EndPass(n) PROVE StoreInv'
<1>1. UNCHANGED <<now, task, due, used, chan, wrk, admin>>
  BY DEF Scan, ScanFails, EndPass
<1>2. /\ now' \in 1..MaxNow /\ now <= now' /\ StoreOK(Stored') /\ used \subseteq used'
      /\ used' \subseteq Ids /\ Grows
  BY <1>1, SameStore
<1>3. ManagersOK'
  <2>1. CASE Scan(n) \/ ScanFails(n)
    BY <1>1, <2>1, VisitManagers DEF Scan, ScanFails
  <2>2. CASE EndPass(n)
    <3>1. PICK t, p : mgr' = [mgr EXCEPT ![n] = [Asleep(t) EXCEPT !.permit = p]]
      BY <2>2 DEF EndPass
    <3>2. [Asleep(t) EXCEPT !.permit = p] =
            [pc |-> "sleep", wake |-> t, permit |-> p, jobs |-> {}, seen |-> {}, next |-> 0]
      BY DEF Asleep
    <3>3. mgr' = [mgr EXCEPT ![n] =
            [pc |-> "sleep", wake |-> t, permit |-> p, jobs |-> {}, seen |-> {}, next |-> 0]]
      BY <3>1, <3>2
    <3>4. Jobs' = Jobs
      BY <1>1 DEF Jobs
    <3>5. QED
      BY <3>3, <3>4 DEF StoreInv, ManagersOK, ManagerOK
  <2>3. QED
    BY <2>1, <2>2
<1>4. QED
  BY <1>1, <1>2, <1>3, FrameStoreInv

LEMMA DispatchStoreInv ==
  ASSUME IInv, StoreInv, NEW n \in Nodes, NEW j \in mgr[n].jobs,
         mgr' = [mgr EXCEPT ![n].jobs = @ \ {j}],
         chan' = chan \/ Send(n, j),
         UNCHANGED <<now, task, due, wrk, admin, used>>
  PROVE  StoreInv'
<1>1. /\ now' \in 1..MaxNow /\ now <= now' /\ StoreOK(Stored') /\ used \subseteq used'
      /\ used' \subseteq Ids /\ Grows
  BY SameStore
<1>2. Jobs' = Jobs /\ j \in Jobs
  BY DEF StoreInv, ManagersOK, ManagerOK, Jobs
<1>3. ManagersOK'
  <2>1. mgr' = [mgr EXCEPT ![n] = [mgr[n] EXCEPT !.jobs = mgr[n].jobs \ {j}]]
    OBVIOUS
  <2>2. \A m \in Nodes : mgr[m] = [pc |-> mgr[m].pc, wake |-> mgr[m].wake,
           permit |-> mgr[m].permit, jobs |-> mgr[m].jobs, seen |-> mgr[m].seen,
           next |-> mgr[m].next] /\ mgr[m].jobs \in SUBSET Jobs
    BY DEF StoreInv, ManagersOK, ManagerOK
  <2>3. /\ DOMAIN mgr' = Nodes /\ \A m \in Nodes \ {n} : mgr'[m] = mgr[m]
        /\ mgr'[n] = [mgr[n] EXCEPT !.jobs = mgr[n].jobs \ {j}]
    BY <2>1 DEF StoreInv, ManagersOK
  <2>4. mgr'[n] = [pc |-> mgr[n].pc, wake |-> mgr[n].wake, permit |-> mgr[n].permit,
                   jobs |-> mgr[n].jobs \ {j}, seen |-> mgr[n].seen, next |-> mgr[n].next]
    BY <2>2, <2>3
  <2>5. \A m \in Nodes : mgr'[m].jobs \in SUBSET Jobs'
    BY <1>2, <2>2, <2>3, <2>4
  <2>6. \A m \in Nodes : mgr'[m] = [pc |-> mgr'[m].pc, wake |-> mgr'[m].wake,
           permit |-> mgr'[m].permit, jobs |-> mgr'[m].jobs, seen |-> mgr'[m].seen,
           next |-> mgr'[m].next]
    BY <2>2, <2>3, <2>4
  <2>7. QED
    BY <2>3, <2>5, <2>6 DEF ManagersOK, ManagerOK
<1>4. CASE chan' = chan
  BY <1>1, <1>3, <1>4, FrameStoreInv
<1>5. CASE Send(n, j)
  <2>1. /\ Len(chan[n]) < CHANNEL /\ DOMAIN chan = Nodes /\ IsSeq(chan[n])
        /\ chan'[n] = Append(chan[n], j) /\ \A m \in Nodes \ {n} : chan'[m] = chan[m]
    BY <1>5 DEF Send, IInv, TypeInv
  <2>2. /\ Len(chan[n]) \in Nat /\ Len(chan'[n]) = Len(chan[n]) + 1
        /\ \A k \in 1..Len(chan[n]) : chan'[n][k] = chan[n][k]
        /\ chan'[n][Len(chan[n]) + 1] = j
    BY <2>1, AppendFacts
  <2>3. /\ Len(chan'[n]) <= CHANNEL
        /\ \A k \in 1..Len(chan'[n]) : k \in 1..Len(chan[n]) \/ k = Len(chan[n]) + 1
    BY <2>1, <2>2, SizesAssumption
  <2>4. ChannelsOK'
    BY <1>2, <2>1, <2>2, <2>3 DEF StoreInv, ChannelsOK
  <2>5. WorkersOK' /\ RequestOK' /\ Stored' = Stored
    BY <1>2 DEF StoreInv, WorkersOK, RequestOK, Stored, Items
  <2>6. StoreOK(Stored)'
    BY <2>5 DEF StoreInv, StoreOK
  <2>7. QED
    BY <1>1, <1>3, <2>4, <2>5, <2>6 DEF StoreInv
<1>6. QED
  BY <1>4, <1>5

LEMMA TakeStoreInv ==
  ASSUME IInv, StoreInv, NEW n \in Nodes, Take(n) PROVE StoreInv'
<1> DEFINE j == Head(chan[n])
           x == [job |-> j, task |-> task[j.id]]
<1>1. /\ chan[n] # <<>> /\ chan' = [chan EXCEPT ![n] = Tail(@)] /\ Len(wrk[n].batch) < BatchSize
      /\ UNCHANGED <<now, task, due, used, mgr, admin>>
      /\ \/ wrk' = [wrk EXCEPT ![n].pc = "fill", ![n].batch = Append(@, x)]
         \/ wrk' = [wrk EXCEPT ![n].pc = "fill"]
  BY DEF Take
<1>2. /\ IsSeq(chan[n]) /\ DOMAIN chan = Nodes /\ DOMAIN wrk = Nodes /\ IsSeq(wrk[n].batch)
      /\ wrk[n] = [pc |-> wrk[n].pc, batch |-> wrk[n].batch, refresh |-> wrk[n].refresh]
  BY DEF IInv, TypeInv
<1>3. /\ Len(chan[n]) \in Nat /\ Len(chan[n]) >= 1 /\ Len(Tail(chan[n])) = Len(chan[n]) - 1
      /\ j = chan[n][1] /\ \A k \in 1..Len(chan[n]) - 1 : Tail(chan[n])[k] = chan[n][k + 1]
  BY <1>1, <1>2, TailFacts
<1>4. chan'[n] = Tail(chan[n]) /\ \A m \in Nodes \ {n} : chan'[m] = chan[m]
  BY <1>1, <1>2
<1>5. /\ \/ wrk'[n].batch = Append(wrk[n].batch, x)
         \/ wrk'[n].batch = wrk[n].batch
      /\ \A m \in Nodes \ {n} : wrk'[m] = wrk[m]
  BY <1>1, <1>2
<1>6. Jobs' = Jobs /\ Items' = Items
  BY <1>1 DEF Jobs, Items
<1>7. 1 \in 1..Len(chan[n]) /\ \A k \in 1..Len(chan[n]) - 1 : k + 1 \in 1..Len(chan[n])
  BY <1>3
<1>8. j \in Jobs /\ x \in Items
  <2>1. j \in Jobs
    BY <1>3, <1>7 DEF StoreInv, ChannelsOK
  <2>2. task[j.id] \in TaskRecords
    BY <2>1 DEF Jobs, StoreInv, StoreOK, Stored
  <2>3. QED
    BY <2>1, <2>2 DEF Items
<1> HIDE DEF j, x
<1>9. ChannelsOK'
  <2>1. Len(chan'[n]) <= CHANNEL
    BY <1>3, <1>4, SizesAssumption DEF StoreInv, ChannelsOK
  <2>2. \A k \in 1..Len(chan'[n]) : chan'[n][k] \in Jobs
    BY <1>3, <1>4, <1>7 DEF StoreInv, ChannelsOK
  <2>3. QED
    BY <1>4, <1>6, <2>1, <2>2 DEF StoreInv, ChannelsOK
<1>10. WorkersOK'
  <2>1. /\ Len(wrk[n].batch) \in Nat /\ Len(Append(wrk[n].batch, x)) = Len(wrk[n].batch) + 1
        /\ \A k \in 1..Len(wrk[n].batch) : Append(wrk[n].batch, x)[k] = wrk[n].batch[k]
        /\ Append(wrk[n].batch, x)[Len(wrk[n].batch) + 1] = x
    BY <1>2, AppendFacts
  <2>2. CASE wrk'[n].batch = Append(wrk[n].batch, x)
    <3>1. /\ Len(wrk'[n].batch) <= BatchSize
          /\ \A k \in 1..Len(wrk'[n].batch) : k \in 1..Len(wrk[n].batch) \/ k = Len(wrk[n].batch) + 1
      BY <1>1, <2>1, <2>2, SizesAssumption
    <3>2. \A k \in 1..Len(wrk'[n].batch) : wrk'[n].batch[k] \in Items
      BY <1>8, <2>1, <2>2, <3>1 DEF StoreInv, WorkersOK
    <3>3. QED
      BY <1>5, <1>6, <3>1, <3>2 DEF StoreInv, WorkersOK
  <2>3. CASE wrk'[n].batch = wrk[n].batch
    BY <1>5, <1>6, <2>3 DEF StoreInv, WorkersOK
  <2>4. QED
    BY <1>5, <2>2, <2>3
<1>11. ManagersOK' /\ RequestOK' /\ Stored' = Stored
  BY <1>1, <1>6 DEF StoreInv, ManagersOK, ManagerOK, RequestOK, Stored
<1>12. StoreOK(Stored)'
  BY <1>11 DEF StoreInv, StoreOK
<1>13. QED
  BY <1>1, <1>9, <1>10, <1>11, <1>12 DEF StoreInv

\* The worker records its batch, or the batch is refused.
LEMMA FinishFacts ==
  ASSUME IInv, StoreInv, NEW n \in Nodes, Finish(n)
  PROVE  /\ UNCHANGED <<now, mgr, chan, admin, odd, lock>> /\ wrk[n].pc = "run"
         /\ wrk'[n].pc = "unlock" /\ wrk'[n].batch = wrk[n].batch
         /\ \A m \in Nodes \ {n} : wrk'[m] = wrk[m]
         /\ \/ UNCHANGED <<task, due, used>>
            \/ AfterTasks(Stored', wrk[n].batch, Len(wrk[n].batch)) /\ used' \subseteq Ids
<1> DEFINE b == wrk[n].batch
<1>1. PICK res \in [1..Len(b) -> Results] :
         /\ Written(b, res).used \subseteq Ids
         /\ IF Written(b, res).ok THEN /\ task' = Written(b, res).task /\ due' = Written(b, res).due
                                       /\ used' = Written(b, res).used
            ELSE UNCHANGED <<task, due, used>>
         /\ wrk' = [wrk EXCEPT ![n].pc = "unlock", ![n].refresh = \E k \in DOMAIN res : IsRetry(res[k])]
  BY DEF Finish
<1> DEFINE w == Written(b, res)
           f == \E k \in DOMAIN res : IsRetry(res[k])
<1>2. /\ DOMAIN wrk = Nodes /\ Len(b) \in Nat
      /\ wrk[n] = [pc |-> wrk[n].pc, batch |-> b, refresh |-> wrk[n].refresh]
  BY DEF IInv, TypeInv, IsSeq
<1>3. AfterTasks(w, b, Len(b))
  BY <1>2, WrittenFacts DEF StoreInv, WorkersOK
<1> HIDE DEF w, f
<1>4. /\ wrk'[n].pc = "unlock" /\ wrk'[n].batch = b
      /\ \A m \in Nodes \ {n} : wrk'[m] = wrk[m]
  <2>1. wrk' = [wrk EXCEPT ![n].pc = "unlock", ![n].refresh = f]
    BY <1>1 DEF f
  <2>2. QED
    BY <1>2, <2>1
<1>5. CASE w.ok
  <2>1. task' = w.task /\ due' = w.due /\ used' = w.used /\ used' \subseteq Ids
    BY <1>1, <1>5 DEF w
  <2>2. w = [due |-> w.due, task |-> w.task, used |-> w.used, ok |-> w.ok] /\ w.ok = TRUE
    BY <1>3, <1>5 DEF AfterTasks, StoreOK
  <2>3. Stored' = w
    BY <2>1, <2>2 DEF Stored
  <2>4. QED
    BY <1>3, <1>4, <2>1, <2>3 DEF Finish
<1>6. CASE ~w.ok
  <2>1. UNCHANGED <<task, due, used>>
    BY <1>1, <1>6 DEF w
  <2>2. QED
    BY <1>4, <2>1 DEF Finish
<1>7. QED
  BY <1>5, <1>6

LEMMA FinishStoreInv ==
  ASSUME IInv, StoreInv, NEW n \in Nodes, Finish(n) PROVE StoreInv'
<1>1. /\ UNCHANGED <<now, mgr, chan, admin>> /\ \A m \in Nodes : wrk'[m].batch = wrk[m].batch
      /\ \/ UNCHANGED <<task, due, used>>
         \/ AfterTasks(Stored', wrk[n].batch, Len(wrk[n].batch)) /\ used' \subseteq Ids
  BY FinishFacts
<1>2. /\ now' \in 1..MaxNow /\ now <= now' /\ StoreOK(Stored') /\ used \subseteq used'
      /\ used' \subseteq Ids /\ Grows
  <2>1. CASE UNCHANGED <<task, due, used>>
    BY <1>1, <2>1, SameStore
  <2>2. CASE AfterTasks(Stored', wrk[n].batch, Len(wrk[n].batch)) /\ used' \subseteq Ids
    <3>1. Stored'.used = used'
      BY DEF Stored
    <3>2. StoreOK(Stored') /\ used \subseteq used'
      BY <2>2, <3>1 DEF AfterTasks
    <3>3. QED
      BY <1>1, <2>2, <3>2 DEF StoreInv, Grows
  <2>3. QED
    BY <1>1, <2>1, <2>2
<1>3. ManagersOK'
  BY <1>1, <1>2, NotifiedManagers DEF StoreInv
<1>4. QED
  BY <1>1, <1>2, <1>3, FrameStoreInv

LEMMA WorkStoreInv ==
  ASSUME IInv, StoreInv, NEW n \in Nodes, Start(n) \/ WriteFails(n) \/ Unlock(n) \/ Crash(n)
  PROVE  StoreInv'
<1>1. UNCHANGED <<now, task, due, used, admin>>
  BY DEF Start, WriteFails, Unlock, Crash
<1>2. /\ now' \in 1..MaxNow /\ now <= now' /\ StoreOK(Stored') /\ used \subseteq used'
      /\ used' \subseteq Ids /\ Grows
  BY <1>1, SameStore
<1>3. /\ DOMAIN chan = Nodes /\ DOMAIN wrk = Nodes
      /\ wrk[n] = [pc |-> wrk[n].pc, batch |-> wrk[n].batch, refresh |-> wrk[n].refresh]
  BY DEF IInv, TypeInv
<1>4. \A m \in Nodes : chan'[m] = chan[m] \/ chan'[m] = <<>>
  BY <1>3 DEF Start, WriteFails, Unlock, Crash
<1>5. \A m \in Nodes : wrk'[m].batch = wrk[m].batch \/ wrk'[m].batch = <<>>
  BY <1>3 DEF Start, WriteFails, Unlock, Crash, Idle
<1>6. ManagersOK'
  <2>1. CASE Crash(n)
    <3>1. mgr' = [mgr EXCEPT ![n] = Asleep(now)]
      BY <2>1 DEF Crash
    <3>2. Jobs' = Jobs
      BY <1>1 DEF Jobs
    <3>3. QED
      BY <3>1, <3>2 DEF StoreInv, ManagersOK, ManagerOK, Asleep
  <2>2. CASE ~Crash(n)
    BY <1>2, <2>2, NotifiedManagers DEF StoreInv, Start, WriteFails, Unlock
  <2>3. QED
    BY <2>1, <2>2
<1>7. QED
  BY <1>1, <1>2, <1>4, <1>5, <1>6, FrameStoreInv

\* The administrator's requests.
LEMMA AdminReadStoreInv ==
  ASSUME StoreInv, NEW op \in AdminOps, AdminRead(op) PROVE StoreInv'
<1>1. PICK i \in used : Exists(i) /\ admin' = [pc |-> op, id |-> i, task |-> task[i]]
  BY DEF AdminRead
<1>2. /\ UNCHANGED <<now, task, due, used, mgr, chan, wrk>> /\ op \in {"update", "destroy"}
      /\ i \in Ids /\ task[i] \in TaskRecords /\ task[i] # NoTask
  BY <1>1, AdminAssumption DEF AdminRead, Exists, StoreInv, StoreOK, Stored
<1>3. RequestOK'
  BY <1>1, <1>2 DEF RequestOK
<1>4. Jobs' = Jobs /\ Items' = Items /\ Stored' = Stored
  BY <1>2 DEF Jobs, Items, Stored
<1>5. StoreOK(Stored)'
  BY <1>4 DEF StoreInv, StoreOK
<1>6. QED
  BY <1>2, <1>3, <1>4, <1>5 DEF StoreInv, ManagersOK, ManagerOK, ChannelsOK, WorkersOK

LEMMA AdminLockStoreInv ==
  ASSUME StoreInv, AdminLock PROVE StoreInv'
<1>1. /\ UNCHANGED <<now, task, due, used, mgr, chan, wrk>> /\ admin.pc = "update"
      /\ admin' = [admin EXCEPT !.pc = "locked"] \/ admin' = NoRequest
  BY DEF AdminLock
<1>2. RequestOK'
  BY <1>1, NoRequestFacts DEF StoreInv, RequestOK
<1>3. Jobs' = Jobs /\ Items' = Items /\ Stored' = Stored
  BY <1>1 DEF Jobs, Items, Stored
<1>4. StoreOK(Stored)'
  BY <1>3 DEF StoreInv, StoreOK
<1>5. QED
  BY <1>1, <1>2, <1>3, <1>4 DEF StoreInv, ManagersOK, ManagerOK, ChannelsOK, WorkersOK

LEMMA RequestFacts ==
  ASSUME StoreInv, admin.pc # "idle"
  PROVE  /\ admin.id \in used /\ admin.id \in Ids /\ admin.task \in TaskRecords
         /\ admin.task # NoTask /\ admin.task.due \in 1..NEVER
         /\ task \in [Ids -> TaskRecords] /\ due \in SUBSET ((1..NEVER) \X used)
         /\ now \in Nat /\ \A d \in {now, now + 1} : d \in 1..NEVER
<1>1. now \in Nat /\ \A d \in {now, now + 1} : d \in 1..NEVER
  BY SizesAssumption DEF StoreInv, NEVER
<1>2. QED
  BY <1>1 DEF StoreInv, RequestOK, StoreOK, Stored, TaskRecords

\* A request writes one task and moves or removes its key.
LEMMA RequestWrites ==
  ASSUME StoreInv, admin.pc # "idle", NEW t \in TaskRecords, NEW K \in SUBSET ((1..NEVER) \X used),
         task' = [task EXCEPT ![admin.id] = t], due' = K, admin' = NoRequest,
         mgr' = mgr \/ \E n \in Nodes : mgr' = Notified(n), UNCHANGED <<now, used, chan, wrk>>
  PROVE  StoreInv'
<1>1. admin.id \in used /\ admin.id \in Ids /\ task \in [Ids -> TaskRecords]
  BY RequestFacts
<1>2. task' \in [Ids -> TaskRecords] /\ \A i \in Ids \ used : task'[i] = task[i]
  BY <1>1
<1>3. Stored' = [due |-> K, task |-> task', used |-> used, ok |-> TRUE]
  BY DEF Stored
<1>4. (\E c \in Nat : used = 1..c) /\ \A i \in Ids \ used : task[i] = NoTask
  BY DEF StoreInv, StoreOK, Stored
<1> HIDE DEF Stored
<1>5. StoreOK(Stored')
  BY <1>2, <1>3, <1>4 DEF StoreOK
<1>6. Grows
  BY DEF StoreInv, Grows
<1>7. ManagersOK'
  BY <1>6, NotifiedManagers DEF StoreInv
<1>8. QED
  BY <1>5, <1>7, FrameStoreInv DEF StoreInv

LEMMA AdminWriteStoreInv ==
  ASSUME StoreInv, NEW n \in Nodes, NEW d \in {now, now + 1}, AdminWrite(n, d) PROVE StoreInv'
<1>1. admin.pc # "idle" /\ now \in Nat /\ d \in 1..NEVER
  BY RequestFacts DEF AdminWrite
<1>2. NewTask(d) \in TaskRecords
  BY <1>1, NewTaskFacts
<1>3. due' \in SUBSET ((1..NEVER) \X used)
  BY <1>1, RequestFacts DEF AdminWrite
<1>4. QED
  BY <1>1, <1>2, <1>3, RequestWrites DEF AdminWrite

LEMMA AdminDestroyStoreInv ==
  ASSUME StoreInv, NEW n \in Nodes, AdminDestroy(n) PROVE StoreInv'
<1>1. admin.pc # "idle"
  BY DEF AdminDestroy
<1>2. due' \in SUBSET ((1..NEVER) \X used)
  BY <1>1, RequestFacts DEF AdminDestroy
<1>3. QED
  BY <1>1, <1>2, NoTaskFacts, RequestWrites DEF AdminDestroy

LEMMA NextStoreInv ==
  ASSUME IInv, StoreInv, [Next]_vars PROVE StoreInv'
<1>1. ASSUME UNCHANGED <<now, task, due, used, mgr, chan, wrk>>, admin' = admin \/ admin' = NoRequest
      PROVE  StoreInv'
  BY <1>1, SameStore, NotifiedManagers, FrameStoreInv DEF StoreInv
<1>2. CASE UNCHANGED vars
  BY <1>1, <1>2 DEF vars
<1>3. CASE AdminGivesUp
  BY <1>1, <1>3 DEF AdminGivesUp
<1>4. ASSUME NEW n \in Nodes, Dispatch(n) PROVE StoreInv'
  <2>1. PICK j \in mgr[n].jobs : /\ mgr' = [mgr EXCEPT ![n].jobs = @ \ {j}]
                                 /\ Send(n, j) \/ LockedByAnother(n, j) \/ ChannelFull(n, j)
    BY <1>4 DEF Dispatch
  <2>2. chan' = chan \/ Send(n, j)
    BY <2>1 DEF LockedByAnother, ChannelFull
  <2>3. UNCHANGED <<now, task, due, wrk, admin, used>>
    BY <1>4 DEF Dispatch
  <2>4. QED
    BY <2>1, <2>2, <2>3, DispatchStoreInv
<1>5. QED
  BY <1>2, <1>3, <1>4, TickStoreInv, ScheduleStoreInv, PassStoreInv, TakeStoreInv, FinishStoreInv,
     WorkStoreInv, AdminReadStoreInv, AdminLockStoreInv, AdminWriteStoreInv, AdminDestroyStoreInv
     DEF Next, NodeStep, AdminStep

\* The store, the jobs and the request are well formed in every state: attempts
\* stay within their maximum, keys are of tasks that were scheduled, channels
\* and batches within their sizes.
THEOREM TypeCorrect == Spec => []TypeOK
<1>1. IInv /\ StoreInv => TypeOK
  <2> SUFFICES ASSUME IInv, StoreInv PROVE TypeOK
    OBVIOUS
  <2>1. \A i \in Ids : task[i] \in TaskRecords
    BY DEF StoreInv, StoreOK, Stored
  <2>2. \A k \in due : k \in (1..NEVER) \X used
    BY DEF StoreInv, StoreOK, Stored
  <2>3. QED
    BY <2>1, <2>2 DEF TypeOK, StoreInv, ChannelsOK, WorkersOK, TaskRecords
<1>2. Init => IInv /\ StoreInv
  BY InitIInv, InitStoreInv
<1>3. IInv /\ StoreInv /\ [Next]_vars => (IInv /\ StoreInv)'
  BY NextIInv, NextStoreInv
<1>4. QED
  BY <1>1, <1>2, <1>3, PTL DEF Spec

-----------------------------------------------------------------------------
(* A task has its key.                                                     *)

\* The steps that leave the tasks and keys alone, and the four that do not.
LEMMA StoreSteps ==
  ASSUME [Next]_vars
  PROVE  /\ odd \subseteq odd'
         /\ \/ UNCHANGED <<task, due>>
            \/ \E n \in Nodes, d \in {now, now + 1} : Schedule(n, d) \/ AdminWrite(n, d)
            \/ \E n \in Nodes : Finish(n) \/ AdminDestroy(n)
<1>1. CASE UNCHANGED vars
  BY <1>1 DEF vars
<1>2. CASE Tick \/ (\E op \in AdminOps : AdminRead(op)) \/ AdminLock \/ AdminGivesUp
  BY <1>2 DEF Tick, AdminRead, AdminLock, AdminGivesUp, Fault
<1>3. ASSUME NEW n \in Nodes, \/ Scan(n) \/ ScanFails(n) \/ EndPass(n) \/ Take(n) \/ Start(n)
                              \/ WriteFails(n) \/ Unlock(n) \/ Crash(n)
      PROVE  odd \subseteq odd' /\ UNCHANGED <<task, due>>
  BY <1>3 DEF Scan, ScanFails, EndPass, Take, Start, WriteFails, Unlock, Crash, Fault
<1>4. ASSUME NEW n \in Nodes, Dispatch(n) PROVE odd \subseteq odd' /\ UNCHANGED <<task, due>>
  BY <1>4 DEF Dispatch, Send, LockedByAnother, ChannelFull, Fault
<1>5. ASSUME NEW n \in Nodes, NEW d, Schedule(n, d) \/ AdminWrite(n, d) PROVE odd \subseteq odd'
  BY <1>5 DEF Schedule, AdminWrite
<1>6. ASSUME NEW n \in Nodes, Finish(n) \/ AdminDestroy(n) PROVE odd \subseteq odd'
  BY <1>6 DEF Finish, AdminDestroy
<1>7. QED
  BY <1>1, <1>2, <1>3, <1>4, <1>5, <1>6 DEF Next, NodeStep, AdminStep

LEMMA ScheduleKeys ==
  ASSUME StoreInv, NEW n \in Nodes, NEW d \in {now, now + 1}, Schedule(n, d)
  PROVE  /\ \A i \in used : i \in Ids /\ Untouched(Stored, Stored', i)
         /\ Keyed(Stored) => Keyed(Stored')
         /\ Exact(Stored) => Exact(Stored')
<1>1. /\ NextId \in Ids \ used /\ d \in 1..NEVER
      /\ NewTask(d) # NoTask /\ NewTask(d).due = d
  BY ScheduleFacts
<1>2. task' = [task EXCEPT ![NextId] = NewTask(d)] /\ due' = due \cup {<<d, NextId>>}
  BY DEF Schedule
<1>3. /\ task \in [Ids -> TaskRecords] /\ due \in SUBSET ((1..NEVER) \X used)
      /\ used \subseteq Ids
  BY DEF StoreInv, StoreOK, Stored
<1>4. /\ Stored.task = task /\ Stored.due = due /\ Stored'.task = task' /\ Stored'.due = due'
  BY DEF Stored
<1> HIDE DEF Stored
<1>5. task'[NextId] = NewTask(d) /\ \A i \in Ids \ {NextId} : task'[i] = task[i]
  BY <1>1, <1>2, <1>3
<1>6. \A i \in Ids \ {NextId} : Untouched(Stored, Stored', i)
  BY <1>2, <1>4, <1>5 DEF Untouched
<1>7. Keyed(Stored) => Keyed(Stored')
  BY <1>1, <1>2, <1>4, <1>5 DEF Keyed
<1>8. ASSUME Exact(Stored), NEW i \in Ids, NEW e \in 1..NEVER, <<e, i>> \in due'
      PROVE  task'[i] # NoTask /\ task'[i].due = e
  <2>1. CASE i = NextId
    <3>1. <<e, i>> \notin due
      BY <1>1, <1>3, <2>1
    <3>2. QED
      BY <1>1, <1>2, <1>5, <1>8, <2>1, <3>1
  <2>2. CASE i # NextId
    BY <1>4, <1>6, <1>8, <2>2 DEF Exact, Untouched
  <2>3. QED
    BY <2>1, <2>2
<1>9. QED
  BY <1>1, <1>3, <1>4, <1>6, <1>7, <1>8 DEF Exact

\* A request whose task is as it was read.
LEMMA AdminKeys ==
  ASSUME StoreInv, NEW n \in Nodes,
         \/ \E d \in {now, now + 1} : AdminWrite(n, d)
         \/ AdminDestroy(n),
         "edit" \notin odd'
  PROVE  /\ admin.id \in used /\ admin.id \in Ids
         /\ \A i \in Ids \ {admin.id} : Untouched(Stored, Stored', i)
         /\ Keyed(Stored) => Keyed(Stored')
         /\ Exact(Stored) => Exact(Stored')
<1> DEFINE a == admin.id
           e == admin.task.due
<1>1. admin.pc # "idle"
  BY DEF AdminWrite, AdminDestroy
<1>2. /\ a \in used /\ a \in Ids /\ admin.task # NoTask /\ e \in 1..NEVER
      /\ task \in [Ids -> TaskRecords] /\ now \in Nat
      /\ \A d \in {now, now + 1} : d \in 1..NEVER
  BY <1>1, RequestFacts
<1>3. task[a] = admin.task
  BY DEF AdminWrite, AdminDestroy
<1>4. /\ Stored.task = task /\ Stored.due = due /\ Stored'.task = task' /\ Stored'.due = due'
  BY DEF Stored
<1> HIDE DEF Stored
<1>5. ASSUME NEW d \in {now, now + 1}, AdminWrite(n, d)
      PROVE  /\ task' = [task EXCEPT ![a] = NewTask(d)]
             /\ due' = IF d = e THEN due ELSE (due \ {<<e, a>>}) \cup {<<d, a>>}
             /\ NewTask(d) # NoTask /\ NewTask(d).due = d
  BY <1>2, <1>5, NewTaskFacts DEF AdminWrite
<1>6. CASE AdminDestroy(n)
  <2>1. task' = [task EXCEPT ![a] = NoTask] /\ due' = due \ {<<e, a>>}
    BY <1>6 DEF AdminDestroy
  <2>2. task'[a] = NoTask /\ \A i \in Ids \ {a} : task'[i] = task[i]
    BY <1>2, <2>1
  <2>3. \A i \in Ids \ {a} : Untouched(Stored, Stored', i)
    BY <1>4, <2>1, <2>2 DEF Untouched
  <2>4. Keyed(Stored) => Keyed(Stored')
    <3> SUFFICES ASSUME Keyed(Stored), NEW i \in Ids, task'[i] # NoTask
                 PROVE  <<task'[i].due, i>> \in due'
      BY <1>4 DEF Keyed
    <3>1. i # a /\ task'[i] = task[i] /\ <<task[i].due, i>> \in due
      BY <1>4, <2>2 DEF Keyed
    <3>2. QED
      BY <2>1, <3>1
  <2>5. ASSUME Exact(Stored) PROVE Exact(Stored')
    <3>1. \A d \in 1..NEVER : <<d, a>> \notin due'
      BY <1>2, <1>3, <1>4, <2>1, <2>5 DEF Exact
    <3>2. QED
      BY <1>4, <2>3, <2>5, <3>1 DEF Exact, Untouched
  <2>6. QED
    BY <1>2, <2>3, <2>4, <2>5
<1>7. ASSUME NEW d \in {now, now + 1}, AdminWrite(n, d)
      PROVE  /\ \A i \in Ids \ {a} : Untouched(Stored, Stored', i)
             /\ Keyed(Stored) => Keyed(Stored')
             /\ Exact(Stored) => Exact(Stored')
  <2>1. /\ due' = IF d = e THEN due ELSE (due \ {<<e, a>>}) \cup {<<d, a>>}
        /\ task'[a] # NoTask /\ task'[a].due = d /\ \A i \in Ids \ {a} : task'[i] = task[i]
    BY <1>2, <1>5, <1>7
  <2>2. \A i \in Ids \ {a} : Untouched(Stored, Stored', i)
    BY <1>4, <2>1 DEF Untouched
  <2>3. Keyed(Stored) => Keyed(Stored')
    <3> SUFFICES ASSUME Keyed(Stored), NEW i \in Ids, task'[i] # NoTask
                 PROVE  <<task'[i].due, i>> \in due'
      BY <1>4 DEF Keyed
    <3>1. CASE i = a
      BY <1>2, <1>3, <1>4, <2>1, <3>1 DEF Keyed
    <3>2. CASE i # a
      <4>1. task'[i] = task[i] /\ <<task[i].due, i>> \in due
        BY <1>4, <2>1, <3>2 DEF Keyed
      <4>2. QED
        BY <2>1, <3>2, <4>1
    <3>3. QED
      BY <3>1, <3>2
  <2>4. ASSUME Exact(Stored) PROVE Exact(Stored')
    <3>1. \A c \in 1..NEVER : <<c, a>> \in due' => c = d
      BY <1>2, <1>3, <1>4, <2>1, <2>4 DEF Exact
    <3>2. QED
      BY <1>2, <1>4, <2>1, <2>2, <2>4, <3>1 DEF Exact, Untouched
  <2>5. QED
    BY <2>2, <2>3, <2>4
<1>8. QED
  BY <1>2, <1>6, <1>7

LEMMA NextKeyInv ==
  ASSUME IInv, StoreInv, KeyInv, [Next]_vars PROVE KeyInv'
<1>1. odd \subseteq odd'
  BY StoreSteps
<1> SUFFICES ASSUME "edit" \notin odd' PROVE Keyed(Stored')
  BY DEF KeyInv, Keyed, Stored
<1>2. Keyed(Stored)
  BY <1>1 DEF KeyInv
<1>3. CASE UNCHANGED <<task, due>>
  BY <1>2, <1>3 DEF Keyed, Stored
<1>4. ASSUME NEW n \in Nodes, NEW d \in {now, now + 1}, Schedule(n, d) PROVE Keyed(Stored')
  BY <1>2, <1>4, ScheduleKeys
<1>5. ASSUME NEW n \in Nodes, (\E d \in {now, now + 1} : AdminWrite(n, d)) \/ AdminDestroy(n)
      PROVE  Keyed(Stored')
  BY <1>2, <1>5, AdminKeys
<1>6. ASSUME NEW n \in Nodes, Finish(n) PROVE Keyed(Stored')
  <2>1. UNCHANGED <<task, due>> \/ AfterTasks(Stored', wrk[n].batch, Len(wrk[n].batch))
    BY <1>6, FinishFacts
  <2>2. QED
    BY <1>2, <1>3, <2>1 DEF AfterTasks
<1>7. QED
  BY <1>3, <1>4, <1>5, <1>6, StoreSteps

LEMMA KeyInvHolds == Spec => [](IInv /\ StoreInv /\ KeyInv)
<1>1. Init => KeyInv
  BY DEF Init, KeyInv, Keyed, Stored
<1>2. Init => IInv /\ StoreInv
  BY InitIInv, InitStoreInv
<1>3. IInv /\ StoreInv /\ KeyInv /\ [Next]_vars => (IInv /\ StoreInv /\ KeyInv)'
  BY NextIInv, NextStoreInv, NextKeyInv
<1>4. QED
  BY <1>1, <1>2, <1>3, PTL DEF Spec

\* Whatever fails and in whatever order managers, workers and restarts take
\* their steps, a task in the store has the key it is found under: a batch
\* moves, adds and removes tasks and keys together, and an edit of what was
\* read keeps the key or moves it.
THEOREM KeysAreKept == Spec => []TaskHasItsDueKey
<1>1. IInv /\ StoreInv /\ KeyInv => TaskHasItsDueKey
  <2> SUFFICES ASSUME KeyInv, "edit" \notin odd, NEW i \in Ids, Exists(i)
               PROVE  task[i].due \in DuesOf(i)
    BY DEF TaskHasItsDueKey
  <2>1. <<task[i].due, i>> \in due
    BY DEF KeyInv, Keyed, Stored, Exists
  <2>2. <<task[i].due, i>>[1] = task[i].due /\ <<task[i].due, i>>[2] = i
    OBVIOUS
  <2>3. QED
    BY <2>1, <2>2 DEF DuesOf
<1>2. QED
  BY <1>1, KeyInvHolds, PTL

-----------------------------------------------------------------------------
(* A key has its task, and a job the task it was found for.                *)

\* No job for task i is under way; so it is while its lock is free or the
\* administrator has it.
Unheld(i) ==
    /\ \A n \in Nodes : \A k \in 1..Len(chan[n]) : chan[n][k].id # i
    /\ \A n \in Nodes : \A k \in 1..Len(wrk[n].batch) : wrk[n].batch[k].job.id # i

LEMMA JobIds ==
  ASSUME IInv, StoreInv
  PROVE  /\ \A n \in Nodes : \A k \in 1..Len(chan[n]) :
               /\ chan[n][k].id \in used /\ chan[n][k].id \in Ids /\ k \in Nat
               /\ chan[n][k].due \in 1..now /\ Waiting(n, k, chan[n][k].id)
         /\ \A n \in Nodes : \A k \in 1..Len(wrk[n].batch) :
               /\ wrk[n].batch[k].job.id \in used /\ wrk[n].batch[k].job.id \in Ids /\ k \in Nat
               /\ wrk[n].batch[k].job.due \in 1..now /\ Taken(n, k, wrk[n].batch[k].job.id)
<1>1. \A n \in Nodes : Len(chan[n]) \in Nat /\ Len(wrk[n].batch) \in Nat
  BY DEF IInv, TypeInv, IsSeq
<1>2. ASSUME NEW n \in Nodes, NEW k \in 1..Len(chan[n])
      PROVE  chan[n][k].id \in used /\ chan[n][k].due \in 1..now
  BY DEF StoreInv, ChannelsOK, Jobs
<1>3. ASSUME NEW n \in Nodes, NEW k \in 1..Len(wrk[n].batch)
      PROVE  wrk[n].batch[k].job.id \in used /\ wrk[n].batch[k].job.due \in 1..now
  BY DEF StoreInv, WorkersOK, Items, Jobs
<1>4. used \subseteq Ids
  BY DEF StoreInv
<1>5. QED
  BY <1>1, <1>2, <1>3, <1>4 DEF Waiting, Taken

LEMMA FreeIsUnheld ==
  ASSUME IInv, StoreInv, Undisturbed, NEW i \in Ids, lock[i] <= now \/ Editing(i) PROVE Unheld(i)
<1>1. lock[i] <= now => ~(lock[i] > now)
  BY DEF IInv, TypeInv
<1>2. QED
  BY <1>1, JobIds DEF IInv, HoldersAreLocked, OneJobPerTask, Unheld

\* Steps that neither send a job nor take one, and leave the tasks of those
\* that are under way alone.
LEMMA FrameExactInv ==
  ASSUME ExactInv, odd \subseteq odd',
         ~Overtaken /\ ~Overtaken' =>
            /\ Exact(Stored')
            /\ \A n \in Nodes : \A k \in 1..Len(chan[n]) :
                  task'[chan[n][k].id] = task[chan[n][k].id]
            /\ \A n \in Nodes : wrk'[n].pc # "unlock" => \A k \in 1..Len(wrk[n].batch) :
                  task'[wrk[n].batch[k].job.id] = task[wrk[n].batch[k].job.id],
         \A n \in Nodes : chan'[n] = chan[n] \/ chan'[n] = <<>>,
         \A n \in Nodes : \/ wrk'[n].pc = "unlock" \/ wrk'[n].batch = <<>>
                          \/ wrk[n].pc # "unlock" /\ wrk'[n].batch = wrk[n].batch
  PROVE  ExactInv'
<1> SUFFICES ASSUME ~Overtaken'
             PROVE  /\ Exact(Stored')
                    /\ \A n \in Nodes : \A k \in 1..Len(chan'[n]) : WaitsForTask(chan[n][k])'
                    /\ \A n \in Nodes : wrk'[n].pc # "unlock" =>
                          \A k \in 1..Len(wrk'[n].batch) : HasTask(wrk[n].batch[k])'
  BY DEF ExactInv, Exact, Stored
<1>1. ~Overtaken
  BY DEF Overtaken
<1>2. 1..Len(<<>>) = {}
  BY EmptyFacts
<1>3. ASSUME NEW n \in Nodes, NEW k \in 1..Len(chan'[n]) PROVE WaitsForTask(chan[n][k])'
  <2>1. chan'[n] = chan[n]
    BY <1>2, <1>3
  <2>2. WaitsForTask(chan[n][k])
    BY <1>1, <1>3, <2>1 DEF ExactInv
  <2>3. task'[chan[n][k].id] = task[chan[n][k].id]
    BY <1>1, <1>3, <2>1
  <2>4. QED
    BY <2>1, <2>2, <2>3 DEF WaitsForTask
<1>4. ASSUME NEW n \in Nodes, wrk'[n].pc # "unlock", NEW k \in 1..Len(wrk'[n].batch)
      PROVE  HasTask(wrk[n].batch[k])'
  <2>1. wrk[n].pc # "unlock" /\ wrk'[n].batch = wrk[n].batch
    BY <1>2, <1>4
  <2>2. HasTask(wrk[n].batch[k])
    BY <1>1, <1>4, <2>1 DEF ExactInv
  <2>3. task'[wrk[n].batch[k].job.id] = task[wrk[n].batch[k].job.id]
    BY <1>1, <1>4, <2>1
  <2>4. QED
    BY <2>1, <2>2, <2>3 DEF HasTask, WaitsForTask
<1>5. QED
  BY <1>1, <1>3, <1>4

LEMMA QuietExactInv ==
  ASSUME ExactInv, odd \subseteq odd', UNCHANGED <<task, due>>,
         \A n \in Nodes : chan'[n] = chan[n] \/ chan'[n] = <<>>,
         \A n \in Nodes : \/ wrk'[n].pc = "unlock" \/ wrk'[n].batch = <<>>
                          \/ wrk[n].pc # "unlock" /\ wrk'[n].batch = wrk[n].batch
  PROVE  ExactInv'
<1>1. ~Overtaken => Exact(Stored')
  BY DEF ExactInv, Exact, Stored
<1>2. QED
  BY <1>1, FrameExactInv

LEMMA ScheduleExactInv ==
  ASSUME IInv, StoreInv, ExactInv, NEW n \in Nodes, NEW d \in {now, now + 1}, Schedule(n, d)
  PROVE  ExactInv'
<1>1. UNCHANGED <<chan, wrk, odd>>
  BY DEF Schedule
<1>2. /\ \A i \in used : task'[i] = task[i]
      /\ Exact(Stored) => Exact(Stored')
  BY ScheduleKeys DEF Untouched, Stored
<1>3. ~Overtaken => Exact(Stored)
  BY DEF ExactInv
<1>4. QED
  BY <1>1, <1>2, <1>3, JobIds, FrameExactInv

\* Editing needs the lock; destroying does not, but then a lock that was held
\* is accounted for.
LEMMA AdminExactInv ==
  ASSUME IInv, StoreInv, ExactInv, NEW n \in Nodes,
         \/ \E d \in {now, now + 1} : AdminWrite(n, d)
         \/ AdminDestroy(n)
  PROVE  ExactInv'
<1>1. UNCHANGED <<chan, wrk>> /\ odd \subseteq odd'
  BY DEF AdminWrite, AdminDestroy
<1>2. ASSUME ~Overtaken, ~Overtaken'
      PROVE  /\ Exact(Stored') /\ Unheld(admin.id)
             /\ \A i \in Ids \ {admin.id} : task'[i] = task[i]
  <2>1. "edit" \notin odd' /\ "unlocked" \notin odd' /\ Undisturbed
    BY <1>2 DEF Overtaken, Undisturbed
  <2>2. /\ admin.id \in Ids
        /\ Exact(Stored) => Exact(Stored')
        /\ \A i \in Ids \ {admin.id} : task'[i] = task[i]
    BY <2>1, AdminKeys DEF Untouched, Stored
  <2>3. lock[admin.id] <= now \/ Editing(admin.id)
    <3>1. CASE AdminDestroy(n)
      <4>1. ~(lock[admin.id] > now) /\ lock[admin.id] \in Nat /\ now \in Nat
        BY <2>1, <2>2, <3>1 DEF AdminDestroy, IInv, TypeInv
      <4>2. QED
        BY <4>1
    <3>2. CASE ~AdminDestroy(n)
      BY <3>2 DEF AdminWrite, Editing
    <3>3. QED
      BY <3>1, <3>2
  <2>4. QED
    BY <1>2, <2>1, <2>2, <2>3, FreeIsUnheld DEF ExactInv
<1>3. QED
  BY <1>1, <1>2, JobIds, FrameExactInv DEF Unheld

\* The worker that runs a task is the only one that has it, so the tasks of the
\* others stay and its own batch is one of different tasks under their keys.
LEMMA FinishExactInv ==
  ASSUME IInv, StoreInv, ExactInv, NEW n \in Nodes, Finish(n) PROVE ExactInv'
<1> DEFINE b == wrk[n].batch
<1>1. /\ UNCHANGED <<chan, odd>> /\ wrk[n].pc = "run"
      /\ wrk'[n].pc = "unlock" /\ wrk'[n].batch = b
      /\ \A m \in Nodes \ {n} : wrk'[m] = wrk[m]
      /\ \/ UNCHANGED <<task, due, used>>
         \/ AfterTasks(Stored', b, Len(b))
  BY FinishFacts
<1>2. CASE UNCHANGED <<task, due, used>>
  BY <1>1, <1>2, QuietExactInv
<1>3. ASSUME AfterTasks(Stored', b, Len(b)), ~Overtaken
      PROVE  /\ Exact(Stored')
             /\ \A m \in Nodes : \A k \in 1..Len(chan[m]) :
                   task'[chan[m][k].id] = task[chan[m][k].id]
             /\ \A m \in Nodes \ {n} : \A k \in 1..Len(wrk[m].batch) :
                   task'[wrk[m].batch[k].job.id] = task[wrk[m].batch[k].job.id]
  <2>1. Undisturbed
    BY <1>3 DEF Overtaken, Undisturbed
  <2>2. Exact(Stored) /\ \A k \in 1..Len(b) : HasTask(b[k])
    BY <1>1, <1>3 DEF ExactInv
  <2>3. \A k, l \in 1..Len(b) : b[k].job.id = b[l].job.id => k = l
    BY <2>1, JobIds DEF IInv, OneJobPerTask
  <2>4. ASSUME NEW k \in 1..Len(b), NEW d \in 1..NEVER, <<d, b[k].job.id>> \in due
        PROVE  d = b[k].job.due
    <3>1. b[k].job.id \in Ids
      BY JobIds
    <3>2. task[b[k].job.id].due = d
      BY <2>2, <2>4, <3>1 DEF Exact, Stored
    <3>3. QED
      BY <2>2, <3>2 DEF HasTask, WaitsForTask
  <2>5. Proper(b)
    BY <2>3, <2>4 DEF Proper
  <2>6. \A i \in used : (\A k \in 1..Len(b) : b[k].job.id # i) => task'[i] = task[i]
    <3>1. Stored'.task = task' /\ Stored.task = task
      BY DEF Stored
    <3>2. QED
      BY <1>3, <3>1 DEF AfterTasks, Untouched
  <2>7. ASSUME NEW m \in Nodes, NEW k \in 1..Len(chan[m])
        PROVE  \A l \in 1..Len(b) : b[l].job.id # chan[m][k].id
    BY <2>1, JobIds DEF IInv, OneJobPerTask
  <2>8. ASSUME NEW m \in Nodes \ {n}, NEW k \in 1..Len(wrk[m].batch)
        PROVE  \A l \in 1..Len(b) : b[l].job.id # wrk[m].batch[k].job.id
    BY <2>1, JobIds DEF IInv, OneJobPerTask
  <2>9. QED
    BY <1>3, <2>2, <2>5, <2>6, <2>7, <2>8, JobIds DEF AfterTasks
<1>4. CASE AfterTasks(Stored', b, Len(b))
  <2>1. \A m \in Nodes : wrk'[m].pc # "unlock" => m # n /\ wrk[m].pc # "unlock"
    BY <1>1
  <2>2. QED
    BY <1>1, <1>3, <1>4, <2>1, FrameExactInv
<1>5. QED
  BY <1>1, <1>2, <1>4

\* A job is sent for a key that is still there, and that key is its task's.
LEMMA SendExactInv ==
  ASSUME IInv, StoreInv, ExactInv, NEW n \in Nodes, NEW j, Send(n, j),
         UNCHANGED <<task, due, wrk>>
  PROVE  ExactInv'
<1>1. /\ chan'[n] = Append(chan[n], j) /\ \A m \in Nodes \ {n} : chan'[m] = chan[m]
      /\ odd \subseteq odd'
      /\ "stale" \notin odd' => <<j.due, j.id>> \in due
  BY DEF Send, IInv, TypeInv
<1> SUFFICES ASSUME ~Overtaken'
             PROVE  /\ Exact(Stored')
                    /\ \A m \in Nodes : \A k \in 1..Len(chan'[m]) : WaitsForTask(chan[m][k])'
                    /\ \A m \in Nodes : wrk'[m].pc # "unlock" =>
                          \A k \in 1..Len(wrk'[m].batch) : HasTask(wrk[m].batch[k])'
  BY DEF ExactInv, Exact, Stored
<1>2. ~Overtaken /\ <<j.due, j.id>> \in due
  BY <1>1 DEF Overtaken
<1>3. /\ Exact(Stored) /\ \A m \in Nodes : \A k \in 1..Len(chan[m]) : WaitsForTask(chan[m][k])
      /\ \A m \in Nodes : wrk[m].pc # "unlock" =>
            \A k \in 1..Len(wrk[m].batch) : HasTask(wrk[m].batch[k])
  BY <1>2 DEF ExactInv
<1>4. Exact(Stored')
  BY <1>3 DEF Exact, Stored
<1>5. WaitsForTask(j)
  <2>1. j.due \in 1..NEVER /\ j.id \in Ids
    BY <1>2 DEF StoreInv, StoreOK, Stored
  <2>2. QED
    BY <1>2, <1>3, <2>1 DEF Exact, Stored, WaitsForTask
<1>6. ASSUME NEW m \in Nodes, NEW k \in 1..Len(chan'[m])
      PROVE  WaitsForTask(chan'[m][k])
  <2>1. CASE m = n
    <3>1. /\ Len(chan[n]) \in Nat /\ Len(chan'[n]) = Len(chan[n]) + 1
          /\ \A l \in 1..Len(chan[n]) : chan'[n][l] = chan[n][l]
          /\ chan'[n][Len(chan[n]) + 1] = j
      BY <1>1, AppendFacts DEF IInv, TypeInv
    <3>2. k \in 1..Len(chan[n]) \/ k = Len(chan[n]) + 1
      BY <1>6, <2>1, <3>1
    <3>3. QED
      BY <1>3, <1>5, <2>1, <3>1, <3>2
  <2>2. CASE m # n
    BY <1>1, <1>3, <1>6, <2>2
  <2>3. QED
    BY <2>1, <2>2
<1>7. \A m \in Nodes : \A k \in 1..Len(chan'[m]) : WaitsForTask(chan[m][k])'
  BY <1>6 DEF WaitsForTask
<1>8. \A m \in Nodes : wrk'[m].pc # "unlock" =>
         \A k \in 1..Len(wrk'[m].batch) : HasTask(wrk[m].batch[k])'
  BY <1>3 DEF HasTask, WaitsForTask
<1>9. QED
  BY <1>4, <1>7, <1>8

LEMMA TakeExactInv ==
  ASSUME IInv, StoreInv, ExactInv, NEW n \in Nodes, Take(n) PROVE ExactInv'
<1> DEFINE j == Head(chan[n])
           x == [job |-> j, task |-> task[j.id]]
           b == wrk[n].batch
<1>1. /\ chan[n] # <<>> /\ chan' = [chan EXCEPT ![n] = Tail(@)] /\ wrk[n].pc # "unlock"
      /\ UNCHANGED <<task, due>> /\ odd \subseteq odd'
      /\ \/ wrk' = [wrk EXCEPT ![n].pc = "fill", ![n].batch = Append(@, x)]
         \/ wrk' = [wrk EXCEPT ![n].pc = "fill"]
  BY DEF Take, Fault
<1>2. /\ IsSeq(chan[n]) /\ DOMAIN chan = Nodes /\ DOMAIN wrk = Nodes /\ IsSeq(b)
      /\ wrk[n] = [pc |-> wrk[n].pc, batch |-> b, refresh |-> wrk[n].refresh]
  BY DEF IInv, TypeInv
<1>3. /\ Len(chan[n]) \in Nat /\ Len(chan[n]) >= 1 /\ Len(Tail(chan[n])) = Len(chan[n]) - 1
      /\ j = chan[n][1] /\ \A k \in 1..Len(chan[n]) - 1 : Tail(chan[n])[k] = chan[n][k + 1]
  BY <1>1, <1>2, TailFacts
<1>4. chan'[n] = Tail(chan[n]) /\ \A m \in Nodes \ {n} : chan'[m] = chan[m]
  BY <1>1, <1>2
<1>5. /\ wrk'[n].batch = Append(b, x) \/ wrk'[n].batch = b
      /\ \A m \in Nodes \ {n} : wrk'[m] = wrk[m]
  BY <1>1, <1>2
<1>6. x.job = j /\ x.task = task[j.id]
  OBVIOUS
<1> HIDE DEF j, x
<1> SUFFICES ASSUME ~Overtaken'
             PROVE  /\ Exact(Stored')
                    /\ \A m \in Nodes : \A k \in 1..Len(chan'[m]) : WaitsForTask(chan[m][k])'
                    /\ \A m \in Nodes : wrk'[m].pc # "unlock" =>
                          \A k \in 1..Len(wrk'[m].batch) : HasTask(wrk[m].batch[k])'
  BY DEF ExactInv, Exact, Stored
<1>7. ~Overtaken
  BY <1>1 DEF Overtaken
<1>8. /\ Exact(Stored) /\ \A m \in Nodes : \A k \in 1..Len(chan[m]) : WaitsForTask(chan[m][k])
      /\ \A m \in Nodes : wrk[m].pc # "unlock" =>
            \A k \in 1..Len(wrk[m].batch) : HasTask(wrk[m].batch[k])
  BY <1>7 DEF ExactInv
<1>9. Exact(Stored')
  BY <1>1, <1>8 DEF Exact, Stored
<1>10. HasTask(x)
  <2>1. 1 \in 1..Len(chan[n])
    BY <1>3
  <2>2. QED
    BY <1>3, <1>6, <1>8, <2>1 DEF HasTask
<1>11. ASSUME NEW m \in Nodes, NEW k \in 1..Len(chan'[m]) PROVE WaitsForTask(chan'[m][k])
  <2>1. CASE m = n
    <3>1. chan'[m] = Tail(chan[n]) /\ Len(chan'[m]) = Len(chan[n]) - 1
      BY <1>3, <1>4, <2>1
    <3>2. k \in 1..Len(chan[n]) - 1
      BY <3>1
    <3>3. k + 1 \in 1..Len(chan[n])
      BY <1>3, <3>2
    <3>4. QED
      BY <1>3, <1>8, <3>1, <3>2, <3>3
  <2>2. CASE m # n
    BY <1>4, <1>8, <1>11, <2>2
  <2>3. QED
    BY <2>1, <2>2
<1>12. ASSUME NEW m \in Nodes, wrk'[m].pc # "unlock", NEW k \in 1..Len(wrk'[m].batch)
       PROVE  HasTask(wrk'[m].batch[k])
  <2>1. CASE m = n
    <3>1. /\ Len(b) \in Nat /\ Len(Append(b, x)) = Len(b) + 1
          /\ \A l \in 1..Len(b) : Append(b, x)[l] = b[l]
          /\ Append(b, x)[Len(b) + 1] = x
      BY <1>2, AppendFacts
    <3>2. CASE wrk'[n].batch = Append(b, x)
      <4>1. k \in 1..Len(b) \/ k = Len(b) + 1
        BY <1>12, <2>1, <3>1, <3>2
      <4>2. QED
        BY <1>1, <1>8, <1>10, <2>1, <3>1, <3>2, <4>1
    <3>3. CASE wrk'[n].batch = b
      BY <1>1, <1>8, <1>12, <2>1, <3>3
    <3>4. QED
      BY <1>5, <3>2, <3>3
  <2>2. CASE m # n
    BY <1>5, <1>8, <1>12, <2>2
  <2>3. QED
    BY <2>1, <2>2
<1>13. \A m \in Nodes : \A k \in 1..Len(chan'[m]) : WaitsForTask(chan[m][k])'
  BY <1>1, <1>11 DEF WaitsForTask
<1>14. \A m \in Nodes : wrk'[m].pc # "unlock" =>
          \A k \in 1..Len(wrk'[m].batch) : HasTask(wrk[m].batch[k])'
  BY <1>1, <1>12 DEF HasTask, WaitsForTask
<1>15. QED
  BY <1>9, <1>13, <1>14

LEMMA NextExactInv ==
  ASSUME IInv, StoreInv, ExactInv, [Next]_vars PROVE ExactInv'
<1>1. ASSUME UNCHANGED <<task, due, chan, wrk>> PROVE ExactInv'
  BY <1>1, StoreSteps, QuietExactInv
<1>2. CASE UNCHANGED vars
  BY <1>1, <1>2 DEF vars
<1>3. CASE Tick \/ (\E op \in AdminOps : AdminRead(op)) \/ AdminLock \/ AdminGivesUp
  BY <1>1, <1>3 DEF Tick, AdminRead, AdminLock, AdminGivesUp
<1>4. ASSUME NEW n \in Nodes, Scan(n) \/ ScanFails(n) \/ EndPass(n) PROVE ExactInv'
  BY <1>1, <1>4 DEF Scan, ScanFails, EndPass
<1>5. ASSUME NEW n \in Nodes, Dispatch(n) PROVE ExactInv'
  <2>1. UNCHANGED <<task, due, wrk>> /\ \E j : \/ Send(n, j)
                                               \/ LockedByAnother(n, j) \/ ChannelFull(n, j)
    BY <1>5 DEF Dispatch
  <2>2. QED
    BY <1>1, <2>1, SendExactInv DEF LockedByAnother, ChannelFull
<1>6. ASSUME NEW n \in Nodes, Start(n) \/ WriteFails(n) \/ Unlock(n) \/ Crash(n) PROVE ExactInv'
  <2>1. /\ DOMAIN chan = Nodes /\ DOMAIN wrk = Nodes
        /\ wrk[n] = [pc |-> wrk[n].pc, batch |-> wrk[n].batch, refresh |-> wrk[n].refresh]
    BY DEF IInv, TypeInv
  <2>2. UNCHANGED <<task, due>> /\ \A m \in Nodes : chan'[m] = chan[m] \/ chan'[m] = <<>>
    BY <1>6, <2>1 DEF Start, WriteFails, Unlock, Crash
  <2>3. \A m \in Nodes \ {n} : wrk'[m] = wrk[m]
    BY <1>6, <2>1 DEF Start, WriteFails, Unlock, Crash
  <2>4. \/ wrk'[n].pc = "unlock" \/ wrk'[n].batch = <<>>
        \/ wrk[n].pc # "unlock" /\ wrk'[n].batch = wrk[n].batch
    BY <1>6, <2>1 DEF Start, WriteFails, Unlock, Crash, Idle
  <2>5. QED
    BY <2>2, <2>3, <2>4, StoreSteps, QuietExactInv
<1>7. QED
  BY <1>2, <1>3, <1>4, <1>5, <1>6, ScheduleExactInv, AdminExactInv, FinishExactInv, TakeExactInv
     DEF Next, NodeStep, AdminStep

LEMMA ExactInvHolds == Spec => [](IInv /\ StoreInv /\ KeyInv /\ ExactInv)
<1>1. Init => ExactInv
  <2>1. Init => \A n \in Nodes : 1..Len(chan[n]) = {} /\ 1..Len(wrk[n].batch) = {}
    BY EmptyFacts DEF Init, Idle
  <2>2. QED
    BY <2>1 DEF Init, ExactInv, Exact, Stored
<1>2. IInv /\ StoreInv /\ ExactInv /\ [Next]_vars => ExactInv'
  BY NextExactInv
<1>3. QED
  BY <1>1, <1>2, KeyInvHolds, PTL DEF Spec

\* Unless a pass was overtaken, a worker lost its lock or an edit used an old
\* read, the keys of a task are exactly the one it is due under, and no key
\* outlives its task, also when a batch is refused, a job is dropped or a node
\* restarts.
THEOREM KeysStayExact == Spec => []KeysAreExact
<1>1. IInv /\ StoreInv /\ KeyInv /\ ExactInv => KeysAreExact
  <2> SUFFICES ASSUME StoreInv, KeyInv, ExactInv, ~Overtaken, NEW i \in Ids
               PROVE  DuesOf(i) = (IF Exists(i) THEN {task[i].due} ELSE {})
    BY DEF KeysAreExact
  <2>1. due \in SUBSET ((1..NEVER) \X used) /\ "edit" \notin odd
    BY DEF StoreInv, StoreOK, Stored, Overtaken
  <2>2. \A d \in 1..NEVER : <<d, i>> \in due => Exists(i) /\ task[i].due = d
    BY DEF ExactInv, Exact, Stored, Exists
  <2>3. Exists(i) => <<task[i].due, i>> \in due
    BY <2>1 DEF KeyInv, Keyed, Stored, Exists
  <2>4. \A k \in due : k = <<k[1], k[2]>> /\ k[1] \in 1..NEVER
    BY <2>1
  <2>5. ASSUME NEW d \in DuesOf(i) PROVE Exists(i) /\ task[i].due = d
    BY <2>2, <2>4 DEF DuesOf
  <2>6. ASSUME Exists(i) PROVE task[i].due \in DuesOf(i)
    <3>1. <<task[i].due, i>>[1] = task[i].due /\ <<task[i].due, i>>[2] = i
      OBVIOUS
    <3>2. QED
      BY <2>3, <2>6, <3>1 DEF DuesOf
  <2>7. CASE Exists(i)
    BY <2>5, <2>6, <2>7
  <2>8. CASE ~Exists(i)
    BY <2>5, <2>8
  <2>9. QED
    BY <2>7, <2>8
<1>2. QED
  BY <1>1, ExactInvHolds, PTL

\* Under the same condition a worker runs a task only when it is due: the job
\* was found under a key that had come due, the task was still the key's when
\* the job was sent, and nobody writes a task that somebody else has.
THEOREM TasksRunWhenDue == Spec => []NotBeforeDueUnlessOvertaken
<1>1. IInv /\ StoreInv /\ KeyInv /\ ExactInv => NotBeforeDueUnlessOvertaken
  <2> SUFFICES ASSUME IInv, StoreInv, ExactInv, ~Overtaken, NEW n \in Nodes, wrk[n].pc = "run",
                      NEW x \in Range(wrk[n].batch)
               PROVE  x.task.due <= now
    BY DEF NotBeforeDueUnlessOvertaken, NotBeforeDue
  <2>1. PICK k \in 1..Len(wrk[n].batch) : x = wrk[n].batch[k]
    <3>1. DOMAIN wrk[n].batch = 1..Len(wrk[n].batch)
      BY DEF IInv, TypeInv, IsSeq
    <3>2. QED
      BY <3>1 DEF Range
  <2>2. HasTask(x)
    BY <2>1 DEF ExactInv
  <2>3. x.job.due \in 1..now /\ now \in Nat
    BY <2>1, JobIds DEF IInv, TypeInv
  <2>4. QED
    BY <2>2, <2>3 DEF HasTask, WaitsForTask
<1>2. QED
  BY <1>1, ExactInvHolds, PTL
=============================================================================
