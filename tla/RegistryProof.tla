---------------------------- MODULE RegistryProof ----------------------------
(***************************************************************************)
(* The list behind vm_threads, for any number of records and of threads    *)
(* that add and remove them.  The order of insertion ranks the records:    *)
(* each link of the list goes to the next lower rank in it, so that a walk *)
(* meets every record it has not passed.                                   *)
(***************************************************************************)
EXTENDS Registry, TLAPS, WellFoundedInduction

Linked == {t \in Threads : record[t] = "linked"}

\* A link, from vm_threads or from a record, past which only the records of S
\* are still to come: it goes to the highest of them, or is NULL.
Highest(rank, link, S) ==
  /\ S = {} => link = NULL
  /\ S # {} => link \in S /\ \A u \in S : rank[u] <= rank[link]

Below(rank, t) == {u \in Linked : rank[u] < rank[t]}

Sorted(rank) ==
  /\ \A t, u \in Linked : rank[t] = rank[u] => t = u
  /\ Highest(rank, head, Linked)
  /\ \A t \in Linked : Highest(rank, next[t], Below(rank, t))
  /\ \A w \in Workers : pc[w] = "remove.walk" /\ prev[w] # NULL =>
       /\ prev[w] \in Linked
       /\ target[w] \in Linked => target[w] \in Below(rank, prev[w])

SortedInv == \E rank \in [Threads -> Nat] : Sorted(rank)

\* Whoever is inside the critical section holds the lock.
LockInv == \A w \in Workers : pc[w] \in CriticalAt => lock = w

\* A record being added has one adder, and is linked in front of the head; a
\* record being removed has been added and is not freed; an idle worker has none.
CallInv ==
  \A w \in Workers :
    /\ pc[w] \in {"add.lock", "add.next", "add.head"} =>
         /\ record[target[w]] = "adding"
         /\ \A v \in Workers : target[v] = target[w] => v = w
    /\ pc[w] = "add.head" => next[target[w]] = head
    /\ pc[w] \in RemoveAt \cup {"add.unlock"} => record[target[w]] \in {"linked", "unlinked"}
    /\ target[w] # NULL => record[target[w]] # "fresh"
    /\ pc[w] = "idle" => target[w] = NULL

IInv ==
  /\ TypeOK
  /\ LockInv
  /\ CallInv
  /\ SortedInv

USE ConstantsAssumption DEF AddAt, RemoveAt, CriticalAt, Record, Goto

\* The list starts empty, and nobody is in it.
LEMMA InitInv == Init => IInv
<1> SUFFICES ASSUME Init PROVE IInv
  OBVIOUS
<1>1. TypeOK /\ LockInv /\ CallInv
  BY DEF Init, TypeOK, LockInv, CallInv
<1>2. SortedInv
  <2> DEFINE rank == [t \in Threads |-> 0]
  <2>1. rank \in [Threads -> Nat]
    OBVIOUS
  <2>2. Sorted(rank)
    BY DEF Init, Sorted, Highest, Linked
  <2> QED
    BY <2>1, <2>2 DEF SortedInv
<1> QED
  BY <1>1, <1>2 DEF IInv

\* A step that moves no pointer of the list and links or unlinks no record.
LEMMA SortedKept ==
  ASSUME SortedInv, UNCHANGED <<head, next>>, Linked' = Linked,
         \A w \in Workers : pc'[w] = "remove.walk" /\ prev'[w] # NULL =>
           pc[w] = "remove.walk" /\ UNCHANGED <<prev[w], target[w]>>
  PROVE  SortedInv'
<1>1. PICK rank \in [Threads -> Nat] : Sorted(rank)
  BY DEF SortedInv
<1>2. Sorted(rank)'
  BY <1>1 DEF Sorted, Highest, Below
<1> QED
  BY <1>1, <1>2 DEF SortedInv

\* vm_thread_create calls registry_add with a record nobody else knows.
LEMMA AddCallStep ==
  ASSUME IInv, NEW w \in Workers, NEW t \in Threads, AddCall(w, t)
  PROVE  IInv'
<1> USE DEF IInv, AddCall, Call
<1>1. TypeOK'
  BY DEF TypeOK
<1>2. LockInv'
  BY DEF LockInv, TypeOK
<1>3. CallInv'
  BY DEF CallInv, TypeOK
<1>4. SortedInv'
  BY SortedKept DEF Linked, TypeOK
<1> QED
  BY <1>1, <1>2, <1>3, <1>4

\* pthread_mutex_lock in registry_add.
LEMMA AddLockStep == ASSUME IInv, NEW w \in Workers, AddLock(w) PROVE IInv'
<1> USE DEF IInv, AddLock, Lock
<1>1. TypeOK'
  BY DEF TypeOK
<1>2. LockInv'
  BY DEF LockInv, TypeOK
<1>3. CallInv'
  BY DEF CallInv, TypeOK
<1>4. SortedInv'
  BY SortedKept DEF Linked, TypeOK
<1> QED
  BY <1>1, <1>2, <1>3, <1>4

\* t->next = vm_threads changes a record that is not in the list yet.
LEMMA AddNextStep == ASSUME IInv, NEW w \in Workers, AddNext(w) PROVE IInv'
<1> USE DEF IInv, AddNext
<1>1. TypeOK'
  BY DEF TypeOK
<1>2. LockInv'
  BY DEF LockInv, TypeOK
<1>3. CallInv'
  BY DEF CallInv, TypeOK, LockInv
<1>4. SortedInv'
  <2>1. PICK rank \in [Threads -> Nat] : Sorted(rank)
    BY DEF SortedInv
  <2>2. target[w] \notin Linked /\ Linked' = Linked
    BY DEF CallInv, Linked
  <2>3. \A t \in Linked : next'[t] = next[t]
    BY <2>2 DEF TypeOK, Linked
  <2>4. \A v \in Workers : pc'[v] = "remove.walk" => pc[v] = "remove.walk"
    BY DEF TypeOK
  <2>5. Sorted(rank)'
    BY <2>1, <2>2, <2>3, <2>4 DEF Sorted, Highest, Below
  <2> QED
    BY <2>1, <2>5 DEF SortedInv
<1> QED
  BY <1>1, <1>2, <1>3, <1>4

\* vm_threads = t puts the new record, ranked highest, in front.
LEMMA AddHeadStep == ASSUME IInv, NEW w \in Workers, AddHead(w) PROVE IInv'
<1> USE DEF IInv, AddHead
<1>1. TypeOK'
  BY DEF TypeOK
<1>2. LockInv'
  BY DEF LockInv, TypeOK
<1>3. CallInv'
  BY DEF CallInv, TypeOK, LockInv
<1>4. SortedInv'
  <2>1. PICK t \in Threads : t = target[w]
    BY DEF TypeOK
  <2>2. PICK rank \in [Threads -> Nat] : Sorted(rank)
    BY DEF SortedInv
  <2>3. t \notin Linked /\ next[t] = head /\ Linked' = Linked \cup {t}
    BY <2>1 DEF CallInv, Linked, TypeOK
  <2>4. PICK top \in Nat : \A u \in Linked : rank[u] < top
    <3>1. CASE Linked = {}
      BY <3>1
    <3>2. CASE Linked # {}
      <4>1. head \in Threads /\ \A u \in Linked : rank[u] <= rank[head] /\ rank[u] \in Nat
        BY <2>2, <3>2 DEF Sorted, Highest, Linked
      <4>2. rank[head] + 1 \in Nat /\ \A u \in Linked : rank[u] < rank[head] + 1
        BY <4>1, <2>2
      <4> QED
        BY <4>2
    <3> QED
      BY <3>1, <3>2
  <2>5. PICK rank2 \in [Threads -> Nat] : rank2 = [rank EXCEPT ![t] = top]
    BY <2>2
  <2>6. rank2[t] = top /\ \A u \in Linked : rank2[u] = rank[u] /\ rank[u] \in Nat /\ u # t
    BY <2>3, <2>5 DEF Linked
  <2>7. \A v \in Workers : pc'[v] # "remove.walk"
    BY DEF LockInv, TypeOK
  <2>8. /\ Below(rank2, t)' = Linked
        /\ \A u \in Linked : Below(rank2, u)' = Below(rank, u)
    BY <2>3, <2>4, <2>6 DEF Below
  <2>9. \A x, y \in Linked' : rank2[x] = rank2[y] => x = y
    BY <2>2, <2>3, <2>4, <2>6 DEF Sorted
  <2>10. Highest(rank2, head, Linked)'
    BY <2>1, <2>3, <2>4, <2>6 DEF Highest
  <2>11. Highest(rank2, next[t], Below(rank2, t))'
    BY <2>2, <2>3, <2>6, <2>8 DEF Highest, Sorted
  <2>12. \A u \in Linked : Highest(rank2, next[u], Below(rank2, u))'
    BY <2>2, <2>6, <2>8 DEF Highest, Sorted, Below
  <2>13. Sorted(rank2)'
    BY <2>3, <2>7, <2>9, <2>10, <2>11, <2>12 DEF Sorted
  <2> QED
    BY <2>13 DEF SortedInv
<1> QED
  BY <1>1, <1>2, <1>3, <1>4

\* pthread_mutex_unlock ends the call.
LEMMA UnlockStep ==
  ASSUME IInv, NEW w \in Workers, AddUnlock(w) \/ RemoveUnlock(w)
  PROVE  IInv'
<1> USE DEF IInv, AddUnlock, RemoveUnlock, Unlock
<1>1. TypeOK'
  BY DEF TypeOK
<1>2. LockInv'
  BY DEF LockInv, TypeOK
<1>3. CallInv'
  BY DEF CallInv, TypeOK
<1>4. SortedInv'
  BY SortedKept DEF Linked, TypeOK
<1> QED
  BY <1>1, <1>2, <1>3, <1>4

\* DETACH or destroy calls registry_remove with a record that has been added.
LEMMA RemoveCallStep ==
  ASSUME IInv, NEW w \in Workers, NEW t \in Threads, RemoveCall(w, t)
  PROVE  IInv'
<1> USE DEF IInv, RemoveCall, Call
<1>1. TypeOK'
  BY DEF TypeOK
<1>2. LockInv'
  BY DEF LockInv, TypeOK
<1>3. CallInv'
  BY DEF CallInv, TypeOK, Working
<1>4. SortedInv'
  BY SortedKept DEF Linked, TypeOK
<1> QED
  BY <1>1, <1>2, <1>3, <1>4

\* pthread_mutex_lock in registry_remove: the walk starts at vm_threads.
LEMMA RemoveLockStep == ASSUME IInv, NEW w \in Workers, RemoveLock(w) PROVE IInv'
<1> USE DEF IInv, RemoveLock, Lock
<1>1. TypeOK'
  BY DEF TypeOK
<1>2. LockInv'
  BY DEF LockInv, TypeOK
<1>3. CallInv'
  BY DEF CallInv, TypeOK
<1>4. SortedInv'
  BY SortedKept DEF Linked, TypeOK
<1> QED
  BY <1>1, <1>2, <1>3, <1>4

\* Where a walk stands: its link goes to the highest of the linked records it
\* has not passed, and a linked target is one of those.
LEMMA WalkLink ==
  ASSUME IInv, NEW w \in Workers, pc[w] = "remove.walk",
         NEW rank \in [Threads -> Nat], Sorted(rank)
  PROVE  LET ahead == IF prev[w] = NULL THEN Linked ELSE Below(rank, prev[w])
         IN  /\ Highest(rank, Link(w), ahead)
             /\ target[w] \in Linked => target[w] \in ahead
BY DEF Sorted, Link

\* p = &(*p)->next: the walk passes one record, which is not the target.
LEMMA RemoveWalkStep == ASSUME IInv, NEW w \in Workers, RemoveWalk(w) PROVE IInv'
<1> USE DEF IInv, RemoveWalk
<1>1. PICK rank \in [Threads -> Nat] : Sorted(rank)
  BY DEF SortedInv
<1> DEFINE ahead == IF prev[w] = NULL THEN Linked ELSE Below(rank, prev[w])
<1>2. Highest(rank, Link(w), ahead) /\ (target[w] \in Linked => target[w] \in ahead)
  BY <1>1, WalkLink
<1>3. ahead \subseteq Linked /\ Link(w) \in ahead /\ \A u \in ahead : rank[u] <= rank[Link(w)]
  BY <1>2 DEF Highest, Below
<1>4. target[w] \in Linked => target[w] \in Below(rank, Link(w))
  BY <1>1, <1>2, <1>3 DEF Below, Sorted, Linked
<1>5. TypeOK'
  BY <1>3 DEF TypeOK, Linked
<1>6. LockInv' /\ CallInv'
  BY DEF LockInv, CallInv
<1>7. SortedInv'
  <2>1. \A v \in Workers : pc'[v] = "remove.walk" => v = w
    BY DEF LockInv
  <2>2. prev'[w] = Link(w) /\ Linked' = Linked
    BY DEF TypeOK, Linked
  <2>3. Sorted(rank)'
    BY <1>1, <1>3, <1>4, <2>1, <2>2 DEF Sorted, Highest, Below
  <2> QED
    BY <2>3 DEF SortedInv
<1> QED
  BY <1>5, <1>6, <1>7

\* if (*p) *p = t->next: the target, if it was linked at all, is what *p is, and
\* the link to it goes to what follows it.
LEMMA RemoveUnlinkStep == ASSUME IInv, NEW w \in Workers, RemoveUnlink(w) PROVE IInv'
<1> USE DEF IInv, RemoveUnlink
<1> DEFINE t == target[w]
<1>1. TypeOK'
  BY DEF TypeOK
<1>2. LockInv'
  BY DEF LockInv, TypeOK
<1>3. CallInv'
  <2>1. \A v \in Workers : pc[v] # "add.head"
    BY DEF LockInv, TypeOK
  <2> QED
    BY <2>1 DEF CallInv, TypeOK
<1>4. SortedInv'
  <2>1. PICK rank \in [Threads -> Nat] : Sorted(rank)
    BY DEF SortedInv
  <2> DEFINE ahead == IF prev[w] = NULL THEN Linked ELSE Below(rank, prev[w])
  <2>2. Highest(rank, Link(w), ahead) /\ (t \in Linked => t \in ahead)
    BY <2>1, WalkLink
  <2>3. t \in Threads /\ Linked' = Linked \ {t}
    BY DEF TypeOK, Linked
  <2>4. \A v \in Workers : pc'[v] # "remove.walk"
    BY DEF LockInv, TypeOK
  <2>5. Link(w) = t <=> t \in Linked
    BY <2>2, <2>3 DEF Highest, Below, Linked
  <2>6. CASE t \notin Linked
    <3>1. UNCHANGED <<head, next>> /\ Linked' = Linked
      BY <2>3, <2>5, <2>6
    <3> QED
      BY <3>1, <2>4, SortedKept
  <2>7. CASE t \in Linked
    <3>1. \A x, y \in Linked' : rank[x] = rank[y] => x = y
      BY <2>1, <2>3 DEF Sorted
    <3>2. \A u \in Linked' : Below(rank, u)' = Below(rank, u) \ {t}
      BY <2>3 DEF Below
    <3>3. Highest(rank, next[t], Below(rank, t))
      BY <2>1, <2>7 DEF Sorted
    <3>4. CASE prev[w] = NULL
      <4>1. head = t /\ head' = next[t] /\ next' = next
        BY <3>4, <2>5, <2>7 DEF Link
      <4>2. Linked' = Below(rank, t)
        BY <4>1, <2>1, <2>3, <2>7 DEF Sorted, Highest, Below, Linked
      <4>3. Highest(rank, head, Linked)'
        BY <4>1, <4>2, <3>3 DEF Highest
      <4>4. \A u \in Linked' : Highest(rank, next[u], Below(rank, u))'
        <5>1. \A u \in Linked' : t \notin Below(rank, u)
          BY <4>2, <2>1, <2>3 DEF Below, Linked
        <5> QED
          BY <5>1, <3>2, <4>1, <2>1, <2>3 DEF Sorted, Highest
      <4> QED
        BY <3>1, <4>3, <4>4, <2>1, <2>4 DEF SortedInv, Sorted
    <3>5. CASE prev[w] # NULL
      <4> DEFINE p == prev[w]
      <4>1. p \in Linked /\ t \in Below(rank, p) /\ p # t
        BY <3>5, <2>1, <2>2, <2>7 DEF Sorted, Below, Linked
      <4>2. next[p] = t /\ next' = [next EXCEPT ![p] = next[t]] /\ head' = head
        BY <3>5, <2>5, <2>7 DEF Link
      <4>3. head # t /\ \A u \in Linked : u # p => next[u] # t
        BY <4>1, <4>2, <2>1, <2>7 DEF Sorted, Highest, Below, Linked
      <4>4. Highest(rank, head, Linked)'
        BY <4>1, <4>2, <4>3, <2>1, <2>3 DEF Sorted, Highest
      <4>5. Below(rank, p) \ {t} = Below(rank, t)
        BY <4>1, <4>2, <2>1, <2>7 DEF Sorted, Highest, Below, Linked
      <4>6. Highest(rank, next[p], Below(rank, p))'
        BY <4>1, <4>2, <4>5, <3>2, <3>3, <2>3 DEF Highest, TypeOK, Linked
      <4>7. \A u \in Linked' : u # p => Highest(rank, next[u], Below(rank, u))'
        BY <4>2, <4>3, <3>2, <2>1, <2>3 DEF Sorted, Highest, TypeOK
      <4> QED
        BY <3>1, <4>4, <4>6, <4>7, <2>1, <2>4 DEF SortedInv, Sorted
    <3> QED
      BY <3>4, <3>5
  <2> QED
    BY <2>6, <2>7
<1> QED
  BY <1>1, <1>2, <1>3, <1>4

\* vm_thread_destroy frees a record that is off the list and in no call.
LEMMA FreeStep == ASSUME IInv, NEW t \in Threads, Free(t) PROVE IInv'
<1> USE DEF IInv, Free, Working
<1>1. TypeOK'
  BY DEF TypeOK
<1>2. LockInv'
  BY DEF LockInv
<1>3. CallInv'
  BY DEF CallInv, TypeOK
<1>4. SortedInv'
  BY SortedKept DEF Linked, TypeOK
<1> QED
  BY <1>1, <1>2, <1>3, <1>4

\* A step that changes nothing keeps the invariant.
LEMMA StutterStep == ASSUME IInv, UNCHANGED vars PROVE IInv'
<1>1. SortedInv'
  BY SortedKept DEF IInv, vars, Linked
<1> QED
  BY <1>1 DEF IInv, vars, TypeOK, LockInv, CallInv

\* Whatever the interleaving of registry_add and registry_remove, the list is
\* the linked records in descending order of insertion.
THEOREM Invariance == Spec => []IInv
<1>1. IInv /\ [Next]_vars => IInv'
  BY AddCallStep, AddLockStep, AddNextStep, AddHeadStep, UnlockStep, RemoveCallStep,
     RemoveLockStep, RemoveWalkStep, RemoveUnlinkStep, FreeStep, StutterStep
     DEF Next, Inside, Exhausted
<1> QED
  BY <1>1, InitInv, PTL DEF Spec

\* The registry's pointers, lock and calls stay within their values.
THEOREM TypeCorrect == Spec => []TypeOK
<1>1. IInv => TypeOK
  BY DEF IInv
<1> QED
  BY <1>1, Invariance, PTL

\* registry_remove dereferences linked records only, and only under the lock,
\* for any number of threads and records.
THEOREM WalkSafety == Spec => []WalksLiveNodes
<1>1. IInv => WalksLiveNodes
  <2> SUFFICES ASSUME IInv, NEW w \in Workers, pc[w] = "remove.walk"
               PROVE  /\ lock = w
                      /\ prev[w] # NULL => record[prev[w]] = "linked"
                      /\ Link(w) # NULL => record[Link(w)] = "linked"
    BY DEF WalksLiveNodes
  <2>1. PICK rank \in [Threads -> Nat] : Sorted(rank)
    BY DEF IInv, SortedInv
  <2>2. Link(w) # NULL => Link(w) \in Linked
    BY <2>1, WalkLink DEF Highest, Below
  <2>3. prev[w] # NULL => prev[w] \in Linked
    BY <2>1 DEF Sorted
  <2> QED
    BY <2>2, <2>3 DEF IInv, LockInv, Linked
<1> QED
  BY <1>1, Invariance, PTL

-----------------------------------------------------------------------------
(* What can be reached from vm_threads. *)

\* Numbers that are not none have a least one.
LEMMA LeastNumber ==
  ASSUME NEW S \in SUBSET Nat, S # {}
  PROVE  \E x \in S : \A y \in S : x <= y
<1>1. PICK x \in S : \A y \in S : ~ (<<y, x>> \in OpToRel(<, Nat))
  BY WFMin, NatLessThanWellFounded
<1>2. \A y \in S : x <= y
  <2>1. \A y \in S : ~(y < x)
    BY <1>1 DEF OpToRel
  <2> QED
    BY <2>1
<1> QED
  BY <1>2

\* A set closed under the links contains each linked record: else the lowest of
\* its records above a missing one would lead to a lower one, or to that one.
LEMMA ClosedHasLinked ==
  ASSUME NEW rank \in [Threads -> Nat], Sorted(rank),
         NEW S \in SUBSET Threads, Closed(S), NEW t \in Linked
  PROVE  t \in S
<1> SUFFICES ASSUME t \notin S PROVE FALSE
  OBVIOUS
<1> DEFINE above == {u \in S \cap Linked : rank[t] < rank[u]}
           ranks == {rank[u] : u \in above}
<1>1. head \in above
  <2>1. head \in Linked /\ rank[t] <= rank[head] /\ head \in Threads
    BY DEF Sorted, Highest, Linked
  <2>2. head \in S /\ head # t
    BY <2>1 DEF Closed
  <2>3. rank[t] # rank[head]
    BY <2>1, <2>2 DEF Sorted
  <2> QED
    BY <2>1, <2>2, <2>3 DEF Linked
<1>2. PICK low \in above : \A u \in above : rank[low] <= rank[u]
  <2>1. ranks \in SUBSET Nat /\ ranks # {}
    BY <1>1 DEF Linked
  <2>2. PICK x \in ranks : \A y \in ranks : x <= y
    <3> HIDE DEF ranks
    <3> QED
      BY <2>1, LeastNumber
  <2> QED
    BY <2>2
<1>3. t \in Below(rank, low) /\ low \in Linked
  BY <1>2 DEF Below
<1>4. next[low] \in Below(rank, low) /\ rank[t] <= rank[next[low]]
  BY <1>3 DEF Sorted, Highest
<1>5. next[low] \in S
  BY <1>2, <1>4 DEF Closed, Below, Linked
<1>6. next[low] # t
  BY <1>5
<1>7. rank[next[low]] # rank[t]
  BY <1>4, <1>6 DEF Sorted, Below
<1>8. next[low] \in above
  BY <1>4, <1>5, <1>7 DEF Below, Linked
<1> QED
  BY <1>2, <1>4, <1>8 DEF Below, Linked

\* The links of the list stay in the list.
LEMMA LinkedIsClosed == ASSUME NEW rank, Sorted(rank) PROVE Closed(Linked)
BY DEF Sorted, Highest, Below, Closed

LEMMA ReachableIsLinked == IInv => Reachable = Linked
<1> SUFFICES ASSUME IInv PROVE Reachable = Linked
  OBVIOUS
<1>1. PICK rank \in [Threads -> Nat] : Sorted(rank)
  BY DEF IInv, SortedInv
<1>2. Reachable \subseteq Linked
  BY <1>1, LinkedIsClosed DEF Reachable, Linked
<1>3. Linked \subseteq Reachable
  BY <1>1, ClosedHasLinked DEF Reachable, Linked
<1> QED
  BY <1>2, <1>3

\* What can be reached from vm_threads is what has been added and not removed,
\* at every step of every interleaving, inside the critical section too.
THEOREM ListSafety == Spec => []ReachesLinked
<1>1. IInv => ReachesLinked
  BY ReachableIsLinked DEF ReachesLinked, Linked
<1> QED
  BY <1>1, Invariance, PTL

-----------------------------------------------------------------------------
(* The list implements a set. *)

LEMMA ReachableThen == IInv' => (Reachable = Linked)'
BY ReachableIsLinked, PTL

\* How RegistrySet sees a worker at a place of the code, with a parameter.
CallAt(place, t) ==
  [op |-> IF place \in AddAt THEN "add" ELSE IF place \in RemoveAt THEN "remove" ELSE "none",
   target |-> t,
   phase |-> IF place = "idle" THEN "idle"
             ELSE IF place \in {"add.unlock", "remove.unlock"} THEN "done" ELSE "called"]

LEMMA CallsAre ==
  /\ Calls = [w \in Workers |-> CallAt(pc[w], target[w])]
  /\ Calls' = [w \in Workers |-> CallAt(pc'[w], target'[w])]
BY DEF Calls, CallAt

\* A step of one worker changes what the set sees of that worker only.
LEMMA CallMoves ==
  ASSUME IInv, NEW w \in Workers, NEW place, NEW t,
         pc' = [pc EXCEPT ![w] = place], target' = [target EXCEPT ![w] = t]
  PROVE  Calls' = [Calls EXCEPT ![w] = CallAt(place, t)]
<1>1. pc \in [Workers -> {"idle"} \cup AddAt \cup RemoveAt] /\ target \in [Workers -> Threads \cup {NULL}]
  BY DEF IInv, TypeOK
<1>2. \A v \in Workers : CallAt(pc'[v], target'[v])
                         = IF v = w THEN CallAt(place, t) ELSE CallAt(pc[v], target[v])
  BY <1>1
<1> QED
  BY <1>2, CallsAre

\* Within a call, between its taking effect and the steps around it, the set
\* sees nothing.
LEMMA CallStands ==
  ASSUME IInv, NEW w \in Workers, NEW place, pc' = [pc EXCEPT ![w] = place],
         UNCHANGED target, CallAt(place, target[w]) = CallAt(pc[w], target[w])
  PROVE  Calls' = Calls
<1>1. pc \in [Workers -> {"idle"} \cup AddAt \cup RemoveAt]
  BY DEF IInv, TypeOK
<1>2. \A v \in Workers : CallAt(pc'[v], target'[v]) = CallAt(pc[v], target[v])
  BY <1>1
<1> QED
  BY <1>2, CallsAre

\* A call begins with an idle worker and links or unlinks nothing.
LEMMA CallIsInvoke ==
  ASSUME IInv, IInv', NEW w \in Workers, NEW t \in Threads, AddCall(w, t) \/ RemoveCall(w, t)
  PROVE  Set!Next
<1>1. Reachable' = Reachable
  <2>1. Linked' = Linked
    BY DEF IInv, TypeOK, AddCall, RemoveCall, Call, Linked
  <2> QED
    BY <2>1, ReachableIsLinked, ReachableThen
<1>2. Calls[w] = Set!Idle
  BY CallsAre DEF IInv, CallInv, AddCall, RemoveCall, Call, CallAt, Set!Idle
<1>3. CASE AddCall(w, t)
  <2>1. Calls' = [Calls EXCEPT ![w] = CallAt("add.lock", t)]
    BY <1>3, CallMoves DEF AddCall, Call
  <2>2. CallAt("add.lock", t) = [op |-> "add", target |-> t, phase |-> "called"]
    BY DEF CallAt
  <2> QED
    BY <1>1, <1>2, <2>1, <2>2 DEF Set!Next, Set!Invoke
<1>4. CASE RemoveCall(w, t)
  <2>1. Calls' = [Calls EXCEPT ![w] = CallAt("remove.lock", t)]
    BY <1>4, CallMoves DEF RemoveCall, Call
  <2>2. CallAt("remove.lock", t) = [op |-> "remove", target |-> t, phase |-> "called"]
    BY DEF CallAt
  <2> QED
    BY <1>1, <1>2, <2>1, <2>2 DEF Set!Next, Set!Invoke
<1> QED
  BY <1>3, <1>4

\* vm_threads = t is the instant at which an insertion takes effect.
LEMMA AddHeadIsEffect ==
  ASSUME IInv, IInv', NEW w \in Workers, AddHead(w) PROVE Set!Next
<1>1. Reachable' = Reachable \cup {target[w]}
  <2>1. Linked' = Linked \cup {target[w]}
    BY DEF IInv, TypeOK, AddHead, Linked
  <2> QED
    BY <2>1, ReachableIsLinked, ReachableThen
<1>2. Calls[w] = CallAt("add.head", target[w])
  BY CallsAre DEF AddHead
<1>3. Calls[w].phase = "called" /\ Calls[w].op = "add" /\ Calls[w].target = target[w]
  BY <1>2 DEF CallAt
<1>4. Calls' = [Calls EXCEPT ![w] = CallAt("add.unlock", target[w])]
  <2>1. target' = [target EXCEPT ![w] = target[w]]
    BY DEF IInv, TypeOK, AddHead
  <2>2. pc' = [pc EXCEPT ![w] = "add.unlock"]
    BY DEF AddHead
  <2> QED
    BY <2>1, <2>2, CallMoves
<1>5. CallAt("add.unlock", target[w]) = [CallAt("add.head", target[w]) EXCEPT !.phase = "done"]
  BY DEF CallAt
<1>6. Calls' = [Calls EXCEPT ![w].phase = "done"]
  BY <1>2, <1>4, <1>5
<1> QED
  BY <1>1, <1>3, <1>6 DEF Set!Next, Set!Effect

\* if (*p) *p = t->next is the instant at which a removal does, whether the
\* record is still in the list or not.
LEMMA RemoveUnlinkIsEffect ==
  ASSUME IInv, IInv', NEW w \in Workers, RemoveUnlink(w) PROVE Set!Next
<1>1. Reachable' = Reachable \ {target[w]}
  <2>1. Linked' = Linked \ {target[w]}
    BY DEF IInv, TypeOK, RemoveUnlink, Linked
  <2> QED
    BY <2>1, ReachableIsLinked, ReachableThen
<1>2. Calls[w] = CallAt("remove.walk", target[w])
  BY CallsAre DEF RemoveUnlink
<1>3. Calls[w].phase = "called" /\ Calls[w].op = "remove" /\ Calls[w].target = target[w]
  BY <1>2 DEF CallAt
<1>4. Calls' = [Calls EXCEPT ![w] = CallAt("remove.unlock", target[w])]
  <2>1. target' = [target EXCEPT ![w] = target[w]]
    BY DEF IInv, TypeOK, RemoveUnlink
  <2> QED
    BY <2>1, CallMoves DEF RemoveUnlink
<1>5. CallAt("remove.unlock", target[w]) = [CallAt("remove.walk", target[w]) EXCEPT !.phase = "done"]
  BY DEF CallAt
<1>6. Calls' = [Calls EXCEPT ![w].phase = "done"]
  BY <1>2, <1>4, <1>5
<1> QED
  BY <1>1, <1>3, <1>6 DEF Set!Next, Set!Effect

\* pthread_mutex_unlock is the return of the call.
LEMMA UnlockIsRespond ==
  ASSUME IInv, IInv', NEW w \in Workers, AddUnlock(w) \/ RemoveUnlock(w) PROVE Set!Next
<1> USE DEF AddUnlock, RemoveUnlock, Unlock
<1>1. Reachable' = Reachable
  <2>1. Linked' = Linked
    BY DEF Linked
  <2> QED
    BY <2>1, ReachableIsLinked, ReachableThen
<1>2. Calls[w].phase = "done"
  BY CallsAre DEF CallAt
<1>3. Calls' = [Calls EXCEPT ![w] = Set!Idle]
  BY CallMoves DEF CallAt, Set!Idle
<1> QED
  BY <1>1, <1>2, <1>3 DEF Set!Next, Set!Respond

\* Taking the lock, t->next = vm_threads, each step of the walk and the free of a
\* record change nothing the set shows.
LEMMA RestIsStutter ==
  ASSUME IInv, IInv', UNCHANGED vars \/ (\E t \in Threads : Free(t))
         \/ \E w \in Workers : AddLock(w) \/ AddNext(w) \/ RemoveLock(w) \/ RemoveWalk(w)
  PROVE  UNCHANGED Set!vars
<1>1. Linked' = Linked
  BY DEF IInv, TypeOK, Linked, vars, Free, AddLock, AddNext, RemoveLock, RemoveWalk, Lock
<1>2. Reachable' = Reachable
  BY <1>1, ReachableIsLinked, ReachableThen
<1>3. Calls' = Calls
  <2>1. CASE UNCHANGED <<pc, target>>
    BY <2>1, CallsAre
  <2>2. CASE \E w \in Workers : AddLock(w) \/ AddNext(w) \/ RemoveLock(w)
    BY <2>2, CallStands DEF AddLock, AddNext, RemoveLock, Lock, CallAt
  <2> QED
    BY <2>1, <2>2 DEF vars, Free, RemoveWalk
<1> QED
  BY <1>2, <1>3 DEF Set!vars

\* Whatever the interleaving, each registry_add and registry_remove takes effect
\* at one instant between its call and its return.
THEOREM Refinement == Spec => ImplementsSet
<1>1. Init => Set!Init
  <2> SUFFICES ASSUME Init PROVE Set!Init
    OBVIOUS
  <2>1. Reachable = {}
    BY InitInv, ReachableIsLinked DEF Init, Linked
  <2>2. Calls = [w \in Workers |-> Set!Idle]
    BY CallsAre DEF Init, CallAt, Set!Idle
  <2> QED
    BY <2>1, <2>2 DEF Set!Init
<1>2. IInv /\ IInv' /\ [Next]_vars => [Set!Next]_(Set!vars)
  BY CallIsInvoke, AddHeadIsEffect, RemoveUnlinkIsEffect, UnlockIsRespond, RestIsStutter
     DEF Next, Inside, Exhausted
<1> QED
  BY <1>1, <1>2, Invariance, PTL DEF Spec, ImplementsSet, Set!Spec
=============================================================================
