------------------------------ MODULE Registry ------------------------------
(***************************************************************************)
(* The thread registry of vm.c, pointer by pointer: vm_threads heads a     *)
(* list linked through VMThread.next, and vm_threads_lock guards both.     *)
(* registry_add pushes in front; registry_remove walks p, the address of   *)
(* the link it looks at, until *p is the record or the end.                *)
(*                                                                         *)
(* The callers are those of VMThread.tla: a record is added once, removed  *)
(* after that (once, or again by a later vm_thread_destroy), and freed     *)
(* when a removal has returned and nobody works on it.                     *)
(***************************************************************************)
EXTENDS Naturals

CONSTANTS Threads,  \* the VMThread records
          Workers,  \* the host threads that call the registry
          NULL      \* the null pointer

ASSUME ConstantsAssumption == NULL \notin Threads \cup Workers

VARIABLES
  head,    \* vm_threads
  next,    \* VMThread.next
  lock,    \* the worker that holds vm_threads_lock, or NULL
  record,  \* life of each record: see Record
  pc,      \* where each worker is
  target,  \* the parameter t of the call it is in
  prev     \* registry_remove: p = &prev[w]->next, or &vm_threads if NULL

vars == <<head, next, lock, record, pc, target, prev>>

Record == {"fresh", "adding", "linked", "unlinked", "freed"}
AddAt    == {"add.lock", "add.next", "add.head", "add.unlock"}
RemoveAt == {"remove.lock", "remove.walk", "remove.unlock"}
\* Between pthread_mutex_lock and pthread_mutex_unlock.
CriticalAt == {"add.next", "add.head", "add.unlock", "remove.walk", "remove.unlock"}

TypeOK ==
  /\ head \in Threads \cup {NULL}
  /\ next \in [Threads -> Threads \cup {NULL}]
  /\ lock \in Workers \cup {NULL}
  /\ record \in [Threads -> Record]
  /\ pc \in [Workers -> {"idle"} \cup AddAt \cup RemoveAt]
  /\ target \in [Workers -> Threads \cup {NULL}]
  /\ prev \in [Workers -> Threads \cup {NULL}]
  /\ \A w \in Workers : pc[w] # "idle" => target[w] \in Threads

\* calloc clears next; vm_threads is NULL.
Init ==
  /\ head = NULL
  /\ next = [t \in Threads |-> NULL]
  /\ lock = NULL
  /\ record = [t \in Threads |-> "fresh"]
  /\ pc = [w \in Workers |-> "idle"]
  /\ target = [w \in Workers |-> NULL]
  /\ prev = [w \in Workers |-> NULL]

Goto(w, place) == pc' = [pc EXCEPT ![w] = place]

Call(w, t, place) ==
  /\ pc[w] = "idle"
  /\ target' = [target EXCEPT ![w] = t]
  /\ Goto(w, place)
  /\ UNCHANGED <<head, next, lock, prev>>

Lock(w, place) ==
  /\ lock = NULL
  /\ lock' = w
  /\ Goto(w, place)
  /\ prev' = [prev EXCEPT ![w] = NULL]
  /\ UNCHANGED <<head, next, record, target>>

Unlock(w) ==
  /\ lock' = NULL
  /\ Goto(w, "idle")
  /\ target' = [target EXCEPT ![w] = NULL]
  /\ UNCHANGED <<head, next, record, prev>>

Working(t) == {w \in Workers : target[w] = t}

-----------------------------------------------------------------------------
(* registry_add *)

AddCall(w, t) ==
  /\ record[t] = "fresh"
  /\ record' = [record EXCEPT ![t] = "adding"]
  /\ Call(w, t, "add.lock")

\* Defective variant of AddLock: vm_threads_lock is not taken.
AddWithoutLock(w) ==
  /\ pc[w] = "add.lock"
  /\ Goto(w, "add.next")
  /\ UNCHANGED <<head, next, lock, record, target, prev>>

AddLock(w) ==
  /\ pc[w] = "add.lock"
  /\ Lock(w, "add.next")

\* Defective variant of AddNext: vm_threads = t comes before t->next =
\* vm_threads.
AddNextLate(w) ==
  /\ pc[w] = "add.next"
  /\ next' = [next EXCEPT ![target[w]] = target[w]]
  /\ Goto(w, "add.head")
  /\ UNCHANGED <<head, lock, record, target, prev>>

\* t->next = vm_threads;
AddNext(w) ==
  /\ pc[w] = "add.next"
  /\ next' = [next EXCEPT ![target[w]] = head]
  /\ Goto(w, "add.head")
  /\ UNCHANGED <<head, lock, record, target, prev>>

\* vm_threads = t;
AddHead(w) ==
  /\ pc[w] = "add.head"
  /\ head' = target[w]
  /\ record' = [record EXCEPT ![target[w]] = "linked"]
  /\ Goto(w, "add.unlock")
  /\ UNCHANGED <<next, lock, target, prev>>

AddUnlock(w) ==
  /\ pc[w] = "add.unlock"
  /\ Unlock(w)

-----------------------------------------------------------------------------
(* registry_remove *)

\* Defective variant of RemoveCall: called with a null handle, which JOIN and
\* DETACH refuse.
RemoveCallNull(w, t) ==
  /\ record[t] \in {"linked", "unlinked"}
  /\ Call(w, NULL, "remove.lock")
  /\ UNCHANGED record

RemoveCall(w, t) ==
  /\ record[t] \in {"linked", "unlinked"}
  /\ \A v \in Working(t) : pc[v] \notin AddAt
  /\ Call(w, t, "remove.lock")
  /\ UNCHANGED record

\* Defective variant of RemoveLock: vm_threads_lock is not taken.
RemoveWithoutLock(w) ==
  /\ pc[w] = "remove.lock"
  /\ Goto(w, "remove.walk")
  /\ prev' = [prev EXCEPT ![w] = NULL]
  /\ UNCHANGED <<head, next, lock, record, target>>

\* p = &vm_threads
RemoveLock(w) ==
  /\ pc[w] = "remove.lock"
  /\ Lock(w, "remove.walk")

\* *p
Link(w) == IF prev[w] = NULL THEN head ELSE next[prev[w]]

\* while (*p && *p != t) p = &(*p)->next;
RemoveWalk(w) ==
  /\ pc[w] = "remove.walk"
  /\ Link(w) \notin {NULL, target[w]}
  /\ prev' = [prev EXCEPT ![w] = Link(w)]
  /\ UNCHANGED <<head, next, lock, record, pc, target>>

\* Defective variant of RemoveUnlink: t->next is stored through p without
\* testing that *p is t.
RemoveUnlinkUntested(w) ==
  /\ pc[w] = "remove.walk"
  /\ Link(w) \in {NULL, target[w]}
  /\ IF prev[w] = NULL
       THEN head' = next[target[w]] /\ UNCHANGED next
       ELSE next' = [next EXCEPT ![prev[w]] = next[target[w]]] /\ UNCHANGED head
  /\ record' = [record EXCEPT ![target[w]] = "unlinked"]
  /\ Goto(w, "remove.unlock")
  /\ UNCHANGED <<lock, target, prev>>

\* if (*p) *p = t->next;
RemoveUnlink(w) ==
  /\ pc[w] = "remove.walk"
  /\ Link(w) \in {NULL, target[w]}
  /\ head' = IF Link(w) = target[w] /\ prev[w] = NULL THEN next[target[w]] ELSE head
  /\ next' = IF Link(w) = target[w] /\ prev[w] # NULL
               THEN [next EXCEPT ![prev[w]] = next[target[w]]] ELSE next
  /\ record' = [record EXCEPT ![target[w]] = "unlinked"]
  /\ Goto(w, "remove.unlock")
  /\ UNCHANGED <<lock, target, prev>>

RemoveUnlock(w) ==
  /\ pc[w] = "remove.unlock"
  /\ Unlock(w)

-----------------------------------------------------------------------------

\* free(t) in vm_thread_destroy, by the worker whose removal has returned.
Free(t) ==
  /\ record[t] = "unlinked"
  /\ Working(t) = {}
  /\ record' = [record EXCEPT ![t] = "freed"]
  /\ UNCHANGED <<head, next, lock, pc, target, prev>>

\* Every record the heap had for us has been used up (a bound of the model).
Exhausted ==
  /\ \A t \in Threads : record[t] = "freed"
  /\ \A w \in Workers : pc[w] = "idle"
  /\ UNCHANGED vars

Inside(w) ==
  \/ AddNext(w) \/ AddHead(w) \/ AddUnlock(w)
  \/ RemoveWalk(w) \/ RemoveUnlink(w) \/ RemoveUnlock(w)

Next ==
  \/ \E w \in Workers :
       \/ \E t \in Threads : AddCall(w, t) \/ RemoveCall(w, t)
       \/ AddLock(w) \/ RemoveLock(w)
       \/ Inside(w)
  \/ \E t \in Threads : Free(t)
  \/ Exhausted

\* The scheduler lets the holder of the lock go on.  Nothing is assumed of who
\* gets the lock next: a default pthread mutex gives no order.
Fairness == \A w \in Workers : WF_vars(Inside(w))

Spec == Init /\ [][Next]_vars /\ Fairness

-----------------------------------------------------------------------------
(* Properties *)

\* Sets of records that contain what vm_threads and their own links lead to.
Closed(S) ==
  /\ head # NULL => head \in S
  /\ \A t \in S : next[t] # NULL => next[t] \in S

\* The records reachable from vm_threads: the least such set.
Reachable == {t \in Threads : \A S \in SUBSET Threads : Closed(S) => t \in S}

\* registry_remove follows links through other threads' records: none of those
\* it dereferences has been freed, and it does so only under the lock.
WalksLiveNodes ==
  \A w \in Workers : pc[w] = "remove.walk" =>
    /\ lock = w
    /\ prev[w] # NULL => record[prev[w]] = "linked"
    /\ Link(w) # NULL => record[Link(w)] = "linked"

\* Exactly the records added and not yet removed can be reached from
\* vm_threads: no insertion is lost, and a removed record cannot be found again.
ReachesLinked == Reachable = {t \in Threads : record[t] = "linked"}

\* The walk of registry_remove meets no cycle, so the lock is always released.
LockReleased == \A w \in Workers : lock = w ~> lock # w

\* The list implements the set of RegistrySet: every call takes effect at one
\* instant, whatever the interleaving.
Calls ==
  [w \in Workers |->
     [op |-> IF pc[w] \in AddAt THEN "add"
             ELSE IF pc[w] \in RemoveAt THEN "remove" ELSE "none",
      target |-> target[w],
      phase |-> IF pc[w] = "idle" THEN "idle"
                ELSE IF pc[w] \in {"add.unlock", "remove.unlock"} THEN "done"
                ELSE "called"]]

Set == INSTANCE RegistrySet WITH members <- Reachable, call <- Calls

ImplementsSet == Set!Spec
=============================================================================
