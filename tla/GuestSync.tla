------------------------------ MODULE GuestSync ------------------------------
(***************************************************************************)
(* The mutex and atomic system calls (syscall.c), as guest threads use them*)
(* on shared memory.                                                       *)
(*                                                                         *)
(* The guests are the environment.  They use the calls as syscall.h and    *)
(* the tests do, without a thread that is in charge: each creates a mutex, *)
(* the first to store its handle by CMPXCHG wins and the others destroy    *)
(* theirs; each makes a number of updates of a word under the mutex and of *)
(* another one by FETCHADD or CMPXCHG; each leaves by FETCHADD of -1 on a  *)
(* count of users, and the last one out destroys the mutex, which          *)
(* syscall.h:60 allows it to do with the mutex locked.                     *)
(***************************************************************************)
EXTENDS Integers, FiniteSets

CONSTANTS Threads,  \* the guest threads
          Mutexes,  \* the places malloc may give to a pthread_mutex_t
          NULL,
          Modulus,  \* 2^64: words of guest memory wrap around
          Quota     \* bound: how many updates the threads make together

ASSUME ConstantsAssumption ==
  /\ IsFiniteSet(Threads)
  /\ NULL \notin Threads \cup Mutexes
  /\ Modulus \in Nat /\ Cardinality(Threads) < Modulus
  /\ Quota \in Nat

VARIABLES
  heap,    \* heap[m]: "unused", "live" or "freed"
  owner,   \* owner[m]: the thread that has locked the host mutex at m, or NULL
  handle,  \* guest memory: the mutex all threads use
  mem,     \* guest memory: "refs", "guarded" and "count"
  pc,      \* pc[t]: where the host thread of t is
  mine,    \* a register of t: what MUTEX_CREATE returned
  h,       \* a register of t: the mutex to use
  val,     \* a register of t: a value loaded from memory
  left,    \* the updates left to make
  done     \* history: how often each of "guarded" and "count" was updated

memory == <<handle, mem>>
vars == <<heap, owner, handle, mem, pc, mine, h, val, left, done>>

Word == 0..(Modulus - 1)
Counter == {"guarded", "count"}
Handle == Mutexes \cup {NULL}
Place == {"create", "install", "discard", "work", "lock", "load", "store", "unlock",
          "cas", "last", "lastlock", "destroy", "halted"}

TypeOK ==
  /\ heap \in [Mutexes -> {"unused", "live", "freed"}]
  /\ owner \in [Mutexes -> Threads \cup {NULL}]
  /\ handle \in Handle
  /\ mem \in [Counter \cup {"refs"} -> Word]
  /\ pc \in [Threads -> Place]
  /\ mine \in [Threads -> Handle]
  /\ h \in [Threads -> Handle]
  /\ val \in [Threads -> Word]
  /\ left \in 0..Quota
  /\ done \in [Counter -> Nat]

Init ==
  /\ heap = [m \in Mutexes |-> "unused"]
  /\ owner = [m \in Mutexes |-> NULL]
  /\ handle = NULL
  /\ mem = [w \in Counter \cup {"refs"} |-> IF w = "refs" THEN Cardinality(Threads) ELSE 0]
  /\ pc = [t \in Threads |-> "create"]
  /\ mine = [t \in Threads |-> NULL]
  /\ h = [t \in Threads |-> NULL]
  /\ val = [t \in Threads |-> 0]
  /\ left = Quota
  /\ done = [w \in Counter |-> 0]

Step(t, from, to) ==
  /\ pc[t] = from
  /\ pc' = [pc EXCEPT ![t] = to]

-----------------------------------------------------------------------------
(* MUTEX_CREATE: malloc and pthread_mutex_init, or 0 when malloc fails.  *)

Create(t) ==
  /\ Step(t, "create", "install")
  /\ \/ \E m \in Mutexes :
          /\ heap[m] # "live"
          /\ heap' = [heap EXCEPT ![m] = "live"]
          /\ owner' = [owner EXCEPT ![m] = NULL]
          /\ mine' = [mine EXCEPT ![t] = m]
     \/ UNCHANGED <<heap, owner, mine>>
  /\ UNCHANGED <<memory, h, val, left, done>>

(* ATOMIC_CMPXCHG answers the old value; the guest compares.  *)

\* Defective variant of Swapped: stores whatever was there before.
SwappedAlways(old, expected, desired) == desired

Swapped(old, expected, desired) == IF old = expected THEN desired ELSE old

\* Offers the new mutex as the one to use.
Install(t) ==
  /\ handle' = Swapped(handle, NULL, mine[t])
  /\ \/ /\ handle = NULL
        /\ Step(t, "install", "work")
        /\ h' = [h EXCEPT ![t] = mine[t]]
     \/ /\ handle # NULL
        /\ Step(t, "install", "discard")
        /\ h' = [h EXCEPT ![t] = handle]
  /\ UNCHANGED <<heap, owner, mem, mine, val, left, done>>

(* MUTEX_DESTROY: pthread_mutex_destroy, which leaves a locked mutex as it *)
(* is, and free.  Does nothing for a null handle.                          *)

\* Defective variant of Destroyed: the handle is not freed.
DestroyedNotFreed(m) == heap

Destroyed(m) == [x \in Mutexes |-> IF x = m THEN "freed" ELSE heap[x]]

Discard(t) ==
  /\ Step(t, "discard", "work")
  /\ heap' = Destroyed(mine[t])
  /\ UNCHANGED <<owner, memory, mine, h, val, left, done>>

-----------------------------------------------------------------------------
(* MUTEX_LOCK and MUTEX_UNLOCK.  *)

Spend == left > 0 /\ left' = left - 1

\* A null handle is refused with -1: the guest does without the update.
LockRefused(t) ==
  /\ Step(t, "work", "work")
  /\ h[t] = NULL
  /\ Spend
  /\ UNCHANGED <<heap, owner, memory, mine, h, val, done>>

LockCall(t) ==
  /\ Step(t, "work", "lock")
  /\ h[t] # NULL
  /\ Spend
  /\ UNCHANGED <<heap, owner, memory, mine, h, val, done>>

\* Defective variant of Acquire: answers without waiting.
AcquireBusy(t) ==
  /\ \/ Step(t, "lock", "load")
     \/ Step(t, "lastlock", "destroy")
  /\ owner' = [owner EXCEPT ![h[t]] = t]
  /\ UNCHANGED <<heap, memory, mine, h, val, left, done>>

\* pthread_mutex_lock gets the mutex and the call returns 0.
Acquire(t) ==
  /\ \/ Step(t, "lock", "load")
     \/ Step(t, "lastlock", "destroy")
  /\ owner[h[t]] = NULL
  /\ owner' = [owner EXCEPT ![h[t]] = t]
  /\ UNCHANGED <<heap, memory, mine, h, val, left, done>>

\* Defective variant of Unlock: the host mutex stays locked.
UnlockForgets(t) ==
  /\ Step(t, "unlock", "work")
  /\ val' = [val EXCEPT ![t] = 0]
  /\ UNCHANGED <<heap, owner, memory, mine, h, left, done>>

Unlock(t) ==
  /\ Step(t, "unlock", "work")
  /\ owner' = [owner EXCEPT ![h[t]] = NULL]
  /\ val' = [val EXCEPT ![t] = 0]
  /\ UNCHANGED <<heap, memory, mine, h, left, done>>

(* The update under the mutex: a load, an ADD and a store, which another  *)
(* thread may come between.                                               *)

Load(t) ==
  /\ Step(t, "load", "store")
  /\ val' = [val EXCEPT ![t] = mem["guarded"]]
  /\ UNCHANGED <<heap, owner, memory, mine, h, left, done>>

Store(t) ==
  /\ Step(t, "store", "unlock")
  /\ mem' = [mem EXCEPT !["guarded"] = (val[t] + 1) % Modulus]
  /\ done' = [done EXCEPT !["guarded"] = @ + 1]
  /\ UNCHANGED <<heap, owner, handle, mine, h, val, left>>

-----------------------------------------------------------------------------
(* ATOMIC_FETCHADD answers the old value.  *)

\* Defective variant of FetchAdd: the word does not wrap around.
FetchAddWider(w, delta) == mem' = [mem EXCEPT ![w] = @ + delta]

FetchAdd(w, delta) == mem' = [mem EXCEPT ![w] = (@ + delta) % Modulus]

Count(t) ==
  /\ Step(t, "work", "work")
  /\ Spend
  /\ FetchAdd("count", 1)
  /\ done' = [done EXCEPT !["count"] = @ + 1]
  /\ UNCHANGED <<heap, owner, handle, mine, h, val>>

\* The same by CMPXCHG, from a guess.
CasBegin(t) ==
  /\ Step(t, "work", "cas")
  /\ Spend
  /\ val' = [val EXCEPT ![t] = 0]
  /\ UNCHANGED <<heap, owner, memory, mine, h, done>>

Cas(t) ==
  /\ mem' = [mem EXCEPT !["count"] = Swapped(@, val[t], (val[t] + 1) % Modulus)]
  /\ \/ /\ mem["count"] = val[t]
        /\ Step(t, "cas", "work")
        /\ done' = [done EXCEPT !["count"] = @ + 1]
        /\ val' = [val EXCEPT ![t] = 0]
     \/ /\ mem["count"] # val[t]
        /\ Step(t, "cas", "cas")
        /\ val' = [val EXCEPT ![t] = mem["count"]]
        /\ UNCHANGED done
  /\ UNCHANGED <<heap, owner, handle, mine, h, left>>

\* Defective variant of Quit: FETCHADD answers the new value.
QuitNewValue(t) ==
  /\ FetchAdd("refs", -1)
  /\ \/ mem["refs"] = 2 /\ Step(t, "work", "last")
     \/ mem["refs"] # 2 /\ Step(t, "work", "halted")
  /\ UNCHANGED <<heap, owner, handle, mine, h, val, left, done>>

\* Leaves; the one that finds a count of 1 is the last.
Quit(t) ==
  /\ FetchAdd("refs", -1)
  /\ \/ mem["refs"] = 1 /\ Step(t, "work", "last")
     \/ mem["refs"] # 1 /\ Step(t, "work", "halted")
  /\ UNCHANGED <<heap, owner, handle, mine, h, val, left, done>>

\* The last one reads the handle and destroys the mutex, locking it first or not
\* (LOCK of a null handle answers -1 here as well).
Last(t) ==
  /\ \/ Step(t, "last", "destroy")
     \/ Step(t, "last", "lastlock") /\ handle # NULL
  /\ h' = [h EXCEPT ![t] = handle]
  /\ UNCHANGED <<heap, owner, memory, mine, val, left, done>>

Destroy(t) ==
  /\ Step(t, "destroy", "halted")
  /\ heap' = Destroyed(h[t])
  /\ UNCHANGED <<owner, memory, mine, h, val, left, done>>

-----------------------------------------------------------------------------

Run(t) ==
  \/ Create(t) \/ Install(t) \/ Discard(t)
  \/ LockRefused(t) \/ LockCall(t) \/ Acquire(t) \/ Load(t) \/ Store(t) \/ Unlock(t)
  \/ Count(t) \/ CasBegin(t) \/ Cas(t)
  \/ Quit(t) \/ Last(t) \/ Destroy(t)

Halted == \A t \in Threads : pc[t] = "halted"
Finished == Halted /\ UNCHANGED vars

Next == (\E t \in Threads : Run(t)) \/ Finished

\* The host schedules runnable threads; a free mutex is given to somebody.
Fairness == \A t \in Threads : WF_vars(Run(t))

Spec == Init /\ [][Next]_vars /\ Fairness

-----------------------------------------------------------------------------

InSection(t) == pc[t] \in {"load", "store", "unlock"}

\* Between LOCK and UNLOCK a thread is alone, whatever mutexes were created and
\* destroyed before the one it locked.
MutualExclusion ==
  \A t, u \in Threads : InSection(t) /\ InSection(u) => t = u

\* Each word holds the number of updates made of it, modulo its width: none is
\* lost, neither of the loads and stores under the mutex nor of the atomics.
NoLostUpdate == \A w \in Counter : mem[w] = done[w] % Modulus

\* The mutex that a call of t is given, or will be.
Argument(t) ==
  CASE pc[t] = "discard" -> mine[t]
    [] pc[t] \in {"lock", "lastlock", "destroy"} \/ InSection(t) -> h[t]
    [] OTHER -> NULL

\* No call works on a mutex that was freed, and none is freed twice: the last
\* thread out is one, and it is the last.
NoFreedMutex == \A t \in Threads : Argument(t) # NULL => heap[Argument(t)] = "live"

\* Nothing is left when all are gone: not the mutex that was used, not those
\* that came second, whether or not their creation failed.
AllReleased == Halted => \A m \in Mutexes : heap[m] # "live"

\* Nobody waits for ever: a LOCK gets the mutex once the others are through with
\* it, and a CMPXCHG fails only when another one has succeeded.
EveryoneLeaves == <>Halted
=============================================================================
