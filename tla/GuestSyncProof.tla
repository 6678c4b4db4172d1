---------------------------- MODULE GuestSyncProof ----------------------------
(***************************************************************************)
(* Mutexes and counters of the guests, for any number of threads, mutexes  *)
(* and updates, and any width of a word that can count the threads: the    *)
(* section under the mutex is exclusive, no update is lost, no call works  *)
(* on a freed mutex, and nothing is left when all threads are gone.        *)
(***************************************************************************)
EXTENDS GuestSync, FiniteSetTheorems, TLAPS

\* Places of the thread that found itself the last.
Tail == {"last", "lastlock", "destroy"}

\* The threads that have not left yet.
Present == {t \in Threads : pc[t] \notin Tail \cup {"halted"}}

\* A thread that holds a mutex of its own.
Offers(t) == pc[t] \in {"install", "discard"} /\ mine[t] # NULL

\* The count of users is the number of threads present, and the last one out is
\* alone.
Counted == mem["refs"] = Cardinality(Present)
LastAlone == \A t \in Threads : pc[t] \in Tail => \A u \in Threads \ {t} : pc[u] = "halted"

\* What a thread knows of the mutex it uses.
KnowsHandle ==
  \A t \in Threads :
    /\ pc[t] = "create" => mine[t] = NULL
    /\ pc[t] = "discard" => handle # NULL
    /\ pc[t] \in {"discard", "work", "lock", "load", "store", "unlock", "cas", "lastlock", "destroy"}
         => h[t] \in {NULL, handle}
    /\ pc[t] \in {"lock", "load", "store", "unlock", "lastlock"} => h[t] # NULL
    /\ pc[t] \in {"lastlock", "destroy"} => h[t] = handle

\* The mutex in use lives until the last thread destroys it; those on offer live
\* too, and each is offered by one thread; there are no others.
HandleLive == handle # NULL /\ ~Halted => heap[handle] = "live"
OffersLive ==
  \A t \in Threads : Offers(t) =>
    /\ heap[mine[t]] = "live"
    /\ mine[t] # handle
    /\ \A u \in Threads \ {t} : Offers(u) => mine[u] # mine[t]
LiveKnown ==
  /\ \A m \in Mutexes : heap[m] = "live" => m = handle \/ \E t \in Threads : Offers(t) /\ mine[t] = m
  /\ Halted /\ handle # NULL => heap[handle] # "live"

SectionOwned == \A t \in Threads : InSection(t) => owner[h[t]] = t
LoadedIsCurrent == \A t \in Threads : pc[t] = "store" => val[t] = mem["guarded"]

\* The inductive invariant.
IInv ==
  /\ TypeOK
  /\ Counted /\ LastAlone
  /\ KnowsHandle
  /\ HandleLive /\ OffersLive /\ LiveKnown
  /\ SectionOwned
  /\ NoLostUpdate /\ LoadedIsCurrent

USE ConstantsAssumption

-----------------------------------------------------------------------------
(* Words *)

LEMMA Remainder ==
  ASSUME NEW n \in 0..(Modulus - 1)
  PROVE  n % Modulus = n
OBVIOUS

LEMMA InWord ==
  ASSUME NEW n \in Int
  PROVE  n % Modulus \in Word
<1>1. Modulus \in Nat \ {0}
  <2>1. Cardinality(Threads) \in Nat
    BY FS_CardinalityType
  <2> QED
    BY <2>1
<1> QED
  BY <1>1 DEF Word

LEMMA ZeroWord == 0 \in Word
BY InWord, Remainder, FS_CardinalityType DEF Word

LEMMA Unique ==
  ASSUME NEW M \in Nat \ {0}, NEW q \in Int, NEW r \in 0..(M - 1)
  PROVE  (q * M + r) % M = r
OBVIOUS

LEMMA Division ==
  ASSUME NEW M \in Nat \ {0}, NEW n \in Nat
  PROVE  n = M * (n \div M) + (n % M) /\ n \div M \in Int
OBVIOUS

\* Adding one before or after the word wraps around is the same.
LEMMA AddOne ==
  ASSUME NEW n \in Nat
  PROVE  ((n % Modulus) + 1) % Modulus = (n + 1) % Modulus
<1> DEFINE M == Modulus
           r == n % M
           q == n \div M
<1>1. M \in Nat \ {0}
  BY FS_CardinalityType
<1> HIDE DEF M
<1>2. n = q * M + r /\ q \in Int
  BY <1>1, Division
<1>3. r \in 0..(M - 1)
  BY <1>1
<1> HIDE DEF r, q
<1>4. CASE r + 1 < M
  <2>1. n + 1 = q * M + (r + 1) /\ r + 1 \in 0..(M - 1)
    BY <1>1, <1>2, <1>3, <1>4
  <2>2. (n + 1) % M = r + 1
    BY <1>1, <1>2, <2>1, Unique
  <2>3. (r + 1) % M = r + 1
    BY <1>1, <2>1
  <2> QED
    BY <2>2, <2>3 DEF r, M
<1>5. CASE r + 1 = M
  <2>1. q + 1 \in Int /\ 0 \in 0..(M - 1) /\ n + 1 = (q + 1) * M + 0
    <3>1. (q + 1) * M = q * M + M
      BY <1>1, <1>2
    <3> QED
      BY <1>1, <1>2, <1>3, <1>5, <3>1
  <2>2. (n + 1) % M = 0
    BY <1>1, <2>1, Unique
  <2>3. (1 * M + 0) % M = 0
    BY <1>1, <2>1, Unique
  <2>4. (r + 1) % M = 0
    BY <1>1, <1>3, <1>5, <2>3
  <2> QED
    BY <2>2, <2>4 DEF r, M
<1> QED
  BY <1>1, <1>3, <1>4, <1>5

-----------------------------------------------------------------------------
(* Threads that come and go *)

LEMMA PresentFinite ==
  /\ IsFiniteSet(Present)
  /\ Cardinality(Present) \in Nat
  /\ Cardinality(Present) < Modulus
<1>1. Present \subseteq Threads
  BY DEF Present
<1> QED
  BY <1>1, FS_Subset, FS_CardinalityType

\* A step of a thread that stays, or that had left before.
LEMMA PresentSame ==
  ASSUME TypeOK, NEW t \in Threads, NEW to,
         pc' = [pc EXCEPT ![t] = to],
         pc[t] \in Tail \cup {"halted"} <=> to \in Tail \cup {"halted"}
  PROVE  Present' = Present
BY DEF Present, TypeOK

LEMMA Ends ==
  ASSUME TypeOK, NEW t \in Threads, NEW to,
         pc' = [pc EXCEPT ![t] = to], pc[t] # "halted", to # "halted"
  PROVE  ~Halted /\ ~Halted'
BY DEF Halted, TypeOK

LEMMA MutexAlone == IInv => MutualExclusion
BY DEF IInv, KnowsHandle, SectionOwned, MutualExclusion, InSection

-----------------------------------------------------------------------------
(* Every step keeps the invariant *)

\* What a thread does between the installation and leaving concerns no other
\* thread's mutex.
Working == {"work", "lock", "load", "store", "unlock", "cas"}
Elsewhere == Counted /\ LastAlone /\ KnowsHandle /\ HandleLive /\ OffersLive /\ LiveKnown

LEMMA WorkKeeps ==
  ASSUME IInv, NEW t \in Threads, NEW to \in Working,
         pc[t] \in Working, pc' = [pc EXCEPT ![t] = to],
         to \in {"work", "cas"} \/ h[t] # NULL,
         UNCHANGED <<heap, handle, mine, h>>, mem'["refs"] = mem["refs"]
  PROVE  Elsewhere'
<1> USE DEF IInv, TypeOK, Working
<1>1. Counted'
  BY PresentSame DEF Tail, Counted
<1>2. LastAlone'
  BY DEF LastAlone, Tail
<1>3. KnowsHandle'
  BY DEF KnowsHandle
<1>4. ~Halted /\ ~Halted'
  BY Ends
<1>5. \A u \in Threads : Offers(u)' <=> Offers(u)
  BY DEF Offers
<1>6. HandleLive' /\ LiveKnown'
  BY <1>4, <1>5 DEF HandleLive, LiveKnown
<1>7. OffersLive'
  BY <1>5 DEF OffersLive
<1> QED
  BY <1>1, <1>2, <1>3, <1>6, <1>7 DEF Elsewhere

LEMMA CreateKeeps ==
  ASSUME IInv, NEW t \in Threads, Create(t)
  PROVE  IInv'
<1> USE DEF Create, Step, memory
<1>p. Present' = Present
  BY PresentSame DEF IInv, Tail, TypeOK
<1>e. ~Halted /\ ~Halted'
  BY Ends DEF IInv
<1>1. TypeOK'
  BY DEF IInv, TypeOK, Place, Handle, Counter
<1>2. Counted'
  BY <1>p DEF IInv, TypeOK, Counted
<1>3. LastAlone'
  BY DEF IInv, TypeOK, LastAlone, Tail
<1>4. KnowsHandle'
  BY DEF IInv, TypeOK, KnowsHandle
<1>5. HandleLive'
  BY <1>e DEF IInv, TypeOK, HandleLive, Handle
<1>6. OffersLive'
  BY <1>e DEF IInv, TypeOK, OffersLive, Offers, Handle, HandleLive, KnowsHandle
<1>7. LiveKnown'
  BY <1>e DEF IInv, TypeOK, LiveKnown, Offers
<1>8. SectionOwned'
  BY <1>e DEF IInv, TypeOK, SectionOwned, KnowsHandle, InSection, Handle, HandleLive
<1>9. NoLostUpdate'
  BY DEF IInv, TypeOK, NoLostUpdate, Counter
<1>10. LoadedIsCurrent'
  BY DEF IInv, TypeOK, LoadedIsCurrent
<1> QED
  BY <1>1, <1>2, <1>3, <1>4, <1>5, <1>6, <1>7, <1>8, <1>9, <1>10 DEF IInv

LEMMA InstallKeeps ==
  ASSUME IInv, NEW t \in Threads, Install(t)
  PROVE  IInv'
<1> USE DEF Install, Step, memory
<1>p. Present' = Present
  BY PresentSame DEF IInv, Tail, TypeOK
<1>e. ~Halted /\ ~Halted'
  BY Ends DEF IInv
<1>1. TypeOK'
  BY DEF IInv, TypeOK, Place, Handle, Counter, Swapped
<1>2. Counted'
  BY <1>p DEF IInv, TypeOK, Counted
<1>3. LastAlone'
  BY DEF IInv, TypeOK, LastAlone, Tail
<1>4. KnowsHandle'
  BY DEF IInv, TypeOK, KnowsHandle, Handle, Swapped, LastAlone, Tail
<1>5. HandleLive'
  BY <1>e DEF IInv, TypeOK, HandleLive, Handle, OffersLive, Swapped, Offers
<1>6. OffersLive'
  BY DEF IInv, TypeOK, OffersLive, Offers, Handle, Swapped
<1>7. LiveKnown'
  BY <1>e DEF IInv, TypeOK, LiveKnown, Offers, Handle, Swapped, OffersLive
<1>8. SectionOwned'
  BY <1>e DEF IInv, TypeOK, SectionOwned, KnowsHandle, InSection
<1>9. NoLostUpdate'
  BY DEF IInv, TypeOK, NoLostUpdate, Counter
<1>10. LoadedIsCurrent'
  BY DEF IInv, TypeOK, LoadedIsCurrent
<1> QED
  BY <1>1, <1>2, <1>3, <1>4, <1>5, <1>6, <1>7, <1>8, <1>9, <1>10 DEF IInv

LEMMA DiscardKeeps ==
  ASSUME IInv, NEW t \in Threads, Discard(t)
  PROVE  IInv'
<1> USE DEF Discard, Step, memory
<1>p. Present' = Present
  BY PresentSame DEF IInv, Tail, TypeOK
<1>e. ~Halted /\ ~Halted'
  BY Ends DEF IInv
<1>1. TypeOK'
  BY DEF IInv, TypeOK, Place, Handle, Counter, Destroyed
<1>2. Counted'
  BY <1>p DEF IInv, TypeOK, Counted
<1>3. LastAlone'
  BY DEF IInv, TypeOK, LastAlone, Tail
<1>4. KnowsHandle'
  BY DEF IInv, TypeOK, KnowsHandle
<1>5. HandleLive'
  BY <1>e DEF IInv, TypeOK, HandleLive, Handle, OffersLive, Destroyed, Offers
<1>6. OffersLive'
  BY DEF IInv, TypeOK, OffersLive, Offers, Handle, Destroyed
<1>7. LiveKnown'
  BY <1>e DEF IInv, TypeOK, LiveKnown, Offers, Handle, Destroyed
<1>8. SectionOwned'
  BY <1>e DEF IInv, TypeOK, SectionOwned, KnowsHandle, InSection
<1>9. NoLostUpdate'
  BY DEF IInv, TypeOK, NoLostUpdate, Counter
<1>10. LoadedIsCurrent'
  BY DEF IInv, TypeOK, LoadedIsCurrent
<1> QED
  BY <1>1, <1>2, <1>3, <1>4, <1>5, <1>6, <1>7, <1>8, <1>9, <1>10 DEF IInv

LEMMA LockRefusedKeeps ==
  ASSUME IInv, NEW t \in Threads, LockRefused(t)
  PROVE  IInv'
<1> USE DEF LockRefused, Step, memory
<1>1. Elsewhere'
  BY WorkKeeps DEF IInv, TypeOK, Working, KnowsHandle, Counter
<1>2. TypeOK'
  BY DEF IInv, TypeOK, Place, Handle, Counter, Spend
<1>3. SectionOwned'
  BY DEF IInv, TypeOK, SectionOwned, KnowsHandle, InSection
<1>4. NoLostUpdate'
  BY DEF IInv, TypeOK, NoLostUpdate, Counter
<1>5. LoadedIsCurrent'
  BY DEF IInv, TypeOK, LoadedIsCurrent
<1> QED
  BY <1>1, <1>2, <1>3, <1>4, <1>5 DEF IInv, Elsewhere

LEMMA LockCallKeeps ==
  ASSUME IInv, NEW t \in Threads, LockCall(t)
  PROVE  IInv'
<1> USE DEF LockCall, Step, memory
<1>1. Elsewhere'
  BY WorkKeeps DEF IInv, TypeOK, Working, KnowsHandle, Counter
<1>2. TypeOK'
  BY DEF IInv, TypeOK, Place, Handle, Counter, Spend
<1>3. SectionOwned'
  BY DEF IInv, TypeOK, SectionOwned, KnowsHandle, InSection
<1>4. NoLostUpdate'
  BY DEF IInv, TypeOK, NoLostUpdate, Counter
<1>5. LoadedIsCurrent'
  BY DEF IInv, TypeOK, LoadedIsCurrent
<1> QED
  BY <1>1, <1>2, <1>3, <1>4, <1>5 DEF IInv, Elsewhere

LEMMA AcquireKeeps ==
  ASSUME IInv, NEW t \in Threads, Acquire(t)
  PROVE  IInv'
<1> USE DEF Acquire, Step, memory
<1>p. Present' = Present
  BY PresentSame DEF IInv, Tail, TypeOK
<1>e. ~Halted /\ ~Halted'
  BY Ends DEF IInv
<1>1. TypeOK'
  BY DEF IInv, TypeOK, Place, Handle, Counter
<1>2. Counted'
  BY <1>p DEF IInv, TypeOK, Counted
<1>3. LastAlone'
  BY DEF IInv, TypeOK, LastAlone, Tail
<1>4. KnowsHandle'
  BY DEF IInv, TypeOK, KnowsHandle
<1>5. HandleLive'
  BY <1>e DEF IInv, TypeOK, HandleLive
<1>6. OffersLive'
  BY DEF IInv, TypeOK, OffersLive, Offers
<1>7. LiveKnown'
  BY <1>e DEF IInv, TypeOK, LiveKnown, Offers
<1>8. SectionOwned'
  BY <1>e DEF IInv, TypeOK, SectionOwned, KnowsHandle, InSection, Handle
<1>9. NoLostUpdate'
  BY DEF IInv, TypeOK, NoLostUpdate, Counter
<1>10. LoadedIsCurrent'
  BY DEF IInv, TypeOK, LoadedIsCurrent
<1> QED
  BY <1>1, <1>2, <1>3, <1>4, <1>5, <1>6, <1>7, <1>8, <1>9, <1>10 DEF IInv

LEMMA UnlockKeeps ==
  ASSUME IInv, NEW t \in Threads, Unlock(t)
  PROVE  IInv'
<1> USE DEF Unlock, Step, memory
<1>1. Elsewhere'
  BY WorkKeeps DEF IInv, TypeOK, Working, KnowsHandle, Counter
<1>2. TypeOK'
  BY ZeroWord DEF IInv, TypeOK, Place, Handle, Counter
<1>3. SectionOwned'
  BY DEF IInv, TypeOK, SectionOwned, KnowsHandle, InSection, Handle
<1>4. NoLostUpdate'
  BY DEF IInv, TypeOK, NoLostUpdate, Counter
<1>5. LoadedIsCurrent'
  BY DEF IInv, TypeOK, LoadedIsCurrent
<1> QED
  BY <1>1, <1>2, <1>3, <1>4, <1>5 DEF IInv, Elsewhere

LEMMA LoadKeeps ==
  ASSUME IInv, NEW t \in Threads, Load(t)
  PROVE  IInv'
<1> USE DEF Load, Step, memory
<1>1. Elsewhere'
  BY WorkKeeps DEF IInv, TypeOK, Working, KnowsHandle, Counter
<1>2. TypeOK'
  BY DEF IInv, TypeOK, Place, Handle, Counter
<1>3. SectionOwned'
  BY DEF IInv, TypeOK, SectionOwned, KnowsHandle, InSection
<1>4. NoLostUpdate'
  BY DEF IInv, TypeOK, NoLostUpdate, Counter
<1>5. LoadedIsCurrent'
  BY DEF IInv, TypeOK, LoadedIsCurrent
<1> QED
  BY <1>1, <1>2, <1>3, <1>4, <1>5 DEF IInv, Elsewhere

LEMMA StoreKeeps ==
  ASSUME IInv, NEW t \in Threads, Store(t)
  PROVE  IInv'
<1> USE DEF Store, Step, memory
<1>1. Elsewhere'
  BY WorkKeeps DEF IInv, TypeOK, Working, KnowsHandle, Counter
<1>2. TypeOK'
  <2>1. val[t] \in Int /\ (val[t] + 1) % Modulus \in Word
    BY InWord DEF IInv, TypeOK, Word
  <2> QED
    BY <2>1 DEF IInv, TypeOK, Place, Counter
<1>3. SectionOwned'
  BY DEF IInv, TypeOK, SectionOwned, KnowsHandle, InSection
<1>4. NoLostUpdate'
  <2>1. val[t] = done["guarded"] % Modulus /\ done["guarded"] \in Nat
    BY DEF IInv, TypeOK, LoadedIsCurrent, NoLostUpdate, Counter
  <2>2. (val[t] + 1) % Modulus = (done["guarded"] + 1) % Modulus
    BY <2>1, AddOne
  <2> QED
    BY <2>2 DEF IInv, TypeOK, NoLostUpdate, Counter
<1>5. LoadedIsCurrent'
  <2>1. \A u \in Threads \ {t} : pc[u] # "store"
    BY MutexAlone DEF MutualExclusion, InSection
  <2> QED
    BY <2>1 DEF IInv, TypeOK, LoadedIsCurrent
<1> QED
  BY <1>1, <1>2, <1>3, <1>4, <1>5 DEF IInv, Elsewhere

LEMMA CountKeeps ==
  ASSUME IInv, NEW t \in Threads, Count(t)
  PROVE  IInv'
<1> USE DEF Count, Step, memory
<1>1. Elsewhere'
  BY WorkKeeps DEF IInv, TypeOK, Working, KnowsHandle, Counter, FetchAdd
<1>2. TypeOK'
  <2>1. mem["count"] \in Int /\ (mem["count"] + 1) % Modulus \in Word
    BY InWord DEF IInv, TypeOK, Word, Counter
  <2> QED
    BY <2>1 DEF IInv, TypeOK, Place, Counter, FetchAdd, Spend
<1>3. SectionOwned'
  BY DEF IInv, TypeOK, SectionOwned, KnowsHandle, InSection
<1>4. NoLostUpdate'
  <2>1. mem["count"] = done["count"] % Modulus /\ done["count"] \in Nat
    BY DEF IInv, TypeOK, NoLostUpdate, Counter
  <2>2. (mem["count"] + 1) % Modulus = (done["count"] + 1) % Modulus
    BY <2>1, AddOne
  <2> QED
    BY <2>1, <2>2 DEF IInv, TypeOK, NoLostUpdate, Counter, FetchAdd
<1>5. LoadedIsCurrent'
  BY DEF IInv, TypeOK, LoadedIsCurrent, FetchAdd, Counter
<1> QED
  BY <1>1, <1>2, <1>3, <1>4, <1>5 DEF IInv, Elsewhere

LEMMA CasBeginKeeps ==
  ASSUME IInv, NEW t \in Threads, CasBegin(t)
  PROVE  IInv'
<1> USE DEF CasBegin, Step, memory
<1>1. Elsewhere'
  BY WorkKeeps DEF IInv, TypeOK, Working, KnowsHandle, Counter
<1>2. TypeOK'
  BY ZeroWord DEF IInv, TypeOK, Place, Handle, Counter, Spend
<1>3. SectionOwned'
  BY DEF IInv, TypeOK, SectionOwned, KnowsHandle, InSection
<1>4. NoLostUpdate'
  BY DEF IInv, TypeOK, NoLostUpdate, Counter
<1>5. LoadedIsCurrent'
  BY DEF IInv, TypeOK, LoadedIsCurrent
<1> QED
  BY <1>1, <1>2, <1>3, <1>4, <1>5 DEF IInv, Elsewhere

LEMMA CasKeeps ==
  ASSUME IInv, NEW t \in Threads, Cas(t)
  PROVE  IInv'
<1> USE DEF Cas, Step, memory
<1>1. Elsewhere'
  BY WorkKeeps DEF IInv, TypeOK, Working, KnowsHandle, Counter
<1>2. TypeOK'
  <2>1. val[t] \in Int /\ (val[t] + 1) % Modulus \in Word /\ 0 \in Word
    BY InWord, ZeroWord DEF IInv, TypeOK, Word
  <2> QED
    BY <2>1 DEF IInv, TypeOK, Place, Counter, Swapped
<1>3. SectionOwned'
  BY DEF IInv, TypeOK, SectionOwned, KnowsHandle, InSection
<1>4. NoLostUpdate'
  <2>1. mem["count"] = done["count"] % Modulus /\ done["count"] \in Nat
    BY DEF IInv, TypeOK, NoLostUpdate, Counter
  <2>2. (mem["count"] + 1) % Modulus = (done["count"] + 1) % Modulus
    BY <2>1, AddOne
  <2> QED
    BY <2>1, <2>2 DEF IInv, TypeOK, NoLostUpdate, Counter, Swapped
<1>5. LoadedIsCurrent'
  BY DEF IInv, TypeOK, LoadedIsCurrent, Swapped, Counter
<1> QED
  BY <1>1, <1>2, <1>3, <1>4, <1>5 DEF IInv, Elsewhere

LEMMA QuitKeeps ==
  ASSUME IInv, NEW t \in Threads, Quit(t)
  PROVE  IInv'
<1> USE DEF Quit, Step, memory, FetchAdd
<1>1. PICK to \in {"last", "halted"} :
        /\ pc[t] = "work" /\ pc' = [pc EXCEPT ![t] = to]
        /\ to = "last" <=> mem["refs"] = 1
  OBVIOUS
<1>2. t \in Present /\ Present' = Present \ {t}
  BY <1>1 DEF Present, Tail, IInv, TypeOK
<1>3. /\ Cardinality(Present) \in 1..(Modulus - 1)
      /\ Cardinality(Present') = Cardinality(Present) - 1
  <2>1. Cardinality(Present \ {t}) = Cardinality(Present) - 1
    BY <1>2, PresentFinite, FS_RemoveElement
  <2>2. Cardinality(Present \ {t}) \in Nat
    BY PresentFinite, FS_RemoveElement, FS_CardinalityType
  <2> QED
    BY <1>2, <2>1, <2>2, PresentFinite
<1>4. mem' = [mem EXCEPT !["refs"] = mem["refs"] - 1] /\ mem["refs"] \in 1..(Modulus - 1)
  <2>1. mem["refs"] \in 1..(Modulus - 1)
    BY <1>3 DEF IInv, Counted
  <2>2. mem["refs"] + -1 = mem["refs"] - 1 /\ mem["refs"] - 1 \in 0..(Modulus - 1)
    BY <2>1
  <2>3. (mem["refs"] + -1) % Modulus = mem["refs"] - 1
    BY <2>2, Remainder
  <2> QED
    BY <2>1, <2>3
<1>5. Present' = {} <=> to = "last"
  <2>1. IsFiniteSet(Present')
    BY <1>2, PresentFinite, FS_RemoveElement
  <2>2. Present' = {} <=> Cardinality(Present') = 0
    BY <2>1, FS_EmptySet
  <2> QED
    BY <1>1, <1>3, <2>2 DEF IInv, Counted
<1>6. ~Halted /\ ~Halted'
  <2>1. CASE to = "last"
    BY <1>1, <2>1, Ends DEF IInv
  <2>2. CASE to = "halted"
    <3>1. PICK u \in Threads : u # t /\ pc[u] # "halted"
      BY <1>2, <1>5, <2>2 DEF Present
    <3> QED
      BY <1>1, <3>1 DEF Halted, IInv, TypeOK
  <2> QED
    BY <1>1, <2>1, <2>2
<1>7. TypeOK'
  BY <1>1, <1>4 DEF IInv, TypeOK, Place, Counter, Word
<1>8. Counted'
  BY <1>3, <1>4 DEF IInv, TypeOK, Counted
<1>9. LastAlone'
  <2>1. \A u \in Threads : pc[u] \notin Tail
    BY <1>1 DEF IInv, LastAlone, Tail
  <2>2. to = "last" => \A u \in Threads \ {t} : pc[u] = "halted"
    BY <1>2, <1>5, <2>1 DEF Present
  <2> QED
    BY <1>1, <2>1, <2>2 DEF IInv, TypeOK, LastAlone, Tail
<1>10. KnowsHandle'
  BY <1>1 DEF IInv, TypeOK, KnowsHandle
<1>11. HandleLive'
  BY <1>6 DEF IInv, HandleLive
<1>12. OffersLive'
  BY <1>1 DEF IInv, TypeOK, OffersLive, Offers
<1>13. LiveKnown'
  <2>1. \A u \in Threads : Offers(u)' <=> Offers(u)
    BY <1>1 DEF IInv, TypeOK, Offers
  <2> QED
    BY <1>6, <2>1 DEF IInv, LiveKnown
<1>14. SectionOwned'
  BY <1>1 DEF IInv, TypeOK, SectionOwned, InSection
<1>15. NoLostUpdate'
  BY <1>4 DEF IInv, TypeOK, NoLostUpdate, Counter
<1>16. LoadedIsCurrent'
  BY <1>1, <1>4 DEF IInv, TypeOK, LoadedIsCurrent, Counter
<1> QED
  BY <1>7, <1>8, <1>9, <1>10, <1>11, <1>12, <1>13, <1>14, <1>15, <1>16 DEF IInv

LEMMA LastKeeps ==
  ASSUME IInv, NEW t \in Threads, Last(t)
  PROVE  IInv'
<1> USE DEF Last, Step, memory
<1>p. Present' = Present
  BY PresentSame DEF IInv, Tail, TypeOK
<1>e. ~Halted /\ ~Halted'
  BY Ends DEF IInv
<1>1. TypeOK'
  BY DEF IInv, TypeOK, Place, Handle, Counter
<1>2. Counted'
  BY <1>p DEF IInv, TypeOK, Counted
<1>3. LastAlone'
  BY DEF IInv, TypeOK, LastAlone, Tail
<1>4. KnowsHandle'
  BY DEF IInv, TypeOK, KnowsHandle
<1>5. HandleLive'
  BY <1>e DEF IInv, TypeOK, HandleLive
<1>6. OffersLive'
  BY DEF IInv, TypeOK, OffersLive, Offers
<1>7. LiveKnown'
  BY <1>e DEF IInv, TypeOK, LiveKnown, Offers
<1>8. SectionOwned'
  BY <1>e DEF IInv, TypeOK, SectionOwned, KnowsHandle, InSection
<1>9. NoLostUpdate'
  BY DEF IInv, TypeOK, NoLostUpdate, Counter
<1>10. LoadedIsCurrent'
  BY DEF IInv, TypeOK, LoadedIsCurrent
<1> QED
  BY <1>1, <1>2, <1>3, <1>4, <1>5, <1>6, <1>7, <1>8, <1>9, <1>10 DEF IInv

LEMMA DestroyKeeps ==
  ASSUME IInv, NEW t \in Threads, Destroy(t)
  PROVE  IInv'
<1> USE DEF Destroy, Step, memory
<1>1. pc[t] = "destroy" /\ \A u \in Threads \ {t} : pc[u] = "halted"
  BY DEF IInv, LastAlone, Tail
<1>2. \A u \in Threads : pc'[u] = "halted"
  BY <1>1 DEF IInv, TypeOK
<1>3. h[t] = handle /\ handle \in Mutexes \cup {NULL}
  BY <1>1 DEF IInv, TypeOK, KnowsHandle, Handle
<1>4. Present' = Present
  BY PresentSame DEF IInv, Tail
<1>5. TypeOK'
  BY DEF IInv, TypeOK, Place, Handle, Counter, Destroyed
<1>6. Counted'
  BY <1>4 DEF IInv, Counted
<1>7. LastAlone' /\ KnowsHandle' /\ SectionOwned' /\ OffersLive' /\ LoadedIsCurrent'
  BY <1>2 DEF LastAlone, Tail, KnowsHandle, SectionOwned, InSection, OffersLive, Offers, LoadedIsCurrent
<1>8. HandleLive'
  BY <1>2 DEF HandleLive, Halted
<1>9. LiveKnown'
  <2>1. \A u \in Threads : ~Offers(u)
    BY <1>1 DEF Offers
  <2> QED
    BY <1>3, <2>1 DEF IInv, LiveKnown, Destroyed
<1>10. NoLostUpdate'
  BY DEF IInv, NoLostUpdate
<1> QED
  BY <1>5, <1>6, <1>7, <1>8, <1>9, <1>10 DEF IInv

LEMMA InitEstablishes == Init => IInv
<1> SUFFICES ASSUME Init PROVE IInv
  OBVIOUS
<1>1. TypeOK
  <2>1. Cardinality(Threads) \in Word /\ 0 \in Word
    BY ZeroWord, FS_CardinalityType DEF Word
  <2> QED
    BY <2>1 DEF Init, TypeOK, Place, Handle, Counter
<1>2. Counted
  <2>1. Present = Threads
    BY DEF Init, Present, Tail
  <2> QED
    BY <2>1 DEF Init, Counted
<1>3. LastAlone /\ KnowsHandle /\ HandleLive /\ OffersLive /\ LiveKnown /\ SectionOwned /\ LoadedIsCurrent
  BY DEF Init, LastAlone, Tail, KnowsHandle, HandleLive, OffersLive, Offers, LiveKnown, SectionOwned,
         InSection, LoadedIsCurrent
<1>4. NoLostUpdate
  <2>1. 0 % Modulus = 0
    BY ZeroWord, Remainder DEF Word
  <2> QED
    BY <2>1 DEF Init, NoLostUpdate, Counter
<1> QED
  BY <1>1, <1>2, <1>3, <1>4 DEF IInv

LEMMA NextKeeps == IInv /\ [Next]_vars => IInv'
<1> SUFFICES ASSUME IInv, [Next]_vars PROVE IInv'
  OBVIOUS
<1>1. ASSUME NEW t \in Threads, Run(t) PROVE IInv'
  BY <1>1, CreateKeeps, InstallKeeps, DiscardKeeps, LockRefusedKeeps, LockCallKeeps, AcquireKeeps,
     UnlockKeeps, LoadKeeps, StoreKeeps, CountKeeps, CasBeginKeeps, CasKeeps, QuitKeeps, LastKeeps,
     DestroyKeeps DEF Run
<1>2. CASE UNCHANGED vars
  BY <1>2 DEF vars, memory, IInv, TypeOK, Counted, Present, LastAlone, KnowsHandle, HandleLive, Halted,
              OffersLive, Offers, LiveKnown, SectionOwned, InSection, NoLostUpdate, LoadedIsCurrent
<1> QED
  BY <1>1, <1>2 DEF Next, Finished

\* The inductive invariant holds in every reachable state.
THEOREM Invariance == Spec => []IInv
<1> QED
  BY InitEstablishes, NextKeeps, PTL DEF Spec

\* Handles, places and words stay within their values.
THEOREM TypeCorrect == Spec => []TypeOK
<1>1. IInv => TypeOK
  BY DEF IInv
<1> QED
  BY <1>1, Invariance, PTL

\* Between MUTEX_LOCK and MUTEX_UNLOCK a thread is alone (syscall.c:278-304),
\* though mutexes are created and destroyed around the one that is used.
THEOREM Exclusion == Spec => []MutualExclusion
<1> QED
  BY MutexAlone, Invariance, PTL

\* Neither the updates under the mutex nor those by ATOMIC_FETCHADD and
\* ATOMIC_CMPXCHG (syscall.c:326-343) are lost, however often words wrap around.
THEOREM UpdateSafety == Spec => []NoLostUpdate
<1>1. IInv => NoLostUpdate
  BY DEF IInv
<1> QED
  BY <1>1, Invariance, PTL

\* No MUTEX call works on memory that MUTEX_DESTROY has freed (syscall.c:306-320).
THEOREM HandleSafety == Spec => []NoFreedMutex
<1>1. IInv => NoFreedMutex
  <2> SUFFICES ASSUME IInv, NEW t \in Threads, Argument(t) # NULL
               PROVE  heap[Argument(t)] = "live"
    BY DEF NoFreedMutex
  <2>1. CASE pc[t] = "discard"
    <3>1. Argument(t) = mine[t]
      BY <2>1 DEF Argument, InSection
    <3> QED
      BY <2>1, <3>1 DEF IInv, OffersLive, Offers
  <2>2. CASE pc[t] \in {"lock", "lastlock", "destroy", "load", "store", "unlock"}
    <3>1. Argument(t) = h[t] /\ ~Halted
      BY <2>2 DEF Argument, InSection, Halted
    <3> QED
      BY <2>2, <3>1 DEF IInv, KnowsHandle, HandleLive
  <2> QED
    BY <2>1, <2>2 DEF Argument, InSection
<1> QED
  BY <1>1, Invariance, PTL

\* When all threads are gone every mutex has been destroyed.
THEOREM ReleaseSafety == Spec => []AllReleased
<1>1. IInv => AllReleased
  BY DEF IInv, LiveKnown, AllReleased, Halted, Offers
<1> QED
  BY <1>1, Invariance, PTL
=============================================================================
