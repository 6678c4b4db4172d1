---------------------------- MODULE VMThreadProof ----------------------------
(***************************************************************************)
(* The safety of thread records, for any number of threads: the theorems   *)
(* of VMThread with the inductive invariant they need.                     *)
(***************************************************************************)
EXTENDS VMThread, TLAPS

\* Only Main unloads and returns from main; only spawned threads are born,
\* run thread_entry and end.
PlaceInv ==
  /\ pc[Main] \notin {"unborn", "entry", "exited"}
  /\ \A t \in Threads : pc[t] \notin ExitAt

\* A creator exists before the record it creates, so records never create
\* each other in a circle of one or two.
ParentInv ==
  \A t \in Threads :
    /\ alloc[t] = "unused" => pc[t] = "unborn" /\ parent[t] = NULL
    /\ parent[t] # t
    /\ parent[t] \in Threads =>
         alloc[parent[t]] # "unused" /\ parent[parent[t]] # t

\* The data stack is mapped until HALT, and the pointer to it is cleared
\* before the host thread can be seen to have ended.
StackInv ==
  \A g \in Procs :
    /\ pc[g] \in {"guest", "halt.state", "halt.unmap"} \cup HandlerAt =>
         mapped[g] /\ vmStack[g] = "ptr"
    /\ pc[g] = "halt.null" => ~mapped[g]
    /\ pc[g] \in {"entry", "exited"} \cup ExitAt => ~mapped[g] /\ vmStack[g] = "null"

\* What the handle says of the record.
HandleInv ==
  \A t \in Threads :
    /\ handle[t] = "none" => pc[t] = "unborn" /\ alloc[t] # "freed"
    /\ handle[t] = "open" => t \in registry
    /\ t \in registry => alloc[t] = "live"
    /\ pc[t] # "unborn" => handle[t] # "none"
    /\ alloc[t] = "unused" => handle[t] = "none"
    /\ alloc[t] = "freed" => pc[t] = "exited" /\ handle[t] = "taken"

\* What a handler may rely on about the record it works on.
ArgInv ==
  \A g \in Procs :
    /\ pc[g] \in HandlerAt => arg[g] \in Threads /\ alloc[arg[g]] = "live"
    /\ pc[g] \in SpawnAt =>
         /\ parent[arg[g]] = g
         /\ handle[arg[g]] = "none"
         /\ mapped[arg[g]] /\ vmStack[arg[g]] = "ptr"
    /\ pc[g] = "spawn.start" => arg[g] \in registry
    /\ pc[g] \in DetachAt \cup {"join"} \cup DestroyAt => handle[arg[g]] = "taken"
    /\ pc[g] = "join" => parent[arg[g]] = g
    /\ pc[g] \in DestroyAt => pc[arg[g]] = "exited"
    /\ pc[g] \in {"destroy.unmap", "destroy.free"} => arg[g] \notin registry

\* Two handlers never work on the same record.
AloneInv ==
  \A g, h \in Procs :
    g # h /\ pc[g] \in HandlerAt /\ pc[h] \in HandlerAt => arg[g] # arg[h]

IInv ==
  /\ TypeOK
  /\ PlaceInv
  /\ ParentInv
  /\ StackInv
  /\ HandleInv
  /\ ArgInv
  /\ AloneInv
-----------------------------------------------------------------------------
USE ConstantsAssumption DEF At, Goto, Procs, PcValues, RunningAt, HandlerAt, SpawnAt, DetachAt, DestroyAt, HaltAt, ExitAt

\* Initially (vm_run before the first instruction) only main runs, on a mapped
\* stack, and no record exists.
LEMMA InitInv == Init => IInv
<1> SUFFICES ASSUME Init PROVE IInv
  OBVIOUS
<1> USE DEF Init
<1>1. TypeOK
  BY DEF TypeOK
<1>2. PlaceInv
  BY DEF PlaceInv
<1>3. ParentInv
  BY DEF ParentInv
<1>4. StackInv
  BY DEF StackInv
<1>5. HandleInv
  BY DEF HandleInv
<1>6. ArgInv
  BY DEF ArgInv
<1>7. AloneInv
  BY DEF AloneInv
<1> QED
  BY <1>1, <1>2, <1>3, <1>4, <1>5, <1>6, <1>7 DEF IInv

\* vm_thread_create hands out an unused record with a freshly mapped stack, so
\* no handler and no parent can already refer to it.
LEMMA SpawnAllocStep ==
  ASSUME IInv, NEW g \in Procs, NEW t \in Threads, SpawnAlloc(g, t)
  PROVE  IInv'
<1> USE DEF IInv, SpawnAlloc
<1>1. TypeOK'
  BY DEF TypeOK
<1>2. PlaceInv'
  BY DEF PlaceInv
<1>3. ParentInv'
  BY DEF TypeOK, ParentInv
<1>4. StackInv'
  BY DEF StackInv, HandleInv
<1>5. HandleInv'
  BY DEF HandleInv
<1>6. ArgInv'
  BY DEF TypeOK, HandleInv, ArgInv
<1>7. AloneInv'
  BY DEF TypeOK, ArgInv, AloneInv
<1> QED
  BY <1>1, <1>2, <1>3, <1>4, <1>5, <1>6, <1>7

\* A guest gives its handle up as it calls JOIN, so no second handler gets the
\* record.
LEMMA JoinCallStep ==
  ASSUME IInv, NEW g \in Procs, NEW t \in Threads, JoinCall(g, t)
  PROVE  IInv'
<1> USE DEF IInv, JoinCall, MayJoin
<1>1. TypeOK'
  BY DEF TypeOK
<1>2. PlaceInv'
  BY DEF PlaceInv
<1>3. ParentInv'
  BY DEF ParentInv
<1>4. StackInv'
  BY DEF StackInv
<1>5. HandleInv'
  BY DEF HandleInv
<1>6. ArgInv'
  BY DEF TypeOK, HandleInv, ArgInv
<1>7. AloneInv'
  BY DEF TypeOK, ArgInv, AloneInv
<1> QED
  BY <1>1, <1>2, <1>3, <1>4, <1>5, <1>6, <1>7

\* A guest gives its handle up as it calls DETACH, so no second handler gets
\* the record.
LEMMA DetachCallStep ==
  ASSUME IInv, NEW g \in Procs, NEW t \in Threads, DetachCall(g, t)
  PROVE  IInv'
<1> USE DEF IInv, DetachCall, MayDetach
<1>1. TypeOK'
  BY DEF TypeOK
<1>2. PlaceInv'
  BY DEF PlaceInv
<1>3. ParentInv'
  BY DEF ParentInv
<1>4. StackInv'
  BY DEF StackInv
<1>5. HandleInv'
  BY DEF HandleInv
<1>6. ArgInv'
  BY DEF TypeOK, HandleInv, ArgInv
<1>7. AloneInv'
  BY DEF TypeOK, ArgInv, AloneInv
<1> QED
  BY <1>1, <1>2, <1>3, <1>4, <1>5, <1>6, <1>7

\* Reaching HALT changes nothing but the place.
LEMMA HaltCallStep ==
  ASSUME IInv, NEW g \in Procs, HaltCall(g)
  PROVE  IInv'
<1> USE DEF IInv, HaltCall
<1>1. TypeOK'
  BY DEF TypeOK
<1>2. PlaceInv'
  BY DEF PlaceInv
<1>3. ParentInv'
  BY DEF ParentInv
<1>4. StackInv'
  BY DEF StackInv
<1>5. HandleInv'
  BY DEF HandleInv
<1>6. ArgInv'
  BY DEF ArgInv
<1>7. AloneInv'
  BY DEF AloneInv
<1> QED
  BY <1>1, <1>2, <1>3, <1>4, <1>5, <1>6, <1>7

\* The EXIT syscall ends the process: no record changes.
LEMMA ExitStep ==
  ASSUME IInv, NEW g \in Procs, Exit(g)
  PROVE  IInv'
<1> USE DEF IInv, Exit
<1>1. TypeOK'
  BY DEF TypeOK
<1>2. PlaceInv'
  BY DEF PlaceInv
<1>3. ParentInv'
  BY DEF ParentInv
<1>4. StackInv'
  BY DEF StackInv
<1>5. HandleInv'
  BY DEF HandleInv
<1>6. ArgInv'
  BY DEF ArgInv
<1>7. AloneInv'
  BY DEF AloneInv
<1> QED
  BY <1>1, <1>2, <1>3, <1>4, <1>5, <1>6, <1>7

\* registry_add links the record its caller is still creating.
LEMMA RegistryAddStep ==
  ASSUME IInv, NEW g \in Procs, RegistryAdd(g)
  PROVE  IInv'
<1> USE DEF IInv, RegistryAdd
<1>1. TypeOK'
  BY DEF TypeOK
<1>2. PlaceInv'
  BY DEF PlaceInv
<1>3. ParentInv'
  BY DEF ParentInv
<1>4. StackInv'
  BY DEF StackInv
<1>5. HandleInv'
  BY DEF HandleInv, ArgInv
<1>6. ArgInv'
  BY DEF ArgInv
<1>7. AloneInv'
  BY DEF AloneInv
<1> QED
  BY <1>1, <1>2, <1>3, <1>4, <1>5, <1>6, <1>7

\* The new thread starts on a record that is linked, live and mapped.
LEMMA PthreadCreateStep ==
  ASSUME IInv, NEW g \in Procs, PthreadCreate(g)
  PROVE  IInv'
<1> USE DEF IInv, PthreadCreate
<1>1. TypeOK'
  BY DEF TypeOK
<1>2. PlaceInv'
  BY DEF TypeOK, PlaceInv
<1>3. ParentInv'
  BY DEF TypeOK, ParentInv, ArgInv
<1>4. StackInv'
  BY DEF TypeOK, StackInv, ArgInv
<1>5. HandleInv'
  BY DEF TypeOK, HandleInv, ArgInv
<1>6. ArgInv'
  BY DEF TypeOK, ArgInv
<1>7. AloneInv'
  BY DEF TypeOK, AloneInv
<1> QED
  BY <1>1, <1>2, <1>3, <1>4, <1>5, <1>6, <1>7

\* pthread_join returns when the thread has ended, or refuses: either way the
\* joiner goes on to destroy a thread that runs no more, since a thread
\* never joins itself or its creator.
LEMMA JoinReturnStep ==
  ASSUME IInv, NEW g \in Procs, JoinReturn(g)
  PROVE  IInv'
<1> USE DEF IInv, JoinReturn, JoinRefused
<1>1. TypeOK'
  BY DEF TypeOK
<1>2. PlaceInv'
  BY DEF PlaceInv
<1>3. ParentInv'
  BY DEF ParentInv
<1>4. StackInv'
  BY DEF StackInv
<1>5. HandleInv'
  BY DEF HandleInv
<1>6. ArgInv'
  BY DEF ParentInv, ArgInv
<1>7. AloneInv'
  BY DEF AloneInv
<1> QED
  BY <1>1, <1>2, <1>3, <1>4, <1>5, <1>6, <1>7

\* registry_remove unlinks only the record being destroyed, which nobody
\* holds a handle of.
LEMMA DestroyRegistryStep ==
  ASSUME IInv, NEW g \in Procs, DestroyRegistry(g)
  PROVE  IInv'
<1> USE DEF IInv, DestroyRegistry
<1>1. TypeOK'
  BY DEF TypeOK
<1>2. PlaceInv'
  BY DEF PlaceInv
<1>3. ParentInv'
  BY DEF ParentInv
<1>4. StackInv'
  BY DEF StackInv
<1>5. HandleInv'
  BY DEF HandleInv, ArgInv
<1>6. ArgInv'
  BY DEF ArgInv
<1>7. AloneInv'
  BY DEF AloneInv
<1> QED
  BY <1>1, <1>2, <1>3, <1>4, <1>5, <1>6, <1>7

\* Destroy unmaps a stack only if HALT has left the pointer set, which it
\* never does.
LEMMA DestroyUnmapStep ==
  ASSUME IInv, NEW g \in Procs, DestroyUnmap(g)
  PROVE  IInv'
<1> USE DEF IInv, DestroyUnmap
<1>1. TypeOK'
  BY DEF TypeOK
<1>2. PlaceInv'
  BY DEF PlaceInv
<1>3. ParentInv'
  BY DEF ParentInv
<1>4. StackInv'
  BY DEF TypeOK, StackInv, ArgInv
<1>5. HandleInv'
  BY DEF HandleInv
<1>6. ArgInv'
  BY DEF ArgInv
<1>7. AloneInv'
  BY DEF AloneInv
<1> QED
  BY <1>1, <1>2, <1>3, <1>4, <1>5, <1>6, <1>7

\* free releases a record that is unlinked and in no other handler.
LEMMA DestroyFreeStep ==
  ASSUME IInv, NEW g \in Procs, DestroyFree(g)
  PROVE  IInv'
<1> USE DEF IInv, DestroyFree, Return
<1>1. TypeOK'
  BY DEF TypeOK
<1>2. PlaceInv'
  BY DEF PlaceInv
<1>3. ParentInv'
  BY DEF ParentInv
<1>4. StackInv'
  BY DEF StackInv
<1>5. HandleInv'
  BY DEF HandleInv, ArgInv
<1>6. ArgInv'
  BY DEF TypeOK, ArgInv, AloneInv
<1>7. AloneInv'
  BY DEF ArgInv, AloneInv
<1> QED
  BY <1>1, <1>2, <1>3, <1>4, <1>5, <1>6, <1>7

\* pthread_detach changes no field of the record.
LEMMA DetachHostStep ==
  ASSUME IInv, NEW g \in Procs, DetachHost(g)
  PROVE  IInv'
<1> USE DEF IInv, DetachHost
<1>1. TypeOK'
  BY DEF TypeOK
<1>2. PlaceInv'
  BY DEF PlaceInv
<1>3. ParentInv'
  BY DEF ParentInv
<1>4. StackInv'
  BY DEF StackInv
<1>5. HandleInv'
  BY DEF HandleInv
<1>6. ArgInv'
  BY DEF ArgInv
<1>7. AloneInv'
  BY DEF AloneInv
<1> QED
  BY <1>1, <1>2, <1>3, <1>4, <1>5, <1>6, <1>7

\* registry_remove of a detached record leaves the record itself alone.
LEMMA DetachRegistryStep ==
  ASSUME IInv, NEW g \in Procs, DetachRegistry(g)
  PROVE  IInv'
<1> USE DEF IInv, DetachRegistry, Return
<1>1. TypeOK'
  BY DEF TypeOK
<1>2. PlaceInv'
  BY DEF PlaceInv
<1>3. ParentInv'
  BY DEF ParentInv
<1>4. StackInv'
  BY DEF StackInv
<1>5. HandleInv'
  BY DEF HandleInv, ArgInv
<1>6. ArgInv'
  BY DEF TypeOK, ArgInv
<1>7. AloneInv'
  BY DEF ArgInv, AloneInv
<1> QED
  BY <1>1, <1>2, <1>3, <1>4, <1>5, <1>6, <1>7

\* op_halt writes the state while its thread still owns record and stack.
LEMMA HaltStateStep ==
  ASSUME IInv, NEW g \in Procs, HaltState(g)
  PROVE  IInv'
<1> USE DEF IInv, HaltState
<1>1. TypeOK'
  BY DEF TypeOK
<1>2. PlaceInv'
  BY DEF PlaceInv
<1>3. ParentInv'
  BY DEF ParentInv
<1>4. StackInv'
  BY DEF StackInv
<1>5. HandleInv'
  BY DEF HandleInv
<1>6. ArgInv'
  BY DEF ArgInv
<1>7. AloneInv'
  BY DEF AloneInv
<1> QED
  BY <1>1, <1>2, <1>3, <1>4, <1>5, <1>6, <1>7

\* op_halt unmaps its own thread's stack, which no handler needs any more.
LEMMA HaltUnmapStep ==
  ASSUME IInv, NEW g \in Procs, HaltUnmap(g)
  PROVE  IInv'
<1> USE DEF IInv, HaltUnmap
<1>1. TypeOK'
  BY DEF TypeOK
<1>2. PlaceInv'
  BY DEF PlaceInv
<1>3. ParentInv'
  BY DEF ParentInv
<1>4. StackInv'
  BY DEF TypeOK, StackInv
<1>5. HandleInv'
  BY DEF HandleInv
<1>6. ArgInv'
  BY DEF HandleInv, ArgInv
<1>7. AloneInv'
  BY DEF AloneInv
<1> QED
  BY <1>1, <1>2, <1>3, <1>4, <1>5, <1>6, <1>7

\* op_halt clears the pointer of the stack it has just unmapped.
LEMMA HaltNullStep ==
  ASSUME IInv, NEW g \in Procs, HaltNull(g)
  PROVE  IInv'
<1> USE DEF IInv, HaltNull
<1>1. TypeOK'
  BY DEF TypeOK
<1>2. PlaceInv'
  BY DEF PlaceInv
<1>3. ParentInv'
  BY DEF ParentInv
<1>4. StackInv'
  BY DEF TypeOK, StackInv
<1>5. HandleInv'
  BY DEF HandleInv
<1>6. ArgInv'
  BY DEF HandleInv, ArgInv
<1>7. AloneInv'
  BY DEF AloneInv
<1> QED
  BY <1>1, <1>2, <1>3, <1>4, <1>5, <1>6, <1>7

\* thread_entry returns with the stack already unmapped and the pointer null.
LEMMA EntryReturnStep ==
  ASSUME IInv, NEW g \in Procs, EntryReturn(g)
  PROVE  IInv'
<1> USE DEF IInv, EntryReturn
<1>1. TypeOK'
  BY DEF TypeOK
<1>2. PlaceInv'
  BY DEF PlaceInv
<1>3. ParentInv'
  BY DEF ParentInv
<1>4. StackInv'
  BY DEF StackInv
<1>5. HandleInv'
  BY DEF HandleInv
<1>6. ArgInv'
  BY DEF ArgInv
<1>7. AloneInv'
  BY DEF AloneInv
<1> QED
  BY <1>1, <1>2, <1>3, <1>4, <1>5, <1>6, <1>7

\* dvm_unload touches the code, not the records.
LEMMA UnloadStep ==
  ASSUME IInv, Unload
  PROVE  IInv'
<1> USE DEF IInv, Unload
<1>1. TypeOK'
  BY DEF TypeOK
<1>2. PlaceInv'
  BY DEF PlaceInv
<1>3. ParentInv'
  BY DEF ParentInv
<1>4. StackInv'
  BY DEF StackInv
<1>5. HandleInv'
  BY DEF HandleInv
<1>6. ArgInv'
  BY DEF ArgInv
<1>7. AloneInv'
  BY DEF AloneInv
<1> QED
  BY <1>1, <1>2, <1>3, <1>4, <1>5, <1>6, <1>7

\* Returning from main ends the process: no record changes.
LEMMA MainReturnStep ==
  ASSUME IInv, MainReturn
  PROVE  IInv'
<1> USE DEF IInv, MainReturn
<1>1. TypeOK'
  BY DEF TypeOK
<1>2. PlaceInv'
  BY DEF PlaceInv
<1>3. ParentInv'
  BY DEF ParentInv
<1>4. StackInv'
  BY DEF StackInv
<1>5. HandleInv'
  BY DEF HandleInv
<1>6. ArgInv'
  BY DEF ArgInv
<1>7. AloneInv'
  BY DEF AloneInv
<1> QED
  BY <1>1, <1>2, <1>3, <1>4, <1>5, <1>6, <1>7

\* A step that changes nothing keeps the invariant.
LEMMA StutterStep == ASSUME IInv, UNCHANGED vars PROVE IInv'
BY DEF vars, IInv, TypeOK, PlaceInv, ParentInv, StackInv, HandleInv, ArgInv, AloneInv

\* In every state the program reaches, with any number of threads, the
\* inductive invariant of records, stacks, handles and handlers holds.
THEOREM Invariance == Spec => []IInv
<1>1. IInv /\ [Next]_vars => IInv'
  <2> SUFFICES ASSUME IInv, [Next]_vars PROVE IInv'
    OBVIOUS
  <2>1. ASSUME NEW g \in Procs, Guest(g) PROVE IInv'
    BY <2>1, SpawnAllocStep, JoinCallStep, DetachCallStep, HaltCallStep, ExitStep DEF Guest
  <2>2. ASSUME NEW g \in Procs, Handler(g) PROVE IInv'
    BY <2>2, RegistryAddStep, PthreadCreateStep, JoinReturnStep, DestroyRegistryStep,
       DestroyUnmapStep, DestroyFreeStep, DetachHostStep, DetachRegistryStep,
       HaltStateStep, HaltUnmapStep, HaltNullStep, EntryReturnStep DEF Handler
  <2>3. CASE Leave
    BY <2>3, UnloadStep, MainReturnStep DEF Leave
  <2>4. CASE UNCHANGED vars
    BY <2>4, StutterStep
  <2> QED
    BY <2>1, <2>2, <2>3, <2>4 DEF Next, Ended
<1> QED
  BY <1>1, InitInv, PTL DEF Spec

\* Every field of every record stays within its values.
THEOREM TypeCorrect == Spec => []TypeOK
<1>1. IInv => TypeOK
  BY DEF IInv
<1> QED
  BY <1>1, Invariance, PTL

\* No handler, and no running thread, ever touches a record that
\* vm_thread_destroy has freed, however SPAWN, JOIN, DETACH and HALT interleave.
THEOREM UseAfterFreeSafety == Spec => []NoUseAfterFree
<1>1. IInv => NoUseAfterFree
  BY DEF IInv, TypeOK, PlaceInv, ParentInv, HandleInv, ArgInv, NoUseAfterFree, Touches, Started, Live
<1> QED
  BY <1>1, Invariance, PTL

\* A data stack is never unmapped twice: vm_thread_destroy sees the null that
\* op_halt left.
THEOREM DoubleUnmapSafety == Spec => []NoDoubleUnmap
<1>1. IInv => NoDoubleUnmap
  BY DEF IInv, StackInv, ArgInv, NoDoubleUnmap
<1> QED
  BY <1>1, Invariance, PTL

\* A guest instruction always runs on a mapped data stack.
THEOREM StackSafety == Spec => []RunsOnItsStack
<1>1. IInv => RunsOnItsStack
  BY DEF IInv, StackInv, RunsOnItsStack
<1> QED
  BY <1>1, Invariance, PTL

\* A record whose handle is still open is in the registry, and a record in
\* the registry is live.
THEOREM RegistrySafety == Spec => []RegistryTracksHandles
<1>1. IInv => RegistryTracksHandles
  BY DEF IInv, TypeOK, HandleInv, RegistryTracksHandles, Live
<1> QED
  BY <1>1, Invariance, PTL

\* A freed record has left the registry and its stack is unmapped: destroy
\* releases everything the record owned.
THEOREM ReleaseSafety == Spec => []FreedIsReleased
<1>1. IInv => FreedIsReleased
  BY DEF IInv, TypeOK, StackInv, HandleInv, FreedIsReleased, Procs
<1> QED
  BY <1>1, Invariance, PTL
=============================================================================
