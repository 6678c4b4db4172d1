------------------------------ MODULE VMThread ------------------------------
(***************************************************************************)
(* Life cycle of guest threads (vm.c, THREAD_* system calls of syscall.c,  *)
(* cmd_run of main.c).                                                     *)
(*                                                                         *)
(* A guest thread is a host thread running the interpreter loop over a     *)
(* heap record, VMThread.  Main runs the record that vm_run keeps on its   *)
(* own C stack: it is never registered and never freed.                    *)
(*                                                                         *)
(* What a guest program does between system calls is abstracted to the     *)
(* choice of the next system call.  Handlers are split at every point      *)
(* where another thread can see or change what they use.                   *)
(*                                                                         *)
(* The registry is a set here; Registry.tla shows that the locked linked   *)
(* list of vm.c implements a set with atomic insertion and removal.        *)
(***************************************************************************)
EXTENDS Naturals

CONSTANTS Threads,  \* the VMThread records calloc can hand out (bounds SPAWN)
          Main,     \* the record vm_run keeps on the stack of main()
          NULL      \* the null pointer

ASSUME ConstantsAssumption ==
  /\ Main \notin Threads
  /\ NULL \notin Threads \cup {Main}

Procs == Threads \cup {Main}

VARIABLES
  process,    \* "running", or "exited" once exit, abort or main's return ends it
  code,       \* is the loaded CODE section mapped (main.c: DvmLoaded)
  alloc,      \* heap state of each record: "unused", "live", "freed"
  parent,     \* the thread whose SPAWN made the record
  handle,     \* "none", then "open" to be consumed once, then "taken"
  tstate,     \* VMThread.state
  vmStack,    \* VMThread.vm_stack: "null" or "ptr"
  mapped,     \* is the data stack it was given mapped
  detached,   \* has pthread_detach been called on the host thread
  registry,   \* the records linked from vm_threads
  pc,         \* where each host thread is
  arg         \* the record t that the handler it is in works on

vars == <<process, code, alloc, parent, handle, tstate, vmStack, mapped,
          detached, registry, pc, arg>>

\* Places inside a handler that works on the record arg[g].
SpawnAt   == {"spawn.add", "spawn.start"}
DestroyAt == {"destroy.registry", "destroy.unmap", "destroy.free"}
DetachAt  == {"detach.host", "detach.registry"}
HandlerAt == SpawnAt \cup DetachAt \cup DestroyAt \cup {"join"}

\* Places of a host thread that has a record and has not finished with it.
HaltAt    == {"halt.state", "halt.unmap", "halt.null", "entry"}
RunningAt == {"guest"} \cup HandlerAt \cup HaltAt
ExitAt    == {"unload", "return"}       \* cmd_run after vm_run, Main only
PcValues  == {"unborn", "exited"} \cup RunningAt \cup ExitAt

TypeOK ==
  /\ process \in {"running", "exited"}
  /\ code \in BOOLEAN
  /\ alloc \in [Threads -> {"unused", "live", "freed"}]
  /\ parent \in [Threads -> Procs \cup {NULL}]
  /\ handle \in [Threads -> {"none", "open", "taken"}]
  /\ tstate \in [Procs -> {"RUNNING", "FINISHED"}]
  /\ vmStack \in [Procs -> {"null", "ptr"}]
  /\ mapped \in [Procs -> BOOLEAN]
  /\ detached \in [Threads -> BOOLEAN]
  /\ registry \in SUBSET Threads
  /\ pc \in [Procs -> PcValues]
  /\ arg \in [Procs -> Threads \cup {NULL}]
  /\ \A g \in Procs : pc[g] \in HandlerAt => arg[g] \in Threads

\* dvm_load_file has mapped the code and vm_run has set its record up.
Init ==
  /\ process = "running"
  /\ code = TRUE
  /\ alloc = [t \in Threads |-> "unused"]
  /\ parent = [t \in Threads |-> NULL]
  /\ handle = [t \in Threads |-> "none"]
  /\ tstate = [g \in Procs |-> "RUNNING"]
  /\ vmStack = [g \in Procs |-> IF g = Main THEN "ptr" ELSE "null"]
  /\ mapped = [g \in Procs |-> g = Main]
  /\ detached = [t \in Threads |-> FALSE]
  /\ registry = {}
  /\ pc = [g \in Procs |-> IF g = Main THEN "guest" ELSE "unborn"]
  /\ arg = [g \in Procs |-> NULL]

\* g is at that place of the code, and the process has not ended.
At(g, place) == process = "running" /\ pc[g] = place
Goto(g, place) == pc' = [pc EXCEPT ![g] = place]

\* A handler returns: its local variables are gone.
Return(g) ==
  /\ Goto(g, "guest")
  /\ arg' = [arg EXCEPT ![g] = NULL]

-----------------------------------------------------------------------------
(* SPAWN: vm_thread_create *)

\* calloc, the field assignments, dvm_mmap and thread_init_rf: nothing of the
\* new record can be seen by another thread yet.
SpawnAlloc(g, t) ==
  /\ At(g, "guest")
  /\ alloc[t] = "unused"
  /\ alloc' = [alloc EXCEPT ![t] = "live"]
  /\ parent' = [parent EXCEPT ![t] = g]
  /\ tstate' = [tstate EXCEPT ![t] = "RUNNING"]
  /\ vmStack' = [vmStack EXCEPT ![t] = "ptr"]
  /\ mapped' = [mapped EXCEPT ![t] = TRUE]
  /\ arg' = [arg EXCEPT ![g] = t]
  /\ Goto(g, "spawn.add")
  /\ UNCHANGED <<process, code, handle, detached, registry>>

RegistryAdd(g) ==
  /\ At(g, "spawn.add")
  /\ registry' = registry \cup {arg[g]}
  /\ Goto(g, "spawn.start")
  /\ UNCHANGED <<process, code, alloc, parent, handle, tstate, vmStack, mapped,
                 detached, arg>>

\* pthread_create starts thread_entry; the handle goes back to the guest, and
\* the child can get it from SELF from now on.
PthreadCreate(g) ==
  /\ At(g, "spawn.start")
  /\ handle' = [handle EXCEPT ![arg[g]] = "open"]
  /\ pc' = [pc EXCEPT ![g] = "guest", ![arg[g]] = "guest"]
  /\ arg' = [arg EXCEPT ![g] = NULL]
  /\ UNCHANGED <<process, code, alloc, parent, tstate, vmStack, mapped, detached,
                 registry>>

-----------------------------------------------------------------------------
(* JOIN: vm_thread_join, then vm_thread_destroy *)

\* The contract of vm.h: whoever created the thread joins it or detaches it,
\* once; the thread itself may do the detaching, through SELF.
MayJoin(g, t)   == handle[t] = "open" /\ parent[t] = g
MayDetach(g, t) == handle[t] = "open" /\ (parent[t] = g \/ g = t)

\* Defective variant of JoinCall: the handle is not kept for the join.
JoinCallLosesHandle(g, t) ==
  /\ At(g, "guest")
  /\ MayJoin(g, t)
  /\ handle' = [handle EXCEPT ![t] = "taken"]
  /\ Goto(g, "join")
  /\ UNCHANGED <<process, code, alloc, parent, tstate, vmStack, mapped, detached,
                 registry, arg>>

JoinCall(g, t) ==
  /\ At(g, "guest")
  /\ MayJoin(g, t)
  /\ handle' = [handle EXCEPT ![t] = "taken"]
  /\ arg' = [arg EXCEPT ![g] = t]
  /\ Goto(g, "join")
  /\ UNCHANGED <<process, code, alloc, parent, tstate, vmStack, mapped, detached,
                 registry>>

\* pthread_join gives EDEADLK at once when a thread joins itself or two threads
\* join each other; vm_thread_join does not look at its result.
JoinRefused(g) ==
  \/ arg[g] = g
  \/ pc[arg[g]] = "join" /\ arg[arg[g]] = g

\* Defective variants of JoinReturn: polling t->state instead of pthread_join,
\* and not waiting at all.
JoinReturnPolls(g) ==
  /\ At(g, "join")
  /\ tstate[arg[g]] = "FINISHED"
  /\ Goto(g, "destroy.registry")
  /\ UNCHANGED <<process, code, alloc, parent, handle, tstate, vmStack, mapped,
                 detached, registry, arg>>

JoinReturnAtOnce(g) ==
  /\ At(g, "join")
  /\ Goto(g, "destroy.registry")
  /\ UNCHANGED <<process, code, alloc, parent, handle, tstate, vmStack, mapped,
                 detached, registry, arg>>

JoinReturn(g) ==
  /\ At(g, "join")
  /\ pc[arg[g]] = "exited" \/ JoinRefused(g)
  /\ Goto(g, "destroy.registry")
  /\ UNCHANGED <<process, code, alloc, parent, handle, tstate, vmStack, mapped,
                 detached, registry, arg>>

\* Defective variant of DestroyRegistry: no registry_remove.
DestroyKeepsLinked(g) ==
  /\ At(g, "destroy.registry")
  /\ Goto(g, "destroy.unmap")
  /\ UNCHANGED <<process, code, alloc, parent, handle, tstate, vmStack, mapped,
                 detached, registry, arg>>

DestroyRegistry(g) ==
  /\ At(g, "destroy.registry")
  /\ registry' = registry \ {arg[g]}
  /\ Goto(g, "destroy.unmap")
  /\ UNCHANGED <<process, code, alloc, parent, handle, tstate, vmStack, mapped,
                 detached, arg>>

\* if (t->vm_stack) { dvm_munmap(...); t->vm_stack = NULL; }
DestroyUnmap(g) ==
  /\ At(g, "destroy.unmap")
  /\ mapped' = [mapped EXCEPT ![arg[g]] = @ /\ vmStack[arg[g]] = "null"]
  /\ vmStack' = [vmStack EXCEPT ![arg[g]] = "null"]
  /\ Goto(g, "destroy.free")
  /\ UNCHANGED <<process, code, alloc, parent, handle, tstate, detached, registry,
                 arg>>

\* Defective variant of DestroyFree: no free.
DestroyLeaks(g) ==
  /\ At(g, "destroy.free")
  /\ Return(g)
  /\ UNCHANGED <<process, code, alloc, parent, handle, tstate, vmStack, mapped,
                 detached, registry>>

DestroyFree(g) ==
  /\ At(g, "destroy.free")
  /\ alloc' = [alloc EXCEPT ![arg[g]] = "freed"]
  /\ Return(g)
  /\ UNCHANGED <<process, code, parent, handle, tstate, vmStack, mapped, detached,
                 registry>>

-----------------------------------------------------------------------------
(* DETACH: vm_thread_detach *)

DetachCall(g, t) ==
  /\ At(g, "guest")
  /\ MayDetach(g, t)
  /\ handle' = [handle EXCEPT ![t] = "taken"]
  /\ arg' = [arg EXCEPT ![g] = t]
  /\ Goto(g, "detach.host")
  /\ UNCHANGED <<process, code, alloc, parent, tstate, vmStack, mapped, detached,
                 registry>>

DetachHost(g) ==
  /\ At(g, "detach.host")
  /\ detached' = [detached EXCEPT ![arg[g]] = TRUE]
  /\ Goto(g, "detach.registry")
  /\ UNCHANGED <<process, code, alloc, parent, handle, tstate, vmStack, mapped,
                 registry, arg>>

DetachRegistry(g) ==
  /\ At(g, "detach.registry")
  /\ registry' = registry \ {arg[g]}
  /\ Return(g)
  /\ UNCHANGED <<process, code, alloc, parent, handle, tstate, vmStack, mapped,
                 detached>>

-----------------------------------------------------------------------------
(* HALT: op_halt, and what follows it in thread_entry or in vm_run *)

HaltCall(g) ==
  /\ At(g, "guest")
  /\ Goto(g, "halt.state")
  /\ UNCHANGED <<process, code, alloc, parent, handle, tstate, vmStack, mapped,
                 detached, registry, arg>>

HaltState(g) ==
  /\ At(g, "halt.state")
  /\ tstate' = [tstate EXCEPT ![g] = "FINISHED"]
  /\ Goto(g, "halt.unmap")
  /\ UNCHANGED <<process, code, alloc, parent, handle, vmStack, mapped, detached,
                 registry, arg>>

\* Defective variant of HaltUnmap: the data stack is forgotten, not unmapped.
HaltKeepsMapped(g) ==
  /\ At(g, "halt.unmap")
  /\ Goto(g, "halt.null")
  /\ UNCHANGED <<process, code, alloc, parent, handle, tstate, vmStack, mapped,
                 detached, registry, arg>>

HaltUnmap(g) ==
  /\ At(g, "halt.unmap")
  /\ mapped' = [mapped EXCEPT ![g] = FALSE]
  /\ Goto(g, "halt.null")
  /\ UNCHANGED <<process, code, alloc, parent, handle, tstate, vmStack, detached,
                 registry, arg>>

\* Defective variant of HaltNull: vm_stack keeps the stale pointer.
HaltKeepsPointer(g) ==
  /\ At(g, "halt.null")
  /\ Goto(g, IF g = Main THEN "unload" ELSE "entry")
  /\ UNCHANGED <<process, code, alloc, parent, handle, tstate, vmStack, mapped,
                 detached, registry, arg>>

HaltNull(g) ==
  /\ At(g, "halt.null")
  /\ vmStack' = [vmStack EXCEPT ![g] = "null"]
  /\ Goto(g, IF g = Main THEN "unload" ELSE "entry")
  /\ UNCHANGED <<process, code, alloc, parent, handle, tstate, mapped, detached,
                 registry, arg>>

\* thread_entry writes the state once more and the host thread ends.
EntryReturn(g) ==
  /\ At(g, "entry")
  /\ tstate' = [tstate EXCEPT ![g] = "FINISHED"]
  /\ Goto(g, "exited")
  /\ UNCHANGED <<process, code, alloc, parent, handle, vmStack, mapped, detached,
                 registry, arg>>

\* cmd_run: dvm_unload, then main returns and every thread dies with it.
Unload ==
  /\ At(Main, "unload")
  /\ code' = FALSE
  /\ Goto(Main, "return")
  /\ UNCHANGED <<process, alloc, parent, handle, tstate, vmStack, mapped, detached,
                 registry, arg>>

MainReturn ==
  /\ At(Main, "return")
  /\ process' = "exited"
  /\ UNCHANGED <<code, alloc, parent, handle, tstate, vmStack, mapped, detached,
                 registry, pc, arg>>

\* EXIT, or an abort (division by zero, shadow stack, no memory for SPAWN).
Exit(g) ==
  /\ At(g, "guest")
  /\ process' = "exited"
  /\ UNCHANGED <<code, alloc, parent, handle, tstate, vmStack, mapped, detached,
                 registry, pc, arg>>

-----------------------------------------------------------------------------

\* What the guest program chooses to do.
Guest(g) ==
  \/ \E t \in Threads : SpawnAlloc(g, t) \/ JoinCall(g, t) \/ DetachCall(g, t)
  \/ HaltCall(g)
  \/ Exit(g)

\* What the VM does once the guest has chosen.
Handler(g) ==
  \/ RegistryAdd(g) \/ PthreadCreate(g)
  \/ JoinReturn(g) \/ DestroyRegistry(g) \/ DestroyUnmap(g) \/ DestroyFree(g)
  \/ DetachHost(g) \/ DetachRegistry(g)
  \/ HaltState(g) \/ HaltUnmap(g) \/ HaltNull(g) \/ EntryReturn(g)

Leave == Unload \/ MainReturn

\* The process has ended: nothing runs any more.
Ended == process = "exited" /\ UNCHANGED vars

Next ==
  \/ \E g \in Procs : Guest(g) \/ Handler(g)
  \/ Leave
  \/ Ended

\* Host threads are scheduled fairly.  Nothing is assumed of the guest program:
\* it may run for ever.
Fairness ==
  /\ \A g \in Procs : WF_vars(Handler(g))
  /\ WF_vars(Leave)

Spec == Init /\ [][Next]_vars /\ Fairness

-----------------------------------------------------------------------------
(* Safety *)

Started(g) == pc[g] \notin {"unborn", "exited"}

\* The heap records that the next step of g reads or writes: its own register
\* file, the record its handler works on, and, for registry_remove, every
\* record linked in the list.
Touches(g) ==
  {t \in Threads :
     \/ t = g /\ Started(g)
     \/ pc[g] \in HandlerAt /\ t = arg[g]
     \/ pc[g] \in {"destroy.registry", "detach.registry"} /\ t \in registry}

Live == {t \in Threads : alloc[t] = "live"}

\* No host thread is about to touch a VMThread that has been freed, whatever
\* the order in which creators, joiners, detachers and halting threads run.
NoUseAfterFree ==
  process = "running" => \A g \in Procs : Touches(g) \subseteq Live

\* The two munmap calls of vm.c (op_halt and the safety net of
\* vm_thread_destroy) never hit the same data stack: a thread about to unmap
\* one finds it still mapped.
NoDoubleUnmap ==
  \A g \in Procs :
    /\ pc[g] = "halt.unmap" => mapped[g]
    /\ pc[g] = "destroy.unmap" /\ vmStack[arg[g]] = "ptr" => mapped[arg[g]]

\* A thread that executes guest code, or is inside a system call it will come
\* back from, still has the data stack it was created with.
RunsOnItsStack ==
  \A g \in Procs : pc[g] \in {"guest"} \cup HandlerAt => mapped[g]

\* Every handle that somebody may still join or detach is linked in the
\* registry, and the registry links no freed record.
RegistryTracksHandles ==
  /\ \A t \in Threads : handle[t] = "open" => t \in registry
  /\ registry \subseteq Live

\* A record is freed once everything hangs off it is released: its host thread
\* has ended, its data stack is unmapped, it is off the list and its handle is
\* spent.
FreedIsReleased ==
  \A t \in Threads : alloc[t] = "freed" =>
    /\ pc[t] = "exited"
    /\ ~mapped[t]
    /\ t \notin registry
    /\ handle[t] = "taken"

-----------------------------------------------------------------------------
(* Liveness *)

\* A joiner is never left waiting: once the thread it waits for has reached
\* HALT, the join returns and the record is freed.
JoinedIsFreed ==
  \A g \in Procs, t \in Threads :
    pc[g] = "join" /\ arg[g] = t /\ pc[t] = "halt.state"
      ~> alloc[t] = "freed" \/ process = "exited"

-----------------------------------------------------------------------------
(* What comments of the repository promise and the code does not do *)

\* vm.c:394-397, vm.h:200, syscall.h:37: a detached thread frees its record
\* when it exits.
DetachedIsFreed ==
  \A t \in Threads :
    detached[t] /\ pc[t] = "exited" ~> alloc[t] = "freed" \/ process = "exited"
=============================================================================
