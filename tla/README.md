# A TLA+ model of dvm13

dvm13 is a small virtual machine: an assembler (`asm.c`), an object format with
reader, writer and loader (`dvm_io.c`), a linker (`linker.c`), an interpreter
that runs each guest thread on a host thread (`vm.c`, `syscall.c`), a JIT that is
not yet called by anything (`jit.c`, `jit_trampoline.c`), and a driver
(`main.c`). This directory models the parts whose correctness depends on order,
interleaving or bookkeeping, checks them with TLC and proves the most important
properties with TLAPS. Paths below are relative to `src/` of the tree.

## 1. The system

| component | state | operations | interacts with |
|---|---|---|---|
| guest threads (`vm.c`, THREAD_* in `syscall.c`, `cmd_run`) | one heap record `VMThread` per thread: state, data stack, registers, exit code, link; main's record is on the C stack | `vm_thread_create`, `_join`, `_detach`, `_destroy`, `op_halt`, `thread_entry`, `vm_run` | registry (under its lock), host threads, loader (CODE) |
| thread registry (`vm.c`) | `vm_threads`, `VMThread.next`, `vm_threads_lock` | `registry_add`, `registry_remove` | every SPAWN, JOIN, DETACH |
| interpreter (`vm.c`) | `rf.ip`, shadow stack, data stack, registers, flags | one label per opcode | loader (base address of CODE), system calls |
| system calls (`syscall.c`) | host mutexes, guest memory | mutex, atomics, I/O, mmap, time | host |
| linker (`linker.c`) | section bases, `sym_map`, merged symbols, relocations, entry point | five passes and the entry search | reads what the assembler wrote, feeds the loader |
| loader, reader, writer (`dvm_io.c`) | mapped sections | `dvm_load`, `dvm_read`, `dvm_write` | file, linker, interpreter |
| assembler (`asm.c`) | sections, labels, patches, relocations | directives, instructions, `patches_resolve`, `asm_to_prog` | writer, linker |
| JIT (`jit*.c`) | block table, trampolines, stubs, code arena | `jit_block_get`, `jit_compile_block`, `jit_tramp_patch`, `jit_entry` | nobody yet; shares the meaning of bytecode with the interpreter |

What is hard in it:

* **Lifetime of a `VMThread`.** The thread itself, its creator and whoever
  detaches it all write the record; `free` is safe only after the last of them.
  `op_halt` is four separate writes, and anyone may see the record between them.
* **The registry** links the records through a field of their own; walking it
  reads records that other threads are about to free.
* **Calls** push two words each; CALL, CALLR, RET and THROW must agree on their
  order, for any nesting, up to overflow and underflow.
* **The data stack** is not the shadow stack: CALL and RET leave `sp` and `bp`
  alone, THROW too, and nothing tests for the end of the stack. Whether a function
  finds its words again depends on every function called in between.
* **Mutexes and atomics** are used by guest threads on shared memory: handles are
  host pointers that somebody has to free, after the last use of anybody.
* **Compiling** a block asks for trampolines of blocks that do not exist yet, and
  chooses prefix bits by register; what it emits must compute what the interpreter
  does.
* **Assembling** is one pass: a name is used, declared and defined in any order,
  and tables that later lines change are referred to by index.
* **Linking** renumbers symbols and moves offsets in five passes, each relying on
  what earlier ones left; names are scoped by flags that only some passes read.

What makes each part correct is stated as properties (section 3). The hazards,
each at its line, are in `PROJECT.json`.

## 2. Modules

| module | models | extended or instantiated by |
|---|---|---|
| `VMThread` | thread life cycle, one action per handler, split where another thread can see or change what it uses | `MCVMThread`, `VMThreadProof` |
| `RegistrySet` | what the registry promises: a set with atomic operations between call and return | `Registry` |
| `Registry` | the locked linked list, one action per read or write of a link | `MCRegistry`, `RegistryProof` |
| `Frames` | what CALL, CALLR, RET, THROW promise: a stack of frames | `ShadowStack` |
| `ShadowStack` | dispatch, jumps, calls over the shadow stack | `DataStack`, `MCShadowStack` |
| `DataStack` | the same with `sp`, `bp` and the words of the stack: PUSH, POP, ENTER, LEAVE, ALLOCA | `MCDataStack`, `DataStackProof` |
| `GuestSync` | MUTEX_* and ATOMIC_* calls of guest threads over host mutexes and shared words | `MCGuestSync`, `GuestSyncProof` |
| `Jit` | block table, trampolines, arena, `jit_compile_block`, and what bytecode and emitted code compute | `MCJit`, `JitProof` |
| `Asm` | `asm_compile` statement by statement, `patches_resolve`, `asm_to_prog` | `MCAsm`, `AsmProof` |
| `ObjFile` | `dvm_write`, `dvm_read` part by part, and the commands around them | `MCObjFile`, `ObjFileProof` |
| `Linker` | `dvm_link` pass by pass, one action per item visited, and `dvm_load` | `MCLinker`, `LinkerProof` |

### VMThread

`pc[g]` is where the host thread running record `g` is; `arg[g]` is the record
`t` of the handler it is in. `alloc`, `mapped` and `detached` are the host's view
(heap, mappings, pthreads); `tstate` and `vmStack` are fields of the record. JOIN
is `JoinCall`, `JoinReturn` (pthread_join), `DestroyRegistry`, `DestroyUnmap`,
`DestroyFree`; HALT is `HaltState`, `HaltUnmap`, `HaltNull` and, for a spawned
thread, `EntryReturn`. Main continues with `Unload` and `MainReturn` of
`cmd_run`. EXIT and every abort end the process (`Exit`). The environment is the
guest program: it makes any call at any time, within the contract of
`inc/vm.h:193-201`, that the creator joins or detaches, once (`MayJoin`,
`MayDetach`); a thread may also detach itself, with the handle SELF returns. A
program outside that contract has no defined behaviour in this VM: handles are
raw pointers. `inc/vm.h:203` also allows `vm_thread_destroy` for a detached thread
that has finished; nothing calls it so, and it is left out (`op_halt` sets FINISHED
before the thread is done with its record, so such a caller could not tell when
it may). `pthread_create` is taken to succeed and `calloc` to return or
abort, as the code does. The writes of `op_halt` are single steps; loads and
stores of `state` are not atomic in C, but the model shows that nobody reads it.

The registry is a set here and a list in `Registry`; `ImplementsSet` of the
latter is what allows that, together with the fact that the callers of `Registry`
(add once, remove after it, free after a removal) are those of this module.

### Registry

`prev[w]` is the pointer-to-pointer `p` of `registry_remove`: the address of the
`next` of that record, or of `vm_threads` when `NULL`. `record` is a history
variable: it follows what was added, removed and freed. A record may be removed
twice, as `vm_thread_detach` and a later `vm_thread_destroy` do. What the list holds
(`Reachable`) is the least set with the head in it that is closed under links.

### ShadowStack and Frames

Addresses are offsets in CODE counted in instructions; `Target` is
`bytecode + offset`, where `bytecode` is `code + entry_offset` because that is
what `cmd_run` passes. `PushCall` tests for each of its two words, as `spush` does (vm.c:25-31),
and `PopCall` likewise; at the even depth of the code neither stops half way. The flags a
conditional jump tests and the register CALLR reads are chosen freely, and other
instructions only move `ip`. Leaving CODE is undefined: the model stops
(`"wild"`), as the abstract one does.

### DataStack

It extends `ShadowStack`: each `other` instruction of a program is one of the five
that use the data stack, or none (`data`), and the actions of `ShadowStack` leave
`sp`, `bp` and `mem` as they are, as the code does. Places are counted in words of
8 bytes; the operand of ENTER is a multiple of 8, as the assembler sources write it.
A word the guest pushes is no place on the stack (`Datum`), so that a saved `bp`
cannot be confused with it. The model stops when `sp` leaves the mapping
(`overrun`): what the next access does is undefined.

What a guest may rely on holds only if its functions keep to their own part of the
stack, and the history variables say what that is. `records` has the ENTERs not yet
undone and `frames` the stack at each CALL in progress; a function may not POP above
its own words (`Own`), LEAVE a record it did not make, or RET with one of its
records left. The first step against that clears `tidy`, and the properties claim
nothing any more. THROW is allowed at any time: its records stay for the handler.

### GuestSync

The calls are the code's; the guest around them is an environment of the kind
`inc/syscall.h` and the tests describe, with nobody in charge. Each thread creates a
mutex and offers it by CMPXCHG (`Create`, `Install`), destroys it if it came second
(`Discard`), updates one word under the mutex by load and store and another by
FETCHADD or CMPXCHG, and leaves by FETCHADD of -1 on a count of users; the last one
out destroys the mutex, locked by itself or not (`Last`, `Destroy`). `malloc` may
fail, and may give out a freed place again. `pthread_mutex_lock` waits until `owner`
is NULL; one instruction or call is one step. Each word wraps at `Modulus`. `Quota` bounds the
updates all threads make together. The host returns 0 for a live mutex, which
`NoFreedMutex` says all of them are; the raw error codes of other cases
(`syscall.c:287`) do not arise.

### Jit

Nothing calls the JIT yet and it takes no lock, so that compiling a block is one
step, with everything `jit_compile_block` does: its own block and those a CALL names
get a place in the table, a trampoline and a stub; the arena grows by doubling, which
moves it (`moves`); at the end all of it becomes read-execute (`exec`). The first
store of a later block into an arena that did not move is a fault (`WriteFault`), as
`jit_buf_make_exec` protects the whole mapping; the model stops there, with the blocks
asked for so far in the table. A pointer to native code says how often the arena had
moved when it was taken, and one of an earlier move is dangling; `Current` says that it
is not. As a second block either faults or moves the arena, only the first block compiled
ever has a current address, and has it until the arena moves: this is what the code does,
and the reason why nothing is claimed of later blocks. Each stub has a place of its own
here, although the stubs overlap (section 5). `Refuse` is abort: a full table or an instruction without a case.

`Emit` gives the machine instructions of one bytecode instruction, with opcode,
REX bits and ModRM fields. `VmStep` says what bytecode computes (after `vm.c`),
`CpuStep` what machine instructions compute (the processor, external). Values are
terms over what the registers held at the start: two machines with the same terms
agree for all values. `Agree` says what the code of a block leaves, next to what the
interpreter leaves. Alike are `bx` to `fx`, the floats, the place the block is left for, the
height of the shadow stack and the handler on top of it. Two things differ, and `Agree`
says how. CALL, RET and THROW jump through `rax`, so that `ax`, which
`jit_trampoline.c:31` counts among the live registers, holds the address jumped to (HALT
leaves it alone). And `jit_emit_call` stores the trampoline of the callee as the address to
return to (jit.c:101-104), where the interpreter stores the next instruction
(vm.c:201-208). `ShiftsByCx` leaves out the blocks with a shift that `jit.c:185` compiles
otherwise than meant.

### Asm

A source is a sequence of statements, chosen one by one (`src`): directives,
labels, references to a label as a code offset (`Jump`, which stands for CALL and
the handler of CALLR as well) or as an address (`Address`, the MOV of a name),
and instructions and data that refer to none. A CALL, which refers to two labels,
is two references; a label and an instruction on one line are two statements.
`.equ` fails on a bad value or a full table (`MaxEqus`). Offsets count places: each instruction or pseudo-op takes one, and a place holds
one reference, so that "patch at" and "relocation at" name it. `text` keeps the
offset written at each place. Symbol indices are 1-based, 0 being NULL. `KeptLabels` is
the filter of `asm_to_prog` (asm.c:177-180): the m-th label kept is the one with m kept
labels up to it. Actions end the
program (`"exited"`) or the assembly (`"failed"`) where the code does; the code
reads on after an error to report more of them, and then fails all the same.

What a source means is read off its statements, without the tables: `PlaceOf`,
`SectionAt`, the first `Definition` of a name. `ReferencesKept` and
`SymbolsAsDefined` compare that with the object. They assume `WellDeclared`:
externs are declared before their name is used, exported names are defined, and
names that are not defined are declared. Without the first, `label_ref_code`
leaves no relocation; without the others symbol indices go wrong (section 5).

### Linker

An object is what `asm_to_prog` produces: symbols, relocations, section lengths,
and `jumps`, the places where `label_ref_code` stored an offset without a
relocation. Bytes of sections are left out but for those places (`image`).
Offsets are counted in places, not bytes: no property is about overlap within a
patch. `phase` is the pass, `obj` and `idx` the loop variables of its two loops, `size`
the three running offsets and `base` what they were at each object. Symbol indices are
1-based, 0 being the `-1` of `sym_map`. One check of the code has no counterpart, because
what it refuses cannot arrive there: an unresolved symbol or one out of range in
`dvm_load`; a linked program has none. `Value` is what `dvm_load` stores: for a call the
offset of the symbol in whatever section it is in, as an offset in CODE, and otherwise a
pointer into its section. `ReferencesReachMeant` compares it with the section and offset of
the definition meant, for calls under the premise `CallsCode` that this definition is
code: a call of a name that another object defines in DATA is linked and loaded without
complaint and lands in CODE at the offset of the data (section 5). Offsets do not wrap at 32 bits. Allocation may
fail (`Layout`). Mappings and protections are not modelled.

### ObjFile

`disk[f]` is a file as a sequence of units, which may stop anywhere: `WriteFile`
leaves any beginning of what it writes, reported as a failure or, where fclose
could not write the rest, as a success. `latest[f]` is a history variable: the
program that was to be written. `field` is the part of the file that `dvm_read`
comes to next; each part is one action, with all the early returns in it, as
nobody sees what is between. `objs[0]` is `linked`, the others are the array of
`dvm_link_files` or the one program of the other commands; `heap` has the
section buffers they own. `Link` and `Use` stand for `dvm_link` and `dvm_load`,
which `Linker` models: any result, or failure. Every command is a process, and
`Exit` is its end, at any point. Two commands do not run at the same time.

## 3. Runs

Passing runs:

| run | instance | distinct states | shows |
|---|---|---|---|
| `vmthread` | main and 2 spawned threads | 8980 | no use after free (`NoUseAfterFree`), no stack unmapped twice (`NoDoubleUnmap`), guest code on a mapped stack (`RunsOnItsStack`), registry and handles agree (`RegistryTracksHandles`), `free` comes last (`FreedIsReleased`), joins of halting threads end (`JoinedIsFreed`) |
| `registry` | 3 records, 2 workers | 39036 | walks only meet linked records (`WalksLiveNodes`), nothing lost or left (`ReachesLinked`), the lock is always released (`LockReleased`), the list implements the atomic set (`ImplementsSet`) |
| `shadow_stack` | every program of 3 instructions, and those of 5 around a recursive function that sets up a record, calls, throws and returns; 4 shadow slots, 6 stack words, entry 0 | 685849 | the shadow stack holds whole calls (`HoldsCalls`), and the interpreter implements the abstract frames (`ImplementsFrames`); saved `bp`s form a chain with every caller on it (`RecordsChained`), callers find their words (`CallersWordsKept`), LEAVE undoes its ENTER (`LeaveUndoesEnter`), and the shadow stack ends before the data stack does, if each call takes no more than its share (`StackSuffices`) |
| `guest_sync` | 3 threads, places for 2 mutexes, words of 2 bits, 4 updates | 224958 | threads in the section are alone (`MutualExclusion`), no update is lost (`NoLostUpdate`), no call meets a freed mutex (`NoFreedMutex`), none is left (`AllReleased`), and all threads get out (`EveryoneLeaves`) |
| `jit` | every instruction with every register before each way to end a block, every pair over two registers, and every program of 3 instructions of control flow; 3 blocks, an arena of 3 | 38335 | trampolines lead to their own block (`OneTrampolineEach`), and the code of a block with a current address leaves what the interpreter leaves, but for `ax` and the return address, of which `Agree` says what they are (`ComputesAsInterpreted`) |
| `asm` | every source of at most 5 statements over 3 names; 2 labels, patches, relocations and `.equ`s | 1761205 | tables point where they should (`TablesAgree`), indices stay right while labels are redefined (`IndicesStay`), every reference arrives as an offset or a relocation of its label (`ReferencesKept`), the symbol table says what the source says (`SymbolsAsDefined`) |
| `linker` | every pair of objects with at most 2 symbols and 2 relocations, private names kept apart, table of 3 symbols | 288578 | references, and calls of code, reach their definitions (`ReferencesReachMeant`), bad links are refused (`NoBadLink`), the entry point is the one asked for (`EntryAsWanted`) |
| `objfile` | 3 programs (empty, partial, all parts with full tables), 2 files, links of at most 2 objects | 499345 | a file is accepted only if all of it is there and as it was written (`AcceptedIsWhole`); buffers have one owner and a link gives them all back, wherever it fails (`BuffersOwned`) |

Violation runs: a comment or header says something the code does not do.

| run | property | what TLC finds |
|---|---|---|
| `detach_leak` | `DetachedIsFreed` | `vm.c:397`, `vm.h:200`: a detached thread frees itself. `thread_entry` frees nothing |
| `entry_offset` | `ImplementsFrames` | `vm.h:12`: operands are absolute offsets in CODE. With an entry point that is not 0 they are taken from the entry point |
| `linker_locals` | `ReferencesReachMeant` | `dvm_fmt.h:61`: LOCAL is visible only in its object. Externs of others bind to it, and globals overwrite it |
| `linker_jumps` | `JumpsLand` | `asm.c:80`: jumps hold absolute offsets. Those of the second object are not moved with its code |

**Why the bounds are enough.** Two spawned threads give a joiner and a joined
thread beside main, a grandchild, and a detach racing a halt; a handler works on
one record and no more, so a third thread repeats roles. Three records let a
removal meet the head, the middle and the end of the list with another worker
waiting in each state of its own. Programs of three instructions contain every
ordered triple of opcodes, loops and recursion included; four slots reach overflow, and
the proofs cover every size, an odd one too. Six words hold two nested records with
locals, or one with pushed words above and below, and run over in either direction.
Three threads over two mutexes let one hold, one wait and one come late, with a
mutex freed and its place given out again; four updates are shared out in every
way, and two bits wrap. Programs of the JIT make a block call itself, a compiled
block and two new ones, which fills the table of three; an arena of three has room for
the first block of nearly every program, is full after one of three instructions, and has to
move for one of four, so that the next block moves it or faults. Five
statements are enough to declare a name, refer to it, change section, define it
and refer to it again, or to have a second name between; three names over
tables of two reach every full table. Two objects
with a table of three symbols reach a full table, duplicates, both default entry
points, a base that is not zero, and objects without code or data. Two files let
an output be an input, or an object be linked twice; files are cut at every unit. No counter
needs an artificial cap: records are the bound of SPAWN.

**Fairness.** `VMThread` assumes weak fairness of each host thread's handler steps
(the host schedules runnable threads) and of main's way out, and none of the
guest, which may compute for ever. `Registry` assumes only that the holder of the
lock goes on; who gets a free mutex next is left open, so no caller is promised
to get in. `GuestSync` assumes weak fairness of each thread: its guests are finite
(`Quota`), and a waiting LOCK gets the mutex when the others are through, without any
assumption on who is served first. The other modules state safety only.

Deadlock is checked in every run but `jit`: the only states without a next step are the
explicit ends (`Ended`, `Exhausted`, `Stopped`, `Finished`, `End`). The compiler just
stops when every block is compiled, and has no state that says so.

Defective variants of operations, each named `Defective variant of ...` next to
the operation it spoils, show that the properties notice plausible bugs: a join
that polls the state, a halt that keeps its pointer, an add without the lock, an
unlink that does not test, a call pushed in the wrong order, a relocation without
its base, a table not searched before it is added to, a mutex that does not wait, a
destroy that frees nothing, a LEAVE one word short, swapped prefix bits, and so on.

## 4. Proofs

TLAPS checks these for every value of the constants, under the assumptions the
modules name (`ConstantsAssumption`, and `EqusAssumption` of `Asm`: NULL is not a record, Main is not a heap
record, programs contain instructions and fit their tables, sizes are numbers).

**`VMThreadProof`**: `TypeCorrect`, `UseAfterFreeSafety`, `DoubleUnmapSafety`,
`StackSafety`, `RegistrySafety`, `ReleaseSafety`. None of these invariants is
inductive: that `free` is safe depends on the join having returned because the
thread had exited, which depends on its handle being taken by this joiner alone.
The invariant says what each place of the code knows: which records a handler may
be working on and that no two handlers work on one destructively, what a
record's heap state, stack, pointer and host thread are at each place of its own
life, and how handles follow that. The contract of `vm.h` enters through
`MayJoin` and `MayDetach`.

**`RegistryProof`**: `TypeCorrect`, `WalkSafety`, `ListSafety`, `Refinement`. The list has
no cycle because it is sorted: there is a rank (time of insertion) that grows along
insertions, and each linked record points to the linked record of the next lower rank.
The invariant asserts that such a rank exists; insertion extends it, and removal keeps
it. From that, the records reached from the head are the linked ones: those are closed
under links, and in a closed set that missed some of them the missing one of highest
rank would be pointed to by one that is in it. Every step of the list is then a step of
`RegistrySet` or leaves the set as it is.

**`AsmProof`**: `TypeCorrect`, `TableSafety`, `IndexSafety`, `ReferenceSafety`,
`SymbolSafety`. The first three rest on one fact about steps, `GrownFrom`: whatever
a step does, the label table keeps its labels where they are, under their names,
and names stay distinct. That gives the action property at once, and keeps every
relocation inside the table. The other two compare tables with statements, and both
grow: `Meaning` says at every step that the places are those of the statements read
(`CountInv`), that each label has the section, offset and flags which the statements up
to here give it (`LabelInv`), that each reference is an offset, a patch or a relocation
of its label (`RefInv`), and what `patches_resolve` has left once the source has ended
(`EndInv`). What a name means depends on later statements too, so these are claims about
beginnings of a source, for sources whose externs are declared in time
(`ExternsFirst`). The last step is `asm_to_prog`: with `WellDeclared` no label is left
out, so that the indices in relocations are those of the table written. The sizes of
tables and the names are arbitrary; no source is too long.

**`DataStackProof`**: first the shadow stack (`Spec` of `ShadowStack`): `TypeCorrect`,
`CallIntegrity`, and `Refinement`, which assumes `Entry = 0`, as the violation run
`entry_offset` shows it must. Steps of the interpreter are mapped to steps of `Frames` by
taking the words of the stack two by two; the proof reduces to how that sequence changes
when two words are pushed or popped, stated as lemmas. Then `IsShadowStack`: every step
with the data stack is a step of `ShadowStack` or leaves it alone, so that the theorems
above hold here; and `RecordsSafety`, `CallersSafety`, `LeaveSafety`,
`SizeSafety`, for programs, stacks and operands of
every size. None is inductive alone: that a caller's words stay needs `sp` to be
below them, which after a LEAVE depends on the record having been made by the
running function, which depends on how many records each caller had. `Linked`
orders the places of the records and `FramesKept` says where each frame lies
among them; both are claimed while `tidy` only. One lemma (`SameRecords`) covers every
step that leaves the records as they are; ENTER and LEAVE have their own. `SizeSafety`
needs `Deep` beside them: two words of every call in progress are on the shadow stack,
also in the step in which `sp` leaves the other one, which ends the run. The sum of what
the calls take is bounded by induction over the frames.

**`GuestSyncProof`**: `Exclusion`, `UpdateSafety`, `HandleSafety`, `ReleaseSafety`,
`TypeCorrect`, for any finite number of threads, any mutexes and any width that can
count the threads. The invariant ties the count of users to the threads that have not
left (`Cardinality`), so that the thread which finds 1 is the last; says which thread
holds which handle, so that no two free the same; and that a thread between LOCK and
UNLOCK owns the mutex that all share. Exclusion rests on there being one shared
handle: mutexes that came second are private until destroyed.

**`JitProof`**: `TypeCorrect`, `TrampolineSafety` and `CompilerSafety`, for every program
and every size of table and arena. The first two rest on an invariant of the table alone;
lemmas say what `jit_block_get` adds and what patching changes. `CompilerSafety` is
`ComputesAsInterpreted`, of blocks with a current address. Its own invariant
(`Compiled`) says that the arena still holds what was emitted for each compiled block, which
later blocks could only change by moving a trampoline to another index. The rest is about
the two machines, without the state: one lemma for each machine instruction gives the
machine after it, from those follows that both hold the same values after each
instruction inside a block (`BodyMatched`), that at its end they leave as `Agree` says
(`EndMatched`), `ax` and the return address included, and so, by induction over the block,
after all of it; what lies behind the end is not reached (`RunLeft`). A shift by another
register than `cx` is excepted, as in the run (`ShiftsByCx`).

**`ObjFileProof`**: `TypeCorrect`, `WholeSafety`, `BufferSafety`, for programs and limits
of any size. First lemmas about the format, without any state: each part of a program
lies at its place in what `dvm_write` writes, after the parts before it, and a
beginning of the file that reaches to the end of a part has all of the part. The
invariant says that the reader is where the writer was (`ReadSoFar`): past the magic
number the file is a beginning of a program's, `pos` is the length of the parts already
read, and the object has them. The number read behind a tag is then the length that was
written, so that the next part is read whole or refused; with the end sentinel the file
is whole. `Memory` pairs buffers with pointers and says which objects have none.

**`LinkerProof`**: `TypeCorrect`, `ReferencesSafety`, `BadLinkSafety`, `EntrySafety`, for any
number of objects, and tables of any size. `ReferencesSafety` and `BadLinkSafety` assume
that names which are private in one object are used in no other (`PrivateNames`), as the
violation run `linker_locals` shows they must; `EntrySafety` does not. Of calls
`ReferencesSafety` speaks only where the definition meant is code (`CallsCode`). Each pass relies on
what earlier ones left, so the invariant says what each leaves, for the items up to the
loop variables: where sections lie (`base` is the sum of the lengths before it, by
induction over the objects), that each merged symbol is a definition at its place and
each definition is merged or was dropped for a full table, that `sym_map` leads to
the symbol of the same name, that a relocation merged is the one of its object moved by
its base, and that no two objects have relocations at one place. What the loader
patches is then what was meant.

**Induction.** The prover has no rule of induction with an operator as parameter, but a
set of numbers has a least element (`WellFoundedInduction`), and the invariants above
are proved from that where they are about sums, closed sets, tables or runs of the two
machines of `Jit`. Those runs are recursive functions, not folds, because a fold takes its
step as a parameter.

**Only model-checked:** liveness (`JoinedIsFreed`, `LockReleased`, `EveryoneLeaves`), which
this prover cannot do. Every invariant of a passing run is also a theorem.

## 5. Not modelled

* I/O, memory and time system calls: they pass their arguments to the host and keep
  no state. The Windows branches mirror the POSIX ones.
* Tokens and bytes of instructions in the assembler. Tables and text without state
  beyond the line.
* Running JIT code across blocks. The compile stubs cannot work as they are laid
  out: one takes 71 bytes of a slot of 64 (jit_trampoline.c:117, 152), so that the
  next stub overwrites its end; it ends in `ret`, though trampolines are jumped to, and
  so returns to the caller of `JitEntry`; HALT emits an epilogue whose prologue nobody
  emits; and a CALL stores its callee as the address to return to. A model that runs
  them would have to guess what is meant. What is modelled is what the compiler does
  to its data, and what the code of one block computes.
* Flags, DIV, MOD, sized and indexed loads and stores: no state beyond the registers
  and the word they name.
* Floating point: the host's.
* Exit codes: nothing writes `VMThread.exit_code` (inc/vm.h:178), so JOIN answers 0;
  there is no behaviour beyond that to model.
* Reading arguments, printing, path helpers, tests, build file.

Disagreements between the text of the repository and its code that the violation runs
do not cover, met while modelling:

* `inc/vm.h:192` asks that bytecode stays valid for the life of a thread; `cmd_run`
  unmaps it when main halts, whatever other threads do (`Unload` of `VMThread`).
* `inc/dvm_fmt.h:84` calls `sym_index` an index into `syms[]`; a global that is never
  defined is left out of `syms[]`, and relocations keep the indices of the table that had
  it. `ReferencesKept` holds under `WellDeclared` only.
* `jit.c:185` says "mov rcx, src" of an instruction (0x89 with rcx in reg) that
  stores rcx into the source. `ComputesAsInterpreted` is violated without `ShiftsByCx`.
* `jit_trampoline.c:31` says that all registers of the program are live on entry of a
  block; the jump to it has overwritten `ax`. `jit.c:92-108` leaves its callee as return
  address, where `vm.c:201-208` leaves the next instruction. `Agree` states both.
* `jit_trampoline.h:17` says that after compiling the target of a trampoline is the native
  block; when the arena has moved since (jit.c:30-33), nothing is there any more.
* `inc/dvm_fmt.h:80` calls the operand of DVM_REL_CODE the absolute code offset of the symbol;
  of a symbol in DATA or CNST `dvm_load` (dvm_io.c:191-194) stores the offset in that
  section. `ReferencesReachMeant` is violated without `CallsCode`.
* `linker.c:183` gives the priority "explicit entry_sym > _start > main > 0"; if an explicit
  entry is not a code symbol, the code does not go on to `_start` and `main` but starts at 0
  (linker.c:187). `EntryAsWanted` states `linker.h:21`, which promises the search for a NULL
  entry only, and of a missing explicit one what the code does.
* `syscall.h:60` says of MUTEX_DESTROY "Unlocks if needed"; the code does not.
  Nobody is left to notice if the last user destroys it (`NoFreedMutex`, `AllReleased`).
* `syscall.h:53` promises -1 for errors of LOCK and UNLOCK; the code returns what the host
  returned.

## 6. Plan

In order of what could really go wrong. Done: 1 to 11.

1. `VMThread`: life cycle, with its proof.
2. `Registry` against `RegistrySet`, with its proof.
3. `ShadowStack` against `Frames`, with its proof.
4. `Linker` with the loader.
5. `Asm`: labels, forward references, patches, relocations, and `asm_to_prog`,
   against what a source means, with its proof.
6. `ObjFile`: writer and reader over files that may be cut short.
7. `Jit`: block table, trampolines, the arena under W^X, and emitted code against
   the interpreter, with its proof.
8. `GuestSync`: mutexes and atomics of several guest threads, with its proof.
9. `DataStack`: the data stack across calls and throws, with its proof.
10. The proof of `ObjFile`: what is accepted is whole.
11. Theorems for `Linker`; `ReferencesKept` and `SymbolsAsDefined` as theorems.
12. The composition of `Asm` and `Linker`, whose inputs are its outputs.
13. `Alu`: integer operations and flags at a small width, against signed and
    unsigned comparison and division.
