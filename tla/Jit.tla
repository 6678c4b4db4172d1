--------------------------------- MODULE Jit ---------------------------------
(***************************************************************************)
(* The x86-64 compiler (jit.c, jit_trampoline.c): the table of blocks with *)
(* their trampolines, the code arena, and what each bytecode instruction   *)
(* is compiled to.  Nothing in dvm calls it yet and it takes no lock, so   *)
(* compiling a block is one step.                                          *)
(*                                                                         *)
(* The arena holds, for each bytecode instruction, the machine             *)
(* instructions emitted for it, and is counted in bytecode instructions.   *)
(* A pointer into it says how often the arena had moved when it was taken: *)
(* it is dangling once that number is out of date.  Storing into the arena *)
(* while it is read-execute is a fault, and the model stops there.         *)
(*                                                                         *)
(* Two machines, the interpreter's (VmStep) and the processor's (CpuStep), *)
(* say what bytecode and emitted code compute.  Values are terms over the  *)
(* values the registers started with, so that two machines that end with   *)
(* the same terms agree for every value.                                   *)
(***************************************************************************)
EXTENDS Integers, Sequences, SequencesExt

CONSTANTS CodeLen,    \* bc_len, in instructions
          MaxBlocks,  \* DVM_MAX_BLOCKS
          ArenaCap,   \* the size of the code arena that jit_ctx_new maps
          Programs    \* the bytecode to compile

Code == 0..(CodeLen - 1)
Regs == 0..7

\* What the compiler knows of the two-register instructions.
RRops == {"mov", "add", "sub", "and", "or", "xor", "mul", "imul"}
Shifts == {"shl", "shr", "sar"}
Floats == {"fadd", "fmul"}
Enders == {"call", "ret", "throw", "halt"}

Instruction ==
       [op : RRops \cup Shifts \cup Floats, d : Regs, s : Regs]
  \cup [op : {"neg", "mov_ri"}, d : Regs]
  \cup [op : {"call"}, ok : Code, err : Code]
  \cup [op : {"ret", "throw", "halt", "other"}]

\* A program that runs off its end has no meaning in either machine.
ASSUME ConstantsAssumption ==
  /\ CodeLen \in Nat \ {0} /\ MaxBlocks \in Nat \ {0} /\ ArenaCap \in Nat \ {0}
  /\ Programs \subseteq [Code -> Instruction]
  /\ \A p \in Programs : p[CodeLen - 1].op \in Enders

VARIABLES
  code,    \* ctx->bc
  blocks,  \* ctx->blocks: offset, native code, and where the trampoline jumps to
  arena,   \* ctx->code.buf, up to len
  cap,     \* ctx->code.cap
  moves,   \* how often the arena has moved
  exec,    \* is the arena read-execute?
  status   \* "run", "aborted", or "fault" after a store into code

vars == <<code, blocks, arena, cap, moves, exec, status>>

NULL == [kind |-> "null"]
Stub(i) == [kind |-> "stub", of |-> i]
Native(at) == [kind |-> "native", at |-> at, moves |-> moves]

TypeOK ==
  /\ DOMAIN code = Code
  /\ Len(blocks) <= MaxBlocks
  /\ \A i \in DOMAIN blocks :
       /\ blocks[i].bc_offset \in Code
       /\ blocks[i].native.kind \in {"null", "native"}
       /\ blocks[i].target.kind \in {"stub", "native"}
  /\ Len(arena) <= cap
  /\ moves \in Nat /\ exec \in BOOLEAN
  /\ status \in {"run", "aborted", "fault"}

\* jit_ctx_new.
Init ==
  /\ code \in Programs
  /\ blocks = <<>>
  /\ arena = <<>> /\ cap = ArenaCap /\ moves = 0 /\ exec = FALSE
  /\ status = "run"

(***************************************************************************)
(* Blocks.                                                                 *)
(***************************************************************************)
IndexOf(bs, off) == CHOOSE i \in DOMAIN bs : bs[i].bc_offset = off
Known(bs, off) == \E i \in DOMAIN bs : bs[i].bc_offset = off

\* Defective variant of BlockGet: the table is not searched.
BlockGetUnsearched(bs, off) ==
  Append(bs, [bc_offset |-> off, native |-> NULL, target |-> Stub(Len(bs) + 1)])

\* jit_block_get: the table with a block for off.
BlockGet(bs, off) ==
  IF Known(bs, off) THEN bs
  ELSE Append(bs, [bc_offset |-> off, native |-> NULL, target |-> Stub(Len(bs) + 1)])

\* The instruction that ends the block at off.
EndOf(off) ==
  CHOOSE e \in off..(CodeLen - 1) :
    /\ code[e].op \in Enders
    /\ \A a \in off..(e - 1) : code[a].op \notin Enders

\* The instructions of the block at off, up to the one that ends it.
Body(off) == [n \in 1..(EndOf(off) - off + 1) |-> code[off + n - 1]]

\* The table when off is compiled: its own block is asked for, and those that a
\* CALL at its end names.
Table(off) ==
  LET own == BlockGet(blocks, off)
      i == Body(off)[Len(Body(off))]
  IN IF i.op = "call" THEN BlockGet(BlockGet(own, i.ok), i.err) ELSE own

(***************************************************************************)
(* Encoding.  A machine instruction with two operands has an opcode, the   *)
(* REX bits R and B, and the ModRM fields reg and rm; an opcode with one   *)
(* operand keeps an extension in reg.                                      *)
(***************************************************************************)
RAX == 0
RCX == 1
RBP == 5
vm2x86 == [r \in Regs |-> <<0, 3, 1, 2, 7, 6, 8, 9>>[r + 1]]

\* Defective variant of RR: the prefix bits of the two registers are swapped.
RRSwapped(op, d, s) ==
  [op |-> op, R |-> s \div 8, B |-> d \div 8, reg |-> d % 8, rm |-> s % 8]

\* jit_rr: the destination in reg, the source in rm.
RR(op, d, s) ==
  [op |-> op, R |-> d \div 8, B |-> s \div 8, reg |-> d % 8, rm |-> s % 8]

\* jit_mov_ri, with the value as an address of jit_emit_call or an immediate.
MovRI(r, v) == [op |-> "B8", B |-> r \div 8, rm |-> r % 8, imm |-> v]

Opcode == [mov |-> "8B", add |-> "03", sub |-> "2B", and |-> "23", or |-> "0B", xor |-> "33",
           mul |-> "0F AF", imul |-> "0F AF", fadd |-> "F2 0F 58", fmul |-> "F2 0F 59"]
Extension == [shl |-> 4, shr |-> 5, sar |-> 7]

Plain(name) == [op |-> name]
Tramp(i) == <<"tramp", i>>

\* jit_emit_call: the trampolines are those of the table bs.
EmitCall(bs, i) ==
  << Plain("sub r14, 16"),
     MovRI(RAX, Tramp(IndexOf(bs, i.err))), Plain("mov [r14], rax"),
     MovRI(RAX, Tramp(IndexOf(bs, i.ok))), Plain("mov [r14+8], rax"),
     Plain("jmp rax") >>

\* The switch of jit_compile_block.  MOV_RI carries a value of its own.
Emit(bs, i) ==
  CASE i.op \in RRops  -> <<RR(Opcode[i.op], vm2x86[i.d], vm2x86[i.s])>>
    [] i.op \in Floats -> <<RR(Opcode[i.op], i.d, i.s)>>
    [] i.op = "neg"    -> <<RR("F7", 3, vm2x86[i.d])>>
    [] i.op = "mov_ri" -> <<MovRI(vm2x86[i.d], <<"imm">>)>>
    [] i.op \in Shifts -> <<RR("89", RCX, vm2x86[i.s]), RR("D3", Extension[i.op], vm2x86[i.d])>>
    [] i.op = "call"   -> EmitCall(bs, i)
    [] i.op = "ret"    -> <<Plain("mov rax, [r14+8]"), Plain("add r14, 16"), Plain("jmp rax")>>
    [] i.op = "throw"  -> <<Plain("mov rax, [r14]"), Plain("add r14, 16"), Plain("jmp rax")>>
    [] i.op = "halt"   -> <<Plain("pop rbp"), Plain("ret")>>

(***************************************************************************)
(* Compiling.                                                              *)
(***************************************************************************)
\* The switch has a case for every instruction of the block.
Handled(off) == \A n \in DOMAIN Body(off) : Body(off)[n].op # "other"

\* Defective variant of Fits: the table is taken to have room.
FitsUnchecked(bs) == TRUE

\* jit_block_get aborts rather than add to a full table.
Fits(bs) == Len(bs) <= MaxBlocks

\* The compiler is called by jit_entry, then by the stubs that trampolines
\* without native code jump to.
Fires(off) ==
  /\ status = "run"
  /\ \/ blocks = <<>> /\ off = 0
     \/ \E i \in DOMAIN blocks : blocks[i].bc_offset = off /\ blocks[i].target.kind = "stub"

\* The first store into the arena comes before anything that aborts, and the
\* arena is neither writable nor so full that a new, writable one is mapped.
Faults(off) ==
  /\ exec /\ Len(arena) < cap
  /\ Fits(BlockGet(blocks, off)) /\ code[off].op # "other"
  /\ code[off].op = "call" => Fits(Table(off))

\* The blocks that a store of the first instruction needs are in the table by then.
WriteFault(off) ==
  /\ Fires(off) /\ Faults(off)
  /\ blocks' = IF code[off].op = "call" THEN Table(off) ELSE BlockGet(blocks, off)
  /\ status' = "fault"
  /\ UNCHANGED <<code, arena, cap, moves, exec>>

\* The table is full, or an instruction of the block has no case.
Refuse(off) ==
  /\ Fires(off) /\ ~Faults(off)
  /\ ~Fits(Table(off)) \/ ~Handled(off)
  /\ status' = "aborted"
  /\ UNCHANGED <<code, blocks, arena, cap, moves, exec>>

\* The block knows its native code and its trampoline jumps there.
Patched(bs, off, at) ==
  LET i == IndexOf(bs, off) IN [bs EXCEPT ![i].native = Native(at), ![i].target = Native(at)]

\* jit_compile_block.  The start of the block is taken before the arena may
\* move (jit_buf_alloc doubles it until the code fits); at the end all of the
\* arena becomes read-execute.
Compile(off) ==
  /\ Fires(off) /\ ~Faults(off)
  /\ Fits(Table(off)) /\ Handled(off)
  /\ blocks' = Patched(Table(off), off, Len(arena))
  /\ arena' = arena \o [n \in DOMAIN Body(off) |-> Emit(Table(off), Body(off)[n])]
  /\ \E k \in 0..Len(Body(off)) :
       /\ Len(arena') <= cap * 2^k
       /\ k > 0 => Len(arena') > cap * 2^(k - 1)
       /\ cap' = cap * 2^k
       /\ moves' = moves + k
  /\ exec' = TRUE
  /\ UNCHANGED <<code, status>>

Next == \E off \in Code : WriteFault(off) \/ Refuse(off) \/ Compile(off)

Spec == Init /\ [][Next]_vars

(***************************************************************************)
(* What bytecode computes (vm.c), in registers r and f, on a shadow stack  *)
(* of pairs; jump is where the block leaves to.                            *)
(***************************************************************************)
Nowhere == <<"nowhere">>
At(off) == <<"at", off>>
CallerFrame == [err |-> <<"caller err">>, ok |-> <<"caller ok">>]

VmStart == [r |-> [n \in Regs |-> <<"r", n>>], f |-> [n \in Regs |-> <<"f", n>>],
            shadow |-> <<CallerFrame>>, jump |-> Nowhere]

\* mul and imul keep the same 64 bits; every shift takes the count modulo 64.
Combine(op, a, b) ==
  CASE op = "mov"             -> b
    [] op \in {"mul", "imul"} -> <<"product", a, b>>
    [] OTHER                  -> <<op, a, b>>

\* The block is left for target, in either machine.
Leave(m, target) == [m EXCEPT !.jump = target]

\* One instruction; next is the address of the one behind it.
VmStep(m, i, next) ==
  CASE i.op \in RRops \cup Shifts -> [m EXCEPT !.r[i.d] = Combine(i.op, @, m.r[i.s])]
    [] i.op \in Floats -> [m EXCEPT !.f[i.d] = Combine(i.op, @, m.f[i.s])]
    [] i.op = "neg"    -> [m EXCEPT !.r[i.d] = <<"neg", @>>]
    [] i.op = "mov_ri" -> [m EXCEPT !.r[i.d] = <<"imm">>]
    [] i.op = "call"   -> LET frame == [err |-> At(i.err), ok |-> next]
                          IN  Leave([m EXCEPT !.shadow = Append(@, frame)], At(i.ok))
    [] i.op = "ret"    -> Leave([m EXCEPT !.shadow = Front(@)], Last(m.shadow).ok)
    [] i.op = "throw"  -> Leave([m EXCEPT !.shadow = Front(@)], Last(m.shadow).err)
    [] i.op = "halt"   -> Leave(m, <<"halt">>)

\* The block at off; after[n] is the machine when n instructions are done.
Interpreted(off) ==
  LET after[n \in 0..Len(Body(off))] ==
        IF n = 0 THEN VmStart ELSE VmStep(after[n - 1], Body(off)[n], At(off + n))
  IN  after[Len(Body(off))]

(***************************************************************************)
(* What emitted code computes: x are the general registers, f the low      *)
(* halves of xmm0-7, and r14 points to the last pair of shadow.            *)
(***************************************************************************)
CpuStart ==
  [x |-> [n \in 0..15 |-> IF \E v \in Regs : vm2x86[v] = n
                          THEN <<"r", CHOOSE v \in Regs : vm2x86[v] = n>> ELSE <<"x", n>>],
   f |-> VmStart.f, shadow |-> <<CallerFrame>>, jump |-> Nowhere]

\* What a slot holds before it is stored to.
Unset == [err |-> <<"unset">>, ok |-> <<"unset">>]

\* The operation of an opcode (that of mul, for the one it shares with imul).
Decoded(op) == CHOOSE o \in DOMAIN Opcode : Opcode[o] = op /\ o # "imul"

\* Register n has another value.
Put(m, n, value) == [m EXCEPT !.x[n] = value]

CpuStep(m, u) ==
  LET reg == 8 * u.R + u.reg
      rm == 8 * u.B + u.rm
      top == Len(m.shadow)
  IN
  IF m.jump # Nowhere THEN m
  ELSE
  CASE u.op = "89"        -> Put(m, rm, m.x[reg])
    [] u.op = "F7"        -> Put(m, rm, <<"neg", m.x[rm]>>)
    [] u.op = "D3"        -> LET op == CHOOSE o \in Shifts : Extension[o] = u.reg
                             IN  Put(m, rm, <<op, m.x[rm], m.x[RCX]>>)
    [] u.op = "B8"        -> Put(m, rm, u.imm)
    [] u.op \in {Opcode[o] : o \in RRops}
                          -> Put(m, reg, Combine(Decoded(u.op), m.x[reg], m.x[rm]))
    [] u.op \in {Opcode[o] : o \in Floats}
                          -> [m EXCEPT !.f[reg] = Combine(Decoded(u.op), @, m.f[rm])]
    [] u.op = "sub r14, 16"       -> [m EXCEPT !.shadow = Append(@, Unset)]
    [] u.op = "add r14, 16"       -> [m EXCEPT !.shadow = Front(@)]
    [] u.op = "mov [r14], rax"    -> [m EXCEPT !.shadow[top].err = m.x[RAX]]
    [] u.op = "mov [r14+8], rax"  -> [m EXCEPT !.shadow[top].ok = m.x[RAX]]
    [] u.op = "mov rax, [r14]"    -> Put(m, RAX, m.shadow[top].err)
    [] u.op = "mov rax, [r14+8]"  -> Put(m, RAX, m.shadow[top].ok)
    [] u.op = "jmp rax"           -> Leave(m, m.x[RAX])
    [] u.op = "pop rbp"           -> Put(m, RBP, <<"popped">>)
    [] u.op = "ret"               -> Leave(m, <<"halt">>)

\* The machine instructions of one bytecode instruction.
CpuRun(m, units) ==
  LET after[n \in 0..Len(units)] == IF n = 0 THEN m ELSE CpuStep(after[n - 1], units[n])
  IN  after[Len(units)]

\* The arena from at, which must be an address that is current; a machine that has
\* jumped away stays as it is.
Executed(at) ==
  LET after[n \in at..Len(arena)] == IF n = at THEN CpuStart ELSE CpuRun(after[n - 1], arena[n])
  IN  after[Len(arena)]

(***************************************************************************)
(* Correctness.                                                            *)
(***************************************************************************)
\* A trampoline stands for the block it belongs to.
Meant(v) == IF v[1] = "tramp" THEN At(blocks[v[2]].bc_offset) ELSE v

\* The shifts store the count's register instead of loading it (jit.c:185), so
\* that only a shift by cx itself is compiled as meant.
ShiftsByCx(off) ==
  \A n \in DOMAIN Body(off) : Body(off)[n].op \in Shifts => Body(off)[n].s = 2

\* What native code leaves, next to what the interpreter leaves (vm.c).  They are
\* the same in bx to fx, in the floats, in the place the block is left for, in the
\* height of the shadow stack and in the handler on top of it.  They differ in two
\* ways.  RET, THROW and CALL jump through rax, so ax is lost to the address, which
\* jit_trampoline.c:31 takes for a register of the program; only HALT leaves ax as
\* it is.  And CALL stores the callee's trampoline as the address to return to
\* (jit.c:101-104), where the interpreter stores the next instruction (vm.c:201-208).
Agree(native, vm) ==
  LET halted == vm.jump = <<"halt">> IN
  /\ \A n \in Regs \ {0} : native.x[vm2x86[n]] = vm.r[n]
  /\ native.x[vm2x86[0]] = IF halted THEN vm.r[0] ELSE native.jump
  /\ native.f = vm.f
  /\ Meant(native.jump) = vm.jump
  /\ Len(native.shadow) = Len(vm.shadow)
  /\ vm.shadow # <<>> =>
       /\ Meant(Last(native.shadow).err) = Last(vm.shadow).err
       /\ Meant(Last(native.shadow).ok) = IF halted THEN Last(vm.shadow).ok ELSE vm.jump

\* Trampolines are stable and stand for one block each (jit_trampoline.h:5-18): every
\* offset has one block; its trampoline jumps to the block's own stub until the
\* block is compiled, and from then on to the address kept for its native code.
OneTrampolineEach ==
  /\ \A i, j \in DOMAIN blocks : blocks[i].bc_offset = blocks[j].bc_offset => i = j
  /\ \A i \in DOMAIN blocks :
       \/ blocks[i].native = NULL /\ blocks[i].target = Stub(i)
       \/ blocks[i].native.kind = "native" /\ blocks[i].target = blocks[i].native

\* The arena has not moved since the block's address was taken.
Current(b) == b.native # NULL /\ b.native.moves = moves

\* A block whose address is current leaves registers, shadow stack and jump as Agree
\* says, if it shifts by cx only.  Nothing is said of a block whose address dangles
\* (jit.c:30-33).  As a second block either faults or moves the arena, the address
\* of the first block compiled, if it fits, is the only one that is ever current.
ComputesAsInterpreted ==
  \A i \in DOMAIN blocks :
    LET b == blocks[i] IN
    Current(b) /\ ShiftsByCx(b.bc_offset) =>
      Agree(Executed(b.native.at), Interpreted(b.bc_offset))
=============================================================================
