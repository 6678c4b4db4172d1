------------------------------ MODULE JitProof ------------------------------
(***************************************************************************)
(* The compiler, for every program, table and arena size.  The block table *)
(* never outgrows DVM_MAX_BLOCKS, no offset gets two trampolines, and a    *)
(* trampoline leads to the stub or to the code of its own block.  And that *)
(* code, where its address is current, leaves what Agree says, which is    *)
(* what the interpreter leaves but for ax and the address to return to:    *)
(* the machines of Jit hold the same values (Matched) after each           *)
(* instruction, and leave as Agree says (EndMatched); Compiled says that a *)
(* block's code is still in the arena, whatever was compiled since.        *)
(***************************************************************************)
EXTENDS Jit, SequenceTheorems, WellFoundedInduction, TLAPS

Pointer ==
  [kind : {"null"}] \cup [kind : {"stub"}, of : Nat] \cup [kind : {"native"}, at : Nat, moves : Nat]

Block == [bc_offset : Code, native : Pointer, target : Pointer]

\* Where block i and its trampoline lead to.
LeadsHome(bs, i) ==
  \/ bs[i].native = NULL /\ bs[i].target = Stub(i)
  \/ bs[i].native.kind = "native" /\ bs[i].target = bs[i].native

GoodTable(bs) ==
  /\ bs \in Seq(Block)
  /\ \A i, j \in DOMAIN bs : bs[i].bc_offset = bs[j].bc_offset => i = j
  /\ \A i \in DOMAIN bs : LeadsHome(bs, i)

\* The inductive invariant.
IInv ==
  /\ code \in Programs
  /\ GoodTable(blocks)
  /\ Len(blocks) <= MaxBlocks
  /\ \E S : arena \in Seq(S)
  /\ Len(arena) <= cap
  /\ moves \in Nat /\ exec \in BOOLEAN
  /\ status \in {"run", "aborted", "fault"}

USE ConstantsAssumption

-----------------------------------------------------------------------------
(* Blocks of the program *)

\* A block has an end, because the program has one.
LEMMA BlockEnds ==
  ASSUME code \in Programs, NEW off \in Code
  PROVE  /\ EndOf(off) \in off..(CodeLen - 1)
         /\ code[EndOf(off)].op \in Enders
         /\ \A a \in off..(EndOf(off) - 1) : code[a].op \notin Enders
<1> DEFINE ends == {e \in off..(CodeLen - 1) : code[e].op \in Enders}
           R == OpToRel(<, Nat)
           P(e) == code[e].op \in Enders /\ \A a \in off..(e - 1) : code[a].op \notin Enders
<1>1. ends \subseteq Nat /\ CodeLen - 1 \in ends
  BY DEF Code
<1>2. PICK e \in ends : \A a \in ends : <<a, e>> \notin R
  <2>1. IsWellFoundedOn(R, Nat)
    BY NatLessThanWellFounded
  <2> HIDE DEF ends, R
  <2> QED
    BY <1>1, <2>1, WFMin
<1>3. \A a \in off..(e - 1) : code[a].op \notin Enders
  <2> SUFFICES ASSUME NEW a \in off..(e - 1), code[a].op \in Enders
               PROVE  FALSE
    OBVIOUS
  <2>1. a \in ends /\ a < e /\ a \in Nat /\ e \in Nat
    BY DEF Code
  <2>2. <<a, e>> \in R
    BY <2>1 DEF OpToRel
  <2> QED
    BY <1>2, <2>1, <2>2
<1>4. \E x \in off..(CodeLen - 1) : P(x)
  BY <1>3
<1>5. EndOf(off) = CHOOSE x \in off..(CodeLen - 1) : P(x)
  BY DEF EndOf
<1>6. EndOf(off) \in off..(CodeLen - 1) /\ P(EndOf(off))
  <2> HIDE DEF P
  <2> QED
    BY <1>4, <1>5
<1> QED
  BY <1>6

LEMMA BodyTyped ==
  ASSUME code \in Programs, NEW off \in Code
  PROVE  /\ DOMAIN Body(off) = 1..Len(Body(off))
         /\ Len(Body(off)) \in Nat \ {0}
         /\ \A k \in 1..Len(Body(off)) : Body(off)[k] \in Instruction
         /\ Body(off)[Len(Body(off))].op \in Enders
         /\ \A k \in 1..(Len(Body(off)) - 1) : Body(off)[k].op \notin Enders
<1> DEFINE n == EndOf(off) - off + 1
<1>1. n \in Nat \ {0} /\ off + n - 1 \in Code
  <2>1. PICK e \in off..(CodeLen - 1) : e = EndOf(off)
    BY BlockEnds
  <2>2. off \in Nat /\ CodeLen \in Nat
    BY DEF Code
  <2>3. e - off + 1 \in Nat \ {0} /\ off + (e - off + 1) - 1 \in 0..(CodeLen - 1)
    BY <2>2
  <2> QED
    BY <2>1, <2>3 DEF Code
<1>2. code \in [Code -> Instruction]
  OBVIOUS
<1>3. DOMAIN Body(off) = 1..n /\ \A k \in 1..n : Body(off)[k] = code[off + k - 1]
  BY <1>1 DEF Body
<1>4. Len(Body(off)) = n
  <2>1. Body(off) \in [1..n -> {code[off + k - 1] : k \in 1..n}]
    BY DEF Body
  <2>2. Body(off) \in Seq({code[off + k - 1] : k \in 1..n})
    BY <1>1, <2>1
  <2> QED
    BY <1>1, <1>3, <2>2, LenProperties
<1>5. \A k \in 1..n : Body(off)[k] \in Instruction
  <2>1. \A k \in 1..n : off + k - 1 \in Code
    BY <1>1 DEF Code
  <2> HIDE DEF n
  <2> QED
    BY <1>2, <1>3, <2>1
<1>6. Body(off)[n].op \in Enders
  <2>1. off + n - 1 = EndOf(off)
    BY BlockEnds DEF Code
  <2>2. Body(off)[n] = code[off + n - 1]
    <3> HIDE DEF n
    <3> QED
      BY <1>1, <1>3
  <2> QED
    BY BlockEnds, <2>1, <2>2
<1>7. ASSUME NEW k \in 1..(n - 1) PROVE Body(off)[k].op \notin Enders
  <2>1. off + k - 1 \in off..(EndOf(off) - 1) /\ k \in 1..n
    <3>1. PICK e \in off..(CodeLen - 1) : e = EndOf(off)
      BY BlockEnds
    <3>2. off \in Int /\ k \in 1..(e - off + 1 - 1)
      BY <3>1 DEF Code
    <3>3. off + k - 1 \in off..(e - 1) /\ k \in 1..(e - off + 1)
      BY <3>2
    <3> QED
      BY <3>1, <3>3
  <2>2. Body(off)[k] = code[off + k - 1]
    <3> HIDE DEF n
    <3> QED
      BY <1>3, <2>1
  <2> QED
    BY BlockEnds, <2>1, <2>2
<1> QED
  <2> HIDE DEF n
  <2> QED
    BY <1>1, <1>3, <1>4, <1>5, <1>6, <1>7

-----------------------------------------------------------------------------
(* The table *)

\* jit_block_get adds at most one block, with its own stub, and loses none.
LEMMA BlockGetKeeps ==
  ASSUME NEW bs, GoodTable(bs), NEW off \in Code
  PROVE  /\ GoodTable(BlockGet(bs, off))
         /\ Known(BlockGet(bs, off), off)
         /\ \A o : Known(bs, o) => Known(BlockGet(bs, off), o)
<1>1. CASE Known(bs, off)
  BY <1>1 DEF BlockGet
<1>2. CASE ~Known(bs, off)
  <2> DEFINE b == [bc_offset |-> off, native |-> NULL, target |-> Stub(Len(bs) + 1)]
             new == Append(bs, b)
  <2>1. b \in Block
    BY DEF GoodTable, Block, Pointer, NULL, Stub
  <2>2. /\ new \in Seq(Block) /\ DOMAIN new = 1..(Len(bs) + 1)
        /\ new[Len(bs) + 1] = b
        /\ \A i \in 1..Len(bs) : new[i] = bs[i]
        /\ DOMAIN bs = 1..Len(bs) /\ Len(bs) \in Nat
    <3> HIDE DEF b
    <3> QED
      BY <2>1, AppendProperties DEF GoodTable
  <2>3. b.bc_offset = off /\ b.native = NULL /\ b.target = Stub(Len(bs) + 1)
    OBVIOUS
  <2> HIDE DEF b, new
  <2>4. \A i \in 1..Len(bs) : bs[i].bc_offset # off
    BY <1>2, <2>2 DEF Known
  <2>5. \A i, j \in DOMAIN new : new[i].bc_offset = new[j].bc_offset => i = j
    BY <2>2, <2>3, <2>4 DEF GoodTable
  <2>6. \A i \in DOMAIN new : LeadsHome(new, i)
    BY <2>2, <2>3 DEF GoodTable, LeadsHome
  <2>7. GoodTable(new)
    BY <2>2, <2>5, <2>6 DEF GoodTable
  <2>8. Known(new, off) /\ \A o : Known(bs, o) => Known(new, o)
    BY <2>2, <2>3 DEF Known
  <2>9. BlockGet(bs, off) = new
    BY <1>2 DEF BlockGet, new, b
  <2> QED
    BY <2>7, <2>8, <2>9
<1> QED
  BY <1>1, <1>2

LEMMA TableKeeps ==
  ASSUME IInv, NEW off \in Code
  PROVE  GoodTable(Table(off)) /\ Known(Table(off), off)
<1> DEFINE i == Body(off)[Len(Body(off))]
           own == BlockGet(blocks, off)
<1>1. i \in Instruction
  BY BodyTyped DEF IInv
<1>2. GoodTable(own) /\ Known(own, off)
  BY BlockGetKeeps DEF IInv
<1>3. CASE i.op = "call"
  <2>1. i.ok \in Code /\ i.err \in Code
    <3> HIDE DEF i
    <3> QED
      BY <1>1, <1>3 DEF Instruction, RRops, Shifts, Floats
  <2> DEFINE two == BlockGet(own, i.ok)
             three == BlockGet(two, i.err)
  <2>2. Table(off) = three
    BY <1>3 DEF Table
  <2> HIDE DEF own, i
  <2>3. GoodTable(two) /\ Known(two, off)
    BY <1>2, <2>1, BlockGetKeeps
  <2> HIDE DEF two
  <2>4. GoodTable(three) /\ Known(three, off)
    BY <2>1, <2>3, BlockGetKeeps
  <2> QED
    BY <2>2, <2>4
<1>4. CASE i.op # "call"
  BY <1>2, <1>4 DEF Table
<1> QED
  BY <1>3, <1>4

\* The table cs has the blocks of bs, and after them only such as are not compiled.
Longer(bs, cs) ==
  /\ \A i \in DOMAIN bs : i \in DOMAIN cs /\ cs[i] = bs[i]
  /\ \A i \in DOMAIN cs : i \notin DOMAIN bs => cs[i].native = NULL

LEMMA LongerTransitive ==
  ASSUME NEW as, NEW bs, NEW cs, Longer(as, bs), Longer(bs, cs)
  PROVE  Longer(as, cs)
BY DEF Longer

LEMMA BlockGetLonger ==
  ASSUME NEW bs, GoodTable(bs), NEW off \in Code
  PROVE  Longer(bs, BlockGet(bs, off))
<1>1. CASE Known(bs, off)
  BY <1>1 DEF BlockGet, Longer
<1>2. CASE ~Known(bs, off)
  <2> DEFINE b == [bc_offset |-> off, native |-> NULL, target |-> Stub(Len(bs) + 1)]
             new == Append(bs, b)
  <2>1. b \in Block /\ b.native = NULL
    BY DEF GoodTable, Block, Pointer, NULL, Stub
  <2>2. /\ DOMAIN new = 1..(Len(bs) + 1) /\ new[Len(bs) + 1] = b
        /\ \A i \in 1..Len(bs) : new[i] = bs[i]
        /\ DOMAIN bs = 1..Len(bs) /\ Len(bs) \in Nat
    <3> HIDE DEF b
    <3> QED
      BY <2>1, AppendProperties DEF GoodTable
  <2>3. BlockGet(bs, off) = new
    BY <1>2 DEF BlockGet
  <2> HIDE DEF b, new
  <2>4. Longer(bs, new)
    BY <2>1, <2>2 DEF Longer
  <2> QED
    BY <2>3, <2>4
<1> QED
  BY <1>1, <1>2

\* The block that off ends in, if it is a call, has its callees in the table.
Callees(bs, off) ==
  LET i == Body(off)[Len(Body(off))]
  IN  i.op = "call" => Known(bs, i.ok) /\ Known(bs, i.err)

LEMMA TableLonger ==
  ASSUME IInv, NEW off \in Code
  PROVE  Longer(blocks, Table(off)) /\ Callees(Table(off), off)
<1> DEFINE i == Body(off)[Len(Body(off))]
           own == BlockGet(blocks, off)
<1>1. i \in Instruction
  BY BodyTyped DEF IInv
<1>2. GoodTable(own) /\ Longer(blocks, own)
  BY BlockGetKeeps, BlockGetLonger DEF IInv
<1>3. CASE i.op = "call"
  <2>1. i.ok \in Code /\ i.err \in Code
    <3> HIDE DEF i
    <3> QED
      BY <1>1, <1>3 DEF Instruction, RRops, Shifts, Floats
  <2> DEFINE two == BlockGet(own, i.ok)
             three == BlockGet(two, i.err)
  <2>2. Table(off) = three
    BY <1>3 DEF Table
  <2>3. Known(three, i.ok) /\ Known(three, i.err) => Callees(three, off)
    BY DEF Callees
  <2> HIDE DEF own, i
  <2>4. GoodTable(two) /\ Known(two, i.ok) /\ Longer(blocks, two)
    BY <1>2, <2>1, BlockGetKeeps, BlockGetLonger, LongerTransitive
  <2> HIDE DEF two
  <2>5. Known(three, i.ok) /\ Known(three, i.err) /\ Longer(blocks, three)
    BY <2>1, <2>4, BlockGetKeeps, BlockGetLonger, LongerTransitive
  <2> QED
    BY <2>2, <2>3, <2>5
<1>4. CASE i.op # "call"
  BY <1>2, <1>4 DEF Table, Callees
<1> QED
  BY <1>3, <1>4

\* Patching changes where one block leads to, and nothing else.
LEMMA PatchKeeps ==
  ASSUME NEW bs, GoodTable(bs), NEW off, Known(bs, off), NEW at \in Nat, moves \in Nat
  PROVE  GoodTable(Patched(bs, off, at)) /\ Len(Patched(bs, off, at)) = Len(bs)
<1> DEFINE i == IndexOf(bs, off)
           b == [bs[i] EXCEPT !.native = Native(at), !.target = Native(at)]
           new == [bs EXCEPT ![i] = b]
<1>1. i \in DOMAIN bs
  BY DEF IndexOf, Known
<1>2. Native(at) \in Pointer /\ Native(at).kind = "native"
  BY DEF Native, Pointer
<1>3. bs[i] \in Block
  <2> HIDE DEF i
  <2> QED
    BY <1>1 DEF GoodTable
<1>4. /\ b \in Block /\ b.bc_offset = bs[i].bc_offset
      /\ b.native = Native(at) /\ b.target = Native(at)
  <2> HIDE DEF i
  <2> QED
    BY <1>2, <1>3 DEF Block
<1>5. Patched(bs, off, at) = new
  <2> HIDE DEF i
  <2>1. Patched(bs, off, at) = [bs EXCEPT ![i].native = Native(at), ![i].target = Native(at)]
    BY DEF Patched, i
  <2> QED
    BY <1>1, <1>3, <2>1 DEF Block, GoodTable
<1> HIDE DEF b, i
<1>6. /\ new \in Seq(Block) /\ Len(new) = Len(bs) /\ DOMAIN new = DOMAIN bs
      /\ new[i] = b /\ \A k \in DOMAIN bs : k # i => new[k] = bs[k]
  BY <1>1, <1>4, ExceptSeq DEF GoodTable
<1> HIDE DEF new
<1>7. \A k \in DOMAIN new : new[k].bc_offset = bs[k].bc_offset
  BY <1>4, <1>6
<1>8. \A k \in DOMAIN new : LeadsHome(new, k)
  BY <1>2, <1>4, <1>6 DEF GoodTable, LeadsHome
<1> QED
  BY <1>5, <1>6, <1>7, <1>8 DEF GoodTable

-----------------------------------------------------------------------------
(* The invariant *)

LEMMA InitEstablishes == Init => IInv
<1> SUFFICES ASSUME Init PROVE IInv
  OBVIOUS
<1>1. GoodTable(blocks) /\ Len(blocks) = 0
  BY DEF Init, GoodTable
<1>2. arena \in Seq({}) /\ Len(arena) = 0
  BY DEF Init
<1>3. \E S : arena \in Seq(S)
  BY <1>2
<1>4. Len(arena) <= cap /\ Len(blocks) <= MaxBlocks
  BY <1>1, <1>2 DEF Init
<1> QED
  BY <1>1, <1>3, <1>4 DEF Init, IInv

\* The blocks asked for before a store faults fit in the table.
LEMMA FaultLonger ==
  ASSUME IInv, NEW off \in Code, WriteFault(off)
  PROVE  GoodTable(blocks') /\ Len(blocks') <= MaxBlocks /\ Longer(blocks, blocks')
<1>1. GoodTable(blocks)
  BY DEF IInv
<1>2. CASE code[off].op = "call"
  <2>1. blocks' = Table(off) /\ Fits(Table(off))
    BY <1>2 DEF WriteFault, Faults
  <2> QED
    BY <2>1, TableKeeps, TableLonger DEF Fits
<1>3. CASE code[off].op # "call"
  <2>1. blocks' = BlockGet(blocks, off) /\ Fits(BlockGet(blocks, off))
    BY <1>3 DEF WriteFault, Faults
  <2> QED
    BY <1>1, <2>1, BlockGetKeeps, BlockGetLonger DEF Fits
<1> QED
  BY <1>2, <1>3

LEMMA CompileKeeps ==
  ASSUME IInv, NEW off \in Code, Compile(off)
  PROVE  IInv'
<1>1. GoodTable(Table(off)) /\ Known(Table(off), off)
  BY TableKeeps
<1>2. PICK S : arena \in Seq(S)
  BY DEF IInv
<1>3. Len(arena) \in Nat
  BY <1>2
<1>4. GoodTable(blocks') /\ Len(blocks') <= MaxBlocks
  BY <1>1, <1>3, PatchKeeps DEF Compile, IInv, Fits
<1>5. \E T : arena' \in Seq(T)
  <2> DEFINE n == Len(Body(off))
             e == [k \in DOMAIN Body(off) |-> Emit(Table(off), Body(off)[k])]
             T == S \cup {Emit(Table(off), Body(off)[k]) : k \in 1..n}
  <2>1. n \in Nat /\ DOMAIN Body(off) = 1..n
    BY BodyTyped DEF IInv
  <2>2. e \in [1..n -> T]
    BY <2>1
  <2>3. e \in Seq(T) /\ arena \in Seq(T)
    <3> HIDE DEF e, n
    <3>1. S \subseteq T
      OBVIOUS
    <3> HIDE DEF T
    <3> QED
      BY <1>2, <2>1, <2>2, <3>1
  <2>4. arena' = arena \o e
    BY DEF Compile
  <2> HIDE DEF e, T
  <2> QED
    BY <2>3, <2>4, ConcatProperties
<1>6. Len(arena') <= cap' /\ moves' \in Nat
  <2>1. PICK k \in 0..Len(Body(off)) :
          Len(arena') <= cap * 2^k /\ cap' = cap * 2^k /\ moves' = moves + k
    BY DEF Compile
  <2>2. k \in Nat
    BY <2>1, BodyTyped DEF IInv
  <2> QED
    BY <2>1, <2>2 DEF IInv
<1> QED
  BY <1>4, <1>5, <1>6 DEF IInv, Compile

LEMMA NextKeeps == IInv /\ [Next]_vars => IInv'
<1> SUFFICES ASSUME IInv, [Next]_vars PROVE IInv'
  OBVIOUS
<1>1. ASSUME NEW off \in Code, WriteFault(off) PROVE IInv'
  <2>1. GoodTable(blocks') /\ Len(blocks') <= MaxBlocks
    BY <1>1, FaultLonger
  <2> QED
    BY <1>1, <2>1 DEF WriteFault, IInv
<1>2. ASSUME NEW off \in Code, Refuse(off) PROVE IInv'
  BY <1>2 DEF Refuse, IInv, GoodTable, LeadsHome
<1>3. ASSUME NEW off \in Code, Compile(off) PROVE IInv'
  BY <1>3, CompileKeeps
<1>4. CASE UNCHANGED vars
  BY <1>4 DEF vars, IInv, GoodTable, LeadsHome
<1> QED
  BY <1>1, <1>2, <1>3, <1>4 DEF Next

\* The inductive invariant holds in every reachable state.
THEOREM Invariance == Spec => []IInv
<1> QED
  BY InitEstablishes, NextKeeps, PTL DEF Spec

\* The table and the arena stay within their sizes (jit_trampoline.c:140,
\* jit.c:28), whatever blocks are compiled.
THEOREM TypeCorrect == Spec => []TypeOK
<1>1. IInv => TypeOK
  <2> SUFFICES ASSUME IInv PROVE TypeOK
    OBVIOUS
  <2>1. DOMAIN code = Code
    BY DEF IInv
  <2>2. ASSUME NEW i \in DOMAIN blocks
        PROVE  /\ blocks[i].bc_offset \in Code
               /\ blocks[i].native.kind \in {"null", "native"}
               /\ blocks[i].target.kind \in {"stub", "native"}
    <3>1. blocks[i] \in Block /\ LeadsHome(blocks, i)
      BY <2>2 DEF IInv, GoodTable
    <3> QED
      BY <3>1 DEF Block, LeadsHome, NULL, Stub
  <2> QED
    BY <2>1, <2>2 DEF IInv, TypeOK
<1> QED
  BY <1>1, Invariance, PTL

\* Trampolines stand for one block each, and lead to it before and after it is
\* compiled (jit_trampoline.h:5-18, jit_trampoline.c:134-159).
THEOREM TrampolineSafety == Spec => []OneTrampolineEach
<1>1. IInv => OneTrampolineEach
  BY DEF IInv, GoodTable, LeadsHome, OneTrampolineEach
<1> QED
  BY <1>1, Invariance, PTL
-----------------------------------------------------------------------------
(* Induction, and what runs of the two machines are *)

LEMMA SetInduction ==
  ASSUME NEW S, 0 \in S, \A n \in Nat : n \in S => n + 1 \in S
  PROVE  Nat \subseteq S
<1> DEFINE T == Nat \ S
<1>1. SUFFICES ASSUME T # {} PROVE FALSE
  OBVIOUS
<1>2. \E x \in T : \A y \in T : ~ (<<y, x>> \in OpToRel(<, Nat))
  <2>1. T \subseteq Nat
    OBVIOUS
  <2> HIDE DEF T
  <2> QED
    BY <1>1, <2>1, WFMin, NatLessThanWellFounded
<1>3. PICK x \in T : \A y \in T : ~ (<<y, x>> \in OpToRel(<, Nat))
  BY <1>2
<1>4. \A y \in T : ~(y < x)
  BY <1>3 DEF OpToRel
<1>5. x \in Nat /\ x # 0
  OBVIOUS
<1>6. x - 1 \in Nat /\ x - 1 < x /\ x - 1 + 1 = x
  BY <1>5
<1>7. x - 1 \in S
  BY <1>4, <1>6
<1> QED
  BY <1>6, <1>7

\* The processor is f[n] after n of the units.
Steps(f, m, units) ==
  f[0] = m /\ \A n \in 1..Len(units) : f[n] = CpuStep(f[n - 1], units[n])

\* The recursive definition has a solution.
LEMMA CpuRuns ==
  ASSUME NEW m, NEW units, Len(units) \in Nat
  PROVE  \E f : Steps(f, m, units) /\ CpuRun(m, units) = f[Len(units)]
<1> DEFINE L == Len(units)
           E(f, n) == IF n = 0 THEN m ELSE CpuStep(f[n - 1], units[n])
           P(k) == \E f : f = [n \in 0..k |-> E(f, n)]
           S == {k \in Nat : P(k)}
<1>1. 0 \in S
  <2> DEFINE h == [n \in 0..0 |-> m]
  <2>1. h = [n \in 0..0 |-> E(h, n)]
    OBVIOUS
  <2> QED
    BY <2>1
<1>2. ASSUME NEW k \in Nat, k \in S PROVE k + 1 \in S
  <2>1. PICK f : f = [n \in 0..k |-> E(f, n)]
    BY <1>2
  <2> DEFINE h == [n \in 0..(k + 1) |-> IF n = k + 1 THEN E(f, n) ELSE f[n]]
  <2>2. ASSUME NEW n \in 0..(k + 1) PROVE h[n] = E(h, n)
    <3>1. n \in Nat /\ (n # 0 => n - 1 \in 0..k /\ n - 1 \in 0..(k + 1) /\ n - 1 # k + 1)
      OBVIOUS
    <3>2. n # 0 => h[n - 1] = f[n - 1]
      BY <3>1
    <3>3. E(h, n) = E(f, n)
      <4> HIDE DEF h
      <4> QED
        BY <3>2
    <3>4. n # k + 1 => n \in 0..k /\ h[n] = f[n] /\ f[n] = E(f, n)
      <4>1. ASSUME n # k + 1 PROVE n \in 0..k /\ h[n] = f[n]
        BY <4>1
      <4> HIDE DEF h, E
      <4> QED
        BY <2>1, <4>1
    <3>5. n = k + 1 => h[n] = E(f, n)
      <4> HIDE DEF E
      <4> QED
        OBVIOUS
    <3> HIDE DEF h, E
    <3> QED
      BY <3>3, <3>4, <3>5
  <2>3. h = [n \in 0..(k + 1) |-> E(h, n)]
    <3>1. h = [n \in 0..(k + 1) |-> h[n]]
      OBVIOUS
    <3> HIDE DEF h, E
    <3> QED
      BY <2>2, <3>1
  <2>4. P(k + 1)
    <3> HIDE DEF h, E
    <3> QED
      BY <2>3
  <2> QED
    BY <2>4
<1>3. P(L)
  <2>1. Nat \subseteq S
    <3> HIDE DEF S
    <3> QED
      BY <1>1, <1>2, SetInduction
  <2> QED
    BY <2>1
<1> DEFINE after == CHOOSE f : f = [n \in 0..L |-> E(f, n)]
<1>4. after = [n \in 0..L |-> E(after, n)]
  <2> HIDE DEF E
  <2> QED
    BY <1>3
<1>5. CpuRun(m, units) = after[L]
  BY DEF CpuRun
<1> HIDE DEF after
<1>6. after[0] = m
  BY <1>4
<1>7. \A n \in 1..L : after[n] = CpuStep(after[n - 1], units[n])
  BY <1>4
<1>8. Steps(after, m, units)
  BY <1>6, <1>7 DEF Steps
<1> QED
  BY <1>5, <1>8

\* The processor after each bytecode instruction from at on.
LEMMA ExecutedRuns ==
  ASSUME NEW at \in Nat, Len(arena) \in Nat, at <= Len(arena)
  PROVE  \E f : /\ f[at] = CpuStart
                /\ \A n \in (at + 1)..Len(arena) : f[n] = CpuRun(f[n - 1], arena[n])
                /\ Executed(at) = f[Len(arena)]
<1> DEFINE L == Len(arena)
           E(f, n) == IF n = at THEN CpuStart ELSE CpuRun(f[n - 1], arena[n])
           P(k) == \E f : f = [n \in at..(at + k) |-> E(f, n)]
           S == {k \in Nat : P(k)}
<1>1. 0 \in S
  <2> DEFINE h == [n \in at..(at + 0) |-> CpuStart]
  <2>1. ASSUME NEW n \in at..(at + 0) PROVE n = at
    OBVIOUS
  <2>2. h = [n \in at..(at + 0) |-> E(h, n)]
    BY <2>1
  <2> HIDE DEF h, E
  <2> QED
    BY <2>2
<1>2. ASSUME NEW k \in Nat, k \in S PROVE k + 1 \in S
  <2> DEFINE e == at + k
  <2>1. PICK f : f = [n \in at..e |-> E(f, n)]
    BY <1>2
  <2> DEFINE h == [n \in at..(e + 1) |-> IF n = e + 1 THEN E(f, n) ELSE f[n]]
  <2>2. ASSUME NEW n \in at..(e + 1) PROVE h[n] = E(h, n)
    <3>1. n \in Nat /\ (n # at => n - 1 \in at..e /\ n - 1 \in at..(e + 1) /\ n - 1 # e + 1)
      OBVIOUS
    <3>2. n # at => h[n - 1] = f[n - 1]
      BY <3>1
    <3>3. E(h, n) = E(f, n)
      <4> HIDE DEF h
      <4> QED
        BY <3>2
    <3>4. n # e + 1 => n \in at..e /\ h[n] = f[n] /\ f[n] = E(f, n)
      <4>1. ASSUME n # e + 1 PROVE n \in at..e /\ h[n] = f[n]
        BY <4>1
      <4> HIDE DEF h, E, e
      <4> QED
        BY <2>1, <4>1
    <3>5. n = e + 1 => h[n] = E(f, n)
      <4> HIDE DEF E, e
      <4> QED
        OBVIOUS
    <3> HIDE DEF h, E
    <3> QED
      BY <3>3, <3>4, <3>5
  <2>3. h = [n \in at..(e + 1) |-> E(h, n)]
    <3>1. h = [n \in at..(e + 1) |-> h[n]]
      OBVIOUS
    <3> HIDE DEF h, E, e
    <3> QED
      BY <2>2, <3>1
  <2>4. P(k + 1)
    <3>1. at..(e + 1) = at..(at + (k + 1))
      OBVIOUS
    <3> HIDE DEF h, E, e
    <3> QED
      BY <2>3, <3>1
  <2> QED
    BY <2>4
<1>3. \E f : f = [n \in at..L |-> E(f, n)]
  <2>1. Nat \subseteq S
    <3> HIDE DEF S
    <3> QED
      BY <1>1, <1>2, SetInduction
  <2>2. L - at \in Nat /\ at + (L - at) = L
    OBVIOUS
  <2>3. P(L - at)
    <3> HIDE DEF P
    <3> QED
      BY <2>1, <2>2
  <2> HIDE DEF E
  <2> QED
    BY <2>2, <2>3
<1> DEFINE after == CHOOSE f : f = [n \in at..L |-> E(f, n)]
<1>4. after = [n \in at..L |-> E(after, n)]
  <2> HIDE DEF E
  <2> QED
    BY <1>3
<1>5. Executed(at) = after[L]
  BY DEF Executed
<1> HIDE DEF after
<1>6. after[at] = CpuStart
  BY <1>4
<1>7. \A n \in (at + 1)..L : after[n] = CpuRun(after[n - 1], arena[n])
  BY <1>4
<1> QED
  BY <1>5, <1>6, <1>7

\* The interpreter after each instruction of a block.
LEMMA InterpretedRuns ==
  ASSUME NEW off, Len(Body(off)) \in Nat
  PROVE  \E f : /\ f[0] = VmStart
                /\ \A n \in 1..Len(Body(off)) : f[n] = VmStep(f[n - 1], Body(off)[n], At(off + n))
                /\ Interpreted(off) = f[Len(Body(off))]
<1> DEFINE L == Len(Body(off))
           E(f, n) == IF n = 0 THEN VmStart ELSE VmStep(f[n - 1], Body(off)[n], At(off + n))
           P(k) == \E f : f = [n \in 0..k |-> E(f, n)]
           S == {k \in Nat : P(k)}
<1>1. 0 \in S
  <2> DEFINE h == [n \in 0..0 |-> VmStart]
  <2>1. h = [n \in 0..0 |-> E(h, n)]
    OBVIOUS
  <2> HIDE DEF h, E
  <2> QED
    BY <2>1
<1>2. ASSUME NEW k \in Nat, k \in S PROVE k + 1 \in S
  <2>1. PICK f : f = [n \in 0..k |-> E(f, n)]
    BY <1>2
  <2> DEFINE h == [n \in 0..(k + 1) |-> IF n = k + 1 THEN E(f, n) ELSE f[n]]
  <2>2. ASSUME NEW n \in 0..(k + 1) PROVE h[n] = E(h, n)
    <3>1. n \in Nat /\ (n # 0 => n - 1 \in 0..k /\ n - 1 \in 0..(k + 1) /\ n - 1 # k + 1)
      OBVIOUS
    <3>2. n # 0 => h[n - 1] = f[n - 1]
      BY <3>1
    <3>3. E(h, n) = E(f, n)
      <4> HIDE DEF h
      <4> QED
        BY <3>2
    <3>4. n # k + 1 => n \in 0..k /\ h[n] = f[n] /\ f[n] = E(f, n)
      <4>1. ASSUME n # k + 1 PROVE n \in 0..k /\ h[n] = f[n]
        BY <4>1
      <4> HIDE DEF h, E
      <4> QED
        BY <2>1, <4>1
    <3>5. n = k + 1 => h[n] = E(f, n)
      <4> HIDE DEF E
      <4> QED
        OBVIOUS
    <3> HIDE DEF h, E
    <3> QED
      BY <3>3, <3>4, <3>5
  <2>3. h = [n \in 0..(k + 1) |-> E(h, n)]
    <3>1. h = [n \in 0..(k + 1) |-> h[n]]
      OBVIOUS
    <3> HIDE DEF h, E
    <3> QED
      BY <2>2, <3>1
  <2>4. P(k + 1)
    <3> HIDE DEF h, E
    <3> QED
      BY <2>3
  <2> QED
    BY <2>4
<1>3. P(L)
  <2>1. Nat \subseteq S
    <3> HIDE DEF S
    <3> QED
      BY <1>1, <1>2, SetInduction
  <2> QED
    BY <2>1
<1> DEFINE after == CHOOSE f : f = [n \in 0..L |-> E(f, n)]
<1>4. after = [n \in 0..L |-> E(after, n)]
  <2> HIDE DEF E
  <2> QED
    BY <1>3
<1>5. Interpreted(off) = after[L]
  BY DEF Interpreted
<1> HIDE DEF after
<1>6. after[0] = VmStart
  BY <1>4
<1>7. \A n \in 1..L : after[n] = VmStep(after[n - 1], Body(off)[n], At(off + n))
  BY <1>4
<1> QED
  BY <1>5, <1>6, <1>7

-----------------------------------------------------------------------------
(* What one machine instruction does *)

Cpu(x, f, shadow, jump) == [x |-> x, f |-> f, shadow |-> shadow, jump |-> jump]
Frame(err, ok) == [err |-> err, ok |-> ok]
Vm(r, f, shadow, jump) == [r |-> r, f |-> f, shadow |-> shadow, jump |-> jump]

\* x has a value for each element of S, and no other.
Fills(x, S) == x = [n \in S |-> x[n]]

\* x with another value at n.
With(x, n, value) == [x EXCEPT ![n] = value]

LEMMA Split ==
  ASSUME NEW d \in 0..15
  PROVE  8 * (d \div 8) + (d % 8) = d
OBVIOUS

\* The machine instructions without fields.
Names == {"sub r14, 16", "add r14, 16", "mov [r14], rax", "mov [r14+8], rax", "mov rax, [r14]",
          "mov rax, [r14+8]", "jmp rax", "pop rbp", "ret"}

\* The opcode of an instruction is no other's, but for mul and imul.
LEMMA Opcodes ==
  /\ \A o \in RRops \cup Floats : Opcode[o] \notin {"89", "F7", "D3", "B8"} \cup Names
  /\ \A o \in Floats : \A p \in RRops : Opcode[o] # Opcode[p]
  /\ \A o \in RRops \cup Floats : o # "imul" => Decoded(Opcode[o]) = o
  /\ Decoded(Opcode["imul"]) = "mul"
<1>1. /\ Opcode["mov"] = "8B" /\ Opcode["add"] = "03" /\ Opcode["sub"] = "2B"
      /\ Opcode["and"] = "23" /\ Opcode["or"] = "0B" /\ Opcode["xor"] = "33"
      /\ Opcode["mul"] = "0F AF" /\ Opcode["imul"] = "0F AF"
      /\ Opcode["fadd"] = "F2 0F 58" /\ Opcode["fmul"] = "F2 0F 59"
  BY DEF Opcode
<1>2. DOMAIN Opcode = RRops \cup Floats
  BY DEF Opcode, RRops, Floats
<1> HIDE DEF Opcode
<1>3. /\ \A o \in RRops \cup Floats : Opcode[o] \notin {"89", "F7", "D3", "B8"} \cup Names
      /\ \A o \in Floats : \A p \in RRops : Opcode[o] # Opcode[p]
  BY <1>1 DEF RRops, Floats, Names
<1>4. ASSUME NEW o \in RRops \cup Floats, NEW p \in RRops \cup Floats,
             Opcode[o] = Opcode[p], o # "imul", p # "imul"
      PROVE  o = p
  <2>1. \A q \in RRops \cup Floats :
          \/ q = "mov" \/ q = "add" \/ q = "sub" \/ q = "and" \/ q = "or" \/ q = "xor"
          \/ q = "mul" \/ q = "imul" \/ q = "fadd" \/ q = "fmul"
    BY DEF RRops, Floats
  <2>2. CASE o \in {"mov", "add", "sub", "and", "or"}
    BY <1>1, <1>4, <2>1, <2>2
  <2>3. CASE o \in {"xor", "mul", "fadd", "fmul"}
    BY <1>1, <1>4, <2>1, <2>3
  <2> QED
    BY <1>4, <2>1, <2>2, <2>3
<1>5. ASSUME NEW o \in RRops \cup Floats, o # "imul" PROVE Decoded(Opcode[o]) = o
  BY <1>2, <1>4, <1>5 DEF Decoded
<1>6. Opcode["imul"] = Opcode["mul"] /\ "mul" \in RRops
  BY <1>1 DEF RRops
<1> QED
  BY <1>3, <1>5, <1>6

LEMMA CpuRR ==
  ASSUME NEW x, Fills(x, 0..15), NEW f, NEW sh,
         NEW o \in RRops, NEW d \in 0..15, NEW s \in 0..15
  PROVE  CpuStep(Cpu(x, f, sh, Nowhere), RR(Opcode[o], d, s))
           = Cpu(With(x, d, Combine(o, x[d], x[s])), f, sh, Nowhere)
<1> x = [n \in 0..15 |-> x[n]]
  BY DEF Fills
<1> DEFINE m == Cpu(x, f, sh, Nowhere)
           u == RR(Opcode[o], d, s)
<1>1. /\ u.op = Opcode[o] /\ 8 * u.R + u.reg = d /\ 8 * u.B + u.rm = s
  BY Split DEF RR
<1>2. /\ u.op \notin {"89", "F7", "D3", "B8"} \cup Names
      /\ u.op \in {Opcode[p] : p \in RRops} /\ u.op \notin {Opcode[p] : p \in Floats}
  BY <1>1, Opcodes
<1>3. Combine(Decoded(u.op), x[d], x[s]) = Combine(o, x[d], x[s])
  BY <1>1, Opcodes DEF Combine
<1>4. m.jump = Nowhere /\ m.x = x
  BY DEF Cpu
<1> HIDE DEF u
<1>5. CpuStep(m, u) = Put(m, d, Combine(Decoded(u.op), m.x[d], m.x[s]))
  <2> HIDE DEF m
  <2> QED
    BY <1>1, <1>2, <1>4 DEF CpuStep, Names
<1>6. CpuStep(m, u) = [m EXCEPT !.x[d] = Combine(o, x[d], x[s])]
  <2>1. CpuStep(m, u) = [m EXCEPT !.x[d] = Combine(Decoded(u.op), x[d], x[s])]
    BY <1>5 DEF Cpu, Put
  <2> QED
    BY <2>1, <1>3
<1> QED
  BY <1>6 DEF Cpu, u, With

LEMMA CpuFloat ==
  ASSUME NEW x, NEW f, Fills(f, Regs), NEW sh,
         NEW o \in Floats, NEW d \in Regs, NEW s \in Regs
  PROVE  CpuStep(Cpu(x, f, sh, Nowhere), RR(Opcode[o], d, s))
           = Cpu(x, With(f, d, Combine(o, f[d], f[s])), sh, Nowhere)
<1> f = [n \in Regs |-> f[n]]
  BY DEF Fills
<1> DEFINE m == Cpu(x, f, sh, Nowhere)
           u == RR(Opcode[o], d, s)
<1>1. /\ u.op = Opcode[o] /\ 8 * u.R + u.reg = d /\ 8 * u.B + u.rm = s
  BY Split DEF RR, Regs
<1>2. /\ u.op \notin {"89", "F7", "D3", "B8"} \cup Names
      /\ u.op \notin {Opcode[p] : p \in RRops} /\ u.op \in {Opcode[p] : p \in Floats}
  BY <1>1, Opcodes
<1>3. Decoded(u.op) = o
  BY <1>1, Opcodes DEF Floats
<1>4. m.jump = Nowhere /\ m.f = f
  BY DEF Cpu
<1> HIDE DEF u
<1>5. CpuStep(m, u) = [m EXCEPT !.f[d] = Combine(Decoded(u.op), m.f[d], m.f[s])]
  <2> HIDE DEF m
  <2> QED
    BY <1>1, <1>2, <1>4 DEF CpuStep, Names
<1>6. CpuStep(m, u) = [m EXCEPT !.f[d] = Combine(o, f[d], f[s])]
  BY <1>3, <1>4, <1>5
<1> QED
  BY <1>6 DEF Cpu, u, With

\* Values that have an operation for their first part.
Negated(v) == <<"neg", v>>
Shifted(o, v, w) == <<o, v, w>>

LEMMA PutCpu ==
  ASSUME NEW x, Fills(x, 0..15), NEW f, NEW sh, NEW n \in 0..15, NEW v
  PROVE  Put(Cpu(x, f, sh, Nowhere), n, v) = Cpu(With(x, n, v), f, sh, Nowhere)
<1> DEFINE m == Cpu(x, f, sh, Nowhere)
<1>1. m.x = x /\ x = [k \in 0..15 |-> x[k]]
  BY DEF Cpu, Fills
<1>2. Put(m, n, v) = [m EXCEPT !.x = With(x, n, v)]
  BY <1>1 DEF Put, With
<1> QED
  BY <1>2 DEF Cpu

\* NEG.
LEMMA CpuNeg ==
  ASSUME NEW x, Fills(x, 0..15), NEW f, NEW sh, NEW d \in 0..15
  PROVE  CpuStep(Cpu(x, f, sh, Nowhere), RR("F7", 3, d)) = Cpu(With(x, d, Negated(x[d])), f, sh, Nowhere)
<1> DEFINE m == Cpu(x, f, sh, Nowhere)
           u == RR("F7", 3, d)
<1>1. m.jump = Nowhere /\ m.x = x
  BY DEF Cpu
<1>2. /\ {"89", "F7", "D3", "B8"} \cap {Opcode[p] : p \in RRops} = {}
      /\ {"89", "F7", "D3", "B8"} \cap {Opcode[p] : p \in Floats} = {}
  BY Opcodes
<1>3. u.op = "F7" /\ 8 * u.B + u.rm = d
  BY Split DEF RR
<1> HIDE DEF m, u
<1>4. CpuStep(m, u) = Put(m, d, Negated(x[d]))
  BY <1>1, <1>2, <1>3 DEF CpuStep, Negated, Shifted
<1> QED
  BY <1>4, PutCpu DEF m, u

\* MOV of a value.
LEMMA CpuImm ==
  ASSUME NEW x, Fills(x, 0..15), NEW f, NEW sh, NEW d \in 0..15, NEW v
  PROVE  CpuStep(Cpu(x, f, sh, Nowhere), MovRI(d, v)) = Cpu(With(x, d, v), f, sh, Nowhere)
<1> DEFINE m == Cpu(x, f, sh, Nowhere)
           u == MovRI(d, v)
<1>1. m.jump = Nowhere /\ m.x = x
  BY DEF Cpu
<1>2. /\ {"89", "F7", "D3", "B8"} \cap {Opcode[p] : p \in RRops} = {}
      /\ {"89", "F7", "D3", "B8"} \cap {Opcode[p] : p \in Floats} = {}
  BY Opcodes
<1>3. u.op = "B8" /\ 8 * u.B + u.rm = d /\ u.imm = v
  BY Split DEF MovRI
<1> HIDE DEF m, u
<1>4. CpuStep(m, u) = Put(m, d, v)
  BY <1>1, <1>2, <1>3 DEF CpuStep, Negated, Shifted
<1> QED
  BY <1>4, PutCpu DEF m, u

\* MOV between registers, as 0x89 has it: from reg to rm.
LEMMA CpuStore ==
  ASSUME NEW x, Fills(x, 0..15), NEW f, NEW sh, NEW d \in 0..15, NEW s \in 0..15
  PROVE  CpuStep(Cpu(x, f, sh, Nowhere), RR("89", s, d)) = Cpu(With(x, d, x[s]), f, sh, Nowhere)
<1> DEFINE m == Cpu(x, f, sh, Nowhere)
           u == RR("89", s, d)
<1>1. m.jump = Nowhere /\ m.x = x
  BY DEF Cpu
<1>2. /\ {"89", "F7", "D3", "B8"} \cap {Opcode[p] : p \in RRops} = {}
      /\ {"89", "F7", "D3", "B8"} \cap {Opcode[p] : p \in Floats} = {}
  BY Opcodes
<1>3. u.op = "89" /\ 8 * u.B + u.rm = d /\ 8 * u.R + u.reg = s
  BY Split DEF RR
<1> HIDE DEF m, u
<1>4. CpuStep(m, u) = Put(m, d, x[s])
  BY <1>1, <1>2, <1>3 DEF CpuStep, Negated, Shifted
<1> QED
  BY <1>4, PutCpu DEF m, u

\* A shift by cl.
LEMMA CpuShift ==
  ASSUME NEW x, Fills(x, 0..15), NEW f, NEW sh, NEW d \in 0..15, NEW o \in Shifts
  PROVE  CpuStep(Cpu(x, f, sh, Nowhere), RR("D3", Extension[o], d))
           = Cpu(With(x, d, Shifted(o, x[d], x[RCX])), f, sh, Nowhere)
<1> DEFINE m == Cpu(x, f, sh, Nowhere)
           u == RR("D3", Extension[o], d)
<1>1. m.jump = Nowhere /\ m.x = x
  BY DEF Cpu
<1>2. /\ {"89", "F7", "D3", "B8"} \cap {Opcode[p] : p \in RRops} = {}
      /\ {"89", "F7", "D3", "B8"} \cap {Opcode[p] : p \in Floats} = {}
  BY Opcodes
<1> DEFINE name == CHOOSE p \in Shifts : Extension[p] = u.reg
<1>3. Extension["shl"] = 4 /\ Extension["shr"] = 5 /\ Extension["sar"] = 7
  BY DEF Extension
<1>4. Extension[o] \in 0..7 /\ \A p \in Shifts : Extension[p] = Extension[o] => p = o
  BY <1>3 DEF Shifts
<1>5. u.op = "D3" /\ 8 * u.B + u.rm = d /\ u.reg = Extension[o]
  BY Split, <1>4 DEF RR
<1> HIDE DEF m, u
<1>6. name = o
  BY <1>4, <1>5
<1>7. CpuStep(m, u) = Put(m, d, Shifted(name, x[d], x[RCX]))
  BY <1>1, <1>2, <1>5 DEF CpuStep, Shifted
<1>8. CpuStep(m, u) = Put(m, d, Shifted(o, x[d], x[RCX]))
  BY <1>6, <1>7
<1> QED
  BY <1>8, PutCpu DEF m, u

\* The instructions without fields.
LEMMA CpuPushes ==
  ASSUME NEW x, Fills(x, 0..15), NEW f, NEW sh
  PROVE  CpuStep(Cpu(x, f, sh, Nowhere), Plain("sub r14, 16")) = Cpu(x, f, Append(sh, Unset), Nowhere)
<1> DEFINE m == Cpu(x, f, sh, Nowhere)
           u == Plain("sub r14, 16")
<1>1. m.jump = Nowhere /\ m.x = x /\ m.shadow = sh
  BY DEF Cpu
<1>2. u.op = "sub r14, 16" /\ u.op \notin {Opcode[p] : p \in RRops} \cup {Opcode[p] : p \in Floats}
  BY Opcodes DEF Plain, Names
<1> HIDE DEF m, u
<1>3. CpuStep(m, u) = [m EXCEPT !.shadow = Append(sh, Unset)]
  BY <1>1, <1>2 DEF CpuStep
<1> QED
  BY <1>1, <1>3 DEF Cpu, m, u

LEMMA CpuPops ==
  ASSUME NEW x, Fills(x, 0..15), NEW f, NEW sh
  PROVE  CpuStep(Cpu(x, f, sh, Nowhere), Plain("add r14, 16")) = Cpu(x, f, Front(sh), Nowhere)
<1> DEFINE m == Cpu(x, f, sh, Nowhere)
           u == Plain("add r14, 16")
<1>1. m.jump = Nowhere /\ m.x = x /\ m.shadow = sh
  BY DEF Cpu
<1>2. u.op = "add r14, 16" /\ u.op \notin {Opcode[p] : p \in RRops} \cup {Opcode[p] : p \in Floats}
  BY Opcodes DEF Plain, Names
<1> HIDE DEF m, u
<1>3. CpuStep(m, u) = [m EXCEPT !.shadow = Front(sh)]
  BY <1>1, <1>2 DEF CpuStep
<1> QED
  BY <1>1, <1>3 DEF Cpu, m, u

LEMMA CpuStoresErr ==
  ASSUME NEW x, Fills(x, 0..15), NEW f, NEW a, NEW err, NEW ok
  PROVE  CpuStep(Cpu(x, f, <<a, Frame(err, ok)>>, Nowhere), Plain("mov [r14], rax"))
           = Cpu(x, f, <<a, Frame(x[RAX], ok)>>, Nowhere)
<1> DEFINE sh == <<a, Frame(err, ok)>>
           t == <<a, Frame(x[RAX], ok)>>
           m == Cpu(x, f, sh, Nowhere)
           u == Plain("mov [r14], rax")
           v == x[RAX]
<1>1. m.jump = Nowhere /\ m.x = x /\ m.shadow = sh
  BY DEF Cpu
<1>2. u.op = "mov [r14], rax" /\ u.op \notin {Opcode[p] : p \in RRops} \cup {Opcode[p] : p \in Floats}
  BY Opcodes DEF Plain, Names
<1>3. Len(sh) = 2
  OBVIOUS
<1>4. [sh EXCEPT ![2].err = v] = t
  <2> HIDE DEF v
  <2> QED
    BY DEF Frame, v
<1> HIDE DEF m, u, sh, t
<1>5. CpuStep(m, u) = [m EXCEPT !.shadow[2].err = v]
  <2>1. CpuStep(m, u) = [m EXCEPT !.shadow[Len(sh)].err = x[RAX]]
    BY <1>1, <1>2 DEF CpuStep
  <2> QED
    BY <1>3, <2>1
<1>6. [m EXCEPT !.shadow[2].err = v] = [m EXCEPT !.shadow = [sh EXCEPT ![2].err = v]]
  BY <1>1
<1>7. [m EXCEPT !.shadow = t] = Cpu(x, f, t, Nowhere)
  BY DEF Cpu, m
<1> QED
  BY <1>4, <1>5, <1>6, <1>7 DEF m, u, sh, t

LEMMA CpuStoresOk ==
  ASSUME NEW x, Fills(x, 0..15), NEW f, NEW a, NEW err, NEW ok
  PROVE  CpuStep(Cpu(x, f, <<a, Frame(err, ok)>>, Nowhere), Plain("mov [r14+8], rax"))
           = Cpu(x, f, <<a, Frame(err, x[RAX])>>, Nowhere)
<1> DEFINE sh == <<a, Frame(err, ok)>>
           t == <<a, Frame(err, x[RAX])>>
           m == Cpu(x, f, sh, Nowhere)
           u == Plain("mov [r14+8], rax")
           v == x[RAX]
<1>1. m.jump = Nowhere /\ m.x = x /\ m.shadow = sh
  BY DEF Cpu
<1>2. u.op = "mov [r14+8], rax" /\ u.op \notin {Opcode[p] : p \in RRops} \cup {Opcode[p] : p \in Floats}
  BY Opcodes DEF Plain, Names
<1>3. Len(sh) = 2
  OBVIOUS
<1>4. [sh EXCEPT ![2].ok = v] = t
  <2> HIDE DEF v
  <2> QED
    BY DEF Frame, v
<1> HIDE DEF m, u, sh, t
<1>5. CpuStep(m, u) = [m EXCEPT !.shadow[2].ok = v]
  <2>1. CpuStep(m, u) = [m EXCEPT !.shadow[Len(sh)].ok = x[RAX]]
    BY <1>1, <1>2 DEF CpuStep
  <2> QED
    BY <1>3, <2>1
<1>6. [m EXCEPT !.shadow[2].ok = v] = [m EXCEPT !.shadow = [sh EXCEPT ![2].ok = v]]
  BY <1>1
<1>7. [m EXCEPT !.shadow = t] = Cpu(x, f, t, Nowhere)
  BY DEF Cpu, m
<1> QED
  BY <1>4, <1>5, <1>6, <1>7 DEF m, u, sh, t

LEMMA CpuLoadsErr ==
  ASSUME NEW x, Fills(x, 0..15), NEW f, NEW sh
  PROVE  CpuStep(Cpu(x, f, sh, Nowhere), Plain("mov rax, [r14]"))
           = Cpu(With(x, RAX, sh[Len(sh)].err), f, sh, Nowhere)
<1> DEFINE m == Cpu(x, f, sh, Nowhere)
           u == Plain("mov rax, [r14]")
<1>1. m.jump = Nowhere /\ m.x = x /\ m.shadow = sh
  BY DEF Cpu
<1>2. u.op = "mov rax, [r14]" /\ u.op \notin {Opcode[p] : p \in RRops} \cup {Opcode[p] : p \in Floats}
  BY Opcodes DEF Plain, Names
<1> HIDE DEF m, u
<1>3. CpuStep(m, u) = Put(m, RAX, sh[Len(sh)].err)
  BY <1>1, <1>2 DEF CpuStep
<1>4. RAX \in 0..15
  BY DEF RAX
<1>5. \A v : Put(m, RAX, v) = Cpu(With(x, RAX, v), f, sh, Nowhere)
  BY <1>4, PutCpu DEF m
<1> QED
  BY <1>3, <1>5 DEF m, u

LEMMA CpuLoadsOk ==
  ASSUME NEW x, Fills(x, 0..15), NEW f, NEW sh
  PROVE  CpuStep(Cpu(x, f, sh, Nowhere), Plain("mov rax, [r14+8]"))
           = Cpu(With(x, RAX, sh[Len(sh)].ok), f, sh, Nowhere)
<1> DEFINE m == Cpu(x, f, sh, Nowhere)
           u == Plain("mov rax, [r14+8]")
<1>1. m.jump = Nowhere /\ m.x = x /\ m.shadow = sh
  BY DEF Cpu
<1>2. u.op = "mov rax, [r14+8]" /\ u.op \notin {Opcode[p] : p \in RRops} \cup {Opcode[p] : p \in Floats}
  BY Opcodes DEF Plain, Names
<1> HIDE DEF m, u
<1>3. CpuStep(m, u) = Put(m, RAX, sh[Len(sh)].ok)
  BY <1>1, <1>2 DEF CpuStep
<1>4. RAX \in 0..15
  BY DEF RAX
<1>5. \A v : Put(m, RAX, v) = Cpu(With(x, RAX, v), f, sh, Nowhere)
  BY <1>4, PutCpu DEF m
<1> QED
  BY <1>3, <1>5 DEF m, u

LEMMA CpuRestores ==
  ASSUME NEW x, Fills(x, 0..15), NEW f, NEW sh
  PROVE  CpuStep(Cpu(x, f, sh, Nowhere), Plain("pop rbp")) = Cpu(With(x, RBP, <<"popped">>), f, sh, Nowhere)
<1> DEFINE m == Cpu(x, f, sh, Nowhere)
           u == Plain("pop rbp")
<1>1. m.jump = Nowhere /\ m.x = x /\ m.shadow = sh
  BY DEF Cpu
<1>2. u.op = "pop rbp" /\ u.op \notin {Opcode[p] : p \in RRops} \cup {Opcode[p] : p \in Floats}
  BY Opcodes DEF Plain, Names
<1> HIDE DEF m, u
<1>3. CpuStep(m, u) = Put(m, RBP, <<"popped">>)
  BY <1>1, <1>2 DEF CpuStep
<1>4. RBP \in 0..15
  BY DEF RBP
<1>5. \A v : Put(m, RBP, v) = Cpu(With(x, RBP, v), f, sh, Nowhere)
  BY <1>4, PutCpu DEF m
<1> QED
  BY <1>3, <1>5 DEF m, u

LEMMA CpuJumps ==
  ASSUME NEW x, Fills(x, 0..15), NEW f, NEW sh
  PROVE  CpuStep(Cpu(x, f, sh, Nowhere), Plain("jmp rax")) = Cpu(x, f, sh, x[RAX])
<1> DEFINE m == Cpu(x, f, sh, Nowhere)
           u == Plain("jmp rax")
<1>1. m.jump = Nowhere /\ m.x = x /\ m.shadow = sh
  BY DEF Cpu
<1>2. u.op = "jmp rax" /\ u.op \notin {Opcode[p] : p \in RRops} \cup {Opcode[p] : p \in Floats}
  BY Opcodes DEF Plain, Names
<1> HIDE DEF m, u
<1>3. CpuStep(m, u) = Leave(m, x[RAX])
  BY <1>1, <1>2 DEF CpuStep
<1> QED
  BY <1>1, <1>3 DEF Cpu, m, u, Leave

LEMMA CpuHalts ==
  ASSUME NEW x, Fills(x, 0..15), NEW f, NEW sh
  PROVE  CpuStep(Cpu(x, f, sh, Nowhere), Plain("ret")) = Cpu(x, f, sh, <<"halt">>)
<1> DEFINE m == Cpu(x, f, sh, Nowhere)
           u == Plain("ret")
<1>1. m.jump = Nowhere /\ m.x = x /\ m.shadow = sh
  BY DEF Cpu
<1>2. u.op = "ret" /\ u.op \notin {Opcode[p] : p \in RRops} \cup {Opcode[p] : p \in Floats}
  BY Opcodes DEF Plain, Names
<1> HIDE DEF m, u
<1>3. CpuStep(m, u) = Leave(m, <<"halt">>)
  BY <1>1, <1>2 DEF CpuStep
<1> QED
  BY <1>1, <1>3 DEF Cpu, m, u, Leave

\* A machine that has left the block stays as it is.
LEMMA CpuLeft ==
  ASSUME NEW c, c.jump # Nowhere, NEW u
  PROVE  CpuStep(c, u) = c
BY DEF CpuStep

\* A sequence of few instructions, one after the other.
LEMMA RunOne ==
  ASSUME NEW m, NEW u
  PROVE  CpuRun(m, <<u>>) = CpuStep(m, u)
<1> DEFINE us == <<u>>
<1>1. Len(us) = 1 /\ us[1] = u
  OBVIOUS
<1> HIDE DEF us
<1>0. Len(us) \in Nat
  BY <1>1
<1>2. PICK f : Steps(f, m, us) /\ CpuRun(m, us) = f[Len(us)]
  BY <1>0, CpuRuns
<1> QED
  BY <1>1, <1>2 DEF us, Steps

LEMMA RunTwo ==
  ASSUME NEW m, NEW u, NEW v
  PROVE  CpuRun(m, <<u, v>>) = CpuStep(CpuStep(m, u), v)
<1> DEFINE us == <<u, v>>
<1>1. Len(us) = 2 /\ us[1] = u /\ us[2] = v
  OBVIOUS
<1> HIDE DEF us
<1>0. Len(us) \in Nat
  BY <1>1
<1>2. PICK f : Steps(f, m, us) /\ CpuRun(m, us) = f[Len(us)]
  BY <1>0, CpuRuns
<1>3. f[1] = CpuStep(m, u) /\ f[2] = CpuStep(f[1], v)
  BY <1>1, <1>2 DEF Steps
<1> QED
  BY <1>1, <1>2, <1>3 DEF us, Steps

LEMMA RunThree ==
  ASSUME NEW m, NEW u, NEW v, NEW w
  PROVE  CpuRun(m, <<u, v, w>>) = CpuStep(CpuStep(CpuStep(m, u), v), w)
<1> DEFINE us == <<u, v, w>>
<1>1. Len(us) = 3 /\ us[1] = u /\ us[2] = v /\ us[3] = w
  OBVIOUS
<1> HIDE DEF us
<1>0. Len(us) \in Nat
  BY <1>1
<1>2. PICK f : Steps(f, m, us) /\ CpuRun(m, us) = f[Len(us)]
  BY <1>0, CpuRuns
<1>3. f[1] = CpuStep(m, u) /\ f[2] = CpuStep(f[1], v) /\ f[3] = CpuStep(f[2], w)
  BY <1>1, <1>2 DEF Steps
<1> QED
  BY <1>1, <1>2, <1>3 DEF us, Steps

LEMMA RunSix ==
  ASSUME NEW m, NEW u1, NEW u2, NEW u3, NEW u4, NEW u5, NEW u6
  PROVE  CpuRun(m, <<u1, u2, u3, u4, u5, u6>>)
           = CpuStep(CpuStep(CpuStep(CpuStep(CpuStep(CpuStep(m, u1), u2), u3), u4), u5), u6)
<1> DEFINE us == <<u1, u2, u3, u4, u5, u6>>
<1>1. /\ Len(us) = 6 /\ us[1] = u1 /\ us[2] = u2 /\ us[3] = u3
      /\ us[4] = u4 /\ us[5] = u5 /\ us[6] = u6
  OBVIOUS
<1> HIDE DEF us
<1>0. Len(us) \in Nat
  BY <1>1
<1>2. PICK f : Steps(f, m, us) /\ CpuRun(m, us) = f[Len(us)]
  BY <1>0, CpuRuns
<1>3. f[1] = CpuStep(m, u1) /\ f[2] = CpuStep(f[1], u2) /\ f[3] = CpuStep(f[2], u3)
  BY <1>1, <1>2 DEF Steps
<1>4. f[4] = CpuStep(f[3], u4) /\ f[5] = CpuStep(f[4], u5) /\ f[6] = CpuStep(f[5], u6)
  BY <1>1, <1>2 DEF Steps
<1> QED
  BY <1>1, <1>2, <1>3, <1>4 DEF us, Steps

-----------------------------------------------------------------------------
(* Instructions in the middle of a block *)

\* Registers have places of their own; ax is in rax, cx in rcx, none in rbp.
LEMMA Registers ==
  /\ \A v \in Regs : vm2x86[v] \in 0..15 /\ vm2x86[v] # RBP /\ (vm2x86[v] = RAX <=> v = 0)
  /\ \A v, w \in Regs : vm2x86[v] = vm2x86[w] => v = w
  /\ vm2x86[2] = RCX
<1>1. /\ vm2x86[0] = 0 /\ vm2x86[1] = 3 /\ vm2x86[2] = 1 /\ vm2x86[3] = 2
      /\ vm2x86[4] = 7 /\ vm2x86[5] = 6 /\ vm2x86[6] = 8 /\ vm2x86[7] = 9
  BY DEF vm2x86, Regs
<1>2. \A v \in Regs : v = 0 \/ v = 1 \/ v = 2 \/ v = 3 \/ v = 4 \/ v = 5 \/ v = 6 \/ v = 7
  BY DEF Regs
<1>3. \A v \in Regs : vm2x86[v] \in 0..15 /\ vm2x86[v] # 5 /\ (vm2x86[v] = 0 <=> v = 0)
  BY <1>1, <1>2
<1>4. ASSUME NEW v \in Regs, NEW w \in Regs, vm2x86[v] = vm2x86[w] PROVE v = w
  BY <1>1, <1>2, <1>4
<1> QED
  BY <1>1, <1>3, <1>4 DEF RAX, RCX, RBP

\* Both machines hold the same values, and are inside the block.
Same(x, f, r) ==
  /\ Fills(x, 0..15) /\ Fills(f, Regs) /\ Fills(r, Regs)
  /\ \A v \in Regs : x[vm2x86[v]] = r[v]

Matched(c, m) ==
  \E x, f, r : /\ Same(x, f, r)
               /\ c = Cpu(x, f, <<CallerFrame>>, Nowhere)
               /\ m = Vm(r, f, <<CallerFrame>>, Nowhere)

LEMMA StartMatched == Matched(CpuStart, VmStart)
<1> DEFINE x == [n \in 0..15 |-> IF \E v \in Regs : vm2x86[v] = n
                                 THEN <<"r", CHOOSE v \in Regs : vm2x86[v] = n>> ELSE <<"x", n>>]
           f == [n \in Regs |-> <<"f", n>>]
           r == [n \in Regs |-> <<"r", n>>]
<1>1. CpuStart = Cpu(x, f, <<CallerFrame>>, Nowhere)
  BY DEF CpuStart, VmStart, Cpu
<1>2. VmStart = Vm(r, f, <<CallerFrame>>, Nowhere)
  BY DEF VmStart, Vm
<1>3. ASSUME NEW v \in Regs PROVE x[vm2x86[v]] = r[v]
  <2>1. vm2x86[v] \in 0..15
    BY Registers
  <2>2. (CHOOSE w \in Regs : vm2x86[w] = vm2x86[v]) = v
    BY Registers
  <2>3. x[vm2x86[v]] = <<"r", CHOOSE w \in Regs : vm2x86[w] = vm2x86[v]>>
    BY <2>1
  <2> QED
    BY <2>2, <2>3
<1>4. Fills(x, 0..15) /\ Fills(f, Regs) /\ Fills(r, Regs)
  BY DEF Fills
<1> HIDE DEF x, f, r
<1> QED
  BY <1>1, <1>2, <1>3, <1>4 DEF Matched, Same

\* A value put into a register by both.
LEMMA PutBoth ==
  ASSUME NEW x, NEW f, NEW r, Same(x, f, r), NEW d \in Regs, NEW value
  PROVE  Same(With(x, vm2x86[d], value), f, With(r, d, value))
<1> DEFINE y == With(x, vm2x86[d], value)
           q == With(r, d, value)
<1>1. vm2x86[d] \in 0..15
  BY Registers
<1>2. y = [n \in 0..15 |-> IF n = vm2x86[d] THEN value ELSE x[n]]
  BY <1>1 DEF Same, Fills, With
<1>3. q = [n \in Regs |-> IF n = d THEN value ELSE r[n]]
  BY <1>1 DEF Same, Fills, With
<1> HIDE DEF y, q
<1>4. ASSUME NEW v \in Regs PROVE y[vm2x86[v]] = q[v]
  <2>1. vm2x86[v] \in 0..15 /\ (vm2x86[v] = vm2x86[d] <=> v = d)
    BY Registers
  <2> QED
    BY <1>2, <1>3, <2>1 DEF Same
<1>5. Fills(y, 0..15) /\ Fills(q, Regs)
  BY <1>2, <1>3 DEF Fills
<1> QED
  BY <1>4, <1>5 DEF Same, y, q

\* What the interpreter does: moves, and the two-register operations.
LEMMA VmRegister ==
  ASSUME NEW r, Fills(r, Regs), NEW f, Fills(f, Regs), NEW sh, NEW next, NEW i, i.op \in RRops \cup Shifts
  PROVE  VmStep(Vm(r, f, sh, Nowhere), i, next) = 
           Vm(With(r, i.d, Combine(i.op, r[i.d], r[i.s])), f, sh, Nowhere)
<1> DEFINE m == Vm(r, f, sh, Nowhere)
<1>1. m.r = r /\ m.f = f
  BY DEF Vm
<1>2. i.op \notin Floats \cup {"neg", "mov_ri", "call", "ret", "throw", "halt"}
  BY DEF RRops, Shifts, Floats
<1> HIDE DEF m
<1>3. VmStep(m, i, next) = [m EXCEPT !.r[i.d] = Combine(i.op, r[i.d], r[i.s])]
  BY <1>1, <1>2 DEF VmStep, Negated
<1> QED
  BY <1>3, <1>1 DEF Vm, m, With, Fills

\* The same for floats.
LEMMA VmFloat ==
  ASSUME NEW r, Fills(r, Regs), NEW f, Fills(f, Regs), NEW sh, NEW next, NEW i, i.op \in Floats
  PROVE  VmStep(Vm(r, f, sh, Nowhere), i, next) = 
           Vm(r, With(f, i.d, Combine(i.op, f[i.d], f[i.s])), sh, Nowhere)
<1> DEFINE m == Vm(r, f, sh, Nowhere)
<1>1. m.r = r /\ m.f = f
  BY DEF Vm
<1>2. i.op \notin RRops \cup Shifts \cup {"neg", "mov_ri", "call", "ret", "throw", "halt"}
  BY DEF RRops, Shifts, Floats
<1> HIDE DEF m
<1>3. VmStep(m, i, next) = [m EXCEPT !.f[i.d] = Combine(i.op, f[i.d], f[i.s])]
  BY <1>1, <1>2 DEF VmStep, Negated
<1> QED
  BY <1>3, <1>1 DEF Vm, m, With, Fills

\* NEG.
LEMMA VmNeg ==
  ASSUME NEW r, Fills(r, Regs), NEW f, Fills(f, Regs), NEW sh, NEW next, NEW i, i.op = "neg"
  PROVE  VmStep(Vm(r, f, sh, Nowhere), i, next) = Vm(With(r, i.d, Negated(r[i.d])), f, sh, Nowhere)
<1> DEFINE m == Vm(r, f, sh, Nowhere)
<1>1. m.r = r /\ m.f = f
  BY DEF Vm
<1>2. i.op \notin RRops \cup Shifts \cup Floats
  BY DEF RRops, Shifts, Floats
<1> HIDE DEF m
<1>3. VmStep(m, i, next) = [m EXCEPT !.r[i.d] = Negated(r[i.d])]
  BY <1>1, <1>2 DEF VmStep, Negated
<1> QED
  BY <1>3, <1>1 DEF Vm, m, With, Fills

\* MOV of an immediate.
LEMMA VmImm ==
  ASSUME NEW r, Fills(r, Regs), NEW f, Fills(f, Regs), NEW sh, NEW next, NEW i, i.op = "mov_ri"
  PROVE  VmStep(Vm(r, f, sh, Nowhere), i, next) = Vm(With(r, i.d, <<"imm">>), f, sh, Nowhere)
<1> DEFINE m == Vm(r, f, sh, Nowhere)
<1>1. m.r = r /\ m.f = f
  BY DEF Vm
<1>2. i.op \notin RRops \cup Shifts \cup Floats
  BY DEF RRops, Shifts, Floats
<1> HIDE DEF m
<1>3. VmStep(m, i, next) = [m EXCEPT !.r[i.d] = <<"imm">>]
  BY <1>1, <1>2 DEF VmStep, Negated
<1> QED
  BY <1>3, <1>1 DEF Vm, m, With, Fills

\* The instructions that stay in the block, and their registers.
LEMMA BodyKinds ==
  ASSUME NEW i \in Instruction, i.op \notin Enders \cup {"other"}
  PROVE  /\ i.op \in RRops \cup Shifts \cup Floats \cup {"neg", "mov_ri"}
         /\ i.op \in RRops \cup Shifts \cup Floats => i.d \in Regs /\ i.s \in Regs
         /\ i.op \in {"neg", "mov_ri"} => i.d \in Regs
BY DEF Instruction, Enders, RRops, Shifts, Floats

\* The machine instructions of one bytecode instruction do the same, a shift only
\* if it is by cx.
LEMMA BodyMatched ==
  ASSUME NEW c, NEW m, Matched(c, m), NEW bs, NEW next,
         NEW i \in Instruction, i.op \notin Enders \cup {"other"}, i.op \in Shifts => i.s = 2
  PROVE  Matched(CpuRun(c, Emit(bs, i)), VmStep(m, i, next))
<1>1. PICK x, f, r, sh : /\ Same(x, f, r) /\ sh = <<CallerFrame>>
                         /\ c = Cpu(x, f, sh, Nowhere) /\ m = Vm(r, f, sh, Nowhere)
  BY DEF Matched
<1>2. /\ Fills(x, 0..15) /\ Fills(f, Regs) /\ Fills(r, Regs)
      /\ \A v \in Regs : vm2x86[v] \in 0..15 /\ x[vm2x86[v]] = r[v]
  BY <1>1, Registers DEF Same
<1>3. ASSUME NEW y, NEW g, NEW q, Same(y, g, q), CpuRun(c, Emit(bs, i)) = Cpu(y, g, sh, Nowhere),
             VmStep(m, i, next) = Vm(q, g, sh, Nowhere)
      PROVE  Matched(CpuRun(c, Emit(bs, i)), VmStep(m, i, next))
  BY <1>1, <1>3 DEF Matched
<1>4. CASE i.op \in RRops
  <2>1. i.op \notin Floats \cup Shifts \cup {"neg", "mov_ri", "call", "ret", "throw", "halt"}
    BY <1>4 DEF RRops, Shifts, Floats
  <2>2. Emit(bs, i) = <<RR(Opcode[i.op], vm2x86[i.d], vm2x86[i.s])>>
    BY <1>4, <2>1 DEF Emit
  <2>3. /\ i.d \in Regs /\ i.s \in Regs
        /\ VmStep(m, i, next) = Vm(With(r, i.d, Combine(i.op, r[i.d], r[i.s])), f, sh, Nowhere)
    BY <1>1, <1>2, <1>4, BodyKinds, VmRegister
  <2> DEFINE d == vm2x86[i.d]
             s == vm2x86[i.s]
             value == Combine(i.op, r[i.d], r[i.s])
  <2>4. d \in 0..15 /\ s \in 0..15 /\ x[d] = r[i.d] /\ x[s] = r[i.s]
    BY <1>2, <2>3
  <2>5. CpuRun(c, Emit(bs, i)) = CpuStep(c, RR(Opcode[i.op], d, s))
    BY <2>2, RunOne
  <2> HIDE DEF d, s
  <2>6. CpuRun(c, Emit(bs, i)) = Cpu(With(x, d, value), f, sh, Nowhere)
    BY <1>1, <1>2, <1>4, <2>4, <2>5, CpuRR
  <2>7. Same(With(x, d, value), f, With(r, i.d, value))
    BY <1>1, <2>3, PutBoth DEF d
  <2> QED
    BY <1>3, <2>3, <2>6, <2>7
<1>5. CASE i.op \in Floats
  <2>1. i.op \notin RRops \cup Shifts \cup {"neg", "mov_ri", "call", "ret", "throw", "halt"}
    BY <1>5 DEF RRops, Shifts, Floats
  <2>2. Emit(bs, i) = <<RR(Opcode[i.op], i.d, i.s)>>
    BY <1>5, <2>1 DEF Emit
  <2> DEFINE g == With(f, i.d, Combine(i.op, f[i.d], f[i.s]))
  <2>3. i.d \in Regs /\ i.s \in Regs /\ VmStep(m, i, next) = Vm(r, g, sh, Nowhere)
    BY <1>1, <1>2, <1>5, BodyKinds, VmFloat
  <2>4. CpuRun(c, Emit(bs, i)) = CpuStep(c, RR(Opcode[i.op], i.d, i.s))
    BY <2>2, RunOne
  <2>5. CpuRun(c, Emit(bs, i)) = Cpu(x, g, sh, Nowhere)
    <3>1. CpuStep(Cpu(x, f, sh, Nowhere), RR(Opcode[i.op], i.d, i.s)) = Cpu(x, g, sh, Nowhere)
      <4> DEFINE o == i.op
                 d == i.d
                 s == i.s
      <4>1. o \in Floats /\ d \in Regs /\ s \in Regs
        BY <1>5, <2>3
      <4> HIDE DEF o, d, s
      <4>2. Fills(f, Regs)
        BY <1>2
      <4>3. CpuStep(Cpu(x, f, sh, Nowhere), RR(Opcode[o], d, s))
              = Cpu(x, With(f, d, Combine(o, f[d], f[s])), sh, Nowhere)
        BY <4>1, <4>2, CpuFloat
      <4> QED
        BY <4>3 DEF o, d, s
    <3> QED
      BY <1>1, <2>4, <3>1
  <2>6. Fills(g, Regs)
    BY <1>2 DEF Fills, With
  <2> HIDE DEF g
  <2>7. Same(x, g, r)
    BY <1>1, <2>6 DEF Same
  <2> QED
    BY <1>3, <2>3, <2>5, <2>7
<1>6. CASE i.op = "neg"
  <2>1. i.op \notin RRops \cup Shifts \cup Floats
    BY <1>6 DEF RRops, Shifts, Floats
  <2>2. Emit(bs, i) = <<RR("F7", 3, vm2x86[i.d])>>
    BY <1>6, <2>1 DEF Emit
  <2> DEFINE d == vm2x86[i.d]
             value == Negated(r[i.d])
  <2>3. i.d \in Regs /\ VmStep(m, i, next) = Vm(With(r, i.d, value), f, sh, Nowhere)
    BY <1>1, <1>2, <1>6, BodyKinds, VmNeg
  <2>4. d \in 0..15 /\ x[d] = r[i.d]
    BY <1>2, <2>3
  <2>5. CpuRun(c, Emit(bs, i)) = CpuStep(c, RR("F7", 3, d))
    BY <2>2, RunOne
  <2> HIDE DEF d
  <2>6. CpuRun(c, Emit(bs, i)) = Cpu(With(x, d, value), f, sh, Nowhere)
    BY <1>1, <1>2, <2>4, <2>5, CpuNeg
  <2>7. Same(With(x, d, value), f, With(r, i.d, value))
    BY <1>1, <2>3, PutBoth DEF d
  <2> QED
    BY <1>3, <2>3, <2>6, <2>7
<1>7. CASE i.op = "mov_ri"
  <2>1. i.op \notin RRops \cup Shifts \cup Floats
    BY <1>7 DEF RRops, Shifts, Floats
  <2>2. Emit(bs, i) = <<MovRI(vm2x86[i.d], <<"imm">>)>>
    BY <1>7, <2>1 DEF Emit
  <2> DEFINE d == vm2x86[i.d]
             value == <<"imm">>
  <2>3. i.d \in Regs /\ VmStep(m, i, next) = Vm(With(r, i.d, value), f, sh, Nowhere)
    BY <1>1, <1>2, <1>7, BodyKinds, VmImm
  <2>4. d \in 0..15
    BY <1>2, <2>3
  <2>5. CpuRun(c, Emit(bs, i)) = CpuStep(c, MovRI(d, value))
    BY <2>2, RunOne
  <2> HIDE DEF d
  <2>6. CpuRun(c, Emit(bs, i)) = Cpu(With(x, d, value), f, sh, Nowhere)
    BY <1>1, <1>2, <2>4, <2>5, CpuImm
  <2>7. Same(With(x, d, value), f, With(r, i.d, value))
    BY <1>1, <2>3, PutBoth DEF d
  <2> QED
    BY <1>3, <2>3, <2>6, <2>7
<1>8. CASE i.op \in Shifts
  <2>1. i.op \notin RRops \cup Floats \cup {"neg", "mov_ri", "call", "ret", "throw", "halt"}
    BY <1>8 DEF RRops, Shifts, Floats
  <2> DEFINE d == vm2x86[i.d]
             value == Shifted(i.op, r[i.d], r[2])
             first == RR("89", RCX, RCX)
             second == RR("D3", Extension[i.op], d)
  <2>2. Emit(bs, i) = <<first, second>>
    BY <1>8, <2>1, Registers DEF Emit
  <2>3. /\ i.d \in Regs /\ i.s = 2
        /\ VmStep(m, i, next) = Vm(With(r, i.d, Combine(i.op, r[i.d], r[i.s])), f, sh, Nowhere)
    BY <1>1, <1>2, <1>8, BodyKinds, VmRegister
  <2>4. Combine(i.op, r[i.d], r[i.s]) = value
    BY <1>8, <2>3 DEF Combine, Shifts, Shifted
  <2>5. d \in 0..15 /\ x[d] = r[i.d] /\ RCX \in 0..15 /\ x[RCX] = r[2]
    <3>1. 2 \in Regs
      BY DEF Regs
    <3> QED
      BY <1>2, <2>3, <3>1, Registers
  <2>6. CpuRun(c, Emit(bs, i)) = CpuStep(CpuStep(c, first), second)
    <3> HIDE DEF first, second
    <3> QED
      BY <2>2, RunTwo
  <2> HIDE DEF d
  <2>7. CpuStep(c, first) = c
    <3>1. CpuStep(c, first) = Cpu(With(x, RCX, x[RCX]), f, sh, Nowhere)
      BY <1>1, <1>2, <2>5, CpuStore
    <3>2. With(x, RCX, x[RCX]) = x
      BY <1>2 DEF Fills, With
    <3> QED
      BY <1>1, <3>1, <3>2
  <2>8. CpuRun(c, Emit(bs, i)) = Cpu(With(x, d, value), f, sh, Nowhere)
    BY <1>1, <1>2, <1>8, <2>5, <2>6, <2>7, CpuShift
  <2>9. Same(With(x, d, value), f, With(r, i.d, value))
    BY <1>1, <2>3, PutBoth DEF d
  <2> QED
    BY <1>3, <2>3, <2>4, <2>8, <2>9
<1> QED
  <2>1. i.op \in RRops \cup Shifts \cup Floats \cup {"neg", "mov_ri"}
    BY BodyKinds
  <2> QED
    BY <1>4, <1>5, <1>6, <1>7, <1>8, <2>1

-----------------------------------------------------------------------------
(* The instruction that ends a block *)

LEMMA AppendOne ==
  ASSUME NEW S, NEW s \in Seq(S), NEW e \in S, NEW t \in Seq(S),
         Len(t) = Len(s) + 1, t[Len(s) + 1] = e, \A i \in 1..Len(s) : t[i] = s[i]
  PROVE  Append(s, e) = t
<1>1. \A i \in 1..Len(t) : Append(s, e)[i] = t[i]
  <2>1. Append(s, e)[Len(s) + 1] = e
    BY AppendProperties
  <2>2. \A i \in 1..Len(s) : Append(s, e)[i] = s[i]
    BY AppendProperties
  <2> QED
    BY <2>1, <2>2
<1>2. Append(s, e) \in Seq(S)
  BY AppendProperties
<1>3. Len(Append(s, e)) = Len(s) + 1
  BY AppendProperties
<1> QED
  BY <1>1, <1>2, <1>3, SeqEqual, LenProperties

LEMMA AppendPair ==
  ASSUME NEW a, NEW b
  PROVE  Append(<<a>>, b) = <<a, b>>
<1> DEFINE S == {a, b}
           s == <<a>>
           t == <<a, b>>
<1>1. s \in Seq(S) /\ b \in S /\ Len(s) = 1 /\ s[1] = a
  OBVIOUS
<1>2. t \in Seq(S) /\ Len(t) = 2 /\ t[1] = a /\ t[2] = b
  OBVIOUS
<1> HIDE DEF s, t, S
<1>3. Len(t) = Len(s) + 1 /\ t[Len(s) + 1] = b /\ \A i \in 1..Len(s) : t[i] = s[i]
  BY <1>1, <1>2
<1>4. Append(s, b) = t
  BY <1>1, <1>2, <1>3, AppendOne
<1> QED
  BY <1>4 DEF s, t

\* Storing to a register changes no other.
LEMMA OthersKept ==
  ASSUME NEW x, Fills(x, 0..15), NEW k \in 0..15, NEW v
  PROVE  /\ Fills(With(x, k, v), 0..15) /\ With(x, k, v)[k] = v
         /\ \A n \in 0..15 : n # k => With(x, k, v)[n] = x[n]
<1>1. x = [n \in 0..15 |-> x[n]]
  BY DEF Fills
<1>2. With(x, k, v) = [n \in 0..15 |-> IF n = k THEN v ELSE x[n]]
  BY <1>1 DEF With
<1> HIDE DEF With
<1> QED
  BY <1>2 DEF Fills

LEMMA CallerFrameIs == CallerFrame = Frame(<<"caller err">>, <<"caller ok">>)
BY DEF CallerFrame, Frame

\* Where blocks leave to.
LEMMA Places ==
  /\ \A i : Tramp(i)[1] = "tramp" /\ Tramp(i)[2] = i /\ Tramp(i) # Nowhere
  /\ \A off : At(off) # <<"halt">>
  /\ Nowhere # <<"caller ok">> /\ Nowhere # <<"caller err">> /\ Nowhere # <<"halt">>
  /\ <<"halt">> # <<"caller ok">> /\ <<"halt">> # <<"caller err">>
  /\ Meant(<<"caller ok">>) = <<"caller ok">> /\ Meant(<<"caller err">>) = <<"caller err">>
  /\ Meant(<<"halt">>) = <<"halt">>
<1>1. ASSUME NEW i PROVE Tramp(i)[1] = "tramp" /\ Tramp(i)[2] = i /\ Tramp(i) # Nowhere
  <2>1. Tramp(i)[1] = "tramp" /\ Tramp(i)[2] = i
    BY DEF Tramp
  <2>2. Nowhere[1] = "nowhere"
    BY DEF Nowhere
  <2> QED
    BY <2>1, <2>2
<1>2. ASSUME NEW off PROVE At(off) # <<"halt">>
  <2>1. At(off)[1] = "at"
    BY DEF At
  <2>2. <<"halt">>[1] = "halt"
    OBVIOUS
  <2> QED
    BY <2>1, <2>2
<1>3. /\ Nowhere # <<"caller ok">> /\ Nowhere # <<"caller err">> /\ Nowhere # <<"halt">>
      /\ <<"halt">> # <<"caller ok">> /\ <<"halt">> # <<"caller err">>
  BY DEF Nowhere
<1>4. /\ Meant(<<"caller ok">>) = <<"caller ok">> /\ Meant(<<"caller err">>) = <<"caller err">>
      /\ Meant(<<"halt">>) = <<"halt">>
  BY DEF Meant
<1> QED
  BY <1>1, <1>2, <1>3, <1>4

\* A trampoline stands for the block that the table gives for its offset.
LEMMA TrampMeant ==
  ASSUME NEW off, Known(blocks, off)
  PROVE  Meant(Tramp(IndexOf(blocks, off))) = At(off)
<1> DEFINE i == IndexOf(blocks, off)
<1>1. i \in DOMAIN blocks /\ blocks[i].bc_offset = off
  BY DEF IndexOf, Known
<1> HIDE DEF i
<1>2. Tramp(i)[1] = "tramp" /\ Tramp(i)[2] = i
  BY Places
<1>3. Meant(Tramp(i)) = At(blocks[i].bc_offset)
  BY <1>2 DEF Meant
<1> QED
  BY <1>1, <1>3 DEF i

\* What Agree asks of the two machines.
LEMMA Agreement ==
  ASSUME NEW y, NEW f, NEW r, NEW s, NEW t, NEW j, NEW k,
         \A n \in Regs \ {0} : y[vm2x86[n]] = r[n],
         y[vm2x86[0]] = IF k = <<"halt">> THEN r[0] ELSE j,
         Meant(j) = k, Len(s) = Len(t),
         t # <<>> => Meant(Last(s).err) = Last(t).err,
         t # <<>> => Meant(Last(s).ok) = IF k = <<"halt">> THEN Last(t).ok ELSE k
  PROVE  Agree(Cpu(y, f, s, j), Vm(r, f, t, k))
BY DEF Agree, Cpu, Vm

\* RET and THROW take the last frame; each one of its addresses.
LEMMA VmReturns ==
  ASSUME NEW r, NEW f, NEW err, NEW ok, NEW next, NEW i, i.op = "ret"
  PROVE  VmStep(Vm(r, f, <<Frame(err, ok)>>, Nowhere), i, next) = Vm(r, f, <<>>, ok)
<1> DEFINE sh == <<Frame(err, ok)>>
           m == Vm(r, f, sh, Nowhere)
<1>1. Front(sh) = <<>> /\ Last(sh).ok = ok
  BY DEF Front, Last, Frame
<1> HIDE DEF sh
<1>2. m.shadow = sh
  BY DEF Vm
<1>3. [m EXCEPT !.shadow = Front(sh)] = Vm(r, f, Front(sh), Nowhere)
  BY DEF Vm
<1>4. \A t, k : Leave(Vm(r, f, t, Nowhere), k) = Vm(r, f, t, k)
  BY DEF Vm, Leave
<1> HIDE DEF m
<1>5. i.op \notin RRops \cup Shifts \cup Floats
  BY DEF RRops, Shifts, Floats
<1>6. VmStep(m, i, next) = Leave([m EXCEPT !.shadow = Front(m.shadow)], Last(m.shadow).ok)
  BY <1>5 DEF VmStep
<1>7. VmStep(m, i, next) = Vm(r, f, <<>>, ok)
  BY <1>1, <1>2, <1>3, <1>4, <1>6
<1> QED
  BY <1>7 DEF m, sh

LEMMA VmThrows ==
  ASSUME NEW r, NEW f, NEW err, NEW ok, NEW next, NEW i, i.op = "throw"
  PROVE  VmStep(Vm(r, f, <<Frame(err, ok)>>, Nowhere), i, next) = Vm(r, f, <<>>, err)
<1> DEFINE sh == <<Frame(err, ok)>>
           m == Vm(r, f, sh, Nowhere)
<1>1. Front(sh) = <<>> /\ Last(sh).err = err
  BY DEF Front, Last, Frame
<1> HIDE DEF sh
<1>2. m.shadow = sh
  BY DEF Vm
<1>3. [m EXCEPT !.shadow = Front(sh)] = Vm(r, f, Front(sh), Nowhere)
  BY DEF Vm
<1>4. \A t, k : Leave(Vm(r, f, t, Nowhere), k) = Vm(r, f, t, k)
  BY DEF Vm, Leave
<1> HIDE DEF m
<1>5. i.op \notin RRops \cup Shifts \cup Floats
  BY DEF RRops, Shifts, Floats
<1>6. VmStep(m, i, next) = Leave([m EXCEPT !.shadow = Front(m.shadow)], Last(m.shadow).err)
  BY <1>5 DEF VmStep
<1>7. VmStep(m, i, next) = Vm(r, f, <<>>, err)
  BY <1>1, <1>2, <1>3, <1>4, <1>6
<1> QED
  BY <1>7 DEF m, sh

LEMMA VmHalts ==
  ASSUME NEW r, NEW f, NEW sh, NEW next, NEW i, i.op = "halt"
  PROVE  VmStep(Vm(r, f, sh, Nowhere), i, next) = Vm(r, f, sh, <<"halt">>)
<1>1. i.op \notin RRops \cup Shifts \cup Floats
  BY DEF RRops, Shifts, Floats
<1>2. VmStep(Vm(r, f, sh, Nowhere), i, next) = Leave(Vm(r, f, sh, Nowhere), <<"halt">>)
  BY <1>1 DEF VmStep
<1> QED
  BY <1>2 DEF Leave, Vm

LEMMA VmCalls ==
  ASSUME NEW r, NEW f, NEW a, NEW next, NEW i, i.op = "call"
  PROVE  VmStep(Vm(r, f, <<a>>, Nowhere), i, next)
           = Vm(r, f, <<a, Frame(At(i.err), next)>>, At(i.ok))
<1> DEFINE sh == <<a>>
           m == Vm(r, f, sh, Nowhere)
           b == Frame(At(i.err), next)
<1>1. Append(sh, b) = <<a, b>>
  BY AppendPair
<1> HIDE DEF sh
<1>2. m.shadow = sh
  BY DEF Vm
<1> HIDE DEF b
<1>3. \A t : [m EXCEPT !.shadow = t] = Vm(r, f, t, Nowhere)
  BY DEF Vm
<1>4. \A t, k : Leave(Vm(r, f, t, Nowhere), k) = Vm(r, f, t, k)
  BY DEF Vm, Leave
<1> HIDE DEF m
<1>5. i.op \notin RRops \cup Shifts \cup Floats
  BY DEF RRops, Shifts, Floats
<1>6. VmStep(m, i, next) = Leave([m EXCEPT !.shadow = Append(m.shadow, b)], At(i.ok))
  BY <1>5 DEF VmStep, b, Frame
<1>7. VmStep(m, i, next) = Vm(r, f, <<a, b>>, At(i.ok))
  BY <1>1, <1>2, <1>3, <1>4, <1>6
<1> QED
  BY <1>7 DEF m, sh, b

\* The same for the processor.
LEMMA CpuReturns ==
  ASSUME NEW x, Fills(x, 0..15), NEW f, NEW err, NEW ok, NEW bs, NEW i
  PROVE  /\ i.op = "ret" => CpuRun(Cpu(x, f, <<Frame(err, ok)>>, Nowhere), Emit(bs, i))
                              = Cpu(With(x, RAX, ok), f, <<>>, ok)
         /\ i.op = "throw" => CpuRun(Cpu(x, f, <<Frame(err, ok)>>, Nowhere), Emit(bs, i))
                                = Cpu(With(x, RAX, err), f, <<>>, err)
<1> DEFINE sh == <<Frame(err, ok)>>
           c == Cpu(x, f, sh, Nowhere)
           last == Plain("jmp rax")
           pop == Plain("add r14, 16")
<1>1. Front(sh) = <<>> /\ Len(sh) = 1 /\ sh[1].ok = ok /\ sh[1].err = err
  BY DEF Front, Frame
<1> HIDE DEF sh
<1>2. RAX \in 0..15
  BY DEF RAX
<1>3. ASSUME NEW v
      PROVE  CpuStep(CpuStep(Cpu(With(x, RAX, v), f, sh, Nowhere), pop), last)
                = Cpu(With(x, RAX, v), f, <<>>, v)
  <2> DEFINE y == With(x, RAX, v)
  <2>1. Fills(y, 0..15) /\ y[RAX] = v
    BY <1>2, OthersKept
  <2> HIDE DEF y
  <2>2. CpuStep(Cpu(y, f, sh, Nowhere), pop) = Cpu(y, f, Front(sh), Nowhere)
    BY <2>1, CpuPops
  <2>3. CpuStep(Cpu(y, f, Front(sh), Nowhere), last) = Cpu(y, f, Front(sh), y[RAX])
    BY <2>1, CpuJumps
  <2> QED
    BY <1>1, <2>1, <2>2, <2>3 DEF y
<1>4. ASSUME i.op = "ret" PROVE CpuRun(c, Emit(bs, i)) = Cpu(With(x, RAX, ok), f, <<>>, ok)
  <2> DEFINE first == Plain("mov rax, [r14+8]")
  <2>1. Emit(bs, i) = <<first, pop, last>>
    BY <1>4 DEF Emit, RRops, Shifts, Floats
  <2>2. CpuRun(c, Emit(bs, i)) = CpuStep(CpuStep(CpuStep(c, first), pop), last)
    <3> HIDE DEF c, first, pop, last
    <3> QED
      BY <2>1, RunThree
  <2>3. CpuStep(c, first) = Cpu(With(x, RAX, ok), f, sh, Nowhere)
    BY <1>1, CpuLoadsOk
  <2> HIDE DEF c, first, pop, last
  <2> QED
    BY <1>3, <2>2, <2>3
<1>5. ASSUME i.op = "throw" PROVE CpuRun(c, Emit(bs, i)) = Cpu(With(x, RAX, err), f, <<>>, err)
  <2> DEFINE first == Plain("mov rax, [r14]")
  <2>1. Emit(bs, i) = <<first, pop, last>>
    BY <1>5 DEF Emit, RRops, Shifts, Floats
  <2>2. CpuRun(c, Emit(bs, i)) = CpuStep(CpuStep(CpuStep(c, first), pop), last)
    <3> HIDE DEF c, first, pop, last
    <3> QED
      BY <2>1, RunThree
  <2>3. CpuStep(c, first) = Cpu(With(x, RAX, err), f, sh, Nowhere)
    BY <1>1, CpuLoadsErr
  <2> HIDE DEF c, first, pop, last
  <2> QED
    BY <1>3, <2>2, <2>3
<1> QED
  BY <1>4, <1>5 DEF sh

\* HALT restores rbp, which holds no register of the program.
LEMMA CpuHaltsRun ==
  ASSUME NEW x, Fills(x, 0..15), NEW f, NEW sh, NEW bs, NEW i, i.op = "halt"
  PROVE  CpuRun(Cpu(x, f, sh, Nowhere), Emit(bs, i)) = Cpu(With(x, RBP, <<"popped">>), f, sh, <<"halt">>)
<1> DEFINE c == Cpu(x, f, sh, Nowhere)
           first == Plain("pop rbp")
           last == Plain("ret")
           y == With(x, RBP, <<"popped">>)
<1>1. Emit(bs, i) = <<first, last>>
  BY DEF Emit, RRops, Shifts, Floats
<1>2. CpuRun(c, Emit(bs, i)) = CpuStep(CpuStep(c, first), last)
  <2> HIDE DEF c, first, last
  <2> QED
    BY <1>1, RunTwo
<1>3. CpuStep(c, first) = Cpu(y, f, sh, Nowhere)
  BY CpuRestores
<1>4. Fills(y, 0..15)
  <2> DEFINE v == <<"popped">>
  <2>1. RBP \in 0..15
    BY DEF RBP
  <2> HIDE DEF v
  <2> QED
    BY <2>1, OthersKept DEF y
<1> HIDE DEF y
<1>5. CpuStep(Cpu(y, f, sh, Nowhere), last) = Cpu(y, f, sh, <<"halt">>)
  BY <1>4, CpuHalts
<1> HIDE DEF c, first, last
<1> QED
  BY <1>2, <1>3, <1>5 DEF c, y

\* CALL: the frame is pushed, filled by way of rax, and the callee jumped to.
LEMMA CpuCalls ==
  ASSUME NEW x, Fills(x, 0..15), NEW f, NEW a, NEW bs, NEW i, i.op = "call"
  PROVE  \E y : /\ y[RAX] = Tramp(IndexOf(bs, i.ok))
                /\ \A n \in 0..15 : n # RAX => y[n] = x[n]
                /\ CpuRun(Cpu(x, f, <<a>>, Nowhere), Emit(bs, i))
                     = Cpu(y, f, <<a, Frame(Tramp(IndexOf(bs, i.err)), Tramp(IndexOf(bs, i.ok)))>>,
                           Tramp(IndexOf(bs, i.ok)))
<1> DEFINE c == Cpu(x, f, <<a>>, Nowhere)
           e == Tramp(IndexOf(bs, i.err))
           k == Tramp(IndexOf(bs, i.ok))
           push == Plain("sub r14, 16")
           first == MovRI(RAX, e)
           second == Plain("mov [r14], rax")
           third == MovRI(RAX, k)
           fourth == Plain("mov [r14+8], rax")
           jump == Plain("jmp rax")
           none == <<"unset">>
           y == With(x, RAX, e)
           z == With(y, RAX, k)
<1>1. Emit(bs, i) = <<push, first, second, third, fourth, jump>>
  BY DEF Emit, EmitCall, RRops, Shifts, Floats
<1>2. CpuRun(c, Emit(bs, i))
        = CpuStep(CpuStep(CpuStep(CpuStep(CpuStep(CpuStep(c, push), first), second), third), fourth), jump)
  <2> HIDE DEF c, push, first, second, third, fourth, jump
  <2> QED
    BY <1>1, RunSix
<1>3. RAX \in 0..15
  BY DEF RAX
<1>4. CpuStep(c, push) = Cpu(x, f, <<a, Frame(none, none)>>, Nowhere)
  <2> DEFINE sh == <<a>>
  <2>1. CpuStep(c, push) = Cpu(x, f, Append(sh, Unset), Nowhere)
    <3>1. c = Cpu(x, f, sh, Nowhere)
      OBVIOUS
    <3> HIDE DEF sh, c
    <3> QED
      BY <3>1, CpuPushes
  <2>2. Append(sh, Unset) = <<a, Unset>>
    BY AppendPair
  <2>3. Unset = Frame(none, none)
    BY DEF Unset, Frame
  <2> HIDE DEF sh
  <2> QED
    BY <2>1, <2>2, <2>3
<1> HIDE DEF e, k, none
<1>5. Fills(y, 0..15) /\ y[RAX] = e /\ \A n \in 0..15 : n # RAX => y[n] = x[n]
  BY <1>3, OthersKept
<1>6. Fills(z, 0..15) /\ z[RAX] = k /\ \A n \in 0..15 : n # RAX => z[n] = y[n]
  <2> HIDE DEF y
  <2> QED
    BY <1>3, <1>5, OthersKept
<1>7. \A t : CpuStep(Cpu(x, f, t, Nowhere), first) = Cpu(y, f, t, Nowhere)
  BY <1>3, CpuImm
<1>8. \A t : CpuStep(Cpu(y, f, t, Nowhere), third) = Cpu(z, f, t, Nowhere)
  <2> HIDE DEF y
  <2> QED
    BY <1>3, <1>5, CpuImm
<1> HIDE DEF y, z
<1>9. CpuStep(Cpu(y, f, <<a, Frame(none, none)>>, Nowhere), second)
        = Cpu(y, f, <<a, Frame(e, none)>>, Nowhere)
  <2>1. CpuStep(Cpu(y, f, <<a, Frame(none, none)>>, Nowhere), second)
          = Cpu(y, f, <<a, Frame(y[RAX], none)>>, Nowhere)
    <3> HIDE DEF c, push, first, third, fourth, jump
    <3> QED
      BY <1>5, CpuStoresErr
  <2> QED
    BY <1>5, <2>1
<1>10. CpuStep(Cpu(z, f, <<a, Frame(e, none)>>, Nowhere), fourth) = Cpu(z, f, <<a, Frame(e, k)>>, Nowhere)
  <2>1. CpuStep(Cpu(z, f, <<a, Frame(e, none)>>, Nowhere), fourth)
          = Cpu(z, f, <<a, Frame(e, z[RAX])>>, Nowhere)
    <3> HIDE DEF c, push, first, second, third, jump
    <3> QED
      BY <1>6, CpuStoresOk
  <2> QED
    BY <1>6, <2>1
<1>11. \A t : CpuStep(Cpu(z, f, t, Nowhere), jump) = Cpu(z, f, t, k)
  BY <1>6, CpuJumps
<1> HIDE DEF c, push, first, second, third, fourth, jump
<1>12. CpuRun(c, Emit(bs, i)) = Cpu(z, f, <<a, Frame(e, k)>>, k)
  BY <1>2, <1>4, <1>7, <1>8, <1>9, <1>10, <1>11
<1> QED
  BY <1>5, <1>6, <1>12 DEF c, e, k

\* At the end of a block: the machines have left it, and Agree says how.
LEMMA EndMatched ==
  ASSUME NEW c, NEW m, Matched(c, m), NEW next, NEW i \in Instruction, i.op \in Enders,
         i.op = "call" => Known(blocks, i.ok) /\ Known(blocks, i.err)
  PROVE  /\ CpuRun(c, Emit(blocks, i)).jump # Nowhere
         /\ Agree(CpuRun(c, Emit(blocks, i)), VmStep(m, i, next))
<1> DEFINE ce == <<"caller err">>
           co == <<"caller ok">>
           halt == <<"halt">>
<1>1. PICK x, f, r : /\ Same(x, f, r)
                     /\ c = Cpu(x, f, <<CallerFrame>>, Nowhere) /\ m = Vm(r, f, <<CallerFrame>>, Nowhere)
  BY DEF Matched
<1>2. /\ Fills(x, 0..15)
      /\ \A v \in Regs : /\ vm2x86[v] \in 0..15 /\ x[vm2x86[v]] = r[v]
                         /\ vm2x86[v] # RBP /\ (vm2x86[v] = RAX <=> v = 0)
  BY <1>1, Registers DEF Same
<1>3. c = Cpu(x, f, <<Frame(ce, co)>>, Nowhere) /\ m = Vm(r, f, <<Frame(ce, co)>>, Nowhere)
  BY <1>1, CallerFrameIs
<1>4. RAX \in 0..15 /\ RBP \in 0..15 /\ 0 \in Regs
  BY DEF RAX, RBP, Regs
<1>5. /\ Nowhere # co /\ Nowhere # ce /\ Nowhere # halt /\ Meant(co) = co /\ Meant(ce) = ce
      /\ Meant(halt) = halt
  BY Places
<1>6. \A y, t, j : Cpu(y, f, t, j).jump = j
  BY DEF Cpu
<1>7. \A e, k : Frame(e, k).err = e /\ Frame(e, k).ok = k
  BY DEF Frame
<1> HIDE DEF ce, co
<1>8. CASE i.op = "ret"
  <2> DEFINE y == With(x, RAX, co)
  <2>1. CpuRun(c, Emit(blocks, i)) = Cpu(y, f, <<>>, co)
    BY <1>2, <1>3, <1>8, CpuReturns
  <2>2. VmStep(m, i, next) = Vm(r, f, <<>>, co)
    <3>1. VmStep(Vm(r, f, <<Frame(ce, co)>>, Nowhere), i, next) = Vm(r, f, <<>>, co)
      BY <1>8, VmReturns
    <3> QED
      BY <1>3, <3>1
  <2>3. y[RAX] = co /\ \A n \in 0..15 : n # RAX => y[n] = x[n]
    BY <1>2, <1>4, OthersKept
  <2> HIDE DEF y
  <2>4. co # <<"halt">>
    BY Places DEF co
  <2>5. y[vm2x86[0]] = co /\ \A n \in Regs \ {0} : y[vm2x86[n]] = r[n]
    BY <1>2, <1>4, <2>3
  <2>6. Agree(Cpu(y, f, <<>>, co), Vm(r, f, <<>>, co))
    <3> DEFINE t == <<>>
    <3>1. t = <<>>
      OBVIOUS
    <3> HIDE DEF t
    <3>2. Agree(Cpu(y, f, t, co), Vm(r, f, t, co))
      BY <1>5, <2>4, <2>5, <3>1, Agreement
    <3> QED
      BY <3>2 DEF t
  <2> QED
    BY <1>5, <1>6, <2>1, <2>2, <2>6
<1>9. CASE i.op = "throw"
  <2> DEFINE y == With(x, RAX, ce)
  <2>1. CpuRun(c, Emit(blocks, i)) = Cpu(y, f, <<>>, ce)
    BY <1>2, <1>3, <1>9, CpuReturns
  <2>2. VmStep(m, i, next) = Vm(r, f, <<>>, ce)
    <3>1. VmStep(Vm(r, f, <<Frame(ce, co)>>, Nowhere), i, next) = Vm(r, f, <<>>, ce)
      BY <1>9, VmThrows
    <3> QED
      BY <1>3, <3>1
  <2>3. y[RAX] = ce /\ \A n \in 0..15 : n # RAX => y[n] = x[n]
    BY <1>2, <1>4, OthersKept
  <2> HIDE DEF y
  <2>4. ce # <<"halt">>
    BY Places DEF ce
  <2>5. y[vm2x86[0]] = ce /\ \A n \in Regs \ {0} : y[vm2x86[n]] = r[n]
    BY <1>2, <1>4, <2>3
  <2>6. Agree(Cpu(y, f, <<>>, ce), Vm(r, f, <<>>, ce))
    <3> DEFINE t == <<>>
    <3>1. t = <<>>
      OBVIOUS
    <3> HIDE DEF t
    <3>2. Agree(Cpu(y, f, t, ce), Vm(r, f, t, ce))
      BY <1>5, <2>4, <2>5, <3>1, Agreement
    <3> QED
      BY <3>2 DEF t
  <2> QED
    BY <1>5, <1>6, <2>1, <2>2, <2>6
<1>10. CASE i.op = "halt"
  <2> DEFINE sh == <<Frame(ce, co)>>
             v == <<"popped">>
             y == With(x, RBP, v)
  <2>1. CpuRun(c, Emit(blocks, i)) = Cpu(y, f, sh, <<"halt">>)
    <3> HIDE DEF sh
    <3> QED
      BY <1>2, <1>3, <1>10, CpuHaltsRun DEF sh
  <2>2. VmStep(m, i, next) = Vm(r, f, sh, <<"halt">>)
    BY <1>3, <1>10, VmHalts
  <2>3. Len(sh) = 1 /\ Last(sh).err = ce /\ Last(sh).ok = co
    BY <1>7 DEF Last
  <2> HIDE DEF sh, v
  <2>4. \A n \in 0..15 : n # RBP => y[n] = x[n]
    BY <1>2, <1>4, OthersKept
  <2> HIDE DEF y
  <2>5. \A n \in Regs : y[vm2x86[n]] = r[n]
    BY <1>2, <2>4
  <2>6. y[vm2x86[0]] = r[0] /\ \A n \in Regs \ {0} : y[vm2x86[n]] = r[n]
    BY <1>4, <2>5
  <2>7. halt = <<"halt">>
    OBVIOUS
  <2> HIDE DEF halt
  <2>8. Agree(Cpu(y, f, sh, halt), Vm(r, f, sh, halt))
    BY <1>5, <2>3, <2>6, <2>7, Agreement
  <2> QED
    BY <1>5, <1>6, <2>1, <2>2, <2>8 DEF halt
<1>11. CASE i.op = "call"
  <2> DEFINE e == Tramp(IndexOf(blocks, i.err))
             k == Tramp(IndexOf(blocks, i.ok))
             a == Frame(ce, co)
             s == <<a, Frame(e, k)>>
             t == <<a, Frame(At(i.err), next)>>
  <2>1. PICK y : /\ y[RAX] = k /\ \A n \in 0..15 : n # RAX => y[n] = x[n]
                 /\ CpuRun(c, Emit(blocks, i)) = Cpu(y, f, s, k)
    <3> HIDE DEF a
    <3> QED
      BY <1>2, <1>3, <1>11, CpuCalls DEF a
  <2>2. VmStep(m, i, next) = Vm(r, f, t, At(i.ok))
    <3> HIDE DEF a
    <3> QED
      BY <1>3, <1>11, VmCalls DEF a
  <2>3. Meant(k) = At(i.ok) /\ Meant(e) = At(i.err)
    BY <1>11, TrampMeant
  <2>4. k # Nowhere /\ At(i.ok) # <<"halt">>
    BY Places
  <2>5. Len(s) = Len(t) /\ Last(s).err = e /\ Last(t).err = At(i.err) /\ Last(s).ok = k
    BY <1>7 DEF Last
  <2> HIDE DEF s, t, e, k
  <2>6. y[vm2x86[0]] = k /\ \A n \in Regs \ {0} : y[vm2x86[n]] = r[n]
    BY <1>2, <1>4, <2>1
  <2>7. Agree(Cpu(y, f, s, k), Vm(r, f, t, At(i.ok)))
    BY <2>3, <2>4, <2>5, <2>6, Agreement
  <2> QED
    BY <1>6, <2>1, <2>2, <2>4, <2>7
<1> QED
  BY <1>8, <1>9, <1>10, <1>11 DEF Enders

-----------------------------------------------------------------------------
(* What compiling leaves in the arena *)

\* An offset is at one place of the table, and stays there.
LEMMA IndexIs ==
  ASSUME NEW bs, GoodTable(bs), NEW i \in DOMAIN bs
  PROVE  IndexOf(bs, bs[i].bc_offset) = i
BY DEF IndexOf, GoodTable

\* The table cs has the offsets of bs where bs has them.
Above(bs, cs) == \A i \in DOMAIN bs : i \in DOMAIN cs /\ cs[i].bc_offset = bs[i].bc_offset

LEMMA IndexStays ==
  ASSUME NEW bs, NEW cs, GoodTable(bs), GoodTable(cs), Above(bs, cs), NEW off, Known(bs, off)
  PROVE  Known(cs, off) /\ IndexOf(cs, off) = IndexOf(bs, off)
<1>1. PICK i \in DOMAIN bs : bs[i].bc_offset = off
  BY DEF Known
<1>2. i \in DOMAIN cs /\ cs[i].bc_offset = off
  BY <1>1 DEF Above
<1>3. IndexOf(bs, off) = i
  BY <1>1, IndexIs
<1>4. IndexOf(cs, off) = i
  BY <1>2, IndexIs
<1> QED
  BY <1>2, <1>3, <1>4 DEF Known

\* The table matters to calls only, and to them only for its places.
LEMMA EmitSame ==
  ASSUME NEW bs, NEW cs, NEW i,
         i.op = "call" => IndexOf(bs, i.ok) = IndexOf(cs, i.ok) /\ IndexOf(bs, i.err) = IndexOf(cs, i.err)
  PROVE  Emit(bs, i) = Emit(cs, i)
<1>1. i.op = "call" => EmitCall(bs, i) = EmitCall(cs, i)
  BY DEF EmitCall
<1> QED
  BY <1>1 DEF Emit

LEMMA EmitLength ==
  ASSUME NEW bs, NEW i \in Instruction, i.op # "other"
  PROVE  Len(Emit(bs, i)) \in Nat
<1>1. \A u, v, w : Len(<<u>>) = 1 /\ Len(<<u, v>>) = 2 /\ Len(<<u, v, w>>) = 3
  OBVIOUS
<1>2. Len(EmitCall(bs, i)) = 6
  BY DEF EmitCall
<1>3. i.op \in RRops \cup Shifts \cup Floats \cup {"neg", "mov_ri"} \cup Enders
  BY DEF Instruction, Enders
<1>4. CASE i.op \in RRops
  BY <1>1, <1>4 DEF Emit, RRops, Shifts, Floats
<1>5. CASE i.op \in Floats
  BY <1>1, <1>5 DEF Emit, RRops, Shifts, Floats
<1>6. CASE i.op \in Shifts
  BY <1>1, <1>6 DEF Emit, RRops, Shifts, Floats
<1>7. CASE i.op \in {"neg", "mov_ri"}
  BY <1>1, <1>7 DEF Emit, RRops, Shifts, Floats
<1>8. CASE i.op \in Enders
  BY <1>1, <1>2, <1>8 DEF Emit, RRops, Shifts, Floats, Enders
<1> QED
  BY <1>3, <1>4, <1>5, <1>6, <1>7, <1>8

\* The code of the block at off is in the arena a, from at on.
Holds(bs, a, at, off) ==
  /\ at \in Nat /\ at + Len(Body(off)) <= Len(a)
  /\ Handled(off) /\ Callees(bs, off)
  /\ \A n \in 1..Len(Body(off)) : a[at + n] = Emit(bs, Body(off)[n])

\* It stays there when the table and the arena grow.
LEMMA HoldsStays ==
  ASSUME code \in Programs, NEW bs, NEW cs, GoodTable(bs), GoodTable(cs), Above(bs, cs),
         NEW a, NEW b, Len(a) \in Nat, Len(b) \in Nat, Len(a) <= Len(b),
         \A n \in 1..Len(a) : b[n] = a[n],
         NEW at, NEW off \in Code, Holds(bs, a, at, off)
  PROVE  Holds(cs, b, at, off)
<1> DEFINE L == Len(Body(off))
           last == Body(off)[L]
<1>1. /\ L \in Nat \ {0} /\ last.op \in Enders
      /\ \A k \in 1..(L - 1) : Body(off)[k].op \notin Enders
  BY BodyTyped
<1>2. /\ at \in Nat /\ at + L <= Len(a) /\ Handled(off)
      /\ last.op = "call" => Known(bs, last.ok) /\ Known(bs, last.err)
      /\ \A n \in 1..L : a[at + n] = Emit(bs, Body(off)[n])
  BY DEF Holds, Callees
<1>3. Callees(cs, off)
  <2>1. last.op = "call" => Known(cs, last.ok) /\ Known(cs, last.err)
    <3> HIDE DEF last
    <3> QED
      BY <1>2, IndexStays
  <2> QED
    BY <2>1 DEF Callees
<1>4. ASSUME NEW n \in 1..L PROVE b[at + n] = Emit(cs, Body(off)[n])
  <2> DEFINE i == Body(off)[n]
  <2>1. at + n \in 1..Len(a)
    <3> HIDE DEF L
    <3> QED
      BY <1>1, <1>2
  <2>2. i.op = "call" => n = L
    <3>1. "call" \in Enders
      BY DEF Enders
    <3>2. n \in 1..(L - 1) \/ n = L
      <4> HIDE DEF L
      <4> QED
        BY <1>1
    <3> QED
      BY <1>1, <3>1, <3>2
  <2>3. i.op = "call" => Known(bs, i.ok) /\ Known(bs, i.err)
    BY <1>2, <2>2
  <2> HIDE DEF i, L, last
  <2>4. Emit(cs, i) = Emit(bs, i)
    BY <2>3, IndexStays, EmitSame
  <2>5. a[at + n] = Emit(bs, i)
    BY <1>2 DEF i
  <2> QED
    BY <2>1, <2>4, <2>5 DEF i
<1>5. at + L <= Len(b)
  <2> HIDE DEF L
  <2> QED
    BY <1>1, <1>2
<1> QED
  BY <1>2, <1>3, <1>4, <1>5 DEF Holds

\* The second inductive invariant: every compiled block has its code in the arena.
Compiled ==
  /\ \A n \in 1..Len(arena) : Len(arena[n]) \in Nat
  /\ \A i \in DOMAIN blocks : blocks[i].native.kind = "native" =>
       Holds(blocks, arena, blocks[i].native.at, blocks[i].bc_offset)

LEMMA InitCompiled == Init => Compiled
<1> SUFFICES ASSUME Init PROVE Compiled
  OBVIOUS
<1>1. Len(arena) = 0 /\ DOMAIN blocks = {}
  BY DEF Init
<1> QED
  BY <1>1 DEF Compiled

\* The table that is left, and the arena.
LEMMA PatchedAbove ==
  ASSUME NEW bs, GoodTable(bs), NEW off, Known(bs, off), NEW at \in Nat, moves \in Nat
  PROVE  LET cs == Patched(bs, off, at)
             k == IndexOf(bs, off)
         IN /\ Above(bs, cs) /\ DOMAIN cs = DOMAIN bs
            /\ k \in DOMAIN bs /\ bs[k].bc_offset = off /\ cs[k].native = Native(at)
            /\ \A i \in DOMAIN bs : i # k => cs[i].native = bs[i].native
<1> DEFINE i == IndexOf(bs, off)
           b == [bs[i] EXCEPT !.native = Native(at), !.target = Native(at)]
           new == [bs EXCEPT ![i] = b]
<1>1. i \in DOMAIN bs /\ bs[i].bc_offset = off
  BY DEF IndexOf, Known
<1>2. bs[i] \in Block
  <2> HIDE DEF i
  <2> QED
    BY <1>1 DEF GoodTable
<1>3. b.bc_offset = bs[i].bc_offset /\ b.native = Native(at)
  <2> HIDE DEF i
  <2> QED
    BY <1>2 DEF Block
<1>4. Patched(bs, off, at) = new
  <2> HIDE DEF i
  <2>1. Patched(bs, off, at) = [bs EXCEPT ![i].native = Native(at), ![i].target = Native(at)]
    BY DEF Patched, i
  <2> QED
    BY <1>1, <1>2, <2>1 DEF Block, GoodTable
<1> HIDE DEF b, i
<1>5. DOMAIN new = DOMAIN bs /\ new[i] = b /\ \A k \in DOMAIN bs : k # i => new[k] = bs[k]
  <2>1. Len(new) = Len(bs) /\ new[i] = b /\ \A k \in DOMAIN bs : k # i => new[k] = bs[k]
    BY <1>1, <1>2, <1>3 DEF GoodTable
  <2> QED
    BY <2>1
<1> HIDE DEF new
<1> QED
  BY <1>1, <1>3, <1>4, <1>5 DEF Above, i

\* Compiling adds the code of one block at the end.
LEMMA ArenaGrows ==
  ASSUME IInv, NEW off \in Code, Compile(off)
  PROVE  LET L == Len(Body(off)) IN
         /\ Len(arena) \in Nat /\ Len(arena') = Len(arena) + L
         /\ \A n \in 1..Len(arena) : arena'[n] = arena[n]
         /\ \A n \in 1..L : arena'[Len(arena) + n] = Emit(Table(off), Body(off)[n])
<1> DEFINE L == Len(Body(off))
           e == [n \in DOMAIN Body(off) |-> Emit(Table(off), Body(off)[n])]
<1>1. PICK S : arena \in Seq(S)
  BY DEF IInv
<1>2. L \in Nat \ {0} /\ DOMAIN Body(off) = 1..L
  BY BodyTyped DEF IInv
<1> DEFINE T == S \cup {Emit(Table(off), Body(off)[k]) : k \in 1..L}
<1>3. e \in [1..L -> T] /\ \A n \in 1..L : e[n] = Emit(Table(off), Body(off)[n])
  BY <1>2
<1>4. S \subseteq T
  OBVIOUS
<1>5. arena' = arena \o e
  BY DEF Compile
<1> HIDE DEF e, T, L
<1>6. e \in Seq(T) /\ Len(e) = L /\ arena \in Seq(T)
  BY <1>1, <1>2, <1>3, <1>4
<1>7. Len(arena') = Len(arena) + L /\ Len(arena) \in Nat
  <2>1. Len(arena \o e) = Len(arena) + Len(e)
    BY <1>6, ConcatProperties
  <2>2. Len(arena) \in Nat
    BY <1>6
  <2> QED
    BY <1>5, <1>6, <2>1, <2>2
<1>8. \A n \in 1..Len(arena) : arena'[n] = arena[n]
  BY <1>2, <1>5, <1>6, <1>7
<1>9. \A n \in 1..L : arena'[Len(arena) + n] = e[n]
  BY <1>2, <1>5, <1>6, <1>7
<1> QED
  BY <1>3, <1>7, <1>8, <1>9 DEF L

LEMMA CompileCompiled ==
  ASSUME IInv, Compiled, NEW off \in Code, Compile(off)
  PROVE  Compiled'
<1> DEFINE T == Table(off)
           L == Len(Body(off))
           at == Len(arena)
           k == IndexOf(T, off)
<1>1. GoodTable(T) /\ Known(T, off) /\ Longer(blocks, T) /\ Callees(T, off)
  BY TableKeeps, TableLonger
<1>2. /\ at \in Nat /\ Len(arena') = at + L
      /\ \A n \in 1..at : arena'[n] = arena[n]
      /\ \A n \in 1..L : arena'[at + n] = Emit(T, Body(off)[n])
  BY ArenaGrows
<1>3. /\ L \in Nat \ {0} /\ DOMAIN Body(off) = 1..L
      /\ \A n \in 1..L : Body(off)[n] \in Instruction
  BY BodyTyped DEF IInv
<1>4. blocks' = Patched(T, off, at) /\ Handled(off) /\ code' = code /\ moves \in Nat /\ code \in Programs
  BY DEF Compile, IInv
<1>5. GoodTable(blocks')
  BY CompileKeeps DEF IInv
<1> HIDE DEF T, at, L
<1>6. /\ Above(T, blocks') /\ DOMAIN blocks' = DOMAIN T
      /\ k \in DOMAIN T /\ T[k].bc_offset = off /\ blocks'[k].native = Native(at)
      /\ \A i \in DOMAIN T : i # k => blocks'[i].native = T[i].native
  BY <1>1, <1>2, <1>4, PatchedAbove
<1>7. ASSUME NEW n \in 1..Len(arena') PROVE Len(arena'[n]) \in Nat
  <2>1. CASE n \in 1..at
    BY <1>2, <2>1 DEF Compiled, at
  <2>2. CASE n \notin 1..at
    <3>1. n - at \in 1..L /\ at + (n - at) = n
      BY <1>2, <1>3, <2>2
    <3>2. arena'[n] = Emit(T, Body(off)[n - at])
      BY <1>2, <3>1
    <3>3. Body(off)[n - at].op # "other"
      BY <1>3, <1>4, <3>1 DEF Handled
    <3> QED
      BY <1>3, <3>1, <3>2, <3>3, EmitLength
  <2> QED
    BY <2>1, <2>2
<1>8. Holds(T, arena', at, off)
  BY <1>1, <1>2, <1>3, <1>4 DEF Holds, L
<1>9. Len(arena') \in Nat /\ at <= Len(arena')
  BY <1>2, <1>3
<1>10. Holds(blocks', arena', at, off)
  <2>1. code \in Programs /\ GoodTable(T) /\ GoodTable(blocks') /\ Above(T, blocks')
    BY <1>1, <1>4, <1>5, <1>6
  <2>2. /\ Len(arena') \in Nat /\ Len(arena') <= Len(arena')
        /\ \A n \in 1..Len(arena') : arena'[n] = arena'[n]
    BY <1>9
  <2> QED
    BY <1>8, <2>1, <2>2, HoldsStays
<1>11. Above(blocks, blocks')
  BY <1>1, <1>6 DEF Longer, Above
<1>12. ASSUME NEW i \in DOMAIN blocks', blocks'[i].native.kind = "native"
       PROVE  Holds(blocks', arena', blocks'[i].native.at, blocks'[i].bc_offset)
  <2>1. CASE i = k
    <3>1. Native(at).at = at
      BY DEF Native
    <3>2. blocks'[k].bc_offset = off
      BY <1>6 DEF Above
    <3> QED
      BY <1>6, <1>10, <2>1, <3>1, <3>2
  <2>2. CASE i # k
    <3>1. i \in DOMAIN T /\ T[i].native = blocks'[i].native
      BY <1>6, <2>2
    <3>2. NULL.kind # "native"
      BY DEF NULL
    <3>3. i \in DOMAIN blocks /\ T[i] = blocks[i]
      BY <1>1, <1>12, <3>1, <3>2 DEF Longer
    <3>4. blocks'[i].native = blocks[i].native /\ blocks'[i].bc_offset = blocks[i].bc_offset
      BY <1>11, <3>1, <3>3 DEF Above
    <3>5. Holds(blocks, arena, blocks[i].native.at, blocks[i].bc_offset)
      <4>1. blocks[i].native.kind = "native"
        BY <1>12, <3>4
      <4> QED
        BY <3>3, <4>1 DEF Compiled
    <3>6. blocks[i].bc_offset \in Code
      <4>1. blocks[i] \in Block
        BY <3>3 DEF IInv, GoodTable
      <4> QED
        BY <4>1 DEF Block
    <3>7. Holds(blocks', arena', blocks[i].native.at, blocks[i].bc_offset)
      <4> DEFINE p == blocks[i].native.at
                 o == blocks[i].bc_offset
      <4>1. Holds(blocks, arena, p, o) /\ o \in Code /\ GoodTable(blocks)
        BY <3>5, <3>6 DEF IInv
      <4>2. Len(arena) \in Nat /\ Len(arena) <= Len(arena') /\ \A n \in 1..Len(arena) : arena'[n] = arena[n]
        BY <1>2, <1>9 DEF at
      <4> HIDE DEF p, o
      <4>3. Holds(blocks', arena', p, o)
        BY <1>4, <1>5, <1>9, <1>11, <4>1, <4>2, HoldsStays
      <4> QED
        BY <4>3 DEF p, o
    <3> QED
      BY <3>4, <3>7
  <2> QED
    BY <2>1, <2>2
<1>13. ASSUME NEW i \in DOMAIN blocks', blocks'[i].native.kind = "native"
       PROVE  Holds(blocks, arena, blocks[i].native.at, blocks[i].bc_offset)'
  <2>1. Holds(blocks', arena', blocks'[i].native.at, blocks'[i].bc_offset)
    BY <1>12, <1>13
  <2>2. Body(blocks[i].bc_offset)' = Body(blocks'[i].bc_offset)
    <3>1. EndOf(blocks[i].bc_offset)' = EndOf(blocks'[i].bc_offset)
      BY <1>4 DEF EndOf
    <3> QED
      BY <1>4, <3>1 DEF Body
  <2>3. Handled(blocks[i].bc_offset)' <=> Handled(blocks'[i].bc_offset)
    BY <2>2 DEF Handled
  <2>4. Callees(blocks, blocks[i].bc_offset)' <=> Callees(blocks', blocks'[i].bc_offset)
    BY <2>2 DEF Callees
  <2> QED
    BY <2>1, <2>2, <2>3, <2>4 DEF Holds
<1> QED
  BY <1>7, <1>13 DEF Compiled

\* A fault leaves the arena as it is, and adds blocks without code to the table.
LEMMA FaultCompiled ==
  ASSUME IInv, Compiled, NEW off \in Code, WriteFault(off)
  PROVE  Compiled'
<1>1. code' = code /\ arena' = arena /\ code \in Programs /\ GoodTable(blocks)
  BY DEF WriteFault, IInv
<1>2. GoodTable(blocks') /\ Longer(blocks, blocks')
  BY FaultLonger
<1>3. Above(blocks, blocks')
  BY <1>2 DEF Longer, Above
<1>4. ASSUME NEW n \in 1..Len(arena') PROVE Len(arena'[n]) \in Nat
  BY <1>1 DEF Compiled
<1>5. ASSUME NEW i \in DOMAIN blocks', blocks'[i].native.kind = "native"
      PROVE  Holds(blocks', arena', blocks'[i].native.at, blocks'[i].bc_offset)
  <2>1. i \in DOMAIN blocks /\ blocks'[i] = blocks[i]
    BY <1>2, <1>5 DEF Longer, NULL
  <2> DEFINE p == blocks[i].native.at
             o == blocks[i].bc_offset
  <2>2. Holds(blocks, arena, p, o)
    BY <1>5, <2>1 DEF Compiled
  <2>3. o \in Code
    <3>1. blocks[i] \in Block
      BY <1>1, <2>1 DEF GoodTable
    <3> QED
      BY <3>1 DEF Block
  <2>4. Len(arena) \in Nat
    BY DEF IInv
  <2> HIDE DEF p, o
  <2>5. Holds(blocks', arena, p, o)
    <3>1. Len(arena) <= Len(arena) /\ \A n \in 1..Len(arena) : arena[n] = arena[n]
      BY <2>4
    <3> QED
      BY <1>1, <1>2, <1>3, <2>2, <2>3, <2>4, <3>1, HoldsStays
  <2> QED
    BY <1>1, <2>1, <2>5 DEF p, o
<1>6. ASSUME NEW i \in DOMAIN blocks', blocks'[i].native.kind = "native"
      PROVE  Holds(blocks, arena, blocks[i].native.at, blocks[i].bc_offset)'
  <2>1. Holds(blocks', arena', blocks'[i].native.at, blocks'[i].bc_offset)
    BY <1>5, <1>6
  <2>2. Body(blocks[i].bc_offset)' = Body(blocks'[i].bc_offset)
    <3>1. EndOf(blocks[i].bc_offset)' = EndOf(blocks'[i].bc_offset)
      BY <1>1 DEF EndOf
    <3> QED
      BY <1>1, <3>1 DEF Body
  <2>3. Handled(blocks[i].bc_offset)' <=> Handled(blocks'[i].bc_offset)
    BY <2>2 DEF Handled
  <2>4. Callees(blocks, blocks[i].bc_offset)' <=> Callees(blocks', blocks'[i].bc_offset)
    BY <2>2 DEF Callees
  <2> QED
    BY <2>1, <2>2, <2>3, <2>4 DEF Holds
<1> QED
  BY <1>4, <1>6 DEF Compiled

LEMMA NextCompiled == IInv /\ Compiled /\ [Next]_vars => Compiled'
<1> SUFFICES ASSUME IInv, Compiled, [Next]_vars PROVE Compiled'
  OBVIOUS
<1>1. ASSUME UNCHANGED <<code, blocks, arena>> PROVE Compiled'
  <2>1. ASSUME NEW n \in 1..Len(arena') PROVE Len(arena'[n]) \in Nat
    BY <1>1 DEF Compiled
  <2>2. ASSUME NEW i \in DOMAIN blocks', blocks'[i].native.kind = "native"
        PROVE  Holds(blocks, arena, blocks[i].native.at, blocks[i].bc_offset)'
    <3>1. i \in DOMAIN blocks /\ blocks[i].native.kind = "native"
      BY <1>1, <2>2
    <3>2. Holds(blocks', arena', blocks'[i].native.at, blocks'[i].bc_offset)
      BY <1>1, <3>1 DEF Compiled
    <3>3. Body(blocks[i].bc_offset)' = Body(blocks'[i].bc_offset)
      <4>1. EndOf(blocks[i].bc_offset)' = EndOf(blocks'[i].bc_offset)
        BY <1>1 DEF EndOf
      <4> QED
        BY <1>1, <4>1 DEF Body
    <3>4. Handled(blocks[i].bc_offset)' <=> Handled(blocks'[i].bc_offset)
      BY <3>3 DEF Handled
    <3>5. Callees(blocks, blocks[i].bc_offset)' <=> Callees(blocks', blocks'[i].bc_offset)
      BY <3>3 DEF Callees
    <3> QED
      BY <3>2, <3>3, <3>4, <3>5 DEF Holds
  <2> QED
    BY <2>1, <2>2 DEF Compiled
<1>2. ASSUME NEW off \in Code, WriteFault(off) \/ Refuse(off) PROVE Compiled'
  BY <1>1, <1>2, FaultCompiled DEF Refuse
<1>3. ASSUME NEW off \in Code, Compile(off) PROVE Compiled'
  BY <1>3, CompileCompiled
<1>4. CASE UNCHANGED vars
  BY <1>1, <1>4 DEF vars
<1> QED
  BY <1>2, <1>3, <1>4 DEF Next

-----------------------------------------------------------------------------
(* Running a compiled block *)

\* Code behind the end of the block is not reached.
LEMMA RunLeft ==
  ASSUME NEW c, c.jump # Nowhere, NEW units, Len(units) \in Nat
  PROVE  CpuRun(c, units) = c
<1>0. Len(units) \in Nat
  OBVIOUS
<1>1. PICK f : Steps(f, c, units) /\ CpuRun(c, units) = f[Len(units)]
  BY <1>0, CpuRuns
<1> DEFINE S == {n \in Nat : n <= Len(units) => f[n] = c}
<1>2. 0 \in S
  BY <1>1 DEF Steps
<1>3. ASSUME NEW n \in Nat, n \in S PROVE n + 1 \in S
  <2> SUFFICES ASSUME n + 1 <= Len(units) PROVE f[n + 1] = c
    OBVIOUS
  <2>1. f[n] = c
    BY <1>3
  <2>2. n + 1 \in 1..Len(units) /\ n + 1 - 1 = n
    OBVIOUS
  <2>3. f[n + 1] = CpuStep(f[n], units[n + 1])
    BY <1>1, <2>2 DEF Steps
  <2> QED
    BY <2>1, <2>3, CpuLeft
<1>4. Nat \subseteq S
  <2> HIDE DEF S
  <2> QED
    BY <1>2, <1>3, SetInduction
<1>5. f[Len(units)] = c
  BY <1>4
<1> QED
  BY <1>1, <1>5

\* The arena, read where the code of a block is, leaves what Agree says.
LEMMA BlockAgrees ==
  ASSUME IInv, Compiled, NEW i \in DOMAIN blocks, blocks[i].native.kind = "native",
         ShiftsByCx(blocks[i].bc_offset)
  PROVE  Agree(Executed(blocks[i].native.at), Interpreted(blocks[i].bc_offset))
<1> DEFINE off == blocks[i].bc_offset
           at == blocks[i].native.at
           L == Len(Body(off))
<1>1. off \in Code
  <2>1. blocks[i] \in Block
    BY DEF IInv, GoodTable
  <2> QED
    BY <2>1 DEF Block
<1>2. Holds(blocks, arena, at, off) /\ ShiftsByCx(off)
  BY DEF Compiled
<1> HIDE DEF off, at
<1>3. /\ L \in Nat \ {0} /\ DOMAIN Body(off) = 1..L
      /\ \A n \in 1..L : Body(off)[n] \in Instruction
      /\ Body(off)[L].op \in Enders
      /\ \A n \in 1..(L - 1) : Body(off)[n].op \notin Enders
  BY <1>1, BodyTyped DEF IInv
<1>4. /\ at \in Nat /\ at + L <= Len(arena)
      /\ \A n \in 1..L : arena[at + n] = Emit(blocks, Body(off)[n])
      /\ \A n \in 1..L : Body(off)[n].op # "other"
      /\ \A n \in 1..L : Body(off)[n].op \in Shifts => Body(off)[n].s = 2
  BY <1>2, <1>3 DEF Holds, Handled, ShiftsByCx
<1>5. Body(off)[L].op = "call" => Known(blocks, Body(off)[L].ok) /\ Known(blocks, Body(off)[L].err)
  BY <1>2 DEF Holds, Callees
<1>6. Len(arena) \in Nat /\ \A n \in 1..Len(arena) : Len(arena[n]) \in Nat
  BY DEF Compiled, IInv
<1> DEFINE b == Body(off)
           end == Len(arena)
<1>7. at <= end
  <2> HIDE DEF L, end
  <2> QED
    BY <1>3, <1>4, <1>6 DEF end
<1>8. PICK f : /\ f[at] = CpuStart
               /\ \A n \in (at + 1)..end : f[n] = CpuRun(f[n - 1], arena[n])
               /\ Executed(at) = f[end]
  BY <1>4, <1>6, <1>7, ExecutedRuns
<1>9. PICK g : /\ g[0] = VmStart
               /\ \A n \in 1..L : g[n] = VmStep(g[n - 1], b[n], At(off + n))
               /\ Interpreted(off) = g[L]
  BY <1>3, InterpretedRuns
<1> HIDE DEF L, b, end
<1>10. ASSUME NEW n \in 1..L
       PROVE  /\ f[at + n] = CpuRun(f[at + (n - 1)], Emit(blocks, b[n]))
              /\ g[n] = VmStep(g[n - 1], b[n], At(off + n))
  <2>1. at + n \in (at + 1)..end /\ at + n - 1 = at + (n - 1)
    BY <1>3, <1>4, <1>6 DEF end
  <2>2. arena[at + n] = Emit(blocks, b[n])
    BY <1>4 DEF b
  <2>3. f[at + n] = CpuRun(f[at + n - 1], arena[at + n])
    <3>1. PICK k \in (at + 1)..end : k = at + n
      BY <2>1
    <3>2. f[k] = CpuRun(f[k - 1], arena[k])
      BY <1>8
    <3>3. f[k] = f[at + n] /\ arena[k] = arena[at + n]
      BY <3>1, Zenon
    <3>4. k - 1 = at + n - 1
      BY <1>3, <1>4, <3>1
    <3> QED
      BY <3>2, <3>3, <3>4, Zenon
  <2>4. g[n] = VmStep(g[n - 1], b[n], At(off + n))
    BY <1>9
  <2> QED
    BY <2>1, <2>2, <2>3, <2>4
<1> DEFINE S == {n \in Nat : n < L => Matched(f[at + n], g[n])}
<1>11. 0 \in S
  BY <1>4, <1>8, <1>9, StartMatched
<1>12. ASSUME NEW n \in Nat, n \in S PROVE n + 1 \in S
  <2> SUFFICES ASSUME n + 1 < L PROVE Matched(f[at + (n + 1)], g[n + 1])
    OBVIOUS
  <2>1. Matched(f[at + n], g[n])
    BY <1>3, <1>12
  <2>2. n + 1 \in 1..L /\ n + 1 \in 1..(L - 1) /\ n + 1 - 1 = n
    BY <1>3
  <2>3. /\ b[n + 1] \in Instruction /\ b[n + 1].op \notin Enders \cup {"other"}
        /\ b[n + 1].op \in Shifts => b[n + 1].s = 2
    BY <1>3, <1>4, <2>2 DEF b
  <2>4. Matched(CpuRun(f[at + n], Emit(blocks, b[n + 1])), VmStep(g[n], b[n + 1], At(off + (n + 1))))
    BY <2>1, <2>3, BodyMatched
  <2> QED
    BY <1>10, <2>2, <2>4
<1>13. Matched(f[at + (L - 1)], g[L - 1])
  <2>1. Nat \subseteq S
    <3> HIDE DEF S
    <3> QED
      BY <1>11, <1>12, SetInduction
  <2>2. L - 1 \in Nat /\ L - 1 < L
    BY <1>3
  <2> QED
    BY <2>1, <2>2
<1>14. f[at + L].jump # Nowhere /\ Agree(f[at + L], g[L])
  <2>1. L \in 1..L
    BY <1>3
  <2>2. b[L] \in Instruction /\ b[L].op \in Enders
    BY <1>3, <2>1 DEF b
  <2>3. b[L].op = "call" => Known(blocks, b[L].ok) /\ Known(blocks, b[L].err)
    BY <1>5 DEF b
  <2>4. /\ CpuRun(f[at + (L - 1)], Emit(blocks, b[L])).jump # Nowhere
        /\ Agree(CpuRun(f[at + (L - 1)], Emit(blocks, b[L])), VmStep(g[L - 1], b[L], At(off + L)))
    BY <1>13, <2>2, <2>3, EndMatched
  <2> QED
    BY <1>10, <2>1, <2>4
<1> DEFINE c == f[at + L]
           R == {n \in Nat : at + L + n <= end => f[at + L + n] = c}
<1>15. 0 \in R
  BY <1>3, <1>4
<1>16. ASSUME NEW n \in Nat, n \in R PROVE n + 1 \in R
  <2> SUFFICES ASSUME at + L + (n + 1) <= end PROVE f[at + L + (n + 1)] = c
    OBVIOUS
  <2> HIDE DEF c
  <2>1. /\ at + L + (n + 1) \in (at + 1)..end /\ at + L + (n + 1) \in 1..end
        /\ at + L + (n + 1) - 1 = at + L + n /\ at + L + n <= end
    BY <1>3, <1>4, <1>6 DEF end
  <2>2. f[at + L + n] = c
    BY <1>16, <2>1
  <2>3. f[at + L + (n + 1)] = CpuRun(c, arena[at + L + (n + 1)])
    <3>1. PICK k \in (at + 1)..end : k = at + L + (n + 1)
      BY <2>1
    <3>2. f[k] = CpuRun(f[k - 1], arena[k])
      BY <1>8
    <3>3. f[k] = f[at + L + (n + 1)] /\ arena[k] = arena[at + L + (n + 1)]
      BY <3>1, Zenon
    <3>4. k - 1 = at + L + n
      BY <1>3, <1>4, <3>1
    <3> QED
      BY <2>2, <3>2, <3>3, <3>4, Zenon
  <2>4. Len(arena[at + L + (n + 1)]) \in Nat
    BY <1>6, <2>1 DEF end
  <2>5. c.jump # Nowhere
    BY <1>14 DEF c
  <2> QED
    BY <2>3, <2>4, <2>5, RunLeft
<1>17. f[end] = c
  <2>1. Nat \subseteq R
    <3> HIDE DEF R
    <3> QED
      BY <1>15, <1>16, SetInduction
  <2>2. end - (at + L) \in Nat /\ at + L + (end - (at + L)) = end
    BY <1>3, <1>4, <1>6 DEF end
  <2> HIDE DEF c
  <2>3. end - (at + L) \in R
    BY <2>1, <2>2
  <2> QED
    BY <1>6, <2>2, <2>3 DEF end
<1> QED
  BY <1>8, <1>9, <1>14, <1>17 DEF off, at

\* A block whose address is current leaves what Agree says, after whatever else was
\* compiled (jit.c:128-258 against vm.c): all but ax and the address to return to as
\* the interpreter does, if the block shifts by cx only.
THEOREM CompilerSafety == Spec => []ComputesAsInterpreted
<1>1. Init => Compiled
  BY InitCompiled
<1>2. IInv /\ IInv' /\ Compiled /\ [Next]_vars => Compiled'
  BY NextCompiled
<1>3. IInv /\ Compiled => ComputesAsInterpreted
  <2> SUFFICES ASSUME IInv, Compiled,
                      NEW i \in DOMAIN blocks, Current(blocks[i]), ShiftsByCx(blocks[i].bc_offset)
               PROVE  Agree(Executed(blocks[i].native.at), Interpreted(blocks[i].bc_offset))
    BY DEF ComputesAsInterpreted
  <2>1. blocks[i].native.kind = "native"
    BY DEF IInv, GoodTable, LeadsHome, Current
  <2> QED
    BY <2>1, BlockAgrees
<1> QED
  BY <1>1, <1>2, <1>3, Invariance, PTL DEF Spec

=============================================================================
