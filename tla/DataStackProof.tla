--------------------------- MODULE DataStackProof ---------------------------
(***************************************************************************)
(* What the two stacks of vm.c guarantee, for programs, stacks and operands *)
(* of every size.  The shadow stack holds whole calls, and implements calls *)
(* (Frames) when CODE is entered at its start.  The data stack: while       *)
(* functions keep to their own part of it, the saved bp's form a chain, a   *)
(* LEAVE undoes its ENTER, and what callers had on the stack stays; and     *)
(* the data stack suffices for as many calls as the shadow stack holds, if  *)
(* each takes no more than its share.                                       *)
(***************************************************************************)
EXTENDS DataStack, SequenceTheorems, WellFoundedInduction, TLAPS

-----------------------------------------------------------------------------
(* The shadow stack *)

IInv == TypeOK /\ HoldsCalls

USE ConstantsAssumption

\* A call or jump of a program has offsets of instructions for operands.
LEMMA Operands ==
  ASSUME TypeOK, NEW a \in Code
  PROVE  /\ code[a].op = "call" => code[a].ok \in Code /\ code[a].err \in Code
         /\ code[a].op = "callr" => code[a].err \in Code
         /\ code[a].op = "jump" => code[a].ok \in Code
<1>1. code[a] \in Instruction
  BY DEF TypeOK
<1> QED
  BY <1>1 DEF Instruction

\* spush of both addresses of a call keeps every field in its range, also when
\* the second push, or the first, finds the stack full.
LEMMA PushCallType ==
  ASSUME TypeOK, status = "run", UNCHANGED code,
         NEW err \in Code, NEW target \in Nat, PushCall(err, target)
  PROVE  TypeOK'
<1>1. Target(err) \in Nat /\ ip + 1 \in Nat
  BY DEF TypeOK, Target, Code
<1>2. shadow' \in [Slots -> Nat]
  BY <1>1 DEF PushCall, TypeOK
<1>3. stop' \in 0..ShadowDepth
  BY DEF PushCall, TypeOK
<1>4. ip' \in Nat /\ status' \in {"run", "aborted", "wild"} /\ (status' = "run" => ip' \in Code)
  BY DEF PushCall, Jump, Abort, TypeOK
<1> QED
  BY <1>2, <1>3, <1>4 DEF TypeOK

\* A call that fits puts its two addresses on top of whole calls.
LEMMA PushCallHolds ==
  ASSUME IInv, status = "run", UNCHANGED code, IsCall(ip), code[ip].err \in Code,
         NEW target \in Nat, PushCall(code[ip].err, target)
  PROVE  HoldsCalls'
<1> SUFFICES ASSUME status' = "run" PROVE HoldsCalls'
  BY DEF HoldsCalls
<1> USE DEF IInv
<1>1. /\ stop + 2 <= ShadowDepth
      /\ shadow' = [shadow EXCEPT ![stop] = Target(code[ip].err), ![stop + 1] = ip + 1]
      /\ stop' = stop + 2
  BY DEF PushCall, Abort
<1>2. stop % 2 = 0 /\ stop \in Nat
  BY DEF HoldsCalls, TypeOK
<1>3. stop' % 2 = 0
  BY <1>1, <1>2
<1>4. ASSUME NEW s \in Slots, s < stop', s % 2 = 0
      PROVE  /\ IsCall(shadow[s + 1] - 1)'
             /\ shadow'[s] = Target(code[shadow[s + 1] - 1].err)'
  <2>1. CASE s < stop
    <3>1. s + 1 < stop
      BY <2>1, <1>2, <1>4 DEF Slots
    <3>2. shadow'[s] = shadow[s] /\ shadow'[s + 1] = shadow[s + 1]
      BY <3>1, <2>1, <1>1, <1>2 DEF TypeOK, Slots
    <3>3. IsCall(shadow[s + 1] - 1) /\ shadow[s] = Target(code[shadow[s + 1] - 1].err)
      BY <2>1, <1>4 DEF HoldsCalls
    <3> QED
      BY <3>2, <3>3 DEF IsCall, Target
  <2>2. CASE s = stop
    <3>1. shadow'[s] = Target(code[ip].err) /\ shadow'[s + 1] = ip + 1
      BY <2>2, <1>1, <1>2 DEF TypeOK, Slots
    <3>2. shadow'[s + 1] - 1 = ip
      BY <3>1 DEF TypeOK
    <3> QED
      BY <3>1, <3>2 DEF IsCall, Target
  <2> QED
    BY <2>1, <2>2, <1>1, <1>2, <1>4 DEF Slots
<1> QED
  BY <1>3, <1>4 DEF HoldsCalls

\* spop of both addresses of a call leaves whole calls.
LEMMA PopCallType ==
  ASSUME TypeOK, status = "run", UNCHANGED <<code, shadow>>,
         NEW address, stop >= 2 => address \in Nat, PopCall(address)
  PROVE  TypeOK'
BY DEF PopCall, Jump, Abort, TypeOK, Code

\* ... and whole calls stay below them.
LEMMA PopCallHolds ==
  ASSUME IInv, status = "run", UNCHANGED <<code, shadow>>,
         NEW address, PopCall(address)
  PROVE  HoldsCalls'
<1> SUFFICES ASSUME status' = "run" PROVE HoldsCalls'
  BY DEF HoldsCalls
<1>1. stop >= 2 /\ stop' = stop - 2
  BY DEF PopCall, Abort
<1>2. stop \in Nat /\ stop % 2 = 0
  BY DEF IInv, TypeOK, HoldsCalls
<1>3. stop' % 2 = 0
  BY <1>1, <1>2
<1>4. \A s \in Slots : s < stop' => s < stop
  BY <1>1, <1>2 DEF Slots
<1> QED
  BY <1>3, <1>4 DEF IInv, HoldsCalls, IsCall, Target

\* An instruction that leaves the stack alone.
LEMMA PlainStep ==
  ASSUME IInv, status = "run", UNCHANGED <<code, shadow, stop>>,
         \/ \E a \in Nat : Jump(a)
         \/ status' \in {"aborted", "halted"} /\ UNCHANGED ip
  PROVE  IInv'
BY DEF IInv, TypeOK, HoldsCalls, Jump, IsCall, Target

\* CALL: both operands are offsets of instructions.
LEMMA CallStep == ASSUME IInv, Call PROVE IInv'
<1>1. status = "run" /\ ip \in Code /\ code[ip].op = "call" /\ UNCHANGED code
  BY DEF IInv, TypeOK, Call, At
<1>2. code[ip].err \in Code /\ code[ip].ok \in Code
  BY <1>1, Operands DEF IInv
<1>3. Target(code[ip].ok) \in Nat /\ IsCall(ip)
  BY <1>1, <1>2 DEF Target, Code, IsCall
<1> QED
  BY <1>1, <1>2, <1>3, PushCallType, PushCallHolds DEF IInv, Call

\* CALLR: the target comes from a register.
LEMMA CallRStep == ASSUME IInv, CallR PROVE IInv'
<1>1. status = "run" /\ ip \in Code /\ code[ip].op = "callr" /\ UNCHANGED code
  BY DEF IInv, TypeOK, CallR, At
<1>2. code[ip].err \in Code /\ IsCall(ip)
  BY <1>1, Operands DEF IInv, IsCall
<1>3. PICK target \in Code : PushCall(code[ip].err, target)
  BY DEF CallR
<1>4. target \in Nat
  BY DEF Code
<1> QED
  BY <1>1, <1>2, <1>3, <1>4, PushCallType, PushCallHolds DEF IInv

\* RET pops one whole call and goes to its upper word.
LEMMA RetStep == ASSUME IInv, Ret PROVE IInv'
<1>1. status = "run" /\ UNCHANGED <<code, shadow>> /\ PopCall(shadow[stop - 1])
  BY DEF Ret, At
<1>2. stop >= 2 => shadow[stop - 1] \in Nat
  BY DEF IInv, TypeOK, Slots
<1> QED
  BY <1>1, <1>2, PopCallType, PopCallHolds DEF IInv

\* THROW pops one whole call and goes to its lower word.
LEMMA ThrowStep == ASSUME IInv, Throw PROVE IInv'
<1>1. status = "run" /\ UNCHANGED <<code, shadow>> /\ PopCall(shadow[stop - 2])
  BY DEF Throw, At
<1>2. stop >= 2 => shadow[stop - 2] \in Nat
  BY DEF IInv, TypeOK, Slots
<1> QED
  BY <1>1, <1>2, PopCallType, PopCallHolds DEF IInv

\* JMP and Jcc, taken or not.
LEMMA BranchStep == ASSUME IInv, Branch PROVE IInv'
<1>1. status = "run" /\ ip \in Code /\ code[ip].op = "jump"
  BY DEF IInv, TypeOK, Branch, At
<1>2. Target(code[ip].ok) \in Nat /\ ip + 1 \in Nat
  BY <1>1, Operands DEF IInv, Target, Code
<1> QED
  BY <1>1, <1>2, PlainStep DEF Branch, At

\* Instructions that only fall through.
LEMMA OtherStep == ASSUME IInv, Other PROVE IInv'
<1>1. status = "run" /\ ip + 1 \in Nat /\ UNCHANGED code
  BY DEF IInv, TypeOK, Other, At
<1> QED
  BY <1>1, PlainStep DEF Other

\* Every reachable state of the interpreter loop is well formed and its shadow
\* stack holds whole calls of the program.
THEOREM Invariance == Spec => []IInv
<1>1. Init => IInv
  BY DEF Init, IInv, TypeOK, HoldsCalls, Slots, Code
<1>2. IInv /\ [Next]_vars => IInv'
  <2> SUFFICES ASSUME IInv, [Next]_vars PROVE IInv'
    OBVIOUS
  <2>1. CASE DivideByZero
    BY <2>1, PlainStep DEF DivideByZero, At, Abort
  <2>2. CASE Halt
    BY <2>2, PlainStep DEF Halt, At
  <2>3. CASE UNCHANGED vars
    BY <2>3 DEF vars, IInv, TypeOK, HoldsCalls, IsCall, Target
  <2> QED
    BY <2>1, <2>2, <2>3, CallStep, CallRStep, RetStep, ThrowStep, BranchStep, OtherStep
       DEF Next, Stopped
<1> QED
  BY <1>1, <1>2, PTL DEF Spec

\* The stack pointer stays within SHADOW_DEPTH whatever is called.
THEOREM TypeCorrect == Spec => []TypeOK
<1>1. IInv => TypeOK
  BY DEF IInv
<1> QED
  BY <1>1, Invariance, PTL

\* RET and THROW can only ever go to the addresses of a CALL of the program.
THEOREM CallIntegrity == Spec => []HoldsCalls
<1>1. IInv => HoldsCalls
  BY DEF IInv
<1> QED
  BY <1>1, Invariance, PTL

-----------------------------------------------------------------------------
(* Refinement: the frames that the two words of each call stand for *)

FrameRecord == [ok : Nat, err : Nat]

\* Halving an even number, and the odd one after it.
LEMMA Halves ==
  ASSUME NEW n \in Nat, n % 2 = 0
  PROVE  n \div 2 \in Nat /\ n = 2 * (n \div 2) /\ (n + 1) \div 2 = n \div 2
OBVIOUS

\* A function on 1..n is a sequence of length n.
LEMMA FunctionIsSeq ==
  ASSUME NEW S, NEW n \in Nat, NEW f \in [1..n -> S]
  PROVE  f \in Seq(S) /\ Len(f) = n
<1>1. f \in Seq(S)
  BY SeqDef
<1>2. DOMAIN f = 1..Len(f) /\ Len(f) \in Nat
  BY <1>1, LenProperties
<1> QED
  BY <1>1, <1>2

\* Any n words hold a frame for each two.
FramesIn(words, n) ==
  [f \in 1..(n \div 2) |-> [ok |-> words[2 * f - 1], err |-> words[2 * f - 2]]]

LEMMA FramesInSeq ==
  ASSUME NEW words \in [Slots -> Nat], NEW n \in 0..ShadowDepth
  PROVE  /\ FramesIn(words, n) \in Seq(FrameRecord)
         /\ Len(FramesIn(words, n)) = n \div 2
<1>1. n \div 2 \in Nat /\ 2 * (n \div 2) <= n
  OBVIOUS
<1>2. \A f \in 1..(n \div 2) : 2 * f - 1 \in Slots /\ 2 * f - 2 \in Slots
  BY <1>1 DEF Slots
<1>3. FramesIn(words, n) \in [1..(n \div 2) -> FrameRecord]
  BY <1>2 DEF FramesIn, FrameRecord
<1> QED
  BY <1>1, <1>3, FunctionIsSeq

\* The frames in use, one for each two words.
LEMMA FramesSeq ==
  ASSUME TypeOK
  PROVE  FramesOf \in Seq(FrameRecord) /\ Len(FramesOf) = stop \div 2
BY FramesInSeq DEF TypeOK, FramesOf, FramesIn

\* The same of the next state.
LEMMA FramesSeqNext ==
  ASSUME shadow' \in [Slots -> Nat], stop' \in 0..ShadowDepth
  PROVE  FramesOf' \in Seq(FrameRecord) /\ Len(FramesOf') = stop' \div 2
BY FramesInSeq DEF FramesOf, FramesIn

\* Two pushes add a frame, or the call aborts and the frames are as before.
LEMMA PushIsEnter ==
  ASSUME IInv, shadow' \in [Slots -> Nat], stop' \in 0..ShadowDepth, status = "run", Entry = 0,
         NEW err \in Code, NEW target \in Nat, PushCall(err, target)
  PROVE  Frame!Enter(target, err)
<1> USE DEF IInv
<1>1. stop \in Nat /\ stop % 2 = 0 /\ stop <= ShadowDepth /\ ShadowDepth \in Nat
  BY DEF TypeOK, HoldsCalls
<1>2. FramesOf \in Seq(FrameRecord) /\ Len(FramesOf) = stop \div 2
  BY FramesSeq
<1>3. CASE stop + 2 <= ShadowDepth
  <2>1. /\ shadow' = [shadow EXCEPT ![stop] = err, ![stop + 1] = ip + 1]
        /\ stop' = stop + 2
        /\ Jump(target)
    BY <1>1, <1>3 DEF PushCall, Target, Code
  <2> DEFINE new == [ok |-> ip + 1, err |-> err]
  <2>2. new \in FrameRecord
    BY DEF FrameRecord, TypeOK, Code
  <2>3. FramesOf' = Append(FramesOf, new)
    <3>1. FramesOf' \in Seq(FrameRecord) /\ Len(FramesOf') = stop \div 2 + 1
      BY <2>1, <1>1, FramesSeqNext
    <3>2. /\ Append(FramesOf, new) \in Seq(FrameRecord)
          /\ Len(Append(FramesOf, new)) = stop \div 2 + 1
          /\ Append(FramesOf, new)[stop \div 2 + 1] = new
          /\ \A f \in 1..(stop \div 2) : Append(FramesOf, new)[f] = FramesOf[f]
      BY <1>2, <2>2, AppendProperties
    <3>3. FramesOf'[stop \div 2 + 1] = new
      BY <2>1, <1>1, <1>3, SMTT(30) DEF FramesOf, TypeOK, Slots
    <3>4. \A f \in 1..(stop \div 2) : FramesOf'[f] = FramesOf[f]
      BY <2>1, <1>1, <1>3, SMTT(30) DEF FramesOf, TypeOK, Slots
    <3>5. \A f \in 1..Len(FramesOf') : FramesOf'[f] = Append(FramesOf, new)[f]
      BY <3>1, <3>2, <3>3, <3>4, <1>1, Halves
    <3> QED
      BY <3>1, <3>2, <3>5, SeqEqual
  <2>4. Len(FramesOf) < ShadowDepth \div 2
    BY <1>1, <1>2, <1>3
  <2> QED
    BY <2>1, <2>3, <2>4 DEF Frame!Enter, Frame!Jump, Jump
<1>4. CASE stop + 2 > ShadowDepth
  <2>1. Len(FramesOf) >= ShadowDepth \div 2
    BY <1>1, <1>2, <1>4
  <2>2. /\ Abort
        /\ stop' \in {stop, stop + 1}
        /\ \A s \in Slots : s < stop => shadow'[s] = shadow[s]
    BY <1>1, <1>4 DEF PushCall, TypeOK, Slots
  <2>3. stop' \div 2 = stop \div 2
    BY <2>2, <1>1, Halves
  <2>4. \A f \in 1..(stop \div 2) : 2 * f - 1 \in Slots /\ 2 * f - 2 \in Slots /\ 2 * f - 1 < stop
    BY <1>1 DEF Slots
  <2>5. FramesOf' = FramesOf
    <3>1. \A f \in 1..(stop \div 2) :
            shadow'[2 * f - 1] = shadow[2 * f - 1] /\ shadow'[2 * f - 2] = shadow[2 * f - 2]
      BY <2>2, <2>4, <1>1
    <3> QED
      BY <3>1, <2>3 DEF FramesOf
  <2> QED
    BY <2>1, <2>2, <2>5 DEF Frame!Enter, Frame!Abort, Abort
<1> QED
  BY <1>1, <1>3, <1>4

\* Two pops take the last frame and go to one of its addresses.
LEMMA PopIsLeave ==
  ASSUME IInv, shadow' \in [Slots -> Nat], stop' \in 0..ShadowDepth, status = "run", UNCHANGED shadow,
         NEW which \in {"ok", "err"},
         PopCall(IF which = "ok" THEN shadow[stop - 1] ELSE shadow[stop - 2])
  PROVE  Frame!Leave(which)
<1> USE DEF IInv
<1>1. stop \in Nat /\ stop % 2 = 0 /\ stop <= ShadowDepth /\ ShadowDepth \in Nat
  BY DEF TypeOK, HoldsCalls
<1>2. FramesOf \in Seq(FrameRecord) /\ Len(FramesOf) = stop \div 2
  BY FramesSeq
<1>3. CASE stop >= 2
  <2>1. stop' = stop - 2 /\ Jump(IF which = "ok" THEN shadow[stop - 1] ELSE shadow[stop - 2])
    BY <1>1, <1>3 DEF PopCall
  <2>2. FramesOf # <<>>
    BY <1>1, <1>2, <1>3, EmptySeq
  <2>3. stop \div 2 \in 1..(stop \div 2) /\ 2 * (stop \div 2) = stop
    BY <1>1, <1>3
  <2>4. FramesOf[stop \div 2] = [ok |-> shadow[stop - 1], err |-> shadow[stop - 2]]
    BY <2>3 DEF FramesOf
  <2>5. FramesOf' = SubSeq(FramesOf, 1, Len(FramesOf) - 1)
    <3>1. FramesOf' \in Seq(FrameRecord) /\ Len(FramesOf') = stop \div 2 - 1
      BY <2>1, <1>1, <1>3, FramesSeqNext
    <3>2. \A f \in 1..(Len(FramesOf) - 1) : FramesOf[f] \in FrameRecord
      BY <1>2, ElementOfSeq
    <3>3. /\ SubSeq(FramesOf, 1, Len(FramesOf) - 1) \in Seq(FrameRecord)
          /\ Len(SubSeq(FramesOf, 1, Len(FramesOf) - 1)) = stop \div 2 - 1
          /\ \A f \in 1..(stop \div 2 - 1) :
               SubSeq(FramesOf, 1, Len(FramesOf) - 1)[f] = FramesOf[f]
      BY <3>2, <1>2, <2>3, SubSeqProperties
    <3>4. \A f \in 1..(stop \div 2 - 1) : FramesOf'[f] = FramesOf[f]
      BY <2>1, <1>1, <1>3 DEF FramesOf
    <3> QED
      BY <3>1, <3>3, <3>4, SeqEqual
  <2> QED
    BY <2>1, <2>2, <2>4, <2>5, <1>2 DEF Frame!Leave, Frame!Jump, Jump
<1>4. CASE stop < 2
  <2>1. stop = 0 /\ Abort /\ stop' = 0
    BY <1>1, <1>4 DEF PopCall
  <2>2. FramesOf = <<>>
    BY <2>1, <1>2, EmptySeq
  <2>3. FramesOf' = FramesOf
    BY <2>1 DEF FramesOf
  <2> QED
    BY <2>1, <2>2, <2>3 DEF Frame!Leave, Frame!Abort, Abort
<1> QED
  BY <1>1, <1>3, <1>4

\* When CODE is entered at its start, every step of the interpreter is the step
\* of the abstract calls that vm.h:12-15 describes, or changes nothing.
LEMMA StepRefines ==
  ASSUME IInv, IInv', [Next]_vars, Entry = 0
  PROVE  [Frame!Next]_(Frame!vars)
<1> USE DEF IInv
<1>1. /\ status = "run" => ip \in Code
      /\ shadow' \in [Slots -> Nat] /\ stop' \in 0..ShadowDepth
  BY DEF TypeOK
<1>2. UNCHANGED <<shadow, stop>> => UNCHANGED FramesOf
  BY DEF FramesOf
<1>3. CASE Call
  BY <1>1, <1>3, Operands, PushIsEnter DEF Call, At, Target, Code, Frame!Next
<1>4. CASE CallR
  <2>1. PICK target \in Code : PushCall(code[ip].err, target)
    BY <1>4 DEF CallR
  <2>2. Frame!Enter(target, code[ip].err)
    BY <2>1, <1>1, <1>4, Operands, PushIsEnter DEF CallR, At, Code
  <2> QED
    BY <2>2, <1>4 DEF CallR, At, Frame!Next
<1>5. CASE Ret
  BY <1>1, <1>5, PopIsLeave DEF Ret, At, Frame!Next
<1>6. CASE Throw
  BY <1>1, <1>6, PopIsLeave DEF Throw, At, Frame!Next
<1>7. CASE Branch
  BY <1>1, <1>2, <1>7, Operands DEF Branch, At, Target, Code, Jump, Frame!Next, Frame!Plain, Frame!Jump
<1>8. CASE Other
  BY <1>2, <1>8 DEF Other, At, Jump, Frame!Next, Frame!Plain, Frame!Jump
<1>9. CASE DivideByZero
  BY <1>2, <1>9 DEF DivideByZero, At, Abort, Frame!Next, Frame!Abort
<1>10. CASE Halt
  BY <1>2, <1>10 DEF Halt, At, Frame!Next
<1>11. CASE UNCHANGED vars
  BY <1>2, <1>11 DEF vars, Frame!vars
<1> QED
  BY <1>3, <1>4, <1>5, <1>6, <1>7, <1>8, <1>9, <1>10, <1>11 DEF Next, Stopped

\* CALL, CALLR, RET and THROW over the shadow stack of vm.c implement the calls
\* of vm.h:12-15, for any program and any SHADOW_DEPTH, if entry_offset is 0.
THEOREM Refinement ==
  ASSUME Entry = 0
  PROVE  Spec => ImplementsFrames
<1>1. Init => Frame!Init(Programs)
  <2> SUFFICES ASSUME Init PROVE Frame!Init(Programs)
    OBVIOUS
  <2>1. TypeOK
    BY DEF Init, TypeOK, Slots, Code
  <2>2. FramesOf \in Seq(FrameRecord) /\ Len(FramesOf) = 0
    BY <2>1, FramesSeq DEF Init
  <2>3. FramesOf = <<>>
    BY <2>2, EmptySeq
  <2> QED
    BY <2>3 DEF Init, Frame!Init
<1>2. IInv /\ IInv' /\ [Next]_vars => [Frame!Next]_(Frame!vars)
  BY StepRefines
<1> QED
  BY <1>1, <1>2, Invariance, PTL DEF Spec, ImplementsFrames

-----------------------------------------------------------------------------
(* The data stack *)

USE StackAssumption

RecordType == [at : Int, sp : Int, bp : Int]
FrameType == [sp : Int, bp : Int, depth : Nat, mem : [Words -> Nat]]

\* The registers and the words; sp is a place while the model has not stopped.
StackTyped ==
  /\ sp \in Int /\ bp \in Nat
  /\ mem \in [Words -> Nat]
  /\ overrun \in BOOLEAN /\ tidy \in BOOLEAN
  /\ overrun \/ sp \in 0..StackWords

\* With the operands of the program and the histories.
Typed ==
  /\ StackTyped
  /\ data \in [{a \in Code : code[a].op = "other"} -> DataInstruction]
  /\ records \in Seq(RecordType)
  /\ frames \in Seq(FrameType)

\* Every ENTER in progress saved bp, below those before it and above sp.
Linked ==
  /\ bp = BpAfter(Len(records))
  /\ \A n \in 0..Len(records) : sp <= BpAfter(n)
  /\ \A n \in 1..Len(records) :
       /\ BpAfter(n) \in Words
       /\ \A m \in 0..(n - 1) : BpAfter(n) < BpAfter(m)
       /\ mem[BpAfter(n)] = BpAfter(n - 1)
       /\ records[n].sp = BpAfter(n) + 1
       /\ records[n].bp = BpAfter(n - 1)

\* A frame was made on the stack as it still is above, by a function whose own
\* records were among those in progress.
Kept(f) ==
  /\ frames[f].depth <= Len(records)
  /\ frames[f].bp = BpAfter(frames[f].depth)
  /\ \A n \in 0..frames[f].depth : frames[f].sp <= BpAfter(n)
  /\ \A n \in (frames[f].depth + 1)..Len(records) : BpAfter(n) < frames[f].sp
  /\ sp <= frames[f].sp
  /\ \A w \in Words : w >= frames[f].sp => mem[w] = frames[f].mem[w]

\* Frames lie below each other, with more records each.
Nested ==
  \A f \in 1..Len(frames) : \A g \in 1..f :
    frames[g].depth <= frames[f].depth /\ frames[f].sp <= frames[g].sp

FramesKept == Nested /\ \A f \in 1..Len(frames) : Kept(f)

\* The inductive invariant, beside that of ShadowStack.
SInv ==
  /\ Typed
  /\ tidy /\ ~overrun => Linked /\ FramesKept

-----------------------------------------------------------------------------
(* DataStack is ShadowStack with more state *)

LEMMA StepIsShadowStep == StackNext => [Next]_vars
BY DEF StackNext, Push, Pop, Enter, EnterOutside, Leave, Alloca, None, Data, Control, Calls, Returns,
       Throws, Others, End, allVars, Next

\* What is proved above of control flow holds with the data stack beside it.
THEOREM IsShadowStack == StackSpec => Spec
<1>1. StackInit => Init
  BY DEF StackInit
<1>2. [StackNext]_allVars => [Next]_vars
  BY StepIsShadowStep DEF allVars, vars
<1> QED
  BY <1>1, <1>2, PTL DEF StackSpec, Spec

-----------------------------------------------------------------------------
(* Sequences of records and frames *)

LEMMA Appended ==
  ASSUME NEW S, NEW s \in Seq(S), NEW e \in S
  PROVE  /\ Append(s, e) \in Seq(S)
         /\ Len(Append(s, e)) = Len(s) + 1
         /\ \A n \in 1..Len(s) : Append(s, e)[n] = s[n]
         /\ Append(s, e)[Len(s) + 1] = e
BY AppendProperties

LEMMA Shortened ==
  ASSUME NEW S, NEW s \in Seq(S), s # <<>>
  PROVE  /\ Front(s) \in Seq(S)
         /\ Len(s) \in Nat \ {0}
         /\ Len(Front(s)) = Len(s) - 1
         /\ \A n \in 1..(Len(s) - 1) : Front(s)[n] = s[n]
<1>1. Len(s) \in Nat \ {0}
  BY EmptySeq, LenProperties
<1>2. \A i \in 1..(Len(s) - 1) : s[i] \in S
  BY <1>1, ElementOfSeq
<1>3. /\ SubSeq(s, 1, Len(s) - 1) \in Seq(S)
      /\ Len(SubSeq(s, 1, Len(s) - 1)) = Len(s) - 1
      /\ \A n \in 1..(Len(s) - 1) : SubSeq(s, 1, Len(s) - 1)[n] = s[n]
  <2> DEFINE last == Len(s) - 1
  <2>1. last \in Nat /\ 1 \in Int /\ \A i \in 1..last : s[i] \in S
    BY <1>1, <1>2
  <2> HIDE DEF last
  <2>2. /\ SubSeq(s, 1, last) \in Seq(S)
        /\ Len(SubSeq(s, 1, last)) = IF 1 <= last THEN last - 1 + 1 ELSE 0
        /\ \A i \in 1..(last - 1 + 1) : SubSeq(s, 1, last)[i] = s[1 + i - 1]
    BY <2>1, SubSeqProperties
  <2>3. 1..(last - 1 + 1) = 1..last /\ \A i \in 1..last : 1 + i - 1 = i
    BY <2>1
  <2>4. \A i \in 1..last : SubSeq(s, 1, last)[i] = s[i]
    BY <2>2, <2>3
  <2>5. Len(SubSeq(s, 1, last)) = last
    <3>1. (IF 1 <= last THEN last - 1 + 1 ELSE 0) = last
      BY <2>1
    <3> QED
      BY <2>2, <3>1
  <2> QED
    BY <2>2, <2>4, <2>5 DEF last
<1> QED
  BY <1>1, <1>3 DEF Front

LEMMA LastFrame ==
  ASSUME Typed, frames # <<>>
  PROVE  /\ Len(frames) \in Nat \ {0} /\ Last(frames) = frames[Len(frames)]
         /\ EntrySp = frames[Len(frames)].sp /\ EntryDepth = frames[Len(frames)].depth
BY EmptySeq, LenProperties DEF Typed, Last, EntrySp, EntryDepth

LEMMA RecordInt ==
  ASSUME Typed, NEW n \in 1..Len(records)
  PROVE  records[n].at \in Int /\ records[n].sp \in Int /\ records[n].bp \in Int
<1>1. records[n] \in RecordType
  BY ElementOfSeq DEF Typed
<1> QED
  BY <1>1 DEF RecordType

LEMMA FrameTyped ==
  ASSUME Typed, NEW f \in 1..Len(frames)
  PROVE  /\ frames[f].sp \in Int /\ frames[f].bp \in Int
         /\ frames[f].depth \in Nat /\ frames[f].mem \in [Words -> Nat]
<1>1. frames[f] \in FrameType
  BY ElementOfSeq DEF Typed
<1> QED
  BY <1>1 DEF FrameType

LEMMA BpAfterInt ==
  ASSUME Typed, NEW n \in 0..Len(records)
  PROVE  BpAfter(n) \in Int
BY RecordInt, LenProperties DEF BpAfter, Typed

LEMMA DataTyped ==
  ASSUME TypeOK, Typed, NEW op, Data(op)
  PROVE  /\ ip \in Code /\ Datum \in Nat
         /\ data[ip] \in DataInstruction /\ data[ip].op = op
         /\ ~overrun /\ sp \in 0..StackWords /\ bp \in Nat /\ mem \in [Words -> Nat]
         /\ UNCHANGED <<data, frames, code>>
<1>1. ip \in Code /\ code[ip].op = "other" /\ UNCHANGED <<data, frames, code>>
  BY DEF Data, Other, At, TypeOK
<1>2. Datum \in Nat
  BY <1>1 DEF Datum, Code
<1>3. data[ip] \in DataInstruction /\ data[ip].op = op /\ ~overrun
  BY <1>1 DEF Data, Typed
<1> QED
  BY <1>1, <1>2, <1>3 DEF Typed, StackTyped

\* What the running function may pop lies below every record and every frame.
LEMMA OwnBounds ==
  ASSUME Typed, Linked, FramesKept, sp \in 0..StackWords, sp < Own
  PROVE  /\ \A n \in 0..Len(records) : sp + 1 <= BpAfter(n)
         /\ \A f \in 1..Len(frames) : sp + 1 <= frames[f].sp
<1>0. Len(records) \in Nat /\ Len(frames) \in Nat
  BY LenProperties DEF Typed
<1>1. \A n \in 0..Len(records) : BpAfter(n) \in Int
  BY BpAfterInt
<1>2. \A f \in 1..Len(frames) : frames[f].sp \in Int /\ frames[f].depth \in Nat
  BY FrameTyped
<1>3. CASE frames = <<>>
  <2>1. Len(frames) = 0 /\ EntryDepth = 0 /\ EntrySp = StackWords
    BY <1>3, EmptySeq DEF EntryDepth, EntrySp
  <2>2. CASE HasRecord
    <3>1. Len(records) \in 1..Len(records) /\ Own = BpAfter(Len(records))
      BY <1>0, <2>1, <2>2 DEF HasRecord, Own, Last, BpAfter
    <3>2. \A n \in 0..Len(records) : sp + 1 <= BpAfter(n)
      BY <3>1, <1>0, <1>1 DEF Linked
    <3> QED
      BY <3>2, <2>1
  <2>3. CASE ~HasRecord
    <3>1. Len(records) = 0 /\ Own = StackWords
      BY <1>0, <2>1, <2>3 DEF HasRecord, Own
    <3> QED
      BY <3>1, <2>1 DEF BpAfter
  <2> QED
    BY <2>2, <2>3
<1>4. CASE frames # <<>>
  <2> DEFINE top == Len(frames)
  <2>1. top \in 1..Len(frames) /\ EntryDepth = frames[top].depth /\ EntrySp = frames[top].sp
    BY <1>4, LastFrame
  <2>2. /\ Kept(top) /\ frames[top].depth <= Len(records)
        /\ \A f \in 1..Len(frames) : frames[f].depth <= frames[top].depth /\ frames[top].sp <= frames[f].sp
    BY <2>1 DEF FramesKept, Nested, Kept
  <2>3. CASE HasRecord
    <3>1. Len(records) \in 1..Len(records) /\ Own = BpAfter(Len(records))
      BY <1>0, <1>2, <2>1, <2>3 DEF HasRecord, Own, Last, BpAfter
    <3>2. \A n \in 0..Len(records) : sp + 1 <= BpAfter(n)
      BY <3>1, <1>0, <1>1 DEF Linked
    <3>3. ASSUME NEW f \in 1..Len(frames) PROVE sp + 1 <= frames[f].sp
      <4>1. Len(records) \in (frames[f].depth + 1)..Len(records)
        BY <1>0, <1>2, <2>1, <2>2, <2>3 DEF HasRecord
      <4>2. BpAfter(Len(records)) < frames[f].sp
        BY <4>1 DEF FramesKept, Kept
      <4>3. frames[f].sp \in Int /\ Own \in Int /\ sp \in Int
        BY <3>1, <1>0, <1>1, <1>2
      <4>4. sp < Own /\ Own < frames[f].sp
        BY <4>2, <3>1
      <4> QED
        BY <4>3, <4>4
    <3> QED
      BY <3>2, <3>3
  <2>4. CASE ~HasRecord
    <3>1. Len(records) = frames[top].depth /\ Own = frames[top].sp
      BY <1>0, <1>2, <2>1, <2>2, <2>4 DEF HasRecord, Own
    <3>2. \A n \in 0..Len(records) : frames[top].sp <= BpAfter(n)
      BY <3>1, <2>2 DEF Kept
    <3>3. frames[top].sp \in Int /\ sp + 1 <= frames[top].sp
      BY <3>1, <2>1, <1>2
    <3>4. \A n \in 0..Len(records) : sp + 1 <= BpAfter(n)
      BY <3>2, <3>3, <1>1
    <3>5. \A f \in 1..Len(frames) : sp + 1 <= frames[f].sp
      BY <3>3, <2>2, <1>2
    <3> QED
      BY <3>4, <3>5
  <2> QED
    BY <2>3, <2>4
<1> QED
  BY <1>3, <1>4

-----------------------------------------------------------------------------
(* Steps that keep the records *)

\* sp and words below it may change, and frames may go.
LEMMA SameRecords ==
  ASSUME Typed, Linked, FramesKept, sp \in 0..StackWords, UNCHANGED <<records, bp>>,
         sp' \in Int,
         \A n \in 0..Len(records) : sp' <= BpAfter(n),
         \A f \in 1..Len(frames) : sp' <= frames[f].sp,
         \A w \in Words : w >= sp => mem'[w] = mem[w],
         Len(frames') <= Len(frames), Len(frames') \in Nat,
         \A f \in 1..Len(frames') : frames'[f] = frames[f]
  PROVE  Linked' /\ FramesKept'
<1>0. Len(records) \in Nat /\ Len(frames) \in Nat
  BY LenProperties DEF Typed
<1>1. \A n : BpAfter(n)' = BpAfter(n)
  BY DEF BpAfter
<1>2. \A n \in 1..Len(records) : mem'[BpAfter(n)] = mem[BpAfter(n)]
  BY <1>0 DEF Linked
<1>3. Linked'
  BY <1>1, <1>2 DEF Linked
<1>4. Nested'
  BY <1>0 DEF FramesKept, Nested
<1>5. ASSUME NEW f \in 1..Len(frames') PROVE Kept(f)'
  <2>1. f \in 1..Len(frames) /\ frames'[f] = frames[f] /\ Kept(f)
    BY <1>0, <1>5 DEF FramesKept
  <2>2. frames[f].sp \in Int /\ sp' <= frames[f].sp
    BY <2>1, FrameTyped
  <2>3. \A w \in Words : w >= frames[f].sp => mem'[w] = frames[f].mem[w]
    BY <2>1, <2>2 DEF Kept, Words
  <2> QED
    BY <2>1, <2>2, <2>3, <1>1 DEF Kept
<1> QED
  BY <1>3, <1>4, <1>5 DEF FramesKept

\* ... of which the frames are as they were.
LEMMA Lower ==
  ASSUME Typed, Linked, FramesKept, sp \in 0..StackWords, UNCHANGED <<records, bp, frames>>,
         sp' \in Int, sp' <= sp, \A w \in Words : w >= sp => mem'[w] = mem[w]
  PROVE  Linked' /\ FramesKept'
<1>1. \A n \in 0..Len(records) : sp' <= BpAfter(n)
  BY BpAfterInt DEF Linked
<1>2. \A f \in 1..Len(frames) : sp' <= frames[f].sp
  BY FrameTyped DEF FramesKept, Kept
<1>3. Len(frames) \in Nat
  BY LenProperties DEF Typed
<1> QED
  BY <1>1, <1>2, <1>3, SameRecords

\* Nothing but the innermost frame changes.
LEMMA FramePopped ==
  ASSUME Typed, PopFrame
  PROVE  /\ frames' \in Seq(FrameType) /\ Len(frames') \in Nat
         /\ Len(frames') <= Len(frames)
         /\ \A f \in 1..Len(frames') : frames'[f] = frames[f]
<1>0. frames \in Seq(FrameType) /\ Len(frames) \in Nat
  BY LenProperties DEF Typed
<1>1. CASE frames = <<>>
  BY <1>0, <1>1 DEF PopFrame
<1>2. CASE frames # <<>>
  <2>1. frames' = Front(frames)
    BY <1>2 DEF PopFrame
  <2>2. /\ Front(frames) \in Seq(FrameType)
        /\ Len(Front(frames)) = Len(frames) - 1 /\ Len(frames) \in Nat \ {0}
        /\ \A f \in 1..(Len(frames) - 1) : Front(frames)[f] = frames[f]
    BY <1>0, <1>2, Shortened
  <2> QED
    BY <2>1, <2>2
<1> QED
  BY <1>1, <1>2

\* A step in which the stack, or what is tidy about it, is lost keeps types alone.
LEMMA Untidy == ASSUME Typed', ~tidy' \/ overrun' PROVE SInv'
BY DEF SInv

LEMMA TypedNext ==
  ASSUME Typed, UNCHANGED <<code, data>>, sp' \in Int, bp' \in Nat, mem' \in [Words -> Nat],
         overrun' \in BOOLEAN, tidy' \in BOOLEAN, ~overrun' => sp' \in 0..StackWords,
         records' \in Seq(RecordType), frames' \in Seq(FrameType)
  PROVE  Typed'
BY DEF Typed, StackTyped

LEMMA Moved ==
  ASSUME NEW s, NEW b, Move(s, b)
  PROVE  /\ sp' = s /\ bp' = b /\ overrun' \in BOOLEAN
         /\ ~overrun' => sp' \in 0..StackWords
         /\ sp' \notin 0..StackWords => overrun'
BY DEF Move

LEMMA KeptHistory ==
  ASSUME Typed, NEW ok, NEW rs, Keep(ok, rs), tidy' => rs \in Seq(RecordType)
  PROVE  /\ records' \in Seq(RecordType) /\ tidy' \in BOOLEAN
         /\ tidy' => tidy /\ ok /\ records' = rs
<1>1. tidy' \in BOOLEAN /\ (tidy' => tidy /\ ok)
  BY Zenon DEF Keep
<1>2. tidy' => records' = rs
  BY <1>1, Zenon DEF Keep
<1>3. ~tidy' => records' = <<>>
  BY Zenon DEF Keep
<1> QED
  BY <1>1, <1>2, <1>3, EmptySeq

-----------------------------------------------------------------------------
(* One lemma per action *)

LEMMA PushStep == ASSUME TypeOK, SInv, Push PROVE SInv'
<1>0. /\ Typed /\ ~overrun /\ sp \in 0..StackWords /\ bp \in Nat /\ mem \in [Words -> Nat]
      /\ Datum \in Nat /\ UNCHANGED <<data, frames, code>>
  BY DataTyped DEF Push, SInv
<1>1. /\ sp' = sp - 1 /\ UNCHANGED <<bp, records, tidy>>
      /\ overrun' \in BOOLEAN /\ (~overrun' => sp' \in 0..StackWords)
      /\ mem' = IF sp - 1 \in Words THEN [mem EXCEPT ![sp - 1] = Datum] ELSE mem
  BY Moved DEF Push, Write
<1>2. Typed'
  <2>1. mem' \in [Words -> Nat] /\ tidy' \in BOOLEAN
    BY <1>0, <1>1 DEF Typed, StackTyped
  <2> QED
    BY <1>0, <1>1, <2>1, TypedNext DEF Typed
<1>3. \A w \in Words : w >= sp => mem'[w] = mem[w]
  BY <1>0, <1>1 DEF Words
<1>4. ASSUME tidy' /\ ~overrun' PROVE Linked' /\ FramesKept'
  BY <1>0, <1>1, <1>3, <1>4, Lower DEF SInv
<1> QED
  BY <1>2, <1>4 DEF SInv

LEMMA AllocaStep == ASSUME TypeOK, SInv, Alloca PROVE SInv'
<1>0. /\ Typed /\ ~overrun /\ sp \in 0..StackWords /\ bp \in Nat /\ mem \in [Words -> Nat]
      /\ UNCHANGED <<data, frames, code>>
  BY DataTyped DEF Alloca, SInv
<1>1. PICK n \in BlockBytes : Move(sp - (n + 7) \div 8, bp)
  BY DEF Alloca
<1>2. (n + 7) \div 8 \in Nat
  OBVIOUS
<1>3. /\ sp' \in Int /\ sp' <= sp /\ UNCHANGED <<bp, mem, records, tidy>>
      /\ overrun' \in BOOLEAN /\ (~overrun' => sp' \in 0..StackWords)
  BY <1>0, <1>1, <1>2, Moved DEF Alloca
<1>4. Typed'
  <2>1. tidy' \in BOOLEAN
    BY <1>0, <1>3 DEF Typed, StackTyped
  <2> QED
    BY <1>0, <1>3, <2>1, TypedNext DEF Typed
<1>5. ASSUME tidy' /\ ~overrun' PROVE Linked' /\ FramesKept'
  BY <1>0, <1>3, <1>5, Lower DEF SInv
<1> QED
  BY <1>4, <1>5 DEF SInv

\* POP stays below the function's own words, or is no longer tidy.
LEMMA PopStep == ASSUME TypeOK, SInv, Pop PROVE SInv'
<1>0. /\ Typed /\ ~overrun /\ sp \in 0..StackWords /\ bp \in Nat /\ mem \in [Words -> Nat]
      /\ UNCHANGED <<data, frames, code>> /\ tidy \in BOOLEAN
  BY DataTyped DEF Pop, SInv, Typed, StackTyped
<1>1. /\ sp' = sp + 1 /\ UNCHANGED <<bp, mem>>
      /\ overrun' \in BOOLEAN /\ (~overrun' => sp' \in 0..StackWords)
  BY Moved DEF Pop
<1>2. /\ records' \in Seq(RecordType) /\ tidy' \in BOOLEAN
      /\ tidy' => tidy /\ sp < Own /\ records' = records
  BY <1>0, KeptHistory DEF Pop, Typed
<1>3. Typed'
  BY <1>0, <1>1, <1>2, TypedNext DEF Typed
<1>4. ASSUME tidy' /\ ~overrun' PROVE Linked' /\ FramesKept'
  <2>1. tidy /\ sp < Own /\ records' = records
    BY <1>2, <1>4
  <2>2. Linked /\ FramesKept
    BY <1>0, <2>1 DEF SInv
  <2>3. /\ \A n \in 0..Len(records) : sp' <= BpAfter(n)
        /\ \A f \in 1..Len(frames) : sp' <= frames[f].sp
    BY <1>0, <1>1, <2>1, <2>2, OwnBounds
  <2>4. Len(frames) \in Nat
    BY <1>0, LenProperties DEF Typed
  <2> QED
    BY <1>0, <1>1, <2>1, <2>2, <2>3, <2>4, SameRecords
<1> QED
  BY <1>3, <1>4 DEF SInv

\* ENTER links a new record to the last.
LEMMA EnterStep == ASSUME TypeOK, SInv, Enter PROVE SInv'
<1>0. /\ Typed /\ ~overrun /\ sp \in 1..StackWords /\ bp \in Nat /\ mem \in [Words -> Nat]
      /\ UNCHANGED <<data, frames, code>> /\ tidy \in BOOLEAN
      /\ data[ip] \in DataInstruction /\ data[ip].op = "enter"
  BY DataTyped DEF Enter, SInv, Typed, StackTyped
<1>1. data[ip].words \in Nat
  BY <1>0 DEF DataInstruction
<1> DEFINE new == [at |-> sp - 1, sp |-> sp, bp |-> bp]
<1>2. /\ sp' \in Int /\ sp' <= sp - 1 /\ bp' = sp - 1
      /\ overrun' \in BOOLEAN /\ (~overrun' => sp' \in 0..StackWords)
      /\ sp - 1 \in Words /\ mem' = [mem EXCEPT ![sp - 1] = bp]
  <2>1. sp - 1 \in Words
    BY <1>0 DEF Words
  <2>2. Move(sp - 1 - data[ip].words, sp - 1) /\ Write(sp - 1, bp)
    BY DEF Enter
  <2> QED
    BY <1>0, <1>1, <2>1, <2>2, Moved DEF Write
<1>3. new \in RecordType
  BY <1>0 DEF RecordType
<1>4. /\ Append(records, new) \in Seq(RecordType) /\ Len(records) \in Nat
      /\ Len(Append(records, new)) = Len(records) + 1
      /\ \A n \in 1..Len(records) : Append(records, new)[n] = records[n]
      /\ Append(records, new)[Len(records) + 1] = new
  BY <1>0, <1>3, Appended, LenProperties DEF Typed
<1>5. /\ records' \in Seq(RecordType) /\ tidy' \in BOOLEAN
      /\ tidy' => tidy /\ records' = Append(records, new)
  BY <1>0, <1>4, KeptHistory DEF Enter, Record
<1>6. Typed'
  <2>1. mem' \in [Words -> Nat] /\ bp' \in Nat
    BY <1>0, <1>2 DEF Words
  <2> QED
    BY <1>0, <1>2, <1>5, <2>1, TypedNext DEF Typed
<1>7. ASSUME tidy' /\ ~overrun' PROVE Linked' /\ FramesKept'
  <2>1. tidy /\ records' = Append(records, new)
    BY <1>5, <1>7
  <2>2. Linked /\ FramesKept
    BY <1>0, <2>1 DEF SInv
  <2>3. \A n \in 0..Len(records) : BpAfter(n)' = BpAfter(n) /\ BpAfter(n) \in Int /\ sp <= BpAfter(n)
    BY <1>0, <1>4, <2>1, <2>2, BpAfterInt DEF BpAfter, Linked
  <2>4. \A n : n = Len(records) + 1 => BpAfter(n)' = sp - 1
    BY <1>4, <2>1 DEF BpAfter
  <2>5. \A w \in Words : w >= sp => mem'[w] = mem[w]
    BY <1>0, <1>2
  <2>6. mem'[sp - 1] = bp
    BY <1>0, <1>2
  <2>7. Len(records') = Len(records) + 1
    BY <1>4, <2>1
  <2>8. ASSUME NEW n \in 0..Len(records') PROVE sp' <= BpAfter(n)'
    <3>1. CASE n \in 0..Len(records)
      BY <1>0, <1>2, <2>3, <3>1
    <3>2. CASE n = Len(records) + 1
      BY <1>0, <1>2, <2>4, <3>2
    <3> QED
      BY <1>4, <2>7, <3>1, <3>2
  <2>9. ASSUME NEW n \in 1..Len(records')
        PROVE  /\ BpAfter(n)' \in Words
               /\ \A m \in 0..(n - 1) : BpAfter(n)' < BpAfter(m)'
               /\ mem'[BpAfter(n)'] = BpAfter(n - 1)'
               /\ records'[n].sp = BpAfter(n)' + 1
               /\ records'[n].bp = BpAfter(n - 1)'
    <3>1. CASE n \in 1..Len(records)
      <4>1. n \in 0..Len(records) /\ n - 1 \in 0..Len(records) /\ 0..(n - 1) \subseteq 0..Len(records)
        BY <3>1, <1>4
      <4>2. BpAfter(n) \in Words /\ mem'[BpAfter(n)] = mem[BpAfter(n)]
        BY <3>1, <4>1, <2>2, <2>3, <2>5 DEF Linked
      <4>3. records'[n] = records[n]
        BY <3>1, <1>4, <2>1
      <4> QED
        BY <3>1, <4>1, <4>2, <4>3, <2>2, <2>3 DEF Linked
    <3>2. CASE n = Len(records) + 1
      <4>1. n - 1 = Len(records) /\ Len(records) \in 0..Len(records)
        BY <3>2, <1>4
      <4>2. BpAfter(n)' = sp - 1 /\ records'[n] = new
        BY <3>2, <1>4, <2>1, <2>4
      <4>3. BpAfter(n - 1)' = bp
        BY <4>1, <2>2, <2>3 DEF Linked
      <4>4. \A m \in 0..(n - 1) : sp - 1 < BpAfter(m)'
        BY <4>1, <2>3, <1>0
      <4> QED
        BY <4>2, <4>3, <4>4, <1>0, <1>2, <2>6
    <3> QED
      BY <3>1, <3>2, <1>4, <2>7
  <2>10. Linked'
    BY <1>2, <2>4, <2>7, <2>8, <2>9 DEF Linked
  <2>11. Nested'
    BY <1>0, <2>2 DEF FramesKept, Nested
  <2>12. ASSUME NEW f \in 1..Len(frames') PROVE Kept(f)'
    <3>1. f \in 1..Len(frames) /\ frames'[f] = frames[f] /\ Kept(f)
      BY <1>0, <2>2, <2>12 DEF FramesKept
    <3>2. frames[f].sp \in Int /\ frames[f].depth \in Nat
      BY <1>0, <3>1, FrameTyped
    <3>3. frames[f].depth \in 0..Len(records) /\ sp <= frames[f].sp
      BY <3>1, <3>2, <1>4 DEF Kept
    <3>4. \A w \in Words : w >= frames[f].sp => mem'[w] = frames[f].mem[w]
      <4>1. \A w \in Words : w >= frames[f].sp => w >= sp
        BY <3>2, <3>3, <1>0 DEF Words
      <4> QED
        BY <4>1, <3>1, <2>5 DEF Kept
    <3>5. \A n \in 0..frames[f].depth : frames[f].sp <= BpAfter(n)'
      BY <3>1, <3>2, <3>3, <2>3, <1>4, SMTT(30) DEF Kept
    <3>6. ASSUME NEW n \in (frames[f].depth + 1)..Len(records') PROVE BpAfter(n)' < frames[f].sp
      <4>1. CASE n \in (frames[f].depth + 1)..Len(records)
        BY <4>1, <3>1, <3>2, <2>3, <1>4 DEF Kept
      <4>2. CASE n = Len(records) + 1
        BY <4>2, <3>2, <3>3, <2>4, <1>0
      <4> QED
        BY <4>1, <4>2, <2>7, <1>4, <3>2
    <3>7. frames[f].bp = BpAfter(frames[f].depth)'
      BY <3>1, <3>3, <2>3 DEF Kept
    <3> QED
      BY <3>1, <3>2, <3>3, <3>4, <3>5, <3>6, <3>7, <2>7, <1>0, <1>2, <1>4 DEF Kept
  <2> QED
    BY <2>10, <2>11, <2>12 DEF FramesKept
<1> QED
  BY <1>6, <1>7 DEF SInv

LEMMA EnterOutsideStep == ASSUME TypeOK, SInv, EnterOutside PROVE SInv'
<1>0. /\ Typed /\ bp \in Nat /\ mem \in [Words -> Nat] /\ UNCHANGED <<data, frames, code>>
  BY DataTyped DEF EnterOutside, SInv
<1>1. /\ sp' = -1 /\ overrun' \in BOOLEAN /\ UNCHANGED <<bp, mem, records, tidy>>
      /\ sp' \notin 0..StackWords => overrun'
  BY Moved DEF EnterOutside
<1>2. overrun' /\ sp' \in Int
  BY <1>1
<1>3. Typed'
  BY <1>0, <1>1, <1>2 DEF Typed, StackTyped
<1> QED
  BY <1>2, <1>3, Untidy

\* LEAVE goes back to the record before, which the word at bp names.
LEMMA LeaveGoesBack ==
  ASSUME Typed, Linked, HasRecord
  PROVE  /\ Len(records) \in Nat \ {0} /\ records # <<>>
         /\ bp \in Words /\ bp = BpAfter(Len(records)) /\ mem[bp] = BpAfter(Len(records) - 1)
         /\ Last(records).sp = bp + 1 /\ Last(records).bp = mem[bp]
<1>1. Len(records) \in Nat \ {0}
  <2>1. EntryDepth \in Nat
    <3>1. CASE frames = <<>>
      BY <3>1 DEF EntryDepth
    <3>2. CASE frames # <<>>
      BY <3>2, LastFrame, FrameTyped
    <3> QED
      BY <3>1, <3>2
  <2> QED
    BY <2>1, LenProperties DEF HasRecord, Typed
<1>2. records # <<>> /\ Last(records) = records[Len(records)]
  BY <1>1, EmptySeq DEF Last, Typed
<1>3. Len(records) \in 1..Len(records)
  BY <1>1
<1> QED
  BY <1>1, <1>2, <1>3 DEF Linked

LEMMA LeaveStep == ASSUME TypeOK, SInv, Leave PROVE SInv'
<1>0. /\ Typed /\ ~overrun /\ sp \in 0..StackWords /\ bp \in Nat /\ mem \in [Words -> Nat]
      /\ UNCHANGED <<data, frames, code>> /\ tidy \in BOOLEAN
  BY DataTyped DEF Leave, SInv, Typed, StackTyped
<1>1. /\ sp' = bp + 1 /\ bp' = IF bp \in Words THEN mem[bp] ELSE bp
      /\ overrun' \in BOOLEAN /\ (~overrun' => sp' \in 0..StackWords)
      /\ Keep(HasRecord, Front(records)) /\ UNCHANGED mem
  BY Moved DEF Leave
<1>2. bp' \in Nat
  BY <1>0, <1>1
<1>3. ASSUME tidy' PROVE tidy /\ HasRecord /\ Linked /\ FramesKept /\ records' = Front(records)
  <2>1. tidy /\ HasRecord /\ records' = Front(records)
    BY <1>1, <1>3, Zenon DEF Keep
  <2> QED
    BY <1>0, <2>1 DEF SInv
<1>4. ASSUME tidy'
      PROVE  /\ records' \in Seq(RecordType)
             /\ Len(records) \in Nat \ {0} /\ Len(records') = Len(records) - 1
             /\ \A n \in 1..(Len(records) - 1) : records'[n] = records[n]
  <2>1. records # <<>> /\ records \in Seq(RecordType)
    BY <1>0, <1>3, <1>4, LeaveGoesBack DEF Typed
  <2> QED
    BY <2>1, <1>3, <1>4, Shortened
<1>5. records' \in Seq(RecordType) /\ tidy' \in BOOLEAN
  <2>1. ~tidy' => records' = <<>>
    BY <1>1 DEF Keep
  <2>2. tidy' \in BOOLEAN
    BY <1>1 DEF Keep
  <2> QED
    BY <2>1, <2>2, <1>4, EmptySeq
<1>6. Typed'
  BY <1>0, <1>1, <1>2, <1>5, TypedNext DEF Typed
<1>7. ASSUME tidy' /\ ~overrun' PROVE Linked' /\ FramesKept'
  <2> DEFINE last == Len(records)
  <2>1. Linked /\ FramesKept /\ HasRecord
    BY <1>3, <1>7
  <2>2. /\ last \in Nat \ {0} /\ Len(records') = last - 1
        /\ \A n \in 1..(last - 1) : records'[n] = records[n]
    BY <1>4, <1>7
  <2>3. bp \in Words /\ bp = BpAfter(last) /\ bp' = BpAfter(last - 1)
    BY <1>0, <1>1, <2>1, LeaveGoesBack
  <2>4. \A n \in 0..last : BpAfter(n) \in Int
    BY <1>0, BpAfterInt
  <2>5. \A n \in 0..(last - 1) : BpAfter(n)' = BpAfter(n) /\ bp < BpAfter(n)
    BY <2>1, <2>2, <2>3 DEF BpAfter, Linked
  <2>6. ASSUME NEW n \in 0..(last - 1) PROVE sp' <= BpAfter(n)'
    <3>1. n \in 0..last /\ BpAfter(n) \in Int /\ bp < BpAfter(n) /\ BpAfter(n)' = BpAfter(n)
      BY <2>2, <2>4, <2>5
    <3> QED
      BY <3>1, <1>0, <1>1
  <2>7. ASSUME NEW n \in 1..(last - 1)
        PROVE  /\ BpAfter(n)' \in Words
               /\ \A m \in 0..(n - 1) : BpAfter(n)' < BpAfter(m)'
               /\ mem'[BpAfter(n)'] = BpAfter(n - 1)'
               /\ records'[n].sp = BpAfter(n)' + 1
               /\ records'[n].bp = BpAfter(n - 1)'
    <3>1. n \in 1..last /\ n \in 0..(last - 1) /\ n - 1 \in 0..(last - 1) /\ 0..(n - 1) \subseteq 0..(last - 1)
      BY <2>2
    <3> QED
      BY <3>1, <1>1, <2>1, <2>2, <2>5 DEF Linked
  <2>8. Linked'
    BY <2>2, <2>3, <2>5, <2>6, <2>7 DEF Linked
  <2>9. Nested'
    BY <1>0, <2>1 DEF FramesKept, Nested
  <2>10. ASSUME NEW f \in 1..Len(frames') PROVE Kept(f)'
    <3>1. f \in 1..Len(frames) /\ frames'[f] = frames[f] /\ Kept(f)
      BY <1>0, <2>1, <2>10 DEF FramesKept
    <3>2. frames[f].sp \in Int /\ frames[f].depth \in Nat
      BY <1>0, <3>1, FrameTyped
    <3>3. frames[f].depth <= last - 1
      <4>1. frames # <<>> /\ Len(frames) \in Nat
        BY <1>0, <3>1, EmptySeq, LenProperties DEF Typed
      <4>2. EntryDepth = frames[Len(frames)].depth /\ Len(frames) \in 1..Len(frames)
        BY <1>0, <4>1, LastFrame
      <4>3. frames[f].depth <= EntryDepth /\ EntryDepth \in Nat
        BY <1>0, <3>1, <4>2, <2>1, FrameTyped DEF FramesKept, Nested
      <4> QED
        BY <4>3, <3>2, <2>1, <2>2 DEF HasRecord
    <3>4. last \in (frames[f].depth + 1)..last
      BY <2>2, <3>2, <3>3
    <3>5. sp' <= frames[f].sp
      <4>1. BpAfter(last) < frames[f].sp
        BY <3>1, <3>4 DEF Kept
      <4> QED
        <5>1. bp \in Int /\ sp' = bp + 1 /\ bp < frames[f].sp /\ frames[f].sp \in Int
          BY <4>1, <3>2, <2>3, <1>0, <1>1
        <5> QED
          BY <5>1
    <3>6. frames[f].depth \in 0..(last - 1)
      BY <2>2, <3>2, <3>3
    <3>7. \A n \in 0..frames[f].depth : frames[f].sp <= BpAfter(n)'
      BY <3>1, <3>2, <3>6, <2>2, <2>5, SMTT(30) DEF Kept
    <3>8. \A n \in (frames[f].depth + 1)..(last - 1) : BpAfter(n)' < frames[f].sp
      BY <3>1, <3>2, <2>2, <2>5 DEF Kept
    <3>9. frames[f].bp = BpAfter(frames[f].depth)'
      BY <3>1, <3>6, <2>5 DEF Kept
    <3> QED
      BY <3>1, <3>3, <3>5, <3>7, <3>8, <3>9, <2>2, <1>1 DEF Kept
  <2> QED
    BY <2>8, <2>9, <2>10 DEF FramesKept
<1> QED
  BY <1>6, <1>7 DEF SInv

\* A CALL remembers the stack as it is.
LEMMA CallsStep ==
  ASSUME TypeOK, SInv, Calls, ~overrun, UNCHANGED <<data, stackVars, code>>
  PROVE  SInv'
<1>0. /\ Typed /\ sp \in 0..StackWords /\ bp \in Nat /\ mem \in [Words -> Nat]
      /\ UNCHANGED <<data, sp, bp, mem, overrun, records, tidy>>
      /\ records \in Seq(RecordType) /\ frames \in Seq(FrameType)
      /\ Len(records) \in Nat /\ Len(frames) \in Nat
  BY LenProperties DEF SInv, Typed, StackTyped, stackVars, Calls
<1> DEFINE new == [sp |-> sp, bp |-> bp, depth |-> Len(records), mem |-> mem]
<1>1. new \in FrameType
  BY <1>0 DEF FrameType
<1>2. /\ frames' = Append(frames, new) /\ frames' \in Seq(FrameType)
      /\ Len(frames') = Len(frames) + 1
      /\ \A f \in 1..Len(frames) : frames'[f] = frames[f]
      /\ frames'[Len(frames) + 1] = new
  BY <1>0, <1>1, Appended DEF Calls
<1>3. Typed'
  BY <1>0, <1>2 DEF Typed, StackTyped
<1>4. ASSUME tidy' /\ ~overrun' PROVE Linked' /\ FramesKept'
  <2>1. Linked /\ FramesKept
    BY <1>0, <1>4 DEF SInv
  <2>2. \A n : BpAfter(n)' = BpAfter(n)
    BY <1>0 DEF BpAfter
  <2>3. Linked'
    BY <1>0, <2>1, <2>2 DEF Linked
  <2>4. \A f \in 1..Len(frames) : frames[f].sp \in Int /\ frames[f].depth \in Nat /\ Kept(f)
    BY <1>0, <2>1, FrameTyped DEF FramesKept
  <2>5. Nested'
    <3> SUFFICES ASSUME NEW f \in 1..Len(frames'), NEW g \in 1..f
                 PROVE  frames'[g].depth <= frames'[f].depth /\ frames'[f].sp <= frames'[g].sp
      BY DEF Nested
    <3>1. CASE f \in 1..Len(frames)
      <4>1. g \in 1..Len(frames)
        BY <3>1, <1>0
      <4> QED
        BY <3>1, <4>1, <1>2, <2>1 DEF FramesKept, Nested
    <3>2. CASE f = Len(frames) + 1 /\ g \in 1..Len(frames)
      BY <3>2, <1>0, <1>2, <2>4 DEF Kept
    <3>3. CASE f = Len(frames) + 1 /\ g = Len(frames) + 1
      BY <3>3, <1>0, <1>2
    <3> QED
      BY <3>1, <3>2, <3>3, <1>0, <1>2
  <2>6. ASSUME NEW f \in 1..Len(frames') PROVE Kept(f)'
    <3>1. CASE f \in 1..Len(frames)
      BY <3>1, <1>0, <1>2, <2>2, <2>4 DEF Kept
    <3>2. CASE f = Len(frames) + 1
      <4>1. /\ frames'[f].sp = sp /\ frames'[f].bp = bp /\ frames'[f].depth = Len(records)
            /\ frames'[f].mem = mem
        BY <3>2, <1>2
      <4> QED
        BY <4>1, <1>0, <2>1, <2>2 DEF Kept, Linked
    <3> QED
      BY <3>1, <3>2, <1>0, <1>2
  <2> QED
    BY <2>3, <2>5, <2>6 DEF FramesKept
<1> QED
  BY <1>3, <1>4 DEF SInv

\* RET and THROW forget the innermost frame; RET is tidy without records of its own.
LEMMA PopsStep ==
  ASSUME TypeOK, SInv, ~overrun, UNCHANGED <<data, stackVars, code>>, PopFrame,
         \/ Keep(~HasRecord, records)
         \/ UNCHANGED <<records, tidy>>
  PROVE  SInv'
<1>0. /\ Typed /\ sp \in 0..StackWords /\ bp \in Nat /\ mem \in [Words -> Nat] /\ tidy \in BOOLEAN
      /\ UNCHANGED <<data, sp, bp, mem, overrun, code>>
  BY DEF SInv, Typed, StackTyped, stackVars
<1>1. /\ frames' \in Seq(FrameType) /\ Len(frames') \in Nat
      /\ Len(frames') <= Len(frames)
      /\ \A f \in 1..Len(frames') : frames'[f] = frames[f]
  BY <1>0, FramePopped
<1>2. records' \in Seq(RecordType) /\ tidy' \in BOOLEAN /\ (tidy' => tidy /\ records' = records)
  BY <1>0, KeptHistory DEF Typed
<1>3. Typed'
  BY <1>0, <1>1, <1>2 DEF Typed, StackTyped
<1>4. ASSUME tidy' /\ ~overrun' PROVE Linked' /\ FramesKept'
  <2>1. Linked /\ FramesKept /\ records' = records
    BY <1>0, <1>2, <1>4 DEF SInv
  <2>2. \A n \in 0..Len(records) : sp' <= BpAfter(n)
    BY <1>0, <2>1 DEF Linked
  <2>3. \A f \in 1..Len(frames) : sp' <= frames[f].sp
    BY <1>0, <2>1 DEF FramesKept, Kept
  <2> QED
    BY <1>0, <1>1, <2>1, <2>2, <2>3, SameRecords
<1> QED
  BY <1>3, <1>4 DEF SInv

\* Nothing of the data stack changes.
LEMMA SameStack ==
  ASSUME SInv, UNCHANGED <<code, data, stackVars, records, frames, tidy>>
  PROVE  SInv'
<1>1. UNCHANGED <<code, data, sp, bp, mem, overrun, records, frames, tidy>>
  BY DEF stackVars
<1>2. \A n : BpAfter(n)' = BpAfter(n)
  BY <1>1 DEF BpAfter
<1>3. Typed => Typed'
  BY <1>1 DEF Typed, StackTyped
<1>4. Linked => Linked'
  BY <1>1, <1>2 DEF Linked
<1>5. FramesKept => FramesKept'
  BY <1>1, <1>2 DEF FramesKept, Nested, Kept
<1> QED
  BY <1>1, <1>3, <1>4, <1>5 DEF SInv

\* code is never written.
LEMMA CodeSame == StackNext => UNCHANGED code
BY DEF StackNext, Push, Pop, Enter, EnterOutside, Leave, Alloca, None, Data, Control, Calls, Returns,
       Throws, Others, End, allVars, vars, At, Call, CallR, Ret, Throw, Branch, Other, DivideByZero, Halt

LEMMA StackStep == ASSUME TypeOK, SInv, [StackNext]_allVars PROVE SInv'
<1>1. CASE Control
  <2>1. UNCHANGED <<data, stackVars, code>> /\ ~overrun
    BY <1>1, CodeSame DEF Control, StackNext
  <2>2. CASE Calls
    BY <2>1, <2>2, CallsStep
  <2>3. CASE Returns
    BY <2>1, <2>3, PopsStep DEF Returns
  <2>4. CASE Throws
    BY <2>1, <2>4, PopsStep DEF Throws
  <2>5. CASE Others
    BY <2>1, <2>5, SameStack DEF Others, history
  <2> QED
    BY <1>1, <2>2, <2>3, <2>4, <2>5 DEF Control
<1>2. CASE None
  BY <1>2, SameStack, CodeSame DEF None, Data, StackNext
<1>3. CASE UNCHANGED allVars
  BY <1>3, SameStack DEF allVars, vars, history
<1> QED
  BY <1>1, <1>2, <1>3, PushStep, PopStep, EnterStep, EnterOutsideStep, LeaveStep, AllocaStep
     DEF StackNext, End

LEMMA StackStart == StackInit => SInv
<1> SUFFICES ASSUME StackInit PROVE SInv
  OBVIOUS
<1>1. /\ sp = StackWords /\ bp = StackWords /\ mem \in [Words -> Nat] /\ overrun = FALSE
      /\ records = <<>> /\ frames = <<>> /\ tidy = TRUE
      /\ data \in [{a \in Code : code[a].op = "other"} -> DataInstruction]
  BY DEF StackInit
<1>2. records \in Seq(RecordType) /\ frames \in Seq(FrameType) /\ Len(records) = 0 /\ Len(frames) = 0
  BY <1>1, EmptySeq
<1>3. Typed
  <2>1. overrun \in BOOLEAN /\ tidy \in BOOLEAN
    BY <1>1
  <2>2. sp \in Int /\ bp \in Nat /\ sp \in 0..StackWords
    BY <1>1
  <2>3. StackTyped
    BY <1>1, <2>1, <2>2, Zenon DEF StackTyped
  <2> QED
    BY <1>1, <1>2, <2>3 DEF Typed
<1>4. Linked /\ FramesKept
  BY <1>1, <1>2 DEF Linked, FramesKept, Nested, BpAfter
<1> QED
  BY <1>3, <1>4 DEF SInv

-----------------------------------------------------------------------------

\* The invariant holds for every program, size of the stack and operand.
THEOREM StackInvariance == StackSpec => [](TypeOK /\ SInv)
<1>1. TypeOK /\ SInv /\ [StackNext]_allVars => SInv'
  BY StackStep
<1>2. StackSpec => []TypeOK
  BY IsShadowStack, TypeCorrect, PTL
<1> QED
  BY <1>1, <1>2, StackStart, PTL DEF StackSpec

\* The saved bp's form a chain through all ENTERs in progress, with every caller on it.
THEOREM RecordsSafety == StackSpec => []RecordsChained
<1>1. SInv => RecordsChained
  <2> SUFFICES ASSUME Typed, Linked, FramesKept PROVE Chained /\ CallersOnChain
    BY DEF SInv, RecordsChained
  <2>1. Len(records) \in Nat
    BY LenProperties DEF Typed
  <2>2. Chained
    BY <2>1 DEF Linked, Chained
  <2>3. CallersOnChain
    BY DEF FramesKept, Kept, CallersOnChain
  <2> QED
    BY <2>2, <2>3
<1> QED
  BY <1>1, StackInvariance, PTL

\* No push, ENTER or ALLOCA of a callee reaches the words of its callers.
THEOREM CallersSafety == StackSpec => []CallersWordsKept
<1>1. SInv => CallersWordsKept
  BY DEF SInv, CallersWordsKept, FramesKept, Kept
<1> QED
  BY <1>1, StackInvariance, PTL

\* LEAVE gives back sp and bp as its ENTER found them, whatever came between.
THEOREM LeaveSafety == StackSpec => LeaveUndoesEnter
<1> DEFINE Leaves == tidy /\ HasRecord /\ ~overrun /\ status = "run" /\ ip \in DOMAIN data /\ data[ip].op = "leave"
           Undone == sp' = Last(records).sp /\ bp' = Last(records).bp
<1>1. TypeOK /\ SInv /\ [StackNext]_allVars => [Leaves => Undone]_stackVars
  <2> SUFFICES ASSUME TypeOK, SInv, StackNext, Leaves, ~UNCHANGED stackVars PROVE Undone
    BY DEF allVars
  <2>1. Typed /\ Linked
    BY DEF SInv
  <2>2. ip \in Code /\ code[ip].op = "other" /\ data[ip].op = "leave" /\ ~overrun /\ status = "run"
    BY <2>1 DEF Typed
  <2>3. ~Control /\ ~End
    BY <2>2 DEF Control, End, allVars
  <2>4. ~Push /\ ~Pop /\ ~Enter /\ ~EnterOutside /\ ~Alloca /\ ~None
    BY <2>2 DEF Push, Pop, Enter, EnterOutside, Alloca, None, Data
  <2>5. Leave
    BY <2>3, <2>4 DEF StackNext
  <2>6. sp' = bp + 1 /\ bp' = IF bp \in Words THEN mem[bp] ELSE bp
    BY <2>5 DEF Leave, Move
  <2>7. bp \in Words /\ Last(records).sp = bp + 1 /\ Last(records).bp = mem[bp]
    BY <2>1, LeaveGoesBack
  <2> QED
    BY <2>6, <2>7
<1> QED
  BY <1>1, StackInvariance, PTL DEF StackSpec, LeaveUndoesEnter

-----------------------------------------------------------------------------
(* The two stacks together *)

\* Every call in progress has its two words on the shadow stack; when sp leaves
\* the data stack that is still so, whether functions are tidy or not.
Deep ==
  /\ frames \in Seq(FrameType)
  /\ status = "run" => 2 * Len(frames) <= stop
  /\ overrun => 2 * Len(frames) <= ShadowDepth

LEMMA DeepData ==
  ASSUME TypeOK, Deep, NEW op, Data(op)
  PROVE  Deep'
<1>1. frames' = frames /\ status = "run" /\ stop' = stop
  BY DEF Data, Other, At
<1>2. Len(frames) \in Nat /\ stop \in Nat /\ stop <= ShadowDepth /\ ShadowDepth \in Nat
  BY LenProperties DEF Deep, TypeOK
<1> QED
  BY <1>1, <1>2 DEF Deep

LEMMA DeepControl ==
  ASSUME TypeOK, Typed, Deep, Control
  PROVE  Deep'
<1>1. ~overrun /\ ~overrun' /\ sp \in 0..StackWords /\ sp \in Int /\ bp \in Int /\ mem \in [Words -> Nat]
  BY DEF Control, stackVars, Typed, StackTyped
<1>2. Len(frames) \in Nat /\ Len(records) \in Nat /\ stop \in Nat /\ frames \in Seq(FrameType)
  BY LenProperties DEF Deep, Typed, TypeOK
<1>3. CASE Calls
  <2> DEFINE new == [sp |-> sp, bp |-> bp, depth |-> Len(records), mem |-> mem]
  <2>1. new \in FrameType
    BY <1>1, <1>2 DEF FrameType
  <2>2. frames' = Append(frames, new)
    BY <1>3 DEF Calls
  <2>3. frames' \in Seq(FrameType) /\ Len(frames') = Len(frames) + 1
    <3> HIDE DEF new
    <3> QED
      BY <1>2, <2>1, <2>2, Appended
  <2>4. status = "run" /\ (status' = "run" => stop' = stop + 2)
    BY <1>3 DEF Calls, Call, CallR, At, PushCall, Abort
  <2> QED
    BY <1>1, <1>2, <2>3, <2>4 DEF Deep
<1>4. CASE Returns \/ Throws
  <2>1. PopFrame /\ status = "run" /\ (status' = "run" => stop >= 2 /\ stop' = stop - 2)
    BY <1>4 DEF Returns, Throws, Ret, Throw, At, PopCall, Abort
  <2>2. CASE frames = <<>>
    <3>1. frames' = <<>> /\ Len(frames') = 0 /\ frames' \in Seq(FrameType)
      BY <1>2, <2>1, <2>2, EmptySeq DEF PopFrame
    <3> QED
      BY <1>1, <1>2, <2>1, <3>1 DEF Deep
  <2>3. CASE frames # <<>>
    <3>1. frames' = Front(frames)
      BY <2>1, <2>3 DEF PopFrame
    <3>2. frames' \in Seq(FrameType) /\ Len(frames') = Len(frames) - 1
      BY <1>2, <2>3, <3>1, Shortened
    <3>3. Len(frames) \in Nat /\ stop \in Nat
      BY <1>2
    <3> QED
      BY <1>1, <2>1, <3>2, <3>3 DEF Deep
  <2> QED
    BY <2>2, <2>3
<1>5. CASE Others
  <2>1. frames' = frames /\ status = "run" /\ (status' = "run" => stop' = stop)
    BY <1>5 DEF Others, history, Branch, Other, DivideByZero, Halt, At, Abort
  <2> QED
    BY <1>1, <2>1 DEF Deep
<1> QED
  BY <1>3, <1>4, <1>5 DEF Control

LEMMA DeepStep ==
  ASSUME TypeOK, SInv, Deep, [StackNext]_allVars
  PROVE  Deep'
<1>1. CASE Push \/ Pop \/ Enter \/ EnterOutside \/ Leave \/ Alloca \/ None
  BY <1>1, DeepData DEF Push, Pop, Enter, EnterOutside, Leave, Alloca, None
<1>2. CASE Control
  BY <1>2, DeepControl DEF SInv
<1>3. CASE UNCHANGED allVars
  BY <1>3 DEF allVars, vars, history, stackVars, Deep
<1> QED
  BY <1>1, <1>2, <1>3 DEF StackNext, End

\* The words of every call in progress are on the shadow stack, at every step,
\* also when an access to the data stack leaves the mapping.
THEOREM DeepInvariance == StackSpec => []Deep
<1>1. StackInit => Deep
  <2> SUFFICES ASSUME StackInit PROVE Deep
    OBVIOUS
  <2>1. frames = <<>> /\ stop = 0 /\ overrun = FALSE
    BY DEF StackInit, Init
  <2> QED
    BY <2>1, EmptySeq DEF Deep
<1>2. TypeOK /\ SInv /\ Deep /\ [StackNext]_allVars => Deep'
  BY DeepStep
<1> QED
  BY <1>1, <1>2, StackInvariance, PTL DEF StackSpec

LEMMA SetInduction ==
  ASSUME NEW S, 0 \in S, \A n \in Nat : n \in S => n + 1 \in S
  PROVE  Nat \subseteq S
<1> SUFFICES ASSUME Nat \ S # {} PROVE FALSE
  OBVIOUS
<1>1. PICK T : T = Nat \ S
  OBVIOUS
<1>2. PICK x \in T : \A y \in T : ~ (<<y, x>> \in OpToRel(<, Nat))
  BY <1>1, WFMin, NatLessThanWellFounded
<1>3. x \in Nat \ {0} /\ \A y \in T : ~(y < x)
  BY <1>1, <1>2 DEF OpToRel
<1>4. x - 1 \in Nat /\ x - 1 < x /\ x - 1 + 1 = x
  BY <1>3
<1>5. x - 1 \in S
  BY <1>1, <1>3, <1>4
<1> QED
  BY <1>1, <1>4, <1>5

LEMMA ConcatEnds ==
  ASSUME NEW s \in Seq(Int), NEW t \in Seq(Int)
  PROVE  /\ s \o t \in Seq(Int) /\ Len(s \o t) = Len(s) + Len(t)
         /\ Len(s) > 0 => (s \o t)[1] = s[1]
         /\ Len(t) > 0 => (s \o t)[Len(s) + Len(t)] = t[Len(t)]
<1>1. /\ s \o t \in Seq(Int) /\ Len(s \o t) = Len(s) + Len(t)
      /\ \A i \in 1..(Len(s) + Len(t)) : (s \o t)[i] = IF i <= Len(s) THEN s[i] ELSE t[i - Len(s)]
  BY ConcatProperties
<1>2. PICK m \in Nat, n \in Nat : m = Len(s) /\ n = Len(t)
  BY LenProperties
<1>3. m > 0 => (s \o t)[1] = s[1]
  BY <1>1, <1>2
<1>4. ASSUME n > 0 PROVE (s \o t)[m + n] = t[n]
  <2>1. m + n \in 1..(m + n) /\ ~(m + n <= m) /\ (m + n) - m = n
    BY <1>4
  <2> QED
    BY <1>1, <1>2, <2>1
<1> QED
  BY <1>1, <1>2, <1>3, <1>4

LEMMA StartsAre ==
  ASSUME Typed
  PROVE  /\ Starts \in Seq(Int) /\ Len(Starts) = Len(frames) + 2
         /\ Starts[1] = StackWords /\ Starts[Len(frames) + 2] = sp
<1> DEFINE top == <<StackWords>>
           mid == [f \in 1..Len(frames) |-> frames[f].sp]
           end == <<sp>>
<1>1. Len(frames) \in Nat
  BY LenProperties DEF Typed
<1>2. top \in Seq(Int) /\ Len(top) = 1 /\ top[1] = StackWords
  OBVIOUS
<1>3. end \in Seq(Int) /\ Len(end) = 1 /\ end[1] = sp
  BY DEF Typed, StackTyped
<1>4. mid \in Seq(Int) /\ Len(mid) = Len(frames)
  <2>1. mid \in [1..Len(frames) -> Int]
    BY FrameTyped
  <2> HIDE DEF mid
  <2>2. mid \in Seq(Int)
    BY <1>1, <2>1, SeqDef, Zenon
  <2> QED
    BY <1>1, <2>1, <2>2, LenProperties
<1> HIDE DEF top, mid, end
<1>5. /\ top \o mid \in Seq(Int) /\ Len(top \o mid) = Len(top) + Len(mid)
      /\ Len(top) > 0 => (top \o mid)[1] = top[1]
  BY <1>2, <1>4, ConcatEnds
<1> DEFINE n == Len(frames)
           both == top \o mid
<1>6. n \in Nat /\ 1 + n \in Nat /\ 1 + n > 0 /\ (1 + n) + 1 = n + 2
  BY <1>1
<1>7. both \in Seq(Int) /\ Len(both) = 1 + n /\ both[1] = StackWords
  BY <1>2, <1>4, <1>5
<1> HIDE DEF both, n
<1>8. /\ both \o end \in Seq(Int) /\ Len(both \o end) = Len(both) + Len(end)
      /\ Len(both) > 0 => (both \o end)[1] = both[1]
      /\ Len(end) > 0 => (both \o end)[Len(both) + Len(end)] = end[Len(end)]
  BY <1>3, <1>7, ConcatEnds
<1>9. Starts = both \o end /\ n = Len(frames)
  BY DEF Starts, top, mid, end, both, n
<1>10. /\ Len(both \o end) = n + 2 /\ (both \o end)[1] = StackWords
       /\ (both \o end)[n + 2] = sp
  BY <1>3, <1>6, <1>7, <1>8
<1> QED
  BY <1>8, <1>9, <1>10

LEMMA ProductGrows ==
  ASSUME NEW a \in Nat, NEW b \in Nat, NEW w \in Nat, a <= b
  PROVE  a * w <= b * w
<1>1. PICK d \in Nat : b = a + d
  <2>1. b - a \in Nat /\ b = a + (b - a)
    OBVIOUS
  <2> QED
    BY <2>1
<1>2. d * w \in Nat /\ a * w \in Nat /\ (a + d) * w = a * w + d * w
  OBVIOUS
<1> QED
  BY <1>1, <1>2

\* If no call takes more than its share, all of them together do not.
LEMMA Shares ==
  ASSUME Typed, \A f \in 1..(Len(frames) + 1) : Used(f) <= FrameWords
  PROVE  sp >= StackWords - (Len(frames) + 1) * FrameWords
<1> DEFINE N == Len(frames) + 1
           S == {k \in Nat : k <= N => Starts[k + 1] >= StackWords - k * FrameWords}
<1>1. N \in Nat /\ Len(frames) + 2 = N + 1 /\ StackWords \in Nat /\ FrameWords \in Nat
  BY LenProperties DEF Typed
<1>2. \A k \in 1..(N + 1) : Starts[k] \in Int
  BY <1>1, StartsAre, ElementOfSeq
<1>3. 0 \in S
  BY <1>1, StartsAre
<1>4. ASSUME NEW k \in Nat, k \in S PROVE k + 1 \in S
  <2> SUFFICES ASSUME k + 1 <= N PROVE Starts[k + 2] >= StackWords - (k + 1) * FrameWords
    BY DEF S
  <2>1. Starts[k + 1] >= StackWords - k * FrameWords
    BY <1>1, <1>4
  <2>2. Starts[k + 1] - Starts[k + 2] <= FrameWords
    <3>1. k + 1 \in 1..(Len(frames) + 1) /\ k + 1 + 1 = k + 2
      BY <1>1
    <3> QED
      BY <3>1 DEF Used
  <2>3. Starts[k + 1] \in Int /\ Starts[k + 2] \in Int
    BY <1>1, <1>2
  <2>4. (k + 1) * FrameWords = k * FrameWords + FrameWords /\ k * FrameWords \in Nat
    BY <1>1
  <2> QED
    BY <1>1, <2>1, <2>2, <2>3, <2>4
<1>5. N \in S
  <2> HIDE DEF S
  <2> QED
    BY <1>1, <1>3, <1>4, SetInduction
<1> QED
  BY <1>1, <1>5, StartsAre

\* Nothing tests for the end of the data stack, yet recursion cannot leave it by
\* itself: the shadow stack of SHADOW_DEPTH words is full before that.
THEOREM SizeSafety == StackSpec => []StackSuffices
<1>1. Typed /\ Deep /\ TypeOK => StackSuffices
  <2> SUFFICES ASSUME Typed, Deep, TypeOK,
                      StackWords >= (ShadowDepth \div 2 + 1) * FrameWords,
                      \A f \in 1..(Len(frames) + 1) : Used(f) <= FrameWords
               PROVE  sp >= 0
    BY DEF StackSuffices
  <2>1. CASE ~overrun
    BY <2>1 DEF Typed, StackTyped
  <2>2. CASE overrun
    <3> DEFINE n == Len(frames) + 1
               h == ShadowDepth \div 2 + 1
    <3>1. Len(frames) \in Nat /\ ShadowDepth \in Nat /\ 2 * Len(frames) <= ShadowDepth
      BY <2>2, LenProperties DEF Deep
    <3>2. n \in Nat /\ h \in Nat /\ n <= h
      BY <3>1
    <3>3. sp \in Int /\ sp >= StackWords - n * FrameWords /\ StackWords >= h * FrameWords
      BY Shares DEF Typed, StackTyped
    <3> HIDE DEF n, h
    <3>4. n * FrameWords <= h * FrameWords
      BY <3>2, ProductGrows
    <3>5. n * FrameWords \in Int /\ h * FrameWords \in Int /\ StackWords \in Int
      BY <3>2
    <3> QED
      BY <3>3, <3>4, <3>5
  <2> QED
    BY <2>1, <2>2
<1>2. SInv => Typed
  BY DEF SInv
<1> QED
  BY <1>1, <1>2, StackInvariance, DeepInvariance, PTL
=============================================================================
