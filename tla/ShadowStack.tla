----------------------------- MODULE ShadowStack -----------------------------
(***************************************************************************)
(* Control flow of the interpreter (vm.c): the dispatch loop, the jumps,   *)
(* and CALL, CALLR, RET and THROW over the shadow stack of a VMThread.     *)
(*                                                                         *)
(* The program is one of Programs and never changes (CODE is read-only     *)
(* once loaded).  An address is an offset from the start of CODE, counted  *)
(* in instructions; jump and call operands are offsets too, and the        *)
(* interpreter adds them to t->bytecode, which cmd_run sets to             *)
(* code + entry_offset.  What other instructions compute is left out: the  *)
(* flags a conditional jump tests and the register CALLR calls through are *)
(* chosen freely.                                                          *)
(***************************************************************************)
EXTENDS Naturals, Sequences

CONSTANTS CodeLen,      \* length of CODE
          Entry,        \* entry_offset: where t->bytecode points into CODE
          ShadowDepth,  \* SHADOW_DEPTH
          Programs      \* the programs to run

Code == 0..(CodeLen - 1)

Instruction ==
       [op : {"call"}, ok : Code, err : Code]
  \cup [op : {"callr"}, err : Code]
  \cup [op : {"jump"}, ok : Code]
  \cup [op : {"ret", "throw", "other", "div", "halt"}]

ASSUME ConstantsAssumption ==
  /\ CodeLen \in Nat \ {0}
  /\ Entry \in Code
  /\ ShadowDepth \in Nat
  /\ Programs \subseteq [Code -> Instruction]

VARIABLES
  code,    \* the program
  ip,      \* rf.ip
  shadow,  \* t->shadow
  stop,    \* t->stop - t->shadow: how many slots are in use
  status   \* "run", "halted", "aborted", or "wild" once ip has left CODE

vars == <<code, ip, shadow, stop, status>>

Slots == 0..(ShadowDepth - 1)

TypeOK ==
  /\ code \in Programs
  /\ ip \in Nat
  /\ shadow \in [Slots -> Nat]
  /\ stop \in 0..ShadowDepth
  /\ status \in {"run", "halted", "aborted", "wild"}
  /\ status = "run" => ip \in Code

\* vm_run clears the record and starts at the entry point.
Init ==
  /\ code \in Programs
  /\ ip = Entry
  /\ shadow = [s \in Slots |-> 0]
  /\ stop = 0
  /\ status = "run"

\* Reading an instruction outside CODE is undefined: the model stops there.
Jump(a) ==
  /\ ip' = a
  /\ status' = IF a \in Code THEN "run" ELSE "wild"

Abort == status' = "aborted" /\ UNCHANGED ip

At(op) ==
  /\ status = "run"
  /\ code[ip].op = op
  /\ UNCHANGED code

\* An operand of a jump or call, as an address: bytecode + off.
Target(off) == Entry + off

\* Defective variant of PushCall: the normal return address is pushed first.
PushCallSwapped(err, target) ==
  \/ /\ stop + 2 <= ShadowDepth
     /\ shadow' = [shadow EXCEPT ![stop] = ip + 1, ![stop + 1] = Target(err)]
     /\ stop' = stop + 2
     /\ Jump(target)
  \/ /\ stop + 2 > ShadowDepth
     /\ Abort
     /\ UNCHANGED <<shadow, stop>>

\* Defective variant of PushCall: the error address is left relative to the
\* instruction.
PushCallRelative(err, target) ==
  \/ /\ stop + 2 <= ShadowDepth
     /\ shadow' = [shadow EXCEPT ![stop] = ip + 1 + err, ![stop + 1] = ip + 1]
     /\ stop' = stop + 2
     /\ Jump(target)
  \/ /\ stop + 2 > ShadowDepth
     /\ Abort
     /\ UNCHANGED <<shadow, stop>>

\* Defective variant of PushCall: spush does not test for a full stack.
PushCallUnchecked(err, target) ==
  /\ shadow' = [shadow EXCEPT ![stop] = Target(err), ![stop + 1] = ip + 1]
  /\ stop' = stop + 2
  /\ Jump(target)

\* Defective variant of PushCall: a full stack starts again from the bottom.
PushCallWraps(err, target) ==
  LET at == IF stop + 2 <= ShadowDepth THEN stop ELSE 0 IN
    /\ shadow' = [shadow EXCEPT ![at] = Target(err), ![at + 1] = ip + 1]
    /\ stop' = at + 2
    /\ Jump(target)

\* spush(err); spush(IP); IP = target.  Either push aborts on a full stack.
PushCall(err, target) ==
  \/ /\ stop + 2 <= ShadowDepth
     /\ shadow' = [shadow EXCEPT ![stop] = Target(err), ![stop + 1] = ip + 1]
     /\ stop' = stop + 2
     /\ Jump(target)
  \/ /\ stop + 2 > ShadowDepth
     /\ Abort
     /\ \/ stop = ShadowDepth /\ UNCHANGED <<shadow, stop>>
        \/ /\ stop < ShadowDepth
           /\ shadow' = [shadow EXCEPT ![stop] = Target(err)]
           /\ stop' = stop + 1

Call ==
  /\ At("call")
  /\ PushCall(code[ip].err, Target(code[ip].ok))

\* The register holds the address of an instruction (a relocated pointer).
CallR ==
  /\ At("callr")
  /\ \E target \in Code : PushCall(code[ip].err, target)

\* Two spops, of which one is the address to go to; each aborts when empty.
PopCall(address) ==
  \/ /\ stop >= 2
     /\ stop' = stop - 2
     /\ Jump(address)
  \/ /\ stop < 2
     /\ Abort
     /\ stop' = 0

\* ok is on top, err below it.
Ret ==
  /\ At("ret")
  /\ PopCall(shadow[stop - 1])
  /\ UNCHANGED shadow

Throw ==
  /\ At("throw")
  /\ PopCall(shadow[stop - 2])
  /\ UNCHANGED shadow

\* JMP and the conditional jumps.
Branch ==
  /\ At("jump")
  /\ Jump(Target(code[ip].ok)) \/ Jump(ip + 1)
  /\ UNCHANGED <<shadow, stop>>

Other ==
  /\ At("other") \/ At("div")
  /\ Jump(ip + 1)
  /\ UNCHANGED <<shadow, stop>>

\* DIV and IDIV by zero.
DivideByZero ==
  /\ At("div")
  /\ Abort
  /\ UNCHANGED <<shadow, stop>>

Halt ==
  /\ At("halt")
  /\ status' = "halted"
  /\ UNCHANGED <<ip, shadow, stop>>

\* The thread has stopped.
Stopped == status # "run" /\ UNCHANGED vars

Next ==
  \/ Call \/ CallR \/ Ret \/ Throw
  \/ Branch \/ Other \/ DivideByZero \/ Halt
  \/ Stopped

Spec == Init /\ [][Next]_vars

-----------------------------------------------------------------------------

IsCall(a) == a \in Code /\ code[a].op \in {"call", "callr"}

\* The shadow stack holds whole calls, each the return address of a CALL in the
\* program with the error address of that same CALL below it.  (RET and THROW
\* can therefore go nowhere else, which vm.h calls ROP-safe.)
HoldsCalls ==
  status = "run" =>
    /\ stop % 2 = 0
    /\ \A s \in Slots : s < stop /\ s % 2 = 0 =>
         /\ IsCall(shadow[s + 1] - 1)
         /\ shadow[s] = Target(code[shadow[s + 1] - 1].err)

\* The two words of each call, as a frame.
FramesOf ==
  [f \in 1..(stop \div 2) |-> [ok |-> shadow[2 * f - 1], err |-> shadow[2 * f - 2]]]

Frame == INSTANCE Frames WITH MaxFrames <- ShadowDepth \div 2, frames <- FramesOf

\* CALL, CALLR, RET and THROW do what vm.h:12-15 says: their operands are
\* offsets in CODE, RET goes back to the innermost call, THROW to its handler.
ImplementsFrames ==
  Frame!Init(Programs) /\ [][Frame!Next]_(Frame!vars)
=============================================================================
