------------------------------- MODULE Frames -------------------------------
(***************************************************************************)
(* What CALL, CALLR, RET and THROW promise (vm.h:12-15), with no word about*)
(* how it is stored: a stack of frames, each holding the address RET goes  *)
(* back to and the one THROW goes to.  Operands are offsets in CODE.       *)
(***************************************************************************)
EXTENDS Naturals, Sequences

CONSTANTS Code,       \* the offsets of the instructions
          MaxFrames   \* how deep calls may nest

VARIABLES code,    \* the program: an instruction at each offset
          ip,      \* where it is
          status,  \* "run", "halted", "aborted", or "wild" once ip left CODE
          frames   \* the calls in progress, the innermost last

vars == <<code, ip, status, frames>>

Init(programs) ==
  /\ code \in programs
  /\ ip \in Code
  /\ status = "run"
  /\ frames = <<>>

Jump(a) ==
  /\ ip' = a
  /\ status' = IF a \in Code THEN "run" ELSE "wild"

Abort == status' = "aborted" /\ UNCHANGED <<ip, frames>>

\* Past the end of the call instruction.
Enter(target, err) ==
  \/ /\ Len(frames) < MaxFrames
     /\ frames' = Append(frames, [ok |-> ip + 1, err |-> err])
     /\ Jump(target)
  \/ Len(frames) >= MaxFrames /\ Abort

\* The innermost call ends, to one of its two addresses.
Leave(which) ==
  \/ /\ frames # <<>>
     /\ Jump(frames[Len(frames)][which])
     /\ frames' = SubSeq(frames, 1, Len(frames) - 1)
  \/ frames = <<>> /\ Abort

Plain(a) == Jump(a) /\ UNCHANGED frames

Next ==
  /\ status = "run"
  /\ UNCHANGED code
  /\ LET i == code[ip] IN
       \/ i.op = "call" /\ Enter(i.ok, i.err)
       \/ i.op = "callr" /\ \E target \in Code : Enter(target, i.err)
       \/ i.op = "ret" /\ Leave("ok")
       \/ i.op = "throw" /\ Leave("err")
       \/ i.op = "jump" /\ (Plain(i.ok) \/ Plain(ip + 1))
       \/ i.op \in {"other", "div"} /\ Plain(ip + 1)
       \/ i.op = "div" /\ Abort
       \/ i.op = "halt" /\ status' = "halted" /\ UNCHANGED <<ip, frames>>
=============================================================================
