------------------------------ MODULE DataStack ------------------------------
(***************************************************************************)
(* The data stack of the interpreter (vm.c): PUSH, POP, ENTER, LEAVE and   *)
(* ALLOCA, together with the calls of ShadowStack, which leave sp and bp   *)
(* as they are.                                                            *)
(*                                                                         *)
(* Places are counted in words of 8 bytes from the bottom of vm_stack; the *)
(* stack grows downwards from StackWords.  The operand of ENTER is a whole *)
(* number of words.  An "other" instruction of the program is one of these *)
(* five or none of them, as data says.                                     *)
(*                                                                         *)
(* Nothing tests sp against the ends of the mapping.  What an access       *)
(* outside does is undefined: the model stops when sp leaves the mapping   *)
(* (overrun), which is before the access.                                  *)
(***************************************************************************)
EXTENDS ShadowStack, Integers, SequencesExt

CONSTANTS StackWords,   \* stack_size / 8
          FrameWords,   \* what a call may use of the stack, for StackSuffices
          LocalWords,   \* the operands of ENTER, in words
          BlockBytes    \* the values of ax at an ALLOCA

DataInstruction ==
       [op : {"enter"}, words : LocalWords]
  \cup [op : {"push", "pop", "leave", "alloca", "none"}]

ASSUME StackAssumption ==
  /\ StackWords \in Nat /\ FrameWords \in Nat
  /\ LocalWords \subseteq Nat /\ BlockBytes \subseteq Nat

VARIABLES
  data,     \* what the "other" instructions of the program do
  sp, bp,   \* rf.sp, rf.bp, as places
  mem,      \* the words of vm_stack
  overrun,  \* has sp left the mapping?
  records,  \* history: the ENTERs not yet undone, with sp and bp before each, while tidy
  frames,   \* history: sp, bp, the number of records and the stack at each CALL
  tidy      \* history: has every function kept to its own part of the stack?

stackVars == <<sp, bp, mem, overrun>>
history == <<records, frames, tidy>>
allVars == <<vars, data, stackVars, history>>

Words == 0..(StackWords - 1)

\* A value of the guest that is no place on the stack.
Datum == StackWords + 1 + ip

\* thread_init_rf: sp and bp are at the top.
StackInit ==
  /\ Init
  /\ data \in [{a \in Code : code[a].op = "other"} -> DataInstruction]
  /\ sp = StackWords /\ bp = StackWords
  /\ mem = [w \in Words |-> 0]
  /\ overrun = FALSE
  /\ records = <<>> /\ frames = <<>> /\ tidy = TRUE

\* A data instruction.
Data(op) == Other /\ code[ip].op = "other" /\ data[ip].op = op /\ ~overrun /\ UNCHANGED <<data, frames>>

\* sp and bp move, and a word may be written; a write outside is not done.
Move(newSp, newBp) ==
  /\ sp' = newSp /\ bp' = newBp
  /\ overrun' = (newSp \notin 0..StackWords)

Write(w, v) == mem' = IF w \in Words THEN [mem EXCEPT ![w] = v] ELSE mem

-----------------------------------------------------------------------------
(* What belongs to the function that is running.  *)

EntrySp == IF frames = <<>> THEN StackWords ELSE Last(frames).sp
EntryDepth == IF frames = <<>> THEN 0 ELSE Last(frames).depth
HasRecord == Len(records) > EntryDepth

\* The lowest word it must not pop.
Own == IF HasRecord THEN Last(records).at ELSE EntrySp

-----------------------------------------------------------------------------

Record == [at |-> sp - 1, sp |-> sp, bp |-> bp]

\* The history of the ENTERs is kept as long as it means something.
Keep(ok, rs) ==
  /\ tidy' = (tidy /\ ok)
  /\ records' = IF tidy /\ ok THEN rs ELSE <<>>

\* Defective variant of Push: stores first.
PushLate ==
  /\ Data("push")
  /\ Move(sp - 1, bp)
  /\ Write(sp, Datum)
  /\ UNCHANGED <<records, tidy>>

Push ==
  /\ Data("push")
  /\ Move(sp - 1, bp)
  /\ Write(sp - 1, Datum)
  /\ UNCHANGED <<records, tidy>>

Pop ==
  /\ Data("pop")
  /\ Move(sp + 1, bp)
  /\ Keep(sp < Own, records)
  /\ UNCHANGED mem

\* Defective variant of Enter: bp is set before it is saved.
EnterLate ==
  /\ Data("enter")
  /\ Move(sp - 1 - data[ip].words, sp - 1)
  /\ Write(sp - 1, sp - 1)
  /\ Keep(TRUE, Append(records, Record))

\* push bp; bp = sp; make room for the locals.
Enter ==
  /\ sp > 0  \* else the push of bp is already outside
  /\ Data("enter")
  /\ Move(sp - 1 - data[ip].words, sp - 1)
  /\ Write(sp - 1, bp)
  /\ Keep(TRUE, Append(records, Record))

EnterOutside ==
  /\ sp = 0
  /\ Data("enter")
  /\ Move(-1, bp)
  /\ UNCHANGED <<mem, records, tidy>>

\* Defective variant of Leave: the word of the saved bp stays on the stack.
LeaveWord ==
  /\ Data("leave")
  /\ Move(bp, IF bp \in Words THEN mem[bp] ELSE bp)
  /\ Keep(HasRecord, Front(records))
  /\ UNCHANGED mem

\* sp = bp; pop bp.
Leave ==
  /\ Data("leave")
  /\ Move(bp + 1, IF bp \in Words THEN mem[bp] ELSE bp)
  /\ Keep(HasRecord, Front(records))
  /\ UNCHANGED mem

\* ax is rounded up to whole words.
Alloca ==
  /\ Data("alloca")
  /\ \E n \in BlockBytes : Move(sp - (n + 7) \div 8, bp)
  /\ UNCHANGED <<mem, records, tidy>>

None == Data("none") /\ UNCHANGED <<stackVars, records, tidy>>

(* Control: sp, bp and the stack stay as they are.  *)

Calls ==
  /\ Call \/ CallR
  /\ frames' = Append(frames, [sp |-> sp, bp |-> bp, depth |-> Len(records), mem |-> mem])
  /\ UNCHANGED <<records, tidy>>

PopFrame == frames' = IF frames = <<>> THEN frames ELSE Front(frames)

\* A function that returns has undone its ENTERs.
Returns == Ret /\ PopFrame /\ Keep(~HasRecord, records)

\* One that throws need not: its records are the handler's to undo.
Throws == Throw /\ PopFrame /\ UNCHANGED <<records, tidy>>

Others ==
  /\ Branch \/ (At("div") /\ Other) \/ DivideByZero \/ Halt
  /\ UNCHANGED history

Control ==
  /\ ~overrun
  /\ Calls \/ Returns \/ Throws \/ Others
  /\ UNCHANGED <<data, stackVars>>

End == (overrun \/ status # "run") /\ UNCHANGED allVars

StackNext ==
  \/ Push \/ Pop \/ Enter \/ EnterOutside \/ Leave \/ Alloca \/ None
  \/ Control
  \/ End

StackSpec == StackInit /\ [][StackNext]_allVars

-----------------------------------------------------------------------------

\* bp after the first n of the ENTERs in progress.
BpAfter(n) == IF n = 0 THEN StackWords ELSE records[n].at

\* The words bp was saved to, in order, from the first.
Chained ==
  /\ bp = BpAfter(Len(records))
  /\ \A n \in 1..Len(records) :
       /\ BpAfter(n) < BpAfter(n - 1)
       /\ mem[BpAfter(n)] = BpAfter(n - 1)

\* The records every caller had when it called are still among them.
CallersOnChain ==
  \A f \in 1..Len(frames) :
    /\ frames[f].depth <= Len(records)
    /\ frames[f].bp = BpAfter(frames[f].depth)

\* The saved bp's form a chain through all ENTERs in progress, from the word bp
\* points to up to the first, whatever was pushed, popped, allocated, called and
\* thrown in between.  Every caller is on it: a handler gets back to its own record,
\* after a THROW that left sp and bp where the thrower had them, by one LEAVE for
\* each of the thrower's ENTERs.
RecordsChained == tidy /\ ~overrun => Chained /\ CallersOnChain

\* What the callers had on the stack when they called is still there.
CallersWordsKept ==
  tidy /\ ~overrun =>
    \A f \in 1..Len(frames) : \A w \in Words :
      w >= frames[f].sp => mem[w] = frames[f].mem[w]

\* What each call in progress, the last of them running, takes of the stack.
Starts == <<StackWords>> \o [f \in 1..Len(frames) |-> frames[f].sp] \o <<sp>>
Used(f) == Starts[f] - Starts[f + 1]

\* Nobody tests for the end of the data stack, but recursion meets the end of the
\* shadow stack first, when each call takes no more than its share.
StackSuffices ==
  (/\ StackWords >= (ShadowDepth \div 2 + 1) * FrameWords
   /\ \A f \in 1..(Len(frames) + 1) : Used(f) <= FrameWords)
  => sp >= 0

\* LEAVE gives back sp and bp as they were before the ENTER it undoes.
LeaveUndoesEnter ==
  [][tidy /\ HasRecord /\ ~overrun /\ status = "run" /\ ip \in DOMAIN data /\ data[ip].op = "leave"
       => sp' = Last(records).sp /\ bp' = Last(records).bp]_stackVars
=============================================================================
