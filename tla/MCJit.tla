-------------------------------- MODULE MCJit --------------------------------
(***************************************************************************)
(* Instance of Jit for TLC: every instruction the compiler knows, with all *)
(* registers, before each way to end a block; every pair of them over      *)
(* cx and a register that needs a prefix bit; and programs of calls whose  *)
(* blocks fill the table and the arena, which has room for the first block *)
(* of nearly every program.                                                *)
(***************************************************************************)
EXTENDS Jit

Computing == {i \in Instruction : i.op \in RRops \cup Shifts \cup Floats \cup {"neg", "mov_ri"}}
Few == {2, 6}
Over(i, rs) == i.d \in rs /\ ("s" \in DOMAIN i => i.s \in rs)

Halt == [op |-> "halt"]
Ends == [op : {"ret", "throw", "halt"}] \cup {[op |-> "call", ok |-> 2, err |-> 0]}

Singles == {<<i, e, Halt, Halt>> : i \in Computing, e \in Ends}
Pairs == LET few == {i \in Computing : Over(i, Few)} IN {<<i, j, Halt, Halt>> : i, j \in few}
Control ==
  LET neg == [op |-> "neg", d |-> 6]
      calls == [op : {"call"}, ok : Code, err : Code]
      steps == calls \cup [op : {"ret", "throw", "other"}] \cup {neg}
  IN {<<i, j, k, Halt>> : i, j, k \in steps} \cup {<<neg, neg, i, j>> : i, j \in calls}

SomePrograms == {[a \in Code |-> p[a + 1]] : p \in Singles \cup Pairs \cup Control}
=============================================================================
