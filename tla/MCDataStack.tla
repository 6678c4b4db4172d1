---------------------------- MODULE MCDataStack ----------------------------
(***************************************************************************)
(* Instance of DataStack for TLC: every program of three instructions, and *)
(* longer ones with room for a function that sets up a record, uses the    *)
(* stack, calls or throws, and takes the record down again.                *)
(***************************************************************************)
EXTENDS DataStack

Padded(p, n) == [a \in Code |-> IF a < n THEN p[a] ELSE [op |-> "halt"]]

Short ==
  LET Operand(i, f) == f \in DOMAIN i => i[f] < 3 IN
  {Padded(p, 3) : p \in [0..2 -> {i \in Instruction : Operand(i, "ok") /\ Operand(i, "err")}]}

Recursion == [op |-> "call", ok |-> 1, err |-> 4]

Long ==
  {p \in [Code -> {Recursion, [Recursion EXCEPT !.err = 2]} \cup [op : {"ret", "throw", "other"}]] :
     /\ p[0].op \in {"call", "other"}
     /\ \A a \in 1..4 : p[a].op = "call" => p[a] = Recursion}

SomePrograms == Short \cup Long
=============================================================================
