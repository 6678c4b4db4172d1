------------------------------ MODULE MCObjFile ------------------------------
(* Instance of ObjFile for TLC: an empty program, one without constants and    *)
(* with a symbol, and one with all parts, that fills both tables.              *)
EXTENDS ObjFile, TLC

Byte(b) == <<"byte", b>>
Sym(n) == <<"sym", n>>
Rel(n) == <<"rel", n>>
MCItems == {Byte(b) : b \in 1..4} \cup {Sym(n) : n \in {"a", "b"}} \cup {Rel(n) : n \in 1..2}
Prog(cnst, data, code, entry, syms, rels) ==
  [sec |-> [s \in Sections |-> CASE s = "CNST" -> cnst [] s = "DATA" -> data [] s = "CODE" -> code],
   entry |-> entry, SYMS |-> syms, RELS |-> rels]

MCProgs ==
  {Prog(NULL, NULL, NULL, 0, <<>>, <<>>),
   Prog(NULL, <<Byte(1)>>, <<Byte(2), Byte(3)>>, 1, <<Sym("a")>>, <<>>),
   Prog(<<Byte(1), Byte(2)>>, <<Byte(3)>>, <<Byte(4)>>, 0, <<Sym("a"), Sym("b")>>, <<Rel(1), Rel(2)>>)}
=============================================================================
