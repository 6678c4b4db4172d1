----------------------------- MODULE MCLinker -----------------------------
(* Pairs of objects with at most two symbols each, drawn from a data or code *)
(* symbol x and the two default entry points.                                *)
EXTENDS Linker

CONSTANT X

SymbolAt(n, f, sec, o) == [name |-> n, flags |-> f, section |-> sec, offset |-> o]
Extern(n) == SymbolAt(n, "EXTERN", "NONE", 0)

Xs == {SymbolAt(X, f, "DATA", 0) : f \in {"LOCAL", "GLOBAL"}}
        \cup {SymbolAt(X, f, "CODE", 1) : f \in {"LOCAL", "GLOBAL"}} \cup {Extern(X)}
Mains == {SymbolAt(Main, "LOCAL", "CODE", 2), SymbolAt(Main, "GLOBAL", "CODE", 2), Extern(Main)}
Starts == {SymbolAt(Start, "GLOBAL", "CODE", 1)}

Tables ==
  {<<>>} \cup {<<a>> : a \in Xs \cup Mains \cup Starts}
         \cup {<<a, b>> : a \in Xs, b \in Mains \cup Starts}
         \cup {<<a, b>> : a \in Starts, b \in Mains}

\* Two places to patch, at 0 and 1, and a jump at 2; an object that refers to
\* something brings no data of its own.
Kinds(s) == IF s.flags = "EXTERN" THEN {"CODE", "DATA"} ELSE {"DATA"}
Relocs(t) ==
  {<<>>} \cup UNION {{<<[at |-> 0, sym |-> j, kind |-> k]>> : k \in Kinds(t[j])} : j \in DOMAIN t}
         \cup {<<[at |-> 1, sym |-> Len(t), kind |-> k], [at |-> 0, sym |-> 1, kind |-> k]>> :
                 k \in IF Len(t) = 2 THEN {"DATA"} ELSE {}}
         \cup (IF t = <<>> THEN {<<[at |-> 0, sym |-> 1, kind |-> "DATA"]>>} ELSE {})

Linkable(t, r) ==
  [syms |-> t, rels |-> r, jumps |-> {[at |-> 2, to |-> 1]},
   len |-> [CNST |-> 0, DATA |-> IF r = <<>> THEN 1 ELSE 0, CODE |-> 3]]
DataOnly == [syms |-> <<>>, rels |-> <<>>, jumps |-> {},
             len |-> [CNST |-> 1, DATA |-> 1, CODE |-> 0]]

All == {DataOnly} \cup UNION {{Linkable(t, r) : r \in Relocs(t)} : t \in Tables}
Pairs == {<<a, b>> : a, b \in All}

PrivatePairs == {os \in Pairs : PrivateNames(os)}

AskedFor == {None, X}
=============================================================================
