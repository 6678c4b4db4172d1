---------------------------- MODULE LinkerProof ----------------------------
(***************************************************************************)
(* What linking and loading guarantee, for any number of objects and any   *)
(* size of the tables: merged tables stay in range, every relocated        *)
(* reference reaches the definition its source means, bad links are        *)
(* refused, and the entry point is the one asked for.                      *)
(***************************************************************************)
EXTENDS Linker, TLAPS, SequenceTheorems, WellFoundedInduction

Phases == {"layout", "copy", "define", "resolve", "relocate", "load", "loaded", "failed"}

Typed ==
  /\ objs \in Inputs
  /\ phase \in Phases
  /\ obj \in 1..(Len(objs) + 1)
  /\ idx \in Nat \ {0}
  /\ size \in [Sections -> Nat]
  /\ base \in Seq([Sections -> Nat])
  /\ symMap = [i \in Objects |-> symMap[i]]
  /\ \A i \in Objects : symMap[i] \in [DOMAIN objs[i].syms -> Nat]
  /\ syms \in Seq(Symbol) /\ Len(syms) <= MaxSyms
  /\ rels \in Seq(Reloc) /\ Len(rels) <= MaxRels

\* Bases are what earlier objects take; pass 2 has come to obj.
LaidOut ==
  /\ phase = "layout" => obj = 1
  /\ phase \in {"layout", "copy"} => Len(base) = obj - 1
  /\ phase \in {"define", "resolve", "relocate", "load", "loaded"} => Len(base) = Len(objs)
  /\ Len(base) <= Len(objs)
  /\ \A i \in DOMAIN base : \A sec \in Sections : base[i][sec] = Base(i, sec)
  /\ \A sec \in Sections : size[sec] = Base(Len(base) + 1, sec)

\* The pass has visited item j of object i; so has pass 3, 4, 5.
Past(i, j) == i < obj \/ (i = obj /\ j < idx)
Seen3(i, j) == phase \in {"resolve", "relocate", "load", "loaded"} \/ (phase = "define" /\ Past(i, j))
Seen4(i, j) == phase \in {"relocate", "load", "loaded"} \/ (phase = "resolve" /\ Past(i, j))
Seen5(i, j) == phase \in {"load", "loaded"} \/ (phase = "relocate" /\ Past(i, j))

\* Every merged symbol is somebody's definition, moved to its merged place.
EntriesMerged ==
  \A k \in DOMAIN syms : \E i \in Objects : \E j \in DOMAIN objs[i].syms :
    objs[i].syms[j].flags # "EXTERN" /\ syms[k] = Merged(<<i, j>>)

\* An index leads to an entry of that name, also after entries are overwritten;
\* only a full table leaves a definition without one.
MapKept ==
  \A i \in Objects : \A j \in DOMAIN objs[i].syms :
    /\ symMap[i][j] # 0 => /\ symMap[i][j] \in DOMAIN syms
                           /\ syms[symMap[i][j]].name = objs[i].syms[j].name
    /\ Seen3(i, j) /\ objs[i].syms[j].flags # "EXTERN" => symMap[i][j] # 0 \/ Len(syms) = MaxSyms
    /\ Seen4(i, j) /\ objs[i].syms[j].flags = "EXTERN" => symMap[i][j] # 0

\* The first entry of the name of a GLOBAL is a GLOBAL, and no other has its name.
GlobalsFirst ==
  Len(syms) < MaxSyms =>
    \A i \in Objects : \A j \in DOMAIN objs[i].syms :
      Seen3(i, j) /\ objs[i].syms[j].flags = "GLOBAL" =>
        /\ Find(objs[i].syms[j].name) # 0
        /\ syms[Find(objs[i].syms[j].name)].flags = "GLOBAL"
        /\ \A d \in Symbols(objs[i].syms[j].name, "GLOBAL") : Seen3(d[1], d[2]) => d = <<i, j>>

\* Where private names stay private no entry is overwritten.
MapExact ==
  PrivateNames(objs) =>
    \A i \in Objects : \A j \in DOMAIN objs[i].syms :
      objs[i].syms[j].flags # "EXTERN" /\ symMap[i][j] # 0 =>
        syms[symMap[i][j]] = Merged(<<i, j>>)

\* Relocation j of object i as the merged table has it.
Mapped(i, j) == objs[i].rels[j].sym \in DOMAIN objs[i].syms /\ symMap[i][objs[i].rels[j].sym] # 0
Remapped(i, j) ==
  [at |-> objs[i].rels[j].at + Base(i, "CODE"), sym |-> symMap[i][objs[i].rels[j].sym],
   kind |-> objs[i].rels[j].kind]

\* The merged relocations are the remapped ones of the objects.
RelsMerged ==
  /\ phase \in {"layout", "copy", "define", "resolve"} => rels = <<>>
  /\ \A k \in DOMAIN rels : \E i \in Objects : \E j \in DOMAIN objs[i].rels :
       Mapped(i, j) /\ rels[k] = Remapped(i, j)
  /\ \A i \in Objects : \A j \in DOMAIN objs[i].rels :
       Seen5(i, j) => Mapped(i, j) /\ \E k \in DOMAIN rels : rels[k] = Remapped(i, j)

\* What is loaded so far stays patched.
Patched ==
  phase \in {"load", "loaded"} =>
    \A k \in DOMAIN rels : (phase = "load" => k < idx) =>
      /\ rels[k].at \in DOMAIN image
      /\ image[rels[k].at] = Value(rels[k].kind, syms[rels[k].sym])

EntryChosen ==
  phase \in {"load", "loaded"} =>
    entry = IF Found = {} THEN 0 ELSE syms[Find(Candidates[Min(Found)])].offset

SymsInv == EntriesMerged /\ MapKept /\ GlobalsFirst /\ MapExact
IInv == Typed /\ LaidOut /\ SymsInv /\ RelsMerged /\ Patched /\ EntryChosen
-----------------------------------------------------------------------------
(* Induction over a set, and what it says of sums *)

LEMMA SetInduction ==
  ASSUME NEW S, 0 \in S, \A n \in Nat : n \in S => n + 1 \in S
  PROVE  Nat \subseteq S
<1> DEFINE T == Nat \ S
<1>1. SUFFICES ASSUME T # {} PROVE FALSE
  OBVIOUS
<1>2. \E x \in T : \A y \in T : ~ (<<y, x>> \in OpToRel(<, Nat))
  <2>1. T \subseteq Nat
    OBVIOUS
  <2> HIDE DEF T
  <2> QED
    BY <1>1, <2>1, WFMin, NatLessThanWellFounded
<1>3. PICK x \in T : \A y \in T : ~ (<<y, x>> \in OpToRel(<, Nat))
  BY <1>2
<1>4. \A y \in T : ~(y < x)
  BY <1>3 DEF OpToRel
<1>5. x \in Nat /\ x # 0
  OBVIOUS
<1>6. x - 1 \in Nat /\ x - 1 < x /\ x - 1 + 1 = x
  BY <1>5
<1>7. x - 1 \in S
  BY <1>4, <1>6
<1> QED
  BY <1>6, <1>7

\* Sums of a sequence of numbers exist: the recursive definition of Base has a
\* solution.
LEMMA SumsExist ==
  ASSUME NEW N \in Nat, NEW g \in [1..N -> Nat]
  PROVE  \E f \in [0..N -> Nat] : f[0] = 0 /\ \A k \in 1..N : f[k] = f[k - 1] + g[k]
<1> DEFINE P(n) == \E f \in [0..n -> Nat] : f[0] = 0 /\ \A k \in 1..n : f[k] = f[k - 1] + g[k]
           S == {n \in Nat : n <= N => P(n)}
<1> HIDE DEF P
<1>1. 0 \in S
  <2> DEFINE h == [k \in 0..0 |-> 0]
  <2>1. h \in [0..0 -> Nat] /\ h[0] = 0 /\ \A k \in 1..0 : h[k] = h[k - 1] + g[k]
    OBVIOUS
  <2> HIDE DEF h
  <2>2. P(0)
    BY <2>1 DEF P
  <2> QED
    BY <2>2
<1>2. ASSUME NEW n \in Nat, n \in S PROVE n + 1 \in S
  <2> SUFFICES ASSUME n + 1 <= N PROVE P(n + 1)
    OBVIOUS
  <2>0. P(n)
    BY <1>2
  <2>1. PICK f \in [0..n -> Nat] : f[0] = 0 /\ \A k \in 1..n : f[k] = f[k - 1] + g[k]
    BY <2>0 DEF P
  <2> DEFINE h == [k \in 0..(n + 1) |-> IF k = n + 1 THEN f[n] + g[n + 1] ELSE f[k]]
  <2>2. f[n] \in Nat /\ g[n + 1] \in Nat
    BY <2>1
  <2>3. h \in [0..(n + 1) -> Nat]
    BY <2>1, <2>2
  <2>4. h[0] = 0
    BY <2>1
  <2>5. ASSUME NEW k \in 1..(n + 1) PROVE h[k] = h[k - 1] + g[k]
    <3>1. k \in 0..(n + 1) /\ k - 1 \in 0..n /\ k - 1 \in 0..(n + 1) /\ k - 1 # n + 1
      OBVIOUS
    <3>2. h[k - 1] = f[k - 1]
      BY <3>1
    <3>3. CASE k = n + 1
      <4>1. h[k] = f[n] + g[n + 1] /\ k - 1 = n
        BY <3>1, <3>3
      <4> QED
        BY <4>1, <3>2, <3>3
    <3>4. CASE k # n + 1
      <4>1. h[k] = f[k] /\ k \in 1..n
        BY <3>1, <3>4
      <4> QED
        BY <4>1, <3>2, <2>1
    <3> QED
      BY <3>3, <3>4
  <2> HIDE DEF h
  <2> QED
    BY <2>3, <2>4, <2>5 DEF P
<1>3. Nat \subseteq S
  <2> HIDE DEF S
  <2> QED
    BY <1>1, <1>2, SetInduction
<1>4. P(N)
  BY <1>3
<1> QED
  BY <1>4 DEF P

\* What the inputs are.
LEMMA ObjectFields ==
  ASSUME Typed
  PROVE  /\ objs \in Seq(Object) /\ Len(objs) \in Nat /\ Objects = 1..Len(objs)
         /\ \A i \in Objects :
              /\ objs[i].syms \in Seq(Symbol) /\ objs[i].rels \in Seq(Reloc)
              /\ Len(objs[i].syms) \in Nat /\ DOMAIN objs[i].syms = 1..Len(objs[i].syms)
              /\ Len(objs[i].rels) \in Nat /\ DOMAIN objs[i].rels = 1..Len(objs[i].rels)
              /\ \A j \in DOMAIN objs[i].syms : objs[i].syms[j] \in Symbol
              /\ \A j \in DOMAIN objs[i].rels : objs[i].rels[j] \in Reloc
              /\ \A sec \in Sections : objs[i].len[sec] \in Nat
              /\ WellFormed(objs[i])
<1>1. objs \in Seq(Object) /\ Len(objs) \in Nat /\ Objects = 1..Len(objs)
  BY ConstantsAssumption, LenProperties DEF Typed, Objects
<1>2. \A i \in Objects : objs[i] \in Object /\ WellFormed(objs[i])
  BY <1>1, ElementOfSeq, ConstantsAssumption DEF Typed, Objects
<1>3. ASSUME NEW i \in Objects
      PROVE  /\ objs[i].syms \in Seq(Symbol) /\ objs[i].rels \in Seq(Reloc)
             /\ \A sec \in Sections : objs[i].len[sec] \in Nat
  BY <1>2 DEF Object
<1>4. ASSUME NEW i \in Objects
      PROVE  /\ Len(objs[i].syms) \in Nat /\ DOMAIN objs[i].syms = 1..Len(objs[i].syms)
             /\ \A j \in DOMAIN objs[i].syms : objs[i].syms[j] \in Symbol
  BY <1>3, LenProperties, ElementOfSeq
<1>5. ASSUME NEW i \in Objects
      PROVE  /\ Len(objs[i].rels) \in Nat /\ DOMAIN objs[i].rels = 1..Len(objs[i].rels)
             /\ \A j \in DOMAIN objs[i].rels : objs[i].rels[j] \in Reloc
  BY <1>3, LenProperties, ElementOfSeq
<1> QED
  BY <1>1, <1>2, <1>3, <1>4, <1>5

LEMMA BaseStep ==
  ASSUME Typed, NEW sec \in Sections
  PROVE  /\ \A i \in 1..(Len(objs) + 1) : Base(i, sec) \in Nat
         /\ Base(1, sec) = 0
         /\ \A i \in Objects : Base(i + 1, sec) = Base(i, sec) + objs[i].len[sec]
<1>1. objs \in Seq(Object) /\ Len(objs) \in Nat /\ Objects = 1..Len(objs)
  BY ConstantsAssumption, LenProperties DEF Typed, Objects
<1>2. \A i \in 1..Len(objs) : objs[i].len[sec] \in Nat
  <2>1. \A i \in 1..Len(objs) : objs[i] \in Object
    BY <1>1, ElementOfSeq
  <2> QED
    BY <2>1 DEF Object
<1> DEFINE N == Len(objs)
           g == [i \in 1..N |-> objs[i].len[sec]]
           IsSum(f) == f = [n \in 0..N |-> IF n = 0 THEN 0 ELSE f[n - 1] + objs[n].len[sec]]
           taken == CHOOSE f : IsSum(f)
<1>3. PICK f \in [0..N -> Nat] : f[0] = 0 /\ \A k \in 1..N : f[k] = f[k - 1] + g[k]
  <2> HIDE DEF N, g
  <2>1. N \in Nat /\ g \in [1..N -> Nat]
    BY <1>1, <1>2 DEF N, g
  <2> QED
    BY <2>1, SumsExist
<1>4. IsSum(f)
  <2>1. \A n \in 0..N : f[n] = IF n = 0 THEN 0 ELSE f[n - 1] + objs[n].len[sec]
    BY <1>1, <1>3
  <2> QED
    BY <1>3, <2>1
<1>5. IsSum(taken)
  <2> HIDE DEF IsSum
  <2> QED
    BY <1>4
<1>6. \A i : Base(i, sec) = taken[i - 1]
  BY DEF Base
<1>7. \A n \in 0..N : taken[n] = IF n = 0 THEN 0 ELSE taken[n - 1] + objs[n].len[sec]
  <2> HIDE DEF taken
  <2> QED
    BY <1>5
<1> HIDE DEF taken
<1>8. \A n \in 0..N : taken[n] \in Nat
  <2> DEFINE S == {n \in Nat : n <= N => taken[n] \in Nat}
  <2>1. 0 \in S
    BY <1>7
  <2>2. ASSUME NEW n \in Nat, n \in S PROVE n + 1 \in S
    <3> SUFFICES ASSUME n + 1 <= N PROVE taken[n + 1] \in Nat
      OBVIOUS
    <3>1. taken[n] \in Nat /\ n + 1 \in 0..N /\ n + 1 # 0 /\ n + 1 - 1 = n /\ n + 1 \in 1..Len(objs)
      BY <1>1, <2>2
    <3>2. taken[n + 1] = taken[n] + objs[n + 1].len[sec]
      BY <3>1, <1>7
    <3> QED
      BY <3>1, <3>2, <1>2
  <2>3. Nat \subseteq S
    <3> HIDE DEF S
    <3> QED
      BY <2>1, <2>2, SetInduction
  <2> QED
    BY <2>3, <1>1
<1> QED
  <2>1. /\ \A i \in 1..(Len(objs) + 1) : i - 1 \in 0..N
        /\ \A i \in Objects : i \in 0..N /\ i + 1 - 1 = i /\ i # 0
        /\ 1 - 1 = 0 /\ 0 \in 0..N
    BY <1>1
  <2> HIDE DEF N
  <2>2. \A i \in 1..(Len(objs) + 1) : Base(i, sec) \in Nat
    BY <2>1, <1>6, <1>8
  <2>3. Base(1, sec) = 0
    BY <2>1, <1>6, <1>7
  <2>4. ASSUME NEW i \in Objects PROVE Base(i + 1, sec) = Base(i, sec) + objs[i].len[sec]
    <3>1. Base(i + 1, sec) = taken[i] /\ Base(i, sec) = taken[i - 1]
      BY <2>1, <1>6
    <3>2. taken[i] = taken[i - 1] + objs[i].len[sec]
      BY <2>1, <1>7
    <3> QED
      BY <3>1, <3>2
  <2> QED
    BY <2>2, <2>3, <2>4

\* The places of a later object come after those of an earlier one.
LEMMA BaseOrder ==
  ASSUME Typed, NEW sec \in Sections
  PROVE  \A i \in Objects : \A k \in 1..(Len(objs) + 1) :
           i < k => Base(i, sec) + objs[i].len[sec] <= Base(k, sec)
<1>1. Len(objs) \in Nat /\ Objects = 1..Len(objs)
  BY ConstantsAssumption, LenProperties DEF Typed, Objects
<1> DEFINE S == {k \in Nat : k <= Len(objs) + 1 =>
                   \A i \in Objects : i < k => Base(i, sec) + objs[i].len[sec] <= Base(k, sec)}
<1>2. 0 \in S
  BY <1>1
<1>3. ASSUME NEW k \in Nat, k \in S PROVE k + 1 \in S
  <2> SUFFICES ASSUME k + 1 <= Len(objs) + 1, NEW i \in Objects, i < k + 1
               PROVE  Base(i, sec) + objs[i].len[sec] <= Base(k + 1, sec)
    OBVIOUS
  <2>1. k \in Objects /\ k \in 1..(Len(objs) + 1) /\ k + 1 \in 1..(Len(objs) + 1)
    BY <1>1
  <2>2. /\ Base(k, sec) \in Nat /\ Base(k + 1, sec) \in Nat
        /\ Base(k + 1, sec) = Base(k, sec) + objs[k].len[sec]
    BY <2>1, BaseStep
  <2>3. objs[k].len[sec] \in Nat
    BY <2>1, ObjectFields
  <2>4. i < k => Base(i, sec) + objs[i].len[sec] <= Base(k, sec)
    <3>1. k <= Len(objs) + 1
      BY <1>1, <2>1
    <3>2. \A l \in Objects : l < k => Base(l, sec) + objs[l].len[sec] <= Base(k, sec)
      BY <1>3, <3>1
    <3> QED
      BY <3>2
  <2>5. i = k \/ i < k
    BY <1>1
  <2>6. Base(i, sec) \in Nat /\ objs[i].len[sec] \in Nat
    BY <1>1, BaseStep, ObjectFields
  <2>7. CASE i = k
    BY <2>2, <2>3, <2>7
  <2>8. CASE i < k
    <3> DEFINE b == Base(k, sec)  c == Base(k + 1, sec)  d == objs[k].len[sec]
               e == Base(i, sec) + objs[i].len[sec]
    <3>1. b \in Nat /\ c = b + d /\ d \in Nat /\ e \in Nat /\ e <= b
      BY <2>2, <2>3, <2>4, <2>6, <2>8, SMTT(30)
    <3> HIDE DEF b, c, d, e
    <3>2. e <= c
      BY <3>1
    <3> QED
      BY <3>2 DEF c, e
  <2> QED
    BY <2>5, <2>7, <2>8
<1>4. Nat \subseteq S
  <2> HIDE DEF S
  <2> QED
    BY <1>2, <1>3, SetInduction
<1> QED
  BY <1>1, <1>4
-----------------------------------------------------------------------------
(* Looking a name up *)

LEMMA LeastExists ==
  ASSUME NEW S \in SUBSET Nat, S # {}
  PROVE  Min(S) \in S /\ \A y \in S : Min(S) <= y
<1>1. PICK x \in S : \A y \in S : ~ (<<y, x>> \in OpToRel(<, Nat))
  BY WFMin, NatLessThanWellFounded
<1>2. \A y \in S : x <= y
  <2>1. \A y \in S : ~(y < x)
    BY <1>1 DEF OpToRel
  <2> QED
    BY <2>1
<1> QED
  BY <1>2 DEF Min

\* What Find gives in the table t.
FirstOf(t, name) ==
  LET at == {k \in DOMAIN t : t[k].name = name}
  IN  IF at = {} THEN 0 ELSE Min(at)

LEMMA FindIsFirst ==
  ASSUME NEW name PROVE Find(name) = FirstOf(syms, name) /\ Find(name)' = FirstOf(syms', name)
BY DEF Find, FirstOf

LEMMA FirstFacts ==
  ASSUME NEW t \in Seq(Symbol), NEW name
  PROVE  /\ FirstOf(t, name) \in Nat
         /\ FirstOf(t, name) = 0 => \A k \in DOMAIN t : t[k].name # name
         /\ FirstOf(t, name) # 0 =>
              /\ FirstOf(t, name) \in DOMAIN t /\ t[FirstOf(t, name)].name = name
              /\ \A k \in DOMAIN t : t[k].name = name => FirstOf(t, name) <= k
<1> DEFINE at == {k \in DOMAIN t : t[k].name = name}
<1>1. at \in SUBSET Nat /\ 0 \notin at
  BY LenProperties
<1>2. CASE at = {}
  BY <1>2 DEF FirstOf
<1>3. CASE at # {}
  <2>1. Min(at) \in at /\ \A y \in at : Min(at) <= y
    <3> HIDE DEF at
    <3> QED
      BY <1>1, <1>3, LeastExists
  <2>2. FirstOf(t, name) = Min(at)
    BY <1>3 DEF FirstOf
  <2> QED
    BY <1>1, <2>1, <2>2
<1> QED
  BY <1>2, <1>3

LEMMA FirstIs ==
  ASSUME NEW t \in Seq(Symbol), NEW name, NEW k \in DOMAIN t, t[k].name = name,
         \A l \in DOMAIN t : t[l].name = name => k <= l
  PROVE  FirstOf(t, name) = k
<1>1. k \in Nat /\ k # 0
  BY LenProperties
<1>2. FirstOf(t, name) # 0
  BY FirstFacts
<1>3. FirstOf(t, name) <= k /\ k <= FirstOf(t, name) /\ FirstOf(t, name) \in Nat
  BY <1>2, FirstFacts
<1> QED
  BY <1>1, <1>3

\* A table that grows, or has entries overwritten under their names, gives the
\* same answer for names it has.
LEMMA FirstKept ==
  ASSUME NEW t \in Seq(Symbol), NEW u \in Seq(Symbol), Len(t) <= Len(u),
         \A k \in DOMAIN t : u[k].name = t[k].name,
         NEW name, FirstOf(t, name) # 0
  PROVE  FirstOf(u, name) = FirstOf(t, name)
<1> DEFINE k == FirstOf(t, name)
<1>1. /\ Len(t) \in Nat /\ DOMAIN t = 1..Len(t) /\ Len(u) \in Nat /\ DOMAIN u = 1..Len(u)
  BY LenProperties
<1>2. k \in DOMAIN t /\ t[k].name = name /\ \A l \in DOMAIN t : t[l].name = name => k <= l
  BY FirstFacts
<1>3. k \in DOMAIN u /\ u[k].name = name
  BY <1>1, <1>2
<1>4. ASSUME NEW l \in DOMAIN u, u[l].name = name PROVE k <= l
  <2>1. CASE l \in DOMAIN t
    BY <1>2, <1>4, <2>1
  <2>2. CASE l \notin DOMAIN t
    BY <1>1, <1>2, <2>2
  <2> QED
    BY <2>1, <2>2
<1> QED
  <2> HIDE DEF k
  <2>1. FirstOf(u, name) = k
    BY <1>3, <1>4, FirstIs
  <2> QED
    BY <2>1 DEF k

-----------------------------------------------------------------------------
(* Types and the layout *)

\* Every object has its bases from pass 3 on, and the sections end where pass 2
\* left off.
LEMMA BasesKnown ==
  ASSUME Typed, LaidOut, phase \in {"define", "resolve", "relocate", "load", "loaded"}
  PROVE  /\ DOMAIN base = Objects
         /\ \A i \in Objects : \A sec \in Sections : base[i][sec] = Base(i, sec) /\ Base(i, sec) \in Nat
         /\ \A sec \in Sections : size[sec] = Total(sec)
<1>1. Len(objs) \in Nat /\ Objects = 1..Len(objs) /\ Len(base) = Len(objs) /\ DOMAIN base = 1..Len(base)
  BY ObjectFields, LenProperties DEF Typed, LaidOut
<1>2. \A i \in Objects : \A sec \in Sections : base[i][sec] = Base(i, sec)
  BY <1>1 DEF LaidOut
<1>3. \A i \in Objects : \A sec \in Sections : Base(i, sec) \in Nat
  BY <1>1, BaseStep
<1>4. \A sec \in Sections : size[sec] = Total(sec)
  BY <1>1 DEF LaidOut, Total
<1> QED
  BY <1>1, <1>2, <1>3, <1>4

\* Relations the steps of the passes have to their cursor.
LEMMA Visited ==
  ASSUME Typed, NEW p \in {"define", "resolve"}, Visiting(p)
  PROVE  /\ obj \in Objects /\ idx \in DOMAIN objs[obj].syms
         /\ Sym \in Symbol /\ idx + 1 \in Nat \ {0}
BY ObjectFields DEF Visiting, Table, Sym, Typed

\* The symbol visited in pass 3 is placed where merging should put it.
LEMMA PlacedMerged ==
  ASSUME Typed, LaidOut, Visiting("define"), Sym.flags # "EXTERN"
  PROVE  Placed = Merged(<<obj, idx>>) /\ Placed \in Symbol
         /\ Placed.name = Sym.name /\ Placed.flags = Sym.flags /\ Placed.section = Sym.section
<1>1. obj \in Objects /\ idx \in DOMAIN objs[obj].syms /\ Sym \in Symbol
  BY Visited
<1>2. Sym.section \in Sections
  BY <1>1, ObjectFields DEF WellFormed, Sym
<1>3. base[obj][Sym.section] = Base(obj, Sym.section) /\ Base(obj, Sym.section) \in Nat
  BY <1>1, <1>2, BasesKnown DEF Visiting
<1>4. Placed = Merged(<<obj, idx>>)
  BY <1>3 DEF Placed, Merged, Sym
<1>5. Placed = [Sym EXCEPT !.offset = @ + Base(obj, Sym.section)]
  BY <1>3 DEF Placed
<1> QED
  BY <1>1, <1>3, <1>4, <1>5 DEF Symbol

\* What Placed and Find have for types.
LEMMA SymTypes ==
  ASSUME Typed, LaidOut, NEW name
  PROVE  /\ Find(name) \in Nat /\ Len(syms) \in Nat /\ DOMAIN syms = 1..Len(syms)
         /\ Find(name) # 0 => Find(name) \in DOMAIN syms
BY FindIsFirst, FirstFacts, LenProperties DEF Typed

\* Setting one place of symMap keeps its type.
LEMMA MapTypes ==
  ASSUME Typed, obj \in Objects, idx \in DOMAIN objs[obj].syms, NEW k \in Nat, Map(k), objs' = objs
  PROVE  /\ symMap' = [i \in Objects' |-> symMap'[i]]
         /\ \A i \in Objects' : symMap'[i] \in [DOMAIN objs'[i].syms -> Nat]
         /\ \A i \in Objects : \A j \in DOMAIN objs[i].syms :
              symMap'[i][j] = IF i = obj /\ j = idx THEN k ELSE symMap[i][j]
<1>1. /\ symMap = [i \in Objects |-> symMap[i]]
      /\ \A i \in Objects : symMap[i] \in [DOMAIN objs[i].syms -> Nat]
  BY DEF Typed
<1>2. symMap' = [symMap EXCEPT ![obj] = [symMap[obj] EXCEPT ![idx] = k]]
  BY DEF Map
<1>3. Objects' = Objects
  BY DEF Objects
<1>4. symMap' = [i \in Objects |-> IF i = obj THEN [symMap[obj] EXCEPT ![idx] = k] ELSE symMap[i]]
  BY <1>1, <1>2
<1>5. \A i \in Objects : symMap'[i] = IF i = obj THEN [symMap[obj] EXCEPT ![idx] = k] ELSE symMap[i]
  BY <1>4
<1>6. symMap' = [i \in Objects |-> symMap'[i]]
  BY <1>4, <1>5
<1> QED
  BY <1>1, <1>3, <1>5, <1>6

\* The steps that only move on.
LEMMA TypedMove ==
  ASSUME Typed, UNCHANGED <<objs, size, base, symMap, syms, rels>>,
         phase' \in Phases, obj' \in 1..(Len(objs) + 1), idx' \in Nat \ {0}
  PROVE  Typed'
BY DEF Typed, Objects

LEMMA TypedSyms ==
  ASSUME Typed, obj \in Objects, idx \in DOMAIN objs[obj].syms, NEW k \in Nat, Map(k), Done, UNCHANGED rels,
         syms' \in Seq(Symbol), Len(syms') <= MaxSyms
  PROVE  Typed'
<1>1. /\ symMap' = [i \in Objects' |-> symMap'[i]]
      /\ \A i \in Objects' : symMap'[i] \in [DOMAIN objs'[i].syms -> Nat]
  BY MapTypes DEF Done
<1> QED
  BY <1>1 DEF Typed, Done

\* Adding a symbol: dropped, or the last entry.
LEMMA AddCases ==
  ASSUME Typed, Placed \in Symbol, Add
  PROVE  \/ Len(syms) = MaxSyms /\ UNCHANGED <<syms, symMap>>
         \/ /\ Len(syms) < MaxSyms /\ Map(Len(syms) + 1)
            /\ syms' = Append(syms, Placed) /\ syms' \in Seq(Symbol) /\ Len(syms') = Len(syms) + 1
            /\ syms'[Len(syms) + 1] = Placed /\ \A k \in 1..Len(syms) : syms'[k] = syms[k]
<1>1. syms \in Seq(Symbol) /\ Len(syms) <= MaxSyms /\ Len(syms) \in Nat /\ MaxSyms \in Nat
  BY ConstantsAssumption, LenProperties DEF Typed
<1>2. CASE Len(syms) < MaxSyms
  <2>1. syms' = Append(syms, Placed) /\ Map(Len(syms) + 1)
    BY <1>2 DEF Add
  <2>2. /\ Append(syms, Placed) \in Seq(Symbol) /\ Len(Append(syms, Placed)) = Len(syms) + 1
        /\ \A k \in 1..Len(syms) : Append(syms, Placed)[k] = syms[k]
        /\ Append(syms, Placed)[Len(syms) + 1] = Placed
    BY <1>1, AppendProperties
  <2> QED
    BY <1>2, <2>1, <2>2
<1>3. CASE ~(Len(syms) < MaxSyms)
  <2>1. UNCHANGED <<syms, symMap>>
    BY <1>3 DEF Add
  <2> QED
    BY <1>1, <1>3, <2>1
<1> QED
  BY <1>2, <1>3

\* Overwriting an entry under its name.
LEMMA Overwritten ==
  ASSUME Typed, Placed \in Symbol, NEW k \in DOMAIN syms, syms' = [syms EXCEPT ![k] = Placed]
  PROVE  /\ syms' \in Seq(Symbol) /\ Len(syms') = Len(syms)
         /\ \A l \in 1..Len(syms) : syms'[l] = IF l = k THEN Placed ELSE syms[l]
<1>1. syms \in Seq(Symbol) /\ Len(syms) \in Nat /\ DOMAIN syms = 1..Len(syms)
  BY LenProperties DEF Typed
<1> QED
  BY <1>1, ExceptSeq
LEMMA TypedDefine ==
  ASSUME Typed, LaidOut, DefineLocal \/ DefineGlobal
  PROVE  Typed'
<1>1. /\ obj \in Objects /\ idx \in DOMAIN objs[obj].syms /\ Placed \in Symbol
      /\ obj \in 1..(Len(objs) + 1) /\ idx \in Nat \ {0} /\ Len(syms) \in Nat
  <2>1. Visiting("define") /\ Sym.flags # "EXTERN"
    BY DEF DefineLocal, DefineGlobal
  <2> QED
    BY <2>1, Visited, PlacedMerged, SymTypes DEF Typed
<1>2. CASE Fail
  BY <1>1, <1>2, TypedMove DEF Fail, Phases
<1>3. CASE Add /\ Done /\ UNCHANGED rels
  <2>1. CASE Len(syms) = MaxSyms /\ UNCHANGED <<syms, symMap>>
    <3>1. UNCHANGED <<objs, size, base, symMap, syms, rels, phase, obj>> /\ idx' = idx + 1
      BY <1>3, <2>1 DEF Done
    <3>2. phase' \in Phases /\ obj' \in 1..(Len(objs) + 1) /\ idx' \in Nat \ {0}
      BY <3>1 DEF Typed
    <3> QED
      BY <3>1, <3>2, TypedMove
  <2>2. CASE /\ Len(syms) < MaxSyms /\ Map(Len(syms) + 1)
             /\ syms' \in Seq(Symbol) /\ Len(syms') = Len(syms) + 1
    <3>1. Len(syms) + 1 \in Nat /\ Len(syms') <= MaxSyms
      BY <1>1, <2>2, ConstantsAssumption
    <3> QED
      BY <1>1, <1>3, <2>2, <3>1, TypedSyms
  <2> QED
    BY <1>1, <1>3, <2>1, <2>2, AddCases
<1>4. CASE /\ Find(Sym.name) # 0 /\ syms' = [syms EXCEPT ![Find(Sym.name)] = Placed]
           /\ Map(Find(Sym.name)) /\ Done /\ UNCHANGED rels
  <2>1. Find(Sym.name) \in Nat /\ Find(Sym.name) \in DOMAIN syms
    BY <1>4, SymTypes
  <2>2. syms' \in Seq(Symbol) /\ Len(syms') = Len(syms)
    BY <1>1, <1>4, <2>1, Overwritten
  <2>3. Len(syms') <= MaxSyms
    BY <2>2 DEF Typed
  <2> QED
    BY <1>1, <1>4, <2>1, <2>2, <2>3, TypedSyms
<1> QED
  BY <1>2, <1>3, <1>4 DEF DefineLocal, DefineGlobal

LEMMA TypedOthers ==
  ASSUME Typed, LaidOut,
         \/ Layout \/ CopyObject \/ Copied \/ NextObject \/ SkipExtern \/ Defined \/ SkipDefined
         \/ ResolveExtern \/ Resolved \/ Relocate \/ ChooseEntry \/ LoadEmpty \/ LoadPatch \/ Loaded
  PROVE  Typed'
<1>1. /\ phase \in Phases /\ obj \in 1..(Len(objs) + 1) /\ idx \in Nat \ {0} /\ Len(objs) \in Nat
      /\ Objects = 1..Len(objs) /\ idx + 1 \in Nat \ {0} /\ 1 \in 1..(Len(objs) + 1) /\ 1 \in Nat \ {0}
      /\ obj \in Objects => obj + 1 \in 1..(Len(objs) + 1)
  BY ObjectFields DEF Typed
<1>2. ASSUME Fail PROVE Typed'
  BY <1>1, <1>2, TypedMove DEF Fail, Phases
<1>3. ASSUME NEW p \in Phases, Pass(p) PROVE objs' = objs /\ Typed'
  BY <1>1, <1>3, TypedMove DEF Pass
<1>4. ASSUME Done, UNCHANGED <<symMap, syms, rels>> PROVE Typed'
  BY <1>1, <1>4, TypedMove DEF Done
<1>5. CASE Layout
  <2>1. CASE Fail
    BY <1>2, <2>1
  <2>2. CASE phase' = "copy" /\ UNCHANGED <<objs, obj, idx, size, base, symMap, syms, rels>>
    BY <1>1, <2>2, TypedMove DEF Phases
  <2> QED
    BY <1>5, <2>1, <2>2 DEF Layout
<1>6. CASE CopyObject
  <2>1. size \in [Sections -> Nat] /\ base \in Seq([Sections -> Nat])
    BY DEF Typed
  <2>2. base' \in Seq([Sections -> Nat])
    BY <1>6, <2>1, AppendProperties DEF CopyObject
  <2>3. size' \in [Sections -> Nat]
    BY <1>6, <2>1, ObjectFields DEF CopyObject
  <2>4. /\ UNCHANGED <<objs, phase, idx, symMap, syms, rels>>
        /\ obj' \in 1..(Len(objs) + 1)
    BY <1>1, <1>6 DEF CopyObject
  <2> QED
    BY <2>2, <2>3, <2>4 DEF Typed, Objects
<1>7. CASE Copied
  BY <1>3, <1>7 DEF Copied, Phases
<1>8. CASE NextObject
  BY <1>1, <1>8, TypedMove DEF NextObject
<1>9. CASE SkipExtern \/ SkipDefined
  BY <1>4, <1>9 DEF SkipExtern, SkipDefined
<1>10. CASE Defined
  BY <1>3, <1>10 DEF Defined, Phases
<1>11. CASE ResolveExtern
  <2>1. Find(Sym.name) \in Nat /\ obj \in Objects /\ idx \in DOMAIN objs[obj].syms
    BY <1>11, SymTypes, Visited DEF ResolveExtern
  <2>2. CASE Map(Find(Sym.name)) /\ Done /\ UNCHANGED <<syms, rels>>
    <3>1. syms' \in Seq(Symbol) /\ Len(syms') <= MaxSyms
      BY <2>2 DEF Typed
    <3> QED
      BY <2>1, <2>2, <3>1, TypedSyms
  <2> QED
    BY <1>2, <1>11, <2>2 DEF ResolveExtern
<1>12. CASE Resolved
  BY <1>3, <1>12 DEF Resolved, Phases
<1>13. CASE Relocate
  <2>1. CASE Fail
    BY <1>2, <2>1
  <2>2. CASE /\ Len(rels) < MaxRels /\ NewSym # 0
             /\ rels' = Append(rels, Remap(base[obj]["CODE"]))
             /\ Done /\ UNCHANGED <<symMap, syms>>
    <3>1. phase = "relocate" /\ obj \in Objects /\ idx \in DOMAIN objs[obj].rels
      BY <1>13 DEF Relocate, Visiting, Table
    <3>2. Rel \in Reloc /\ base[obj]["CODE"] \in Nat
      BY <3>1, ObjectFields, BasesKnown DEF Rel, Sections
    <3>3. NewSym \in Nat
      BY <3>1 DEF NewSym, Typed
    <3>4. Remap(base[obj]["CODE"]) \in Reloc
      BY <3>2, <3>3 DEF Remap, Reloc
    <3>5. rels \in Seq(Reloc) /\ Len(rels) \in Nat
      BY LenProperties DEF Typed
    <3>6. rels' \in Seq(Reloc) /\ Len(rels') = Len(rels) + 1
      BY <2>2, <3>4, <3>5, AppendProperties
    <3>7. Len(rels') <= MaxRels
      BY <2>2, <3>5, <3>6, ConstantsAssumption
    <3>8. UNCHANGED <<objs, phase, obj, size, base, symMap, syms>> /\ idx' \in Nat \ {0}
      BY <1>1, <2>2 DEF Done
    <3> QED
      BY <3>6, <3>7, <3>8 DEF Typed, Objects
  <2> QED
    BY <1>13, <2>1, <2>2 DEF Relocate
<1>14. CASE ChooseEntry
  BY <1>3, <1>14 DEF ChooseEntry, Phases
<1>15. CASE LoadEmpty
  BY <1>2, <1>15 DEF LoadEmpty
<1>16. CASE LoadPatch
  <2>1. CASE Fail
    BY <1>2, <2>1
  <2>2. CASE idx' = idx + 1 /\ UNCHANGED <<objs, phase, obj, size, base, symMap, syms, rels>>
    BY <1>1, <2>2, TypedMove
  <2> QED
    BY <1>16, <2>1, <2>2 DEF LoadPatch
<1>17. CASE Loaded
  BY <1>1, <1>17, TypedMove DEF Loaded, Phases
<1> QED
  BY <1>5, <1>6, <1>7, <1>8, <1>9, <1>10, <1>11, <1>12, <1>13, <1>14, <1>15, <1>16, <1>17

\* base and size follow what is copied, and nothing else moves them.
LEMMA LaidOutNext ==
  ASSUME Typed, LaidOut, Next
  PROVE  LaidOut'
<1>1. /\ obj \in 1..(Len(objs) + 1) /\ Len(objs) \in Nat /\ Objects = 1..Len(objs) /\ Len(base) \in Nat
      /\ base \in Seq([Sections -> Nat]) /\ DOMAIN base = 1..Len(base)
  BY ObjectFields, LenProperties DEF Typed
<1>2. objs' = objs
  BY DEF Next, Layout, CopyObject, Copied, NextObject, SkipExtern, DefineLocal, DefineGlobal, Defined,
         SkipDefined, ResolveExtern, Resolved, Relocate, ChooseEntry, LoadEmpty, LoadPatch, Loaded, Ended,
         Done, Fail, Pass, vars
<1>3. \A i, sec : Base(i, sec)' = Base(i, sec)
  BY <1>2 DEF Base
<1>4. CASE CopyObject
  <2>1. /\ phase = "copy" /\ phase' = phase /\ obj \in Objects /\ obj' = obj + 1 /\ Len(base) = obj - 1
    BY <1>4 DEF CopyObject, LaidOut
  <2>2. /\ Len(base') = Len(base) + 1
        /\ \A i \in 1..Len(base) : base'[i] = base[i]
        /\ base'[Len(base) + 1] = size
        /\ DOMAIN base' = 1..(Len(base) + 1)
    <3>1. size \in [Sections -> Nat]
      BY DEF Typed
    <3>2. base' = Append(base, size)
      BY <1>4 DEF CopyObject
    <3>3. base' \in Seq([Sections -> Nat]) /\ Len(base') = Len(base) + 1
      BY <1>1, <3>1, <3>2, AppendProperties
    <3> QED
      BY <1>1, <3>1, <3>2, <3>3, AppendProperties, LenProperties
  <2>3. ASSUME NEW i \in DOMAIN base', NEW sec \in Sections PROVE base'[i][sec] = Base(i, sec)
    <3>1. CASE i \in 1..Len(base)
      BY <1>1, <2>2, <3>1 DEF LaidOut
    <3>2. CASE i = Len(base) + 1
      BY <2>2, <3>2 DEF LaidOut
    <3> QED
      BY <1>1, <2>2, <3>1, <3>2
  <2>4. ASSUME NEW sec \in Sections PROVE size'[sec] = Base(Len(base') + 1, sec)
    <3>1. size'[sec] = size[sec] + objs[obj].len[sec]
      BY <1>4 DEF CopyObject
    <3>2. size[sec] = Base(obj, sec)
      BY <1>1, <2>1 DEF LaidOut
    <3>3. Base(obj + 1, sec) = Base(obj, sec) + objs[obj].len[sec]
      BY <2>1, BaseStep
    <3>4. Len(base') + 1 = obj + 1
      BY <1>1, <2>1, <2>2
    <3> QED
      BY <3>1, <3>2, <3>3, <3>4
  <2> QED
    BY <1>1, <1>2, <1>3, <2>1, <2>2, <2>3, <2>4 DEF LaidOut
<1>5. CASE ~CopyObject
  <2>1. base' = base /\ size' = size
    BY <1>5 DEF Next, Layout, CopyObject, Copied, NextObject, SkipExtern, DefineLocal, DefineGlobal, Defined,
         SkipDefined, ResolveExtern, Resolved, Relocate, ChooseEntry, LoadEmpty, LoadPatch, Loaded, Ended,
         Done, Fail, Pass, vars
  <2>2. /\ phase' = "layout" => phase = "layout" /\ obj' = obj
        /\ phase' = "copy" => (phase = "layout" \/ phase = "copy") /\ obj' = obj
        /\ phase' \in {"define", "resolve", "relocate", "load", "loaded"} =>
             \/ phase = "copy" /\ obj \notin Objects
             \/ phase \in {"define", "resolve", "relocate", "load", "loaded"}
    BY <1>5 DEF Next, Layout, CopyObject, Copied, NextObject, SkipExtern, DefineLocal, DefineGlobal, Defined,
         SkipDefined, ResolveExtern, Resolved, Relocate, ChooseEntry, LoadEmpty, LoadPatch, Loaded, Ended,
         Done, Fail, Pass, Visiting, vars
  <2>3. obj \notin Objects => obj - 1 = Len(objs)
    BY <1>1
  <2> QED
    BY <1>1, <1>2, <1>3, <2>1, <2>2, <2>3 DEF LaidOut
<1> QED
  BY <1>4, <1>5
-----------------------------------------------------------------------------
(* The merged symbol table *)

\* What is said of the objects stays: they do not change.
LEMMA Rigid ==
  ASSUME objs' = objs
  PROVE  /\ Objects' = Objects
         /\ \A d : Merged(d)' = Merged(d)
         /\ \A name, flags : Symbols(name, flags)' = Symbols(name, flags)
         /\ \A i, sec : Base(i, sec)' = Base(i, sec)
BY DEF Objects, Merged, Symbols, Base

LEMMA MergedFields ==
  ASSUME Typed, NEW i \in Objects, NEW j \in DOMAIN objs[i].syms
  PROVE  /\ Merged(<<i, j>>).name = objs[i].syms[j].name
         /\ Merged(<<i, j>>).flags = objs[i].syms[j].flags
         /\ Merged(<<i, j>>).section = objs[i].syms[j].section
         /\ Merged(<<i, j>>).offset = objs[i].syms[j].offset + Base(i, objs[i].syms[j].section)
<1>1. objs[i].syms[j] \in Symbol
  BY ObjectFields
<1> QED
  BY <1>1 DEF Merged, Symbol

LEMMA SymbolsAre ==
  ASSUME NEW name, NEW flags
  PROVE  /\ \A i \in Objects : \A j \in DOMAIN objs[i].syms :
              objs[i].syms[j].name = name /\ objs[i].syms[j].flags = flags => <<i, j>> \in Symbols(name, flags)
         /\ \A d \in Symbols(name, flags) :
              /\ d = <<d[1], d[2]>> /\ d[1] \in Objects /\ d[2] \in DOMAIN objs[d[1]].syms
              /\ objs[d[1]].syms[d[2]].name = name /\ objs[d[1]].syms[d[2]].flags = flags
BY DEF Symbols

\* Steps that leave the table and the indices alone and see nothing new.
LEMMA SameSyms ==
  ASSUME SymsInv, UNCHANGED <<objs, syms, symMap>>,
         \A i \in Objects : \A j \in DOMAIN objs[i].syms :
           /\ Seen3(i, j)' /\ objs[i].syms[j].flags # "EXTERN" => Seen3(i, j)
           /\ Seen4(i, j)' /\ objs[i].syms[j].flags = "EXTERN" => Seen4(i, j)
  PROVE  SymsInv'
<1>1. /\ Objects' = Objects /\ \A d : Merged(d)' = Merged(d)
      /\ \A name, flags : Symbols(name, flags)' = Symbols(name, flags)
  BY Rigid
<1>2. \A name : Find(name)' = Find(name)
  BY DEF Find
<1>3. EntriesMerged'
  BY <1>1 DEF SymsInv, EntriesMerged
<1>4. MapKept'
  BY <1>1 DEF SymsInv, MapKept
<1>5. GlobalsFirst'
  <2> SUFFICES ASSUME Len(syms) < MaxSyms, NEW i \in Objects, NEW j \in DOMAIN objs[i].syms,
                      Seen3(i, j)', objs[i].syms[j].flags = "GLOBAL"
               PROVE  /\ Find(objs[i].syms[j].name) # 0
                      /\ syms[Find(objs[i].syms[j].name)].flags = "GLOBAL"
                      /\ \A d \in Symbols(objs[i].syms[j].name, "GLOBAL") : Seen3(d[1], d[2])' => d = <<i, j>>
    BY <1>1, <1>2 DEF GlobalsFirst
  <2>1. \A d \in Symbols(objs[i].syms[j].name, "GLOBAL") : Seen3(d[1], d[2])' => Seen3(d[1], d[2])
    BY SymbolsAre
  <2>2. Seen3(i, j)
    OBVIOUS
  <2> QED
    BY <2>1, <2>2 DEF SymsInv, GlobalsFirst
<1>6. MapExact'
  BY <1>1 DEF SymsInv, MapExact
<1> QED
  BY <1>3, <1>4, <1>5, <1>6 DEF SymsInv

\* The symbol visited becomes entry k, a new one or one overwritten.
Put(k) ==
  /\ k \in DOMAIN syms' /\ Map(k) /\ syms'[k] = Placed
  /\ syms' \in Seq(Symbol) /\ DOMAIN syms' = DOMAIN syms \cup {k}
  /\ Len(syms) <= Len(syms') /\ Len(syms') <= MaxSyms
  /\ \A l \in DOMAIN syms : syms'[l].name = syms[l].name /\ (l # k => syms'[l] = syms[l])
  /\ k \in DOMAIN syms =>
       Sym.flags = "GLOBAL" /\ syms[k].flags # "GLOBAL" /\ syms[k].name = Sym.name
  /\ Sym.flags = "GLOBAL" =>
       /\ Find(Sym.name) # 0 => syms[Find(Sym.name)].flags # "GLOBAL"
       /\ FirstOf(syms', Sym.name) = k

LEMMA DefineCases ==
  ASSUME Typed, LaidOut, DefineLocal \/ DefineGlobal
  PROVE  \/ Fail
         \/ Len(syms) = MaxSyms /\ Done /\ UNCHANGED <<rels, syms, symMap>>
         \/ Done /\ UNCHANGED rels /\ \E k \in Nat : Put(k)
<1>1. Visiting("define") /\ Sym.flags # "EXTERN"
  BY DEF DefineLocal, DefineGlobal
<1>2. Placed \in Symbol /\ Placed.name = Sym.name /\ Placed.flags = Sym.flags
  BY <1>1, PlacedMerged
<1>3. syms \in Seq(Symbol) /\ Len(syms) \in Nat /\ DOMAIN syms = 1..Len(syms)
  BY LenProperties DEF Typed
<1>4. ASSUME Add, Done, UNCHANGED rels, Sym.flags = "GLOBAL" => Find(Sym.name) = 0
      PROVE  \/ Len(syms) = MaxSyms /\ Done /\ UNCHANGED <<rels, syms, symMap>>
             \/ Done /\ UNCHANGED rels /\ \E k \in Nat : Put(k)
  <2>1. CASE Len(syms) = MaxSyms /\ UNCHANGED <<syms, symMap>>
    BY <1>4, <2>1
  <2>2. CASE /\ Len(syms) < MaxSyms /\ Map(Len(syms) + 1)
             /\ syms' = Append(syms, Placed) /\ syms' \in Seq(Symbol) /\ Len(syms') = Len(syms) + 1
             /\ syms'[Len(syms) + 1] = Placed /\ \A k \in 1..Len(syms) : syms'[k] = syms[k]
    <3> DEFINE k == Len(syms) + 1
    <3>1. k \in Nat /\ k \notin DOMAIN syms /\ DOMAIN syms' = 1..k
      BY <1>3, <2>2, LenProperties
    <3>2. k \in DOMAIN syms' /\ DOMAIN syms' = DOMAIN syms \cup {k}
          /\ Len(syms) <= Len(syms') /\ Len(syms') <= MaxSyms
      BY <1>3, <2>2, <3>1, ConstantsAssumption
    <3>3. Sym.flags = "GLOBAL" => FirstOf(syms', Sym.name) = k
      <4> SUFFICES ASSUME Find(Sym.name) = 0 PROVE FirstOf(syms', Sym.name) = k
        BY <1>4
      <4>1. \A l \in DOMAIN syms : syms[l].name # Sym.name
        BY <1>3, FirstFacts, FindIsFirst
      <4>2. syms'[k].name = Sym.name
        BY <1>2, <2>2
      <4>3. \A l \in DOMAIN syms' : syms'[l].name = Sym.name => k <= l
        BY <1>3, <2>2, <3>1, <3>2, <4>1
      <4> HIDE DEF k
      <4> QED
        BY <2>2, <3>2, <4>2, <4>3, FirstIs
    <3>4. Put(k)
      BY <1>3, <1>4, <2>2, <3>1, <3>2, <3>3 DEF Put
    <3> HIDE DEF k
    <3> QED
      BY <1>4, <3>1, <3>4
  <2> QED
    BY <1>2, <1>4, <2>1, <2>2, AddCases
<1>5. ASSUME Sym.flags = "GLOBAL", Find(Sym.name) # 0, syms[Find(Sym.name)].flags # "GLOBAL",
             syms' = [syms EXCEPT ![Find(Sym.name)] = Placed], Map(Find(Sym.name))
      PROVE  Put(Find(Sym.name)) /\ Find(Sym.name) \in Nat
  <2> DEFINE k == Find(Sym.name)
  <2>1. k = FirstOf(syms, Sym.name)
    BY FindIsFirst
  <2>2. k \in Nat /\ k \in DOMAIN syms /\ syms[k].name = Sym.name
    BY <1>3, <1>5, <2>1, FirstFacts
  <2> HIDE DEF k
  <2>3. syms' = [syms EXCEPT ![k] = Placed] /\ Map(k)
    BY <1>5 DEF k
  <2>4. /\ syms' \in Seq(Symbol) /\ Len(syms') = Len(syms)
        /\ \A l \in 1..Len(syms) : syms'[l] = IF l = k THEN Placed ELSE syms[l]
    BY <1>2, <2>2, <2>3, Overwritten
  <2>5. DOMAIN syms' = DOMAIN syms
    BY <1>3, <2>4, LenProperties
  <2>6. \A l \in DOMAIN syms : syms'[l].name = syms[l].name /\ (l # k => syms'[l] = syms[l])
    BY <1>2, <1>3, <2>2, <2>4
  <2>7. FirstOf(syms', Sym.name) = k
    <3>1. FirstOf(syms, Sym.name) # 0 /\ Len(syms) <= Len(syms')
      BY <1>3, <1>5, <2>1, <2>4 DEF k
    <3>2. \A l \in DOMAIN syms : syms'[l].name = syms[l].name
      BY <2>6
    <3>3. FirstOf(syms', Sym.name) = FirstOf(syms, Sym.name)
      BY <1>3, <2>4, <3>1, <3>2, FirstKept
    <3> QED
      BY <2>1, <3>3
  <2>8. Len(syms) <= Len(syms') /\ Len(syms') <= MaxSyms
    BY <1>3, <2>4 DEF Typed
  <2>9. Put(k)
    BY <1>3, <1>5, <2>2, <2>3, <2>4, <2>5, <2>6, <2>7, <2>8 DEF Put, k
  <2> QED
    BY <2>2, <2>9 DEF k
<1>6. CASE DefineLocal
  BY <1>4, <1>6 DEF DefineLocal
<1>7. CASE DefineGlobal
  BY <1>4, <1>5, <1>7 DEF DefineGlobal
<1> QED
  BY <1>6, <1>7

\* A definition that is put keeps the invariant of the table.
LEMMA PutStep ==
  ASSUME Typed, LaidOut, SymsInv, Visiting("define"), Sym.flags # "EXTERN", Done, NEW k \in Nat, Put(k)
  PROVE  SymsInv'
<1>1. /\ obj \in Objects /\ idx \in DOMAIN objs[obj].syms /\ objs' = objs /\ k # 0
      /\ Placed = Merged(<<obj, idx>>) /\ Placed.name = Sym.name /\ Placed.flags = Sym.flags
      /\ Sym = objs[obj].syms[idx] /\ MaxSyms \in Nat
      /\ Len(syms) \in Nat /\ Len(syms') \in Nat
      /\ Len(syms) <= Len(syms') /\ Len(syms') <= MaxSyms
  <2>1. k # 0 /\ Len(syms) \in Nat /\ Len(syms') \in Nat
    <3>1. syms \in Seq(Symbol) /\ syms' \in Seq(Symbol) /\ k \in DOMAIN syms'
      BY DEF Put, Typed
    <3> QED
      BY <3>1, LenProperties
  <2> QED
    BY <2>1, Visited, PlacedMerged, ConstantsAssumption DEF Done, Sym, Put
<1>2. /\ Objects' = Objects /\ \A d : Merged(d)' = Merged(d)
      /\ \A name, flags : Symbols(name, flags)' = Symbols(name, flags)
  BY <1>1, Rigid
<1>3. ASSUME NEW i \in Objects, NEW j \in DOMAIN objs[i].syms
      PROVE  /\ Seen3(i, j)' => Seen3(i, j) \/ (i = obj /\ j = idx)
             /\ ~ Seen4(i, j)'
             /\ symMap'[i][j] = IF i = obj /\ j = idx THEN k ELSE symMap[i][j]
  <2>1. phase = "define" /\ phase' = "define" /\ obj' = obj /\ idx' = idx + 1 /\ idx \in Nat /\ j \in Nat
    <3>1. j \in Nat
      BY ObjectFields
    <3>2. idx \in Nat
      BY DEF Typed
    <3> QED
      BY <3>1, <3>2 DEF Visiting, Done
  <2>2. symMap'[i][j] = IF i = obj /\ j = idx THEN k ELSE symMap[i][j]
    BY <1>1, MapTypes DEF Put
  <2> QED
    BY <2>1, <2>2 DEF Seen3, Seen4, Past
<1>4. EntriesMerged'
  <2> SUFFICES ASSUME NEW l \in DOMAIN syms'
               PROVE  \E i \in Objects : \E j \in DOMAIN objs[i].syms :
                        objs[i].syms[j].flags # "EXTERN" /\ syms'[l] = Merged(<<i, j>>)
    BY <1>1, <1>2 DEF EntriesMerged
  <2>1. CASE l = k
    BY <1>1, <2>1 DEF Put
  <2>2. CASE l # k
    <3>1. l \in DOMAIN syms /\ syms'[l] = syms[l]
      BY <2>2 DEF Put
    <3> QED
      BY <3>1 DEF SymsInv, EntriesMerged
  <2> QED
    BY <2>1, <2>2
<1>5. MapKept'
  <2> SUFFICES ASSUME NEW i \in Objects, NEW j \in DOMAIN objs[i].syms
               PROVE  /\ symMap'[i][j] # 0 => /\ symMap'[i][j] \in DOMAIN syms'
                                              /\ syms'[symMap'[i][j]].name = objs[i].syms[j].name
                      /\ Seen3(i, j)' /\ objs[i].syms[j].flags # "EXTERN" =>
                           symMap'[i][j] # 0 \/ Len(syms') = MaxSyms
    BY <1>1, <1>2, <1>3 DEF MapKept
  <2>1. CASE i = obj /\ j = idx
    BY <1>1, <1>3, <2>1 DEF Put
  <2>2. CASE ~(i = obj /\ j = idx)
    <3>1. symMap'[i][j] = symMap[i][j] /\ (Seen3(i, j)' => Seen3(i, j))
      BY <1>3, <2>2
    <3>2. symMap[i][j] # 0 => symMap[i][j] \in DOMAIN syms /\ syms[symMap[i][j]].name = objs[i].syms[j].name
      BY DEF SymsInv, MapKept
    <3>3. Seen3(i, j) /\ objs[i].syms[j].flags # "EXTERN" => symMap[i][j] # 0 \/ Len(syms) = MaxSyms
      BY DEF SymsInv, MapKept
    <3>4. Len(syms) = MaxSyms => Len(syms') = MaxSyms
      BY <1>1
    <3> QED
      BY <3>1, <3>2, <3>3, <3>4 DEF Put
  <2> QED
    BY <2>1, <2>2
<1>6. GlobalsFirst'
  <2> SUFFICES ASSUME Len(syms') < MaxSyms, NEW i \in Objects, NEW j \in DOMAIN objs[i].syms,
                      Seen3(i, j)', objs[i].syms[j].flags = "GLOBAL"
               PROVE  /\ FirstOf(syms', objs[i].syms[j].name) # 0
                      /\ syms'[FirstOf(syms', objs[i].syms[j].name)].flags = "GLOBAL"
                      /\ \A d \in Symbols(objs[i].syms[j].name, "GLOBAL") : Seen3(d[1], d[2])' => d = <<i, j>>
    BY <1>1, <1>2, FindIsFirst DEF GlobalsFirst
  <2> DEFINE name == objs[i].syms[j].name
  <2>1. Len(syms) < MaxSyms
    BY <1>1
  <2>2. ASSUME NEW d \in Symbols(Sym.name, "GLOBAL"), Seen3(d[1], d[2]), Sym.flags = "GLOBAL" PROVE FALSE
    <3>1. /\ d[1] \in Objects /\ d[2] \in DOMAIN objs[d[1]].syms
          /\ objs[d[1]].syms[d[2]].name = Sym.name /\ objs[d[1]].syms[d[2]].flags = "GLOBAL"
      BY <2>2, SymbolsAre
    <3>2. Find(Sym.name) # 0 /\ syms[Find(Sym.name)].flags = "GLOBAL"
      BY <2>1, <2>2, <3>1 DEF SymsInv, GlobalsFirst
    <3> QED
      BY <2>2, <3>2 DEF Put
  <2>3. CASE i = obj /\ j = idx
    <3>1. name = Sym.name /\ Sym.flags = "GLOBAL"
      BY <1>1, <2>3
    <3>2. FirstOf(syms', name) = k /\ syms'[k].flags = "GLOBAL"
      BY <1>1, <3>1 DEF Put
    <3>3. ASSUME NEW d \in Symbols(name, "GLOBAL"), Seen3(d[1], d[2])' PROVE d = <<i, j>>
      <4>1. d = <<d[1], d[2]>> /\ d[1] \in Objects /\ d[2] \in DOMAIN objs[d[1]].syms
        BY SymbolsAre
      <4>2. Seen3(d[1], d[2]) \/ (d[1] = obj /\ d[2] = idx)
        BY <1>3, <3>3, <4>1
      <4>3. ~ Seen3(d[1], d[2])
        BY <2>2, <3>1
      <4> QED
        BY <2>3, <4>1, <4>2, <4>3
    <3> QED
      BY <1>1, <3>2, <3>3
  <2>4. CASE ~(i = obj /\ j = idx)
    <3> DEFINE f == FirstOf(syms, name)
    <3>1. Seen3(i, j)
      BY <1>3, <2>4
    <3>2. /\ f # 0 /\ syms[f].flags = "GLOBAL"
          /\ \A d \in Symbols(name, "GLOBAL") : Seen3(d[1], d[2]) => d = <<i, j>>
      BY <2>1, <3>1, FindIsFirst DEF SymsInv, GlobalsFirst
    <3>3. syms \in Seq(Symbol) /\ syms' \in Seq(Symbol) /\ Len(syms) <= Len(syms')
      BY DEF Typed, Put
    <3>4. f \in DOMAIN syms
      BY <3>2, <3>3, FirstFacts
    <3>5. \A l \in DOMAIN syms : syms'[l].name = syms[l].name
      BY DEF Put
    <3>6. FirstOf(syms', name) = f
      BY <3>2, <3>3, <3>5, FirstKept
    <3>7. syms'[f] = syms[f]
      BY <3>2, <3>4 DEF Put
    <3>8. ASSUME NEW d \in Symbols(name, "GLOBAL"), Seen3(d[1], d[2])' PROVE d = <<i, j>>
      <4>1. d = <<d[1], d[2]>> /\ d[1] \in Objects /\ d[2] \in DOMAIN objs[d[1]].syms
            /\ objs[d[1]].syms[d[2]].name = name /\ objs[d[1]].syms[d[2]].flags = "GLOBAL"
        BY SymbolsAre
      <4>2. Seen3(d[1], d[2]) \/ (d[1] = obj /\ d[2] = idx)
        BY <1>3, <3>8, <4>1
      <4>3. ~(d[1] = obj /\ d[2] = idx)
        <5> SUFFICES ASSUME Sym.name = name, Sym.flags = "GLOBAL" PROVE FALSE
          BY <1>1, <4>1
        <5>1. <<i, j>> \in Symbols(Sym.name, "GLOBAL")
          BY SymbolsAre
        <5>2. <<i, j>>[1] = i /\ <<i, j>>[2] = j
          OBVIOUS
        <5> QED
          BY <2>2, <3>1, <5>1, <5>2
      <4> QED
        BY <3>2, <4>2, <4>3
    <3> QED
      BY <3>2, <3>6, <3>7, <3>8
  <2> QED
    BY <2>3, <2>4
<1>7. MapExact'
  <2> SUFFICES ASSUME PrivateNames(objs), NEW i \in Objects, NEW j \in DOMAIN objs[i].syms,
                      objs[i].syms[j].flags # "EXTERN", symMap'[i][j] # 0
               PROVE  syms'[symMap'[i][j]] = Merged(<<i, j>>)
    BY <1>1, <1>2 DEF MapExact
  <2>1. CASE i = obj /\ j = idx
    BY <1>1, <1>3, <2>1 DEF Put
  <2>2. CASE ~(i = obj /\ j = idx)
    <3> DEFINE l == symMap[i][j]
    <3>1. symMap'[i][j] = l /\ l # 0
      BY <1>3, <2>2
    <3>2. l \in DOMAIN syms /\ syms[l] = Merged(<<i, j>>)
      BY <3>1 DEF SymsInv, MapKept, MapExact
    <3>3. l # k
      <4> SUFFICES ASSUME l = k PROVE FALSE
        OBVIOUS
      <4>1. Sym.flags = "GLOBAL" /\ syms[l].flags # "GLOBAL" /\ syms[l].name = Sym.name
        BY <3>2 DEF Put
      <4>2. objs[i].syms[j].flags # "GLOBAL" /\ objs[i].syms[j].name = Sym.name
        BY <3>2, <4>1, MergedFields
      <4>3. objs[i].syms[j].flags = "LOCAL"
        BY <4>2, ObjectFields DEF Symbol, Flags
      <4>4. CASE i = obj
        <5>1. j = idx
          BY <1>1, <4>2, <4>4, ObjectFields DEF WellFormed
        <5> QED
          BY <2>2, <4>4, <5>1
      <4>5. CASE i # obj
        <5>1. Sym.name \in NamesOf(objs[i], {"LOCAL"}) /\ Sym.name \in NamesOf(objs[obj], {"GLOBAL", "EXTERN"})
          BY <1>1, <4>1, <4>2, <4>3 DEF NamesOf
        <5> QED
          BY <1>1, <4>5, <5>1 DEF PrivateNames, Objects
      <4> QED
        BY <4>4, <4>5
    <3> QED
      BY <3>1, <3>2, <3>3 DEF Put
  <2> QED
    BY <2>1, <2>2
<1> QED
  BY <1>4, <1>5, <1>6, <1>7 DEF SymsInv

\* Passes 3 and 4, and what comes after them.
LEMMA SymsNext ==
  ASSUME Typed, LaidOut, SymsInv, Next
  PROVE  SymsInv'
<1>1. /\ obj \in 1..(Len(objs) + 1) /\ idx \in Nat \ {0} /\ Len(objs) \in Nat /\ Objects = 1..Len(objs)
      /\ \A i \in Objects : DOMAIN objs[i].syms = 1..Len(objs[i].syms) /\ Len(objs[i].syms) \in Nat
  BY ObjectFields DEF Typed
<1>2. CASE Fail \/ Ended
  <2>1. UNCHANGED <<objs, syms, symMap, obj, idx>> /\ (phase' = phase \/ phase' = "failed")
    BY <1>2 DEF Fail, Ended, vars
  <2> QED
    BY <2>1, SameSyms DEF Seen3, Seen4, Past
<1>3. CASE Layout \/ CopyObject
  <2>1. CASE ~Fail
    BY <1>3, <2>1, SameSyms DEF Layout, CopyObject, Seen3, Seen4
  <2> QED
    BY <1>2, <2>1
<1>4. ASSUME NEW p \in Phases, Pass(p),
             \/ phase = "copy" /\ p = "define"
             \/ phase = "define" /\ p = "resolve"
             \/ phase = "resolve" /\ p = "relocate"
             \/ phase = "relocate" /\ p = "load"
      PROVE  SymsInv'
  <2>1. UNCHANGED <<objs, syms, symMap>> /\ obj \notin Objects /\ phase' = p /\ obj' = 1 /\ idx' = 1
    BY <1>4 DEF Pass
  <2>2. ASSUME NEW i \in Objects, NEW j \in DOMAIN objs[i].syms PROVE i < obj /\ ~ (i < 1 \/ (i = 1 /\ j < 1))
    BY <1>1, <2>1
  <2>3. ASSUME NEW i \in Objects, NEW j \in DOMAIN objs[i].syms
        PROVE  (Seen3(i, j)' => Seen3(i, j)) /\ (Seen4(i, j)' => Seen4(i, j))
    BY <1>4, <2>1, <2>2 DEF Seen3, Seen4, Past
  <2> QED
    BY <2>1, <2>3, SameSyms
<1>5. CASE NextObject
  <2>1. /\ UNCHANGED <<objs, syms, symMap, phase>> /\ obj \in Objects /\ obj' = obj + 1 /\ idx' = 1
        /\ phase \in {"define", "resolve"} => idx \notin DOMAIN objs[obj].syms
        /\ phase \in {"define", "resolve", "relocate"}
    BY <1>5 DEF NextObject, Table
  <2>2. ASSUME NEW i \in Objects, NEW j \in DOMAIN objs[i].syms, phase \in {"define", "resolve"}, Past(i, j)'
        PROVE  Past(i, j)
    <3>1. i < obj + 1 \/ (i = obj + 1 /\ j < 1)
      BY <2>1, <2>2 DEF Past
    <3>2. i < obj \/ i = obj
      BY <1>1, <3>1
    <3>3. i = obj => j < idx
      BY <1>1, <2>1, <2>2
    <3> QED
      BY <3>2, <3>3 DEF Past
  <2> QED
    BY <2>1, <2>2, SameSyms DEF Seen3, Seen4
<1>6. ASSUME NEW p \in {"define", "resolve"}, Visiting(p), Done
      PROVE  /\ obj \in Objects /\ idx \in DOMAIN objs[obj].syms /\ objs' = objs /\ phase' = p /\ phase = p
             /\ \A i \in Objects : \A j \in DOMAIN objs[i].syms :
                  Past(i, j)' => Past(i, j) \/ (i = obj /\ j = idx)
  BY <1>1, <1>6, Visited DEF Done, Past, Visiting
<1>7. CASE SkipExtern \/ SkipDefined
  BY <1>6, <1>7, SameSyms DEF SkipExtern, SkipDefined, Seen3, Seen4, Sym
<1>8. CASE DefineLocal \/ DefineGlobal
  <2>1. Visiting("define") /\ Sym.flags # "EXTERN"
    BY <1>8 DEF DefineLocal, DefineGlobal
  <2>2. CASE Len(syms) = MaxSyms /\ Done /\ UNCHANGED <<rels, syms, symMap>>
    <3>1. \A i \in Objects : \A j \in DOMAIN objs[i].syms : ~ Seen4(i, j)'
      BY <1>6, <2>1, <2>2 DEF Seen4
    <3>2. objs' = objs /\ Objects' = Objects /\ ~(Len(syms') < MaxSyms)
      BY <2>2, ConstantsAssumption DEF Done, Objects
    <3>3. EntriesMerged' /\ MapExact'
      BY <2>2, <3>2, Rigid DEF SymsInv, EntriesMerged, MapExact
    <3>4. MapKept'
      BY <2>2, <3>1, <3>2 DEF SymsInv, MapKept
    <3>5. GlobalsFirst'
      BY <3>2 DEF GlobalsFirst
    <3> QED
      BY <3>3, <3>4, <3>5 DEF SymsInv
  <2>3. CASE Done /\ \E k \in Nat : Put(k)
    BY <2>1, <2>3, PutStep
  <2> QED
    BY <1>2, <1>8, <2>2, <2>3, DefineCases
<1>9. CASE ResolveExtern /\ ~Fail
  <2> DEFINE k == Find(Sym.name)
  <2>1. /\ Visiting("resolve") /\ Sym.flags = "EXTERN" /\ Map(k) /\ k # 0 /\ Done
        /\ UNCHANGED <<syms, rels>>
    BY <1>9 DEF ResolveExtern
  <2>2. /\ obj \in Objects /\ idx \in DOMAIN objs[obj].syms /\ objs' = objs /\ Sym = objs[obj].syms[idx]
        /\ phase = "resolve" /\ phase' = "resolve"
    BY <1>6, <2>1 DEF Sym
  <2>3. k \in Nat /\ k \in DOMAIN syms /\ syms[k].name = Sym.name
    BY <2>1, FindIsFirst, FirstFacts DEF Typed
  <2> HIDE DEF k
  <2>4. /\ Objects' = Objects /\ \A d : Merged(d)' = Merged(d)
        /\ \A name, flags : Symbols(name, flags)' = Symbols(name, flags)
    BY <2>2, Rigid
  <2>5. ASSUME NEW i \in Objects, NEW j \in DOMAIN objs[i].syms
        PROVE  /\ symMap'[i][j] = IF i = obj /\ j = idx THEN k ELSE symMap[i][j]
               /\ Seen3(i, j) /\ (Seen4(i, j)' => Seen4(i, j) \/ (i = obj /\ j = idx))
    <3>1. symMap'[i][j] = IF i = obj /\ j = idx THEN k ELSE symMap[i][j]
      BY <2>1, <2>2, <2>3, MapTypes
    <3> QED
      BY <1>6, <2>1, <2>2, <3>1 DEF Seen3, Seen4
  <2>6. EntriesMerged'
    BY <2>1, <2>2, <2>4 DEF SymsInv, EntriesMerged
  <2>7. MapKept'
    <3> SUFFICES ASSUME NEW i \in Objects, NEW j \in DOMAIN objs[i].syms
                 PROVE  /\ symMap'[i][j] # 0 => /\ symMap'[i][j] \in DOMAIN syms
                                                /\ syms[symMap'[i][j]].name = objs[i].syms[j].name
                        /\ objs[i].syms[j].flags # "EXTERN" => symMap'[i][j] # 0 \/ Len(syms) = MaxSyms
                        /\ Seen4(i, j)' /\ objs[i].syms[j].flags = "EXTERN" => symMap'[i][j] # 0
      BY <2>1, <2>2, <2>4 DEF MapKept
    <3>1. CASE i = obj /\ j = idx
      BY <2>1, <2>2, <2>3, <2>5, <3>1
    <3>2. CASE ~(i = obj /\ j = idx)
      <4>1. symMap'[i][j] = symMap[i][j] /\ Seen3(i, j) /\ (Seen4(i, j)' => Seen4(i, j))
        BY <2>5, <3>2
      <4> QED
        BY <4>1 DEF SymsInv, MapKept
    <3> QED
      BY <3>1, <3>2
  <2>8. GlobalsFirst'
    <3> SUFFICES ASSUME Len(syms) < MaxSyms, NEW i \in Objects, NEW j \in DOMAIN objs[i].syms,
                        objs[i].syms[j].flags = "GLOBAL"
                 PROVE  /\ Find(objs[i].syms[j].name) # 0
                        /\ syms[Find(objs[i].syms[j].name)].flags = "GLOBAL"
                        /\ \A d \in Symbols(objs[i].syms[j].name, "GLOBAL") : d = <<i, j>>
      <4>1. \A name : Find(name)' = Find(name)
        BY <2>1 DEF Find
      <4> QED
        BY <2>1, <2>2, <2>4, <4>1 DEF GlobalsFirst
    <3>1. \A d \in Symbols(objs[i].syms[j].name, "GLOBAL") : Seen3(d[1], d[2])
      BY <2>5, SymbolsAre
    <3> QED
      BY <2>5, <3>1 DEF SymsInv, GlobalsFirst
  <2>9. MapExact'
    <3> SUFFICES ASSUME PrivateNames(objs), NEW i \in Objects, NEW j \in DOMAIN objs[i].syms,
                        objs[i].syms[j].flags # "EXTERN", symMap'[i][j] # 0
                 PROVE  syms[symMap'[i][j]] = Merged(<<i, j>>)
      BY <2>1, <2>2, <2>4 DEF MapExact
    <3>1. ~(i = obj /\ j = idx)
      BY <2>1, <2>2
    <3> QED
      BY <2>5, <3>1 DEF SymsInv, MapExact
  <2> QED
    BY <2>6, <2>7, <2>8, <2>9 DEF SymsInv
<1>10. CASE Relocate /\ ~Fail
  BY <1>10, SameSyms DEF Relocate, Visiting, Done, Seen3, Seen4
<1>11. CASE (LoadPatch /\ ~Fail) \/ Loaded
  BY <1>11, SameSyms DEF LoadPatch, Loaded, Seen3, Seen4
<1>12. CASE Copied \/ Defined \/ Resolved \/ ChooseEntry
  BY <1>4, <1>12 DEF Copied, Defined, Resolved, ChooseEntry, Phases
<1> QED
  BY <1>2, <1>3, <1>5, <1>7, <1>8, <1>9, <1>10, <1>11, <1>12 DEF Next, LoadEmpty
-----------------------------------------------------------------------------
(* The merged relocations, and what is loaded *)

\* Steps that leave relocations and indices alone and see nothing new.
LEMMA SameRels ==
  ASSUME RelsMerged, UNCHANGED <<objs, rels, symMap>>,
         phase' \in {"layout", "copy", "define", "resolve"} => rels = <<>>,
         \A i \in Objects : \A j \in DOMAIN objs[i].rels : Seen5(i, j)' => Seen5(i, j)
  PROVE  RelsMerged'
<1>1. /\ Objects' = Objects
      /\ \A i, j : (Mapped(i, j)' <=> Mapped(i, j)) /\ Remapped(i, j)' = Remapped(i, j)
  BY DEF Objects, Mapped, Remapped, Base
<1> QED
  BY <1>1 DEF RelsMerged

LEMMA RelsNext ==
  ASSUME Typed, LaidOut, RelsMerged, Next
  PROVE  RelsMerged'
<1>1. /\ obj \in 1..(Len(objs) + 1) /\ idx \in Nat \ {0} /\ Len(objs) \in Nat /\ Objects = 1..Len(objs)
      /\ \A i \in Objects : DOMAIN objs[i].rels = 1..Len(objs[i].rels) /\ Len(objs[i].rels) \in Nat
  BY ObjectFields DEF Typed
<1>2. CASE Fail \/ Ended
  <2>1. UNCHANGED <<objs, rels, symMap, obj, idx>> /\ (phase' = phase \/ phase' = "failed")
    BY <1>2 DEF Fail, Ended, vars
  <2> QED
    BY <2>1, SameRels DEF RelsMerged, Seen5, Past
<1>3. CASE (Layout \/ CopyObject) /\ ~Fail
  BY <1>3, SameRels DEF Layout, CopyObject, Seen5, RelsMerged
<1>4. ASSUME NEW p \in Phases, Pass(p),
             \/ phase = "copy" /\ p = "define"
             \/ phase = "define" /\ p = "resolve"
             \/ phase = "resolve" /\ p = "relocate"
             \/ phase = "relocate" /\ p = "load"
      PROVE  RelsMerged'
  <2>1. UNCHANGED <<objs, rels, symMap>> /\ obj \notin Objects /\ phase' = p /\ obj' = 1 /\ idx' = 1
    BY <1>4 DEF Pass
  <2>2. ASSUME NEW i \in Objects, NEW j \in DOMAIN objs[i].rels PROVE i < obj /\ ~ (i < 1 \/ (i = 1 /\ j < 1))
    BY <1>1, <2>1
  <2>3. ASSUME NEW i \in Objects, NEW j \in DOMAIN objs[i].rels PROVE Seen5(i, j)' => Seen5(i, j)
    BY <1>4, <2>1, <2>2 DEF Seen5, Past
  <2>4. phase' \in {"layout", "copy", "define", "resolve"} => rels = <<>>
    BY <1>4, <2>1 DEF RelsMerged
  <2> QED
    BY <2>1, <2>3, <2>4, SameRels
<1>5. CASE NextObject
  <2>1. /\ UNCHANGED <<objs, rels, symMap, phase>> /\ obj \in Objects /\ obj' = obj + 1 /\ idx' = 1
        /\ phase = "relocate" => idx \notin DOMAIN objs[obj].rels
        /\ phase \in {"define", "resolve", "relocate"}
    BY <1>5 DEF NextObject, Table
  <2>2. ASSUME NEW i \in Objects, NEW j \in DOMAIN objs[i].rels, phase = "relocate", Past(i, j)'
        PROVE  Past(i, j)
    <3>1. i < obj + 1 \/ (i = obj + 1 /\ j < 1)
      BY <2>1, <2>2 DEF Past
    <3>2. i < obj \/ i = obj
      BY <1>1, <3>1
    <3>3. i = obj => j < idx
      BY <1>1, <2>1, <2>2
    <3> QED
      BY <3>2, <3>3 DEF Past
  <2> QED
    BY <2>1, <2>2, SameRels DEF Seen5, RelsMerged
<1>6. CASE (SkipExtern \/ DefineLocal \/ DefineGlobal \/ SkipDefined \/ ResolveExtern) /\ ~Fail
  <2>1. /\ phase \in {"define", "resolve"} /\ phase' = phase /\ rels' = rels /\ objs' = objs
    BY <1>6 DEF SkipExtern, DefineLocal, DefineGlobal, SkipDefined, ResolveExtern, Visiting, Done
  <2>2. rels' = <<>> /\ \A i, j : ~ Seen5(i, j)'
    BY <2>1 DEF RelsMerged, Seen5
  <2> QED
    BY <2>2 DEF RelsMerged
<1>7. CASE Relocate /\ ~Fail
  <2>1. /\ phase = "relocate" /\ obj \in Objects /\ idx \in DOMAIN objs[obj].rels /\ NewSym # 0
        /\ rels' = Append(rels, Remap(base[obj]["CODE"]))
        /\ UNCHANGED <<objs, phase, obj, symMap>> /\ idx' = idx + 1
    BY <1>7 DEF Relocate, Visiting, Table, Done
  <2>2. Rel \in Reloc /\ base[obj]["CODE"] = Base(obj, "CODE") /\ Base(obj, "CODE") \in Nat
    BY <2>1, ObjectFields, BasesKnown DEF Rel, Sections
  <2>3. Mapped(obj, idx) /\ NewSym = symMap[obj][Rel.sym] /\ NewSym \in Nat
    BY <2>1 DEF Mapped, NewSym, Rel, Typed
  <2>4. Remap(base[obj]["CODE"]) = Remapped(obj, idx)
    BY <2>2, <2>3 DEF Remap, Remapped, Rel
  <2>5. Remap(base[obj]["CODE"]) \in Reloc
    BY <2>2, <2>3 DEF Remap, Reloc
  <2>6. rels \in Seq(Reloc) /\ Len(rels) \in Nat /\ DOMAIN rels = 1..Len(rels)
    BY LenProperties DEF Typed
  <2>7. rels' \in Seq(Reloc) /\ Len(rels') = Len(rels) + 1
    BY <2>1, <2>5, <2>6, AppendProperties
  <2>8. /\ DOMAIN rels' = 1..(Len(rels) + 1) /\ rels'[Len(rels) + 1] = Remapped(obj, idx)
        /\ \A k \in 1..Len(rels) : rels'[k] = rels[k]
    BY <2>1, <2>4, <2>5, <2>6, <2>7, AppendProperties, LenProperties
  <2>9. /\ Objects' = Objects
        /\ \A i, j : (Mapped(i, j)' <=> Mapped(i, j)) /\ Remapped(i, j)' = Remapped(i, j)
    BY <2>1 DEF Objects, Mapped, Remapped, Base
  <2>10. ASSUME NEW k \in DOMAIN rels'
         PROVE  \E i \in Objects : \E j \in DOMAIN objs[i].rels : Mapped(i, j) /\ rels'[k] = Remapped(i, j)
    <3>1. CASE k \in 1..Len(rels)
      BY <2>6, <2>8, <3>1 DEF RelsMerged
    <3>2. CASE k = Len(rels) + 1
      BY <2>1, <2>3, <2>8, <3>2
    <3> QED
      BY <2>6, <2>8, <3>1, <3>2
  <2>11. ASSUME NEW i \in Objects, NEW j \in DOMAIN objs[i].rels, Seen5(i, j)'
         PROVE  Mapped(i, j) /\ \E k \in DOMAIN rels' : rels'[k] = Remapped(i, j)
    <3>1. Seen5(i, j) \/ (i = obj /\ j = idx)
      BY <1>1, <2>1, <2>11 DEF Seen5, Past
    <3>2. CASE Seen5(i, j)
      <4>1. Mapped(i, j) /\ \E k \in DOMAIN rels : rels[k] = Remapped(i, j)
        BY <3>2 DEF RelsMerged
      <4> QED
        BY <4>1, <2>6, <2>8
    <3>3. CASE i = obj /\ j = idx
      <4>1. Len(rels) + 1 \in DOMAIN rels'
        BY <2>6, <2>8
      <4> QED
        BY <4>1, <2>3, <2>8, <3>3
    <3> QED
      BY <3>1, <3>2, <3>3
  <2> QED
    BY <2>1, <2>9, <2>10, <2>11 DEF RelsMerged
<1>8. CASE (LoadPatch /\ ~Fail) \/ Loaded
  BY <1>8, SameRels DEF LoadPatch, Loaded, Seen5
<1>9. CASE Copied \/ Defined \/ Resolved \/ ChooseEntry
  BY <1>4, <1>9 DEF Copied, Defined, Resolved, ChooseEntry, Phases
<1> QED
  BY <1>2, <1>3, <1>5, <1>6, <1>7, <1>8, <1>9 DEF Next, LoadEmpty

\* Two merged relocations at one place are the same: objects do not overlap, and
\* inside an object no place has two.
LEMMA OnePlace ==
  ASSUME Typed, RelsMerged, NEW k \in DOMAIN rels, NEW l \in DOMAIN rels, rels[k].at = rels[l].at
  PROVE  rels[k] = rels[l]
<1>1. PICK i \in Objects : \E j \in DOMAIN objs[i].rels : rels[k] = Remapped(i, j)
  BY DEF RelsMerged
<1>2. PICK j \in DOMAIN objs[i].rels : rels[k] = Remapped(i, j)
  BY <1>1
<1>3. PICK m \in Objects : \E n \in DOMAIN objs[m].rels : rels[l] = Remapped(m, n)
  BY DEF RelsMerged
<1>4. PICK n \in DOMAIN objs[m].rels : rels[l] = Remapped(m, n)
  BY <1>3
<1> DEFINE a == objs[i].rels[j].at  b == objs[m].rels[n].at
           c == Base(i, "CODE")     d == Base(m, "CODE")
           p == objs[i].len["CODE"] q == objs[m].len["CODE"]
<1>5. a + c = b + d
  BY <1>2, <1>4 DEF Remapped
<1>6. a \in Nat /\ b \in Nat /\ a < p /\ b < q /\ p \in Nat /\ q \in Nat
  BY ObjectFields DEF Reloc, WellFormed, Sections
<1>7. c \in Nat /\ d \in Nat /\ i \in Nat /\ m \in Nat
  BY BaseStep, ObjectFields DEF Sections
<1>8. (i < m => c + p <= d) /\ (m < i => d + q <= c)
  BY BaseOrder, ObjectFields DEF Sections
<1>9. i = m
  <2> HIDE DEF a, b, c, d, p, q
  <2> QED
    BY <1>5, <1>6, <1>7, <1>8
<1>10. a = b
  <2>1. c = d
    BY <1>9
  <2> HIDE DEF a, b, c, d
  <2> QED
    BY <1>5, <1>6, <1>7, <2>1
<1>11. j = n
  BY <1>9, <1>10, ObjectFields DEF WellFormed
<1> QED
  BY <1>2, <1>4, <1>9, <1>11

\* Patching a place keeps what earlier relocations left.
LEMMA LoadNext ==
  ASSUME Typed, RelsMerged, Patched, EntryChosen, Next
  PROVE  Patched' /\ EntryChosen'
<1>1. CASE phase' \notin {"load", "loaded"}
  BY <1>1 DEF Patched, EntryChosen
<1>2. CASE ChooseEntry
  <2>1. idx' = 1 /\ phase' = "load" /\ UNCHANGED <<rels, syms, entrySym, image>>
    BY <1>2 DEF ChooseEntry, Pass
  <2>2. \A k \in DOMAIN rels : ~ (k < 1)
    BY LenProperties DEF Typed
  <2>3. Found' = Found /\ Candidates' = Candidates /\ \A name : Find(name)' = Find(name)
    BY <2>1 DEF Found, Candidates, IsEntry, Find
  <2>4. EntryChosen'
    BY <1>2, <2>1, <2>3 DEF EntryChosen, ChooseEntry
  <2> QED
    BY <2>1, <2>2, <2>4 DEF Patched
<1>3. ASSUME UNCHANGED <<syms, entrySym, entry>>, phase \in {"load", "loaded"} PROVE EntryChosen'
  <2>1. Found' = Found /\ Candidates' = Candidates /\ \A name : Find(name)' = Find(name)
    BY <1>3 DEF Found, Candidates, IsEntry, Find
  <2> QED
    BY <1>3, <2>1 DEF EntryChosen
<1>4. CASE LoadPatch /\ ~Fail
  <2> DEFINE r == rels[idx]
             v == Value(r.kind, syms[r.sym])
  <2>1. /\ phase = "load" /\ phase' = "load" /\ idx \in DOMAIN rels /\ idx' = idx + 1
        /\ image' = Patch(r.at, v) /\ UNCHANGED <<rels, syms, entrySym, entry>>
    BY <1>4 DEF LoadPatch
  <2>2. /\ DOMAIN image' = {r.at} \cup DOMAIN image /\ image'[r.at] = v
        /\ \A p \in DOMAIN image : p # r.at => image'[p] = image[p]
    <3> HIDE DEF r, v
    <3> QED
      BY <2>1 DEF Patch
  <2>3. ASSUME NEW k \in DOMAIN rels, k < idx + 1
        PROVE  rels[k].at \in DOMAIN image' /\ image'[rels[k].at] = Value(rels[k].kind, syms[rels[k].sym])
    <3>1. CASE rels[k].at = r.at
      <4>1. rels[k] = r
        BY <2>1, <3>1, OnePlace
      <4> QED
        BY <4>1, <2>2
    <3>2. CASE rels[k].at # r.at
      <4>1. k # idx
        BY <3>2
      <4>2. k \in Nat /\ idx \in Nat
        BY LenProperties DEF Typed
      <4>3. k < idx
        BY <2>3, <4>1, <4>2
      <4>4. rels[k].at \in DOMAIN image /\ image[rels[k].at] = Value(rels[k].kind, syms[rels[k].sym])
        BY <2>1, <4>3 DEF Patched
      <4> QED
        BY <4>4, <2>2, <3>2
    <3> QED
      BY <3>1, <3>2
  <2>4. Patched'
    <3>1. \A k \in DOMAIN rels : \A m, x : Value(m, x)' = Value(m, x)
      BY DEF Value, CodeAt, PointerTo
    <3> HIDE DEF r, v
    <3> QED
      BY <2>1, <2>3, <3>1 DEF Patched, Value, CodeAt, PointerTo
  <2> QED
    BY <1>3, <2>1, <2>4
<1>5. CASE Loaded
  <2>1. /\ phase = "load" /\ phase' = "loaded" /\ idx \notin DOMAIN rels /\ UNCHANGED <<rels, syms, image, entrySym, entry>>
    BY <1>5 DEF Loaded
  <2>2. \A k \in DOMAIN rels : k < idx
    BY <2>1, LenProperties DEF Typed
  <2>3. Patched'
    BY <2>1, <2>2 DEF Patched, Value, CodeAt, PointerTo
  <2> QED
    BY <1>3, <2>1, <2>3
<1>6. CASE Ended
  <2>1. UNCHANGED <<phase, idx, rels, syms, image, entrySym, entry>>
    BY <1>6 DEF Ended, vars
  <2>2. Patched'
    BY <2>1 DEF Patched, Value, CodeAt, PointerTo
  <2> QED
    BY <1>1, <1>3, <2>1, <2>2
<1> QED
  <2>1. CASE phase' \in {"load", "loaded"} /\ ~Ended
    <3>1. ~Fail
      BY <2>1 DEF Fail
    <3>2. ChooseEntry \/ LoadPatch \/ Loaded
      BY <2>1, <3>1 DEF Next, Layout, CopyObject, Copied, NextObject, SkipExtern, DefineLocal, DefineGlobal,
           Defined, SkipDefined, ResolveExtern, Resolved, Relocate, LoadEmpty, Done, Pass, Visiting
    <3> QED
      BY <1>2, <1>4, <1>5, <3>1, <3>2
  <2> QED
    BY <1>1, <1>6, <2>1

-----------------------------------------------------------------------------
(* The inductive invariant *)

LEMMA InitInv == Init => IInv
<1> SUFFICES ASSUME Init PROVE IInv
  OBVIOUS
<1>1. /\ objs \in Inputs /\ phase = "layout" /\ obj = 1 /\ idx = 1 /\ size = [sec \in Sections |-> 0]
      /\ base = <<>> /\ symMap = [i \in Objects |-> [j \in DOMAIN objs[i].syms |-> 0]]
      /\ syms = <<>> /\ rels = <<>> /\ MaxSyms \in Nat /\ MaxRels \in Nat
  BY ConstantsAssumption DEF Init
<1>2. objs \in Seq(Object) /\ Len(objs) \in Nat
  BY <1>1, ConstantsAssumption, LenProperties
<1>3. Typed
  BY <1>1, <1>2 DEF Typed, Phases
<1>4. LaidOut
  <2>1. \A sec \in Sections : Base(1, sec) = 0
    BY <1>3, BaseStep
  <2> QED
    BY <1>1, <1>2, <2>1 DEF LaidOut
<1>5. \A i, j : ~ Seen3(i, j) /\ ~ Seen4(i, j) /\ ~ Seen5(i, j)
  BY <1>1 DEF Seen3, Seen4, Seen5
<1>6. SymsInv
  BY <1>1, <1>5 DEF SymsInv, EntriesMerged, MapKept, GlobalsFirst, MapExact
<1>7. RelsMerged /\ Patched /\ EntryChosen
  BY <1>1, <1>5 DEF RelsMerged, Patched, EntryChosen
<1> QED
  BY <1>3, <1>4, <1>6, <1>7 DEF IInv

LEMMA StepInv == IInv /\ [Next]_vars => IInv'
<1> SUFFICES ASSUME IInv, [Next]_vars PROVE IInv'
  OBVIOUS
<1>1. CASE Next
  <2>1. Typed'
    <3>1. CASE Ended
      BY <3>1 DEF Ended, vars, IInv, Typed, Objects
    <3> QED
      BY <1>1, <3>1, TypedDefine, TypedOthers DEF Next, IInv
  <2> QED
    BY <1>1, <2>1, LaidOutNext, SymsNext, RelsNext, LoadNext DEF IInv
<1>2. CASE UNCHANGED vars
  <2>1. UNCHANGED <<objs, entrySym, phase, obj, idx, size, base, symMap, syms, rels, entry, image>>
    BY <1>2 DEF vars
  <2>2. Typed'
    BY <2>1 DEF IInv, Typed, Objects
  <2>3. LaidOut'
    BY <2>1 DEF IInv, LaidOut, Base
  <2>4. SymsInv'
    BY <2>1, SameSyms DEF IInv, Seen3, Seen4, Past
  <2>5. RelsMerged'
    BY <2>1, SameRels DEF IInv, RelsMerged, Seen5, Past
  <2>6. Patched'
    BY <2>1 DEF IInv, Patched, Value, CodeAt, PointerTo
  <2>7. EntryChosen'
    <3>1. Found' = Found /\ Candidates' = Candidates /\ \A name : Find(name)' = Find(name)
      BY <2>1 DEF Found, Candidates, IsEntry, Find
    <3> QED
      BY <2>1, <3>1 DEF IInv, EntryChosen
  <2> QED
    BY <2>2, <2>3, <2>4, <2>5, <2>6, <2>7 DEF IInv
<1> QED
  BY <1>1, <1>2

THEOREM Invariance == Spec => []IInv
BY InitInv, StepInv, PTL DEF Spec
-----------------------------------------------------------------------------
(* What follows from it *)

LEMMA InRange == IInv => TypeOK
<1> SUFFICES ASSUME IInv PROVE TypeOK
  OBVIOUS
<1>1. /\ Typed /\ phase \in Phases /\ Len(syms) <= MaxSyms /\ Len(rels) <= MaxRels
      /\ Len(syms) \in Nat /\ DOMAIN syms = 1..Len(syms) /\ syms \in Seq(Symbol)
  BY LenProperties DEF IInv, Typed
<1>2. ASSUME NEW k \in DOMAIN syms
      PROVE  /\ syms[k].flags \in {"LOCAL", "GLOBAL"}
             /\ syms[k].section \in Sections
             /\ syms[k].offset \in 0..Total(syms[k].section)
  <2>1. PICK i \in Objects : \E j \in DOMAIN objs[i].syms :
          objs[i].syms[j].flags # "EXTERN" /\ syms[k] = Merged(<<i, j>>)
    BY DEF IInv, SymsInv, EntriesMerged
  <2>2. PICK j \in DOMAIN objs[i].syms : objs[i].syms[j].flags # "EXTERN" /\ syms[k] = Merged(<<i, j>>)
    BY <2>1
  <2> DEFINE s == objs[i].syms[j]
  <2>3. s \in Symbol /\ s.section \in Sections /\ s.offset <= objs[i].len[s.section] /\ s.offset \in Nat
    BY <1>1, <2>2, ObjectFields DEF WellFormed, Symbol
  <2>4. /\ syms[k].flags = s.flags /\ syms[k].section = s.section
        /\ syms[k].offset = s.offset + Base(i, s.section)
    BY <1>1, <2>2, MergedFields
  <2>5. s.flags \in {"LOCAL", "GLOBAL"}
    BY <2>2, <2>3 DEF Symbol, Flags
  <2>6. /\ Base(i, s.section) \in Nat /\ Total(s.section) \in Nat
        /\ Base(i, s.section) + objs[i].len[s.section] <= Total(s.section)
        /\ objs[i].len[s.section] \in Nat
    <3>1. i \in 1..(Len(objs) + 1) /\ Len(objs) + 1 \in 1..(Len(objs) + 1) /\ i < Len(objs) + 1
      BY <1>1, ObjectFields
    <3> HIDE DEF s
    <3> QED
      BY <1>1, <2>3, <3>1, BaseStep, BaseOrder, ObjectFields DEF Total
  <2>7. s.offset + Base(i, s.section) \in 0..Total(s.section)
    <3> DEFINE o == s.offset  b == Base(i, s.section)  n == objs[i].len[s.section]  t == Total(s.section)
    <3>1. o \in Nat /\ b \in Nat /\ n \in Nat /\ t \in Nat /\ o <= n /\ b + n <= t
      BY <2>3, <2>6
    <3> HIDE DEF o, b, n, t
    <3>2. o + b \in 0..t
      BY <3>1
    <3> QED
      BY <3>2 DEF o, b, t
  <2> QED
    BY <2>3, <2>4, <2>5, <2>7
<1>3. ASSUME NEW i \in Objects, NEW j \in DOMAIN symMap[i] PROVE symMap[i][j] \in 0..Len(syms)
  <2>1. j \in DOMAIN objs[i].syms
    BY <1>1 DEF Typed
  <2>2. symMap[i][j] = 0 \/ symMap[i][j] \in DOMAIN syms
    BY <2>1 DEF IInv, SymsInv, MapKept
  <2> QED
    BY <1>1, <2>2
<1>4. ASSUME NEW k \in DOMAIN rels PROVE rels[k].sym \in DOMAIN syms
  <2>1. PICK i \in Objects : \E j \in DOMAIN objs[i].rels : Mapped(i, j) /\ rels[k] = Remapped(i, j)
    BY DEF IInv, RelsMerged
  <2>2. PICK j \in DOMAIN objs[i].rels : Mapped(i, j) /\ rels[k] = Remapped(i, j)
    BY <2>1
  <2> QED
    BY <2>2 DEF IInv, SymsInv, MapKept, Mapped, Remapped
<1> QED
  BY <1>1, <1>2, <1>3, <1>4 DEF TypeOK, Phases

\* Merged tables stay in range (linker.c), whatever is linked.
THEOREM TypeCorrect == Spec => []TypeOK
BY Invariance, InRange, PTL

\* An extern that is resolved leads to a GLOBAL of its name.
LEMMA ReachesGlobal ==
  ASSUME IInv, PrivateNames(objs), NEW i \in Objects, NEW s \in DOMAIN objs[i].syms,
         objs[i].syms[s].flags = "EXTERN", symMap[i][s] # 0
  PROVE  \E d \in Symbols(objs[i].syms[s].name, "GLOBAL") : syms[symMap[i][s]] = Merged(d)
<1> DEFINE m == symMap[i][s]
           name == objs[i].syms[s].name
<1>1. m \in DOMAIN syms /\ syms[m].name = name
  BY DEF IInv, SymsInv, MapKept
<1>2. PICK a \in Objects : \E b \in DOMAIN objs[a].syms :
        objs[a].syms[b].flags # "EXTERN" /\ syms[m] = Merged(<<a, b>>)
  BY <1>1 DEF IInv, SymsInv, EntriesMerged
<1>3. PICK b \in DOMAIN objs[a].syms : objs[a].syms[b].flags # "EXTERN" /\ syms[m] = Merged(<<a, b>>)
  BY <1>2
<1>4. Typed /\ objs[a].syms[b].name = name /\ objs[a].syms[b] \in Symbol
  BY <1>1, <1>3, MergedFields, ObjectFields DEF IInv
<1>5. objs[a].syms[b].flags # "LOCAL"
  <2> SUFFICES ASSUME objs[a].syms[b].flags = "LOCAL" PROVE FALSE
    OBVIOUS
  <2>1. CASE a = i
    <3>1. b = s
      BY <1>4, <2>1, ObjectFields DEF WellFormed
    <3> QED
      BY <1>3, <2>1, <3>1
  <2>2. CASE a # i
    <3>1. name \in NamesOf(objs[a], {"LOCAL"}) /\ name \in NamesOf(objs[i], {"GLOBAL", "EXTERN"})
      BY <1>4 DEF NamesOf
    <3> QED
      BY <2>2, <3>1 DEF PrivateNames, Objects
  <2> QED
    BY <2>1, <2>2
<1>6. objs[a].syms[b].flags = "GLOBAL"
  BY <1>3, <1>4, <1>5 DEF Symbol, Flags
<1>7. <<a, b>> \in Symbols(name, "GLOBAL")
  BY <1>4, <1>6, SymbolsAre
<1> QED
  BY <1>3, <1>7

LEMMA Reached ==
  ASSUME IInv, PrivateNames(objs) PROVE ReferencesReachMeant
<1> SUFFICES ASSUME phase = "loaded", NEW i \in Objects, NEW j \in DOMAIN objs[i].rels,
                    CallsCode(i, objs[i].rels[j])
             PROVE  LET r == objs[i].rels[j]
                        at == r.at + Base(i, "CODE")
                    IN  /\ at \in DOMAIN image
                        /\ \E d \in Meant(i, r.sym) : image[at] = Place(r.kind, Merged(d))
  BY DEF ReferencesReachMeant
<1> DEFINE r == objs[i].rels[j]
           at == r.at + Base(i, "CODE")
           m == symMap[i][r.sym]
<1>1. Mapped(i, j) /\ \E k \in DOMAIN rels : rels[k] = Remapped(i, j)
  BY DEF IInv, RelsMerged, Seen5
<1>2. PICK k \in DOMAIN rels : rels[k] = Remapped(i, j)
  BY <1>1
<1>3. rels[k].at = at /\ rels[k].sym = m /\ rels[k].kind = r.kind
  BY <1>2 DEF Remapped
<1>4. at \in DOMAIN image /\ image[at] = Value(r.kind, syms[m])
  BY <1>3 DEF IInv, Patched
<1>5. r.sym \in DOMAIN objs[i].syms /\ m # 0
  BY <1>1 DEF Mapped
<1>6. \E d \in Meant(i, r.sym) : syms[m] = Merged(d)
  <2>1. CASE objs[i].syms[r.sym].flags = "EXTERN"
    BY <1>5, <2>1, ReachesGlobal DEF Meant
  <2>2. CASE objs[i].syms[r.sym].flags # "EXTERN"
    <3>1. syms[m] = Merged(<<i, r.sym>>)
      BY <1>5, <2>2 DEF IInv, SymsInv, MapExact
    <3> QED
      BY <2>2, <3>1 DEF Meant
  <2> QED
    BY <2>1, <2>2
<1>7. PICK d \in Meant(i, r.sym) : syms[m] = Merged(d)
  BY <1>6
<1>8. r.kind \in {"CODE", "DATA"}
  <2>1. r \in Reloc
    BY ObjectFields DEF IInv
  <2> QED
    BY <2>1 DEF Reloc
<1>9. CASE r.kind = "CODE"
  <2>1. syms[m].section = "CODE"
    BY <1>7, <1>9 DEF CallsCode
  <2>2. Value(r.kind, syms[m]) = Place(r.kind, syms[m])
    BY <1>9, <2>1 DEF Value, CodeAt, Place
  <2> QED
    BY <1>4, <1>7, <2>2
<1>10. CASE r.kind = "DATA"
  <2>1. Value(r.kind, syms[m]) = Place(r.kind, syms[m])
    BY <1>10 DEF Value, PointerTo, Place
  <2> QED
    BY <1>4, <1>7, <2>1
<1> QED
  BY <1>8, <1>9, <1>10

LEMMA Refused ==
  ASSUME IInv, PrivateNames(objs) PROVE NoBadLink
<1> SUFFICES ASSUME phase \in {"load", "loaded"}, Len(syms) < MaxSyms
             PROVE  /\ \A i, k \in Objects : \A j \in DOMAIN objs[i].syms, l \in DOMAIN objs[k].syms :
                         /\ <<i, j>> # <<k, l>>
                         /\ objs[i].syms[j].flags = "GLOBAL" /\ objs[k].syms[l].flags = "GLOBAL"
                         => objs[i].syms[j].name # objs[k].syms[l].name
                    /\ \A i \in Objects : \A j \in DOMAIN objs[i].syms :
                         objs[i].syms[j].flags = "EXTERN" =>
                           Symbols(objs[i].syms[j].name, "GLOBAL") # {}
  BY DEF NoBadLink
<1>1. \A i, j : Seen3(i, j) /\ Seen4(i, j)
  BY DEF Seen3, Seen4
<1>2. ASSUME NEW i \in Objects, NEW k \in Objects,
             NEW j \in DOMAIN objs[i].syms, NEW l \in DOMAIN objs[k].syms,
             objs[i].syms[j].flags = "GLOBAL", objs[k].syms[l].flags = "GLOBAL",
             objs[i].syms[j].name = objs[k].syms[l].name
      PROVE  <<i, j>> = <<k, l>>
  <2>1. <<k, l>> \in Symbols(objs[i].syms[j].name, "GLOBAL")
    BY <1>2, SymbolsAre
  <2>2. \A d \in Symbols(objs[i].syms[j].name, "GLOBAL") : d = <<i, j>>
    BY <1>1, <1>2 DEF IInv, SymsInv, GlobalsFirst
  <2> QED
    BY <2>1, <2>2
<1>3. ASSUME NEW i \in Objects, NEW j \in DOMAIN objs[i].syms, objs[i].syms[j].flags = "EXTERN"
      PROVE  Symbols(objs[i].syms[j].name, "GLOBAL") # {}
  <2>1. symMap[i][j] # 0
    BY <1>1, <1>3 DEF IInv, SymsInv, MapKept
  <2> QED
    BY <1>3, <2>1, ReachesGlobal
<1> QED
  BY <1>2, <1>3

\* The private names of the inputs are those of the objects linked.
LEMMA StaysPrivate ==
  ASSUME \A os \in Inputs : PrivateNames(os), IInv PROVE PrivateNames(objs)
BY DEF IInv, Typed

\* Every relocated reference, but for a call that names data, reaches the place of
\* what its source means, in the section of that (linker.c, dvm_load), as long as
\* no name is LOCAL in one object and shared in another.
THEOREM ReferencesSafety ==
  ASSUME \A os \in Inputs : PrivateNames(os)
  PROVE  Spec => []ReferencesReachMeant
<1>1. IInv => ReferencesReachMeant
  BY StaysPrivate, Reached
<1> QED
  BY <1>1, Invariance, PTL

\* Duplicate globals and unresolved externs are refused (linker.h:15), as long as
\* names stay private and the symbol table does not overflow.
THEOREM BadLinkSafety ==
  ASSUME \A os \in Inputs : PrivateNames(os)
  PROVE  Spec => []NoBadLink
<1>1. IInv => NoBadLink
  BY StaysPrivate, Refused
<1> QED
  BY <1>1, Invariance, PTL

\* A candidate defined once is an entry iff its definition is in CODE, and found
\* where that was placed.
LEMMA EntryIs ==
  ASSUME IInv, phase = "loaded", Len(syms) < MaxSyms, NEW name, \A d, e \in Defs(name) : d = e
  PROVE  /\ IsEntry(name) <=> CodeDefs(name) # {}
         /\ IsEntry(name) => \A d \in CodeDefs(name) : syms[Find(name)].offset = Merged(d).offset
<1>0. Typed /\ syms \in Seq(Symbol) /\ Len(syms) \in Nat /\ MaxSyms \in Nat
  BY ConstantsAssumption, LenProperties DEF IInv, Typed
<1>1. ASSUME Find(name) # 0
      PROVE  \E d \in Defs(name) : syms[Find(name)] = Merged(d)
                /\ Merged(d).section = objs[d[1]].syms[d[2]].section
  <2>1. Find(name) \in DOMAIN syms /\ syms[Find(name)].name = name
    BY <1>0, <1>1, FindIsFirst, FirstFacts
  <2>2. PICK i \in Objects : \E j \in DOMAIN objs[i].syms :
          objs[i].syms[j].flags # "EXTERN" /\ syms[Find(name)] = Merged(<<i, j>>)
    BY <2>1 DEF IInv, SymsInv, EntriesMerged
  <2>3. PICK j \in DOMAIN objs[i].syms : objs[i].syms[j].flags # "EXTERN" /\ syms[Find(name)] = Merged(<<i, j>>)
    BY <2>2
  <2>4. /\ objs[i].syms[j].name = name /\ Merged(<<i, j>>).section = objs[i].syms[j].section
        /\ objs[i].syms[j].flags \in {"LOCAL", "GLOBAL"}
    <3>1. objs[i].syms[j] \in Symbol
      BY <1>0, ObjectFields
    <3>2. /\ Merged(<<i, j>>).name = objs[i].syms[j].name
          /\ Merged(<<i, j>>).section = objs[i].syms[j].section
      BY <1>0, MergedFields
    <3>3. objs[i].syms[j].flags \in Flags
      BY <3>1 DEF Symbol
    <3> QED
      BY <2>1, <2>3, <3>2, <3>3 DEF Flags
  <2>5. <<i, j>> \in Defs(name)
    BY <2>4, SymbolsAre DEF Defs
  <2> QED
    BY <2>3, <2>4, <2>5
<1>2. ASSUME NEW d \in CodeDefs(name) PROVE Find(name) # 0
  <2>1. /\ d[1] \in Objects /\ d[2] \in DOMAIN objs[d[1]].syms /\ objs[d[1]].syms[d[2]].name = name
        /\ objs[d[1]].syms[d[2]].flags # "EXTERN"
    BY SymbolsAre DEF CodeDefs, Defs
  <2>2. symMap[d[1]][d[2]] \in DOMAIN syms /\ syms[symMap[d[1]][d[2]]].name = name
    <3>1. Seen3(d[1], d[2])
      BY DEF Seen3
    <3>2. symMap[d[1]][d[2]] # 0
      BY <1>0, <2>1, <3>1 DEF IInv, SymsInv, MapKept
    <3> QED
      BY <2>1, <3>2 DEF IInv, SymsInv, MapKept
  <2> QED
    BY <1>0, <2>2, FindIsFirst, FirstFacts
<1>3. ASSUME NEW d \in CodeDefs(name) PROVE d \in Defs(name) /\ objs[d[1]].syms[d[2]].section = "CODE"
  BY DEF CodeDefs
<1>4. ASSUME NEW d \in Defs(name), objs[d[1]].syms[d[2]].section = "CODE" PROVE d \in CodeDefs(name)
  BY <1>4 DEF CodeDefs
<1>5. ASSUME NEW d \in CodeDefs(name) PROVE IsEntry(name) /\ syms[Find(name)].offset = Merged(d).offset
  BY <1>1, <1>2, <1>3 DEF IsEntry
<1>6. ASSUME IsEntry(name) PROVE CodeDefs(name) # {}
  BY <1>1, <1>4, <1>6 DEF IsEntry
<1> QED
  BY <1>5, <1>6

LEMMA Chosen == IInv => EntryAsWanted
<1> SUFFICES ASSUME IInv, phase = "loaded", Len(syms) < MaxSyms,
                    \A c \in DOMAIN Candidates : \A d, e \in Defs(Candidates[c]) : d = e
             PROVE  IF Wanted = {} THEN entry = 0 ELSE \A d \in Wanted : entry = Merged(d).offset
  BY DEF EntryAsWanted
<1>1. entry = IF Found = {} THEN 0 ELSE syms[Find(Candidates[Min(Found)])].offset
  BY DEF IInv, EntryChosen
<1>2. CASE entrySym # None
  <2>1. Candidates = <<entrySym>> /\ DOMAIN Candidates = {1} /\ Candidates[1] = entrySym
    BY <1>2 DEF Candidates
  <2>2. Wanted = CodeDefs(entrySym)
    BY <1>2 DEF Wanted
  <2>3. /\ IsEntry(entrySym) <=> CodeDefs(entrySym) # {}
        /\ IsEntry(entrySym) => \A d \in CodeDefs(entrySym) : syms[Find(entrySym)].offset = Merged(d).offset
    BY <2>1, EntryIs
  <2>4. CASE IsEntry(entrySym)
    <3>1. Found = {1}
      BY <2>1, <2>4 DEF Found
    <3>2. Min(Found) = 1
      BY <3>1, LeastExists
    <3> QED
      BY <1>1, <2>1, <2>2, <2>3, <2>4, <3>1, <3>2
  <2>5. CASE ~ IsEntry(entrySym)
    BY <1>1, <2>1, <2>2, <2>3, <2>5 DEF Found
  <2> QED
    BY <2>4, <2>5
<1>3. CASE entrySym = None
  <2>1. DOMAIN Candidates = {1, 2} /\ Candidates[1] = Start /\ Candidates[2] = Main
    BY <1>3 DEF Candidates
  <2>2. Wanted = IF CodeDefs(Start) # {} THEN CodeDefs(Start) ELSE CodeDefs(Main)
    BY <1>3 DEF Wanted
  <2>3. /\ IsEntry(Start) <=> CodeDefs(Start) # {}
        /\ IsEntry(Start) => \A d \in CodeDefs(Start) : syms[Find(Start)].offset = Merged(d).offset
    BY <2>1, EntryIs
  <2>4. /\ IsEntry(Main) <=> CodeDefs(Main) # {}
        /\ IsEntry(Main) => \A d \in CodeDefs(Main) : syms[Find(Main)].offset = Merged(d).offset
    BY <2>1, EntryIs
  <2>5. Found \subseteq {1, 2} /\ (1 \in Found <=> IsEntry(Start)) /\ (2 \in Found <=> IsEntry(Main))
    BY <2>1 DEF Found
  <2>6. Found # {} => Min(Found) \in Found /\ \A y \in Found : Min(Found) <= y
    BY <2>5, LeastExists
  <2>7. CASE IsEntry(Start)
    <3>1. Found # {} /\ Min(Found) = 1
      <4>1. 1 \in Found
        BY <2>5, <2>7
      <4>2. Min(Found) \in {1, 2} /\ Min(Found) <= 1
        BY <2>5, <2>6, <4>1
      <4> QED
        BY <4>1, <4>2
    <3> QED
      BY <1>1, <2>1, <2>2, <2>3, <2>7, <3>1
  <2>8. CASE ~ IsEntry(Start) /\ IsEntry(Main)
    <3>1. Found # {} /\ Min(Found) = 2
      BY <2>5, <2>6, <2>8
    <3> QED
      BY <1>1, <2>1, <2>2, <2>3, <2>4, <2>8, <3>1
  <2>9. CASE ~ IsEntry(Start) /\ ~ IsEntry(Main)
    <3>1. Found = {}
      BY <2>5, <2>9
    <3> QED
      BY <1>1, <2>2, <2>3, <2>4, <2>9, <3>1
  <2> QED
    BY <2>7, <2>8, <2>9
<1> QED
  BY <1>2, <1>3

\* Execution starts where linker.h:21 says: at the entry point asked for or at 0;
\* if none is asked for at _start, else main, else 0.  For candidates defined at
\* most once and a table that did not overflow, whatever else is linked.
THEOREM EntrySafety == Spec => []EntryAsWanted
BY Invariance, Chosen, PTL
=============================================================================
