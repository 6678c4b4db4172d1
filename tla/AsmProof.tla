------------------------------- MODULE AsmProof -------------------------------
(***************************************************************************)
(* The tables of the assembler, for any names and any table sizes: a label *)
(* is found under its name only, no step renames or moves a label, and     *)
(* patches and relocations point into the code and the label table.  What  *)
(* the tables mean: at every statement, and in the object that comes out,  *)
(* they say of every name and every reference what the source says.        *)
(***************************************************************************)
EXTENDS Asm, SequenceTheorems, FiniteSetTheorems, WellFoundedInduction, TLAPS

Distinct(ls) == \A k, l \in DOMAIN ls : ls[k].name = ls[l].name => k = l

\* What any step may do to the labels: change them in place and add to them.
GrownFrom(old, ls) ==
  /\ ls \in Seq(Label)
  /\ Len(ls) <= MaxLabels
  /\ Len(old) <= Len(ls)
  /\ \A k \in DOMAIN old : ls[k].name = old[k].name
  /\ Distinct(ls)

IInv ==
  /\ TypeOK
  /\ TablesAgree

USE ConstantsAssumption DEF Sections, Flags, Undefined

-----------------------------------------------------------------------------
(* The label table *)

\* asm_label_find: an index with that name, or 0 if there is none.
LEMMA FindLabel ==
  ASSUME NEW ls \in Seq(Label), Distinct(ls), NEW name
  PROVE  /\ Find(ls, name) = 0 => \A k \in DOMAIN ls : ls[k].name # name
         /\ Find(ls, name) # 0 => /\ Find(ls, name) \in DOMAIN ls
                                  /\ ls[Find(ls, name)].name = name
         /\ Find(ls, name) \in Nat
<1>1. CASE \A k \in DOMAIN ls : ls[k].name # name
  BY <1>1 DEF Find
<1>2. CASE \E k \in DOMAIN ls : ls[k].name = name
  <2> DEFINE First(k) == ls[k].name = name /\ \A l \in 1..(k - 1) : ls[l].name # name
  <2>1. PICK k \in DOMAIN ls : ls[k].name = name
    BY <1>2
  <2>2. \A l \in 1..(k - 1) : ls[l].name # name
    <3> TAKE l \in 1..(k - 1)
    <3>1. l \in DOMAIN ls /\ l # k
      OBVIOUS
    <3> QED
      BY <2>1, <3>1 DEF Distinct
  <2>3. \E m \in DOMAIN ls : First(m)
    BY <2>1, <2>2
  <2>4. Find(ls, name) = CHOOSE m \in DOMAIN ls : First(m)
    BY <1>2 DEF Find
  <2>5. Find(ls, name) \in DOMAIN ls /\ First(Find(ls, name))
    BY <2>3, <2>4
  <2> QED
    BY <2>5
<1> QED
  BY <1>1, <1>2

LEMMA LabelTyped ==
  ASSUME NEW ls \in Seq(Label), NEW k \in DOMAIN ls
  PROVE  ls[k].offset \in Int
<1>1. ls[k] \in Label
  OBVIOUS
<1> QED
  BY <1>1 DEF Label

\* label_define: a table with room takes the label, in place or at its end.
LEMMA DefineGrows ==
  ASSUME IInv, NEW l \in Label, ~NoRoom(l.name)
  PROVE  GrownFrom(labels, Define(l))
<1> DEFINE k == Find(labels, l.name)
<1>1. /\ labels \in Seq(Label)
      /\ Len(labels) <= MaxLabels
      /\ Distinct(labels)
  BY DEF IInv, TypeOK, TablesAgree, Distinct
<1>2. CASE k = 0
  <2>1. Define(l) = Append(labels, l) /\ Len(labels) < MaxLabels
    BY <1>1, <1>2 DEF Define, NoRoom
  <2>2. \A m \in DOMAIN labels : labels[m].name # l.name
    BY <1>1, <1>2, FindLabel
  <2> QED
    BY <1>1, <2>1, <2>2 DEF GrownFrom, Distinct
<1>3. CASE k # 0
  <2>1. k \in DOMAIN labels /\ labels[k].name = l.name
    BY <1>1, <1>3, FindLabel
  <2>2. Define(l) = labels \/ Define(l) = [labels EXCEPT ![k] = l]
    BY <1>3 DEF Define
  <2> QED
    BY <1>1, <2>1, <2>2 DEF GrownFrom, Distinct
<1> QED
  BY <1>2, <1>3

LEMMA SameLabels == ASSUME IInv PROVE GrownFrom(labels, labels)
BY DEF IInv, TypeOK, TablesAgree, GrownFrom, Distinct

-----------------------------------------------------------------------------
(* The steps that change labels *)

LEMMA GlobalGrows ==
  ASSUME IInv, NEW n \in Names, Global(n)
  PROVE  GrownFrom(labels, labels')
<1> DEFINE k == Find(labels, n)
<1>1. CASE NoRoom(n) /\ Stop("exited")
  BY <1>1, SameLabels DEF Stop
<1>2. CASE /\ ~NoRoom(n)
           /\ labels' = IF k # 0 THEN [labels EXCEPT ![k].flags = "GLOBAL"]
                        ELSE Define(Declared(n, "GLOBAL", section))
           /\ UNCHANGED <<section, size, text, equs, patches, rels, phase>>
  <2>1. /\ labels \in Seq(Label)
        /\ Len(labels) <= MaxLabels
        /\ Distinct(labels)
    BY DEF IInv, TypeOK, TablesAgree, Distinct
  <2>2. CASE k = 0
    <3>1. Declared(n, "GLOBAL", section) \in Label /\ Declared(n, "GLOBAL", section).name = n
      BY DEF Declared, Label, IInv, TypeOK
    <3> QED
      BY <1>2, <2>2, <3>1, DefineGrows
  <2>3. CASE k # 0
    <3>1. k \in DOMAIN labels
      BY <2>1, <2>3, FindLabel
    <3>2. labels' = [labels EXCEPT ![k] = [labels[k] EXCEPT !.flags = "GLOBAL"]]
      BY <1>2, <2>3
    <3>3. labels[k] \in Label
      BY <2>1, <3>1
    <3>4. /\ [labels[k] EXCEPT !.flags = "GLOBAL"] \in Label
          /\ [labels[k] EXCEPT !.flags = "GLOBAL"].name = labels[k].name
      BY <3>3 DEF Label
    <3> QED
      BY <2>1, <3>1, <3>2, <3>4 DEF GrownFrom, Distinct
  <2> QED
    BY <2>2, <2>3
<1> QED
  BY <1>1, <1>2 DEF Global

LEMMA ExternGrows ==
  ASSUME IInv, NEW n \in Names, Extern(n)
  PROVE  GrownFrom(labels, labels')
<1>1. CASE NoRoom(n) /\ Stop("exited")
  BY <1>1, SameLabels DEF Stop
<1>2. CASE /\ ~NoRoom(n)
           /\ labels' = Define(Declared(n, "EXTERN", "NONE"))
           /\ UNCHANGED <<section, size, text, equs, patches, rels, phase>>
  <2>1. Declared(n, "EXTERN", "NONE") \in Label /\ Declared(n, "EXTERN", "NONE").name = n
    BY DEF Declared, Label
  <2> QED
    BY <1>2, <2>1, DefineGrows
<1> QED
  BY <1>1, <1>2 DEF Extern

LEMMA LabelDefGrows ==
  ASSUME IInv, NEW n \in Names, LabelDef(n)
  PROVE  GrownFrom(labels, labels')
<1> DEFINE l == [name |-> n, section |-> section, offset |-> Here,
                 flags |-> IF IsGlobal(n) THEN "GLOBAL" ELSE "LOCAL"]
<1>1. CASE NoRoom(n) /\ Stop("exited")
  BY <1>1, SameLabels DEF Stop
<1>2. CASE /\ ~NoRoom(n)
           /\ labels' = Define(l)
           /\ UNCHANGED <<section, size, text, equs, patches, rels, phase>>
  <2>1. Here \in Int
    BY DEF Here, IInv, TypeOK
  <2>2. l \in Label /\ l.name = n
    BY <2>1 DEF Label, IInv, TypeOK
  <2> QED
    BY <1>2, <2>2, DefineGrows
<1> QED
  BY <1>1, <1>2 DEF LabelDef

\* sym_index: the table with the label in it.
LEMMA PlaceholderGrows ==
  ASSUME IInv, NEW n \in Names, ~NoRoom(n)
  PROVE  /\ GrownFrom(labels, WithPlaceholder(n))
         /\ Find(WithPlaceholder(n), n) \in DOMAIN WithPlaceholder(n)
<1>1. labels \in Seq(Label) /\ GrownFrom(labels, labels)
  BY DEF IInv, TypeOK, TablesAgree, GrownFrom, Distinct
<1>2. CASE Find(labels, n) # 0
  BY <1>1, <1>2, FindLabel DEF WithPlaceholder, GrownFrom
<1>3. CASE Find(labels, n) = 0
  <2> DEFINE l == Declared(n, "EXTERN", "NONE")
             ls == Define(l)
  <2>1. l \in Label /\ l.name = n
    BY DEF Declared, Label
  <2>2. WithPlaceholder(n) = ls /\ GrownFrom(labels, ls)
    BY <1>3, <2>1, DefineGrows DEF WithPlaceholder
  <2>3. ls = Append(labels, l)
    BY <1>3, <2>1 DEF Define
  <2>4. Len(labels) + 1 \in DOMAIN ls /\ ls[Len(labels) + 1].name = n
    BY <1>1, <2>1, <2>3
  <2>5. ls \in Seq(Label) /\ Distinct(ls)
    BY <2>2 DEF GrownFrom
  <2> HIDE DEF ls
  <2>6. Find(ls, n) \in DOMAIN ls
    BY <2>4, <2>5, FindLabel
  <2> QED
    BY <2>2, <2>6
<1> QED
  BY <1>2, <1>3

LEMMA RefDataGrows ==
  ASSUME IInv, NEW n \in Names, RefData(n)
  PROVE  GrownFrom(labels, labels')
BY SameLabels, PlaceholderGrows DEF RefData, Stop

\* label_ref_code, and all that refers to no label, leave the labels alone.
LEMMA NextGrows ==
  ASSUME IInv, [Next]_vars
  PROVE  GrownFrom(labels, labels')
<1>1. ASSUME NEW n \in Names, Global(n) \/ Extern(n) \/ LabelDef(n) PROVE GrownFrom(labels, labels')
  BY <1>1, GlobalGrows, ExternGrows, LabelDefGrows
<1>2. ASSUME NEW n \in Names, Address(n) PROVE GrownFrom(labels, labels')
  BY <1>2, SameLabels, RefDataGrows DEF Address, Plain, Stop
<1>3. ASSUME NEW n \in Names, Equ(n) \/ Jump(n) PROVE labels' = labels
  BY <1>3 DEF Equ, Jump, RefCode, Stop
<1>4. ASSUME \/ \E s \in Sections : Section(s)
             \/ Bytes \/ Instruction \/ Resolve \/ ToProg \/ Ended \/ UNCHANGED vars
      PROVE  labels' = labels
  BY <1>4 DEF Section, Bytes, Instruction, Plain, Resolve, ToProg, Ended, Stop, vars
<1> QED
  BY <1>1, <1>2, <1>3, <1>4, SameLabels DEF Next

-----------------------------------------------------------------------------
(* One lemma per action *)

\* Every table starts empty.
LEMMA InitInv == Init => IInv
BY DEF Init, IInv, TypeOK, TablesAgree

\* Where patches and relocations point.
LEMMA PlacesTyped ==
  ASSUME IInv
  PROVE  /\ Len(text) \in Nat
         /\ \A k \in DOMAIN patches : patches[k].at \in Nat /\ patches[k].at < Len(text)
         /\ \A k \in DOMAIN rels : rels[k].at \in Nat /\ rels[k].at < Len(text)
<1>1. text \in Seq(Nat) /\ patches \in Seq(Patch) /\ rels \in Seq(Rel)
  BY DEF IInv, TypeOK
<1>2. ASSUME NEW k \in DOMAIN patches PROVE patches[k].at \in Nat
  <2>1. patches[k] \in Patch
    BY <1>1
  <2> QED
    BY <2>1 DEF Patch
<1>3. ASSUME NEW k \in DOMAIN rels PROVE rels[k].at \in Nat
  <2>1. rels[k] \in Rel
    BY <1>1
  <2> QED
    BY <2>1 DEF Rel
<1> QED
  BY <1>1, <1>2, <1>3 DEF IInv, TablesAgree

\* A step that reads no more than a place: tables are as they were, the code
\* grows.
LEMMA TablesKept ==
  ASSUME IInv, UNCHANGED <<labels, patches, rels>>, Len(text) <= Len(text'), text' \in Seq(Nat)
  PROVE  TablesAgree'
<1>1. Len(text') \in Nat
  OBVIOUS
<1> QED
  BY <1>1, PlacesTyped DEF IInv, TablesAgree

\* A step that changes labels only.
LEMMA LabelsChanged ==
  ASSUME IInv, GrownFrom(labels, labels'),
         UNCHANGED <<section, size, text, equs, patches, rels, phase>>
  PROVE  IInv'
<1>1. TypeOK'
  BY DEF IInv, TypeOK, GrownFrom
<1>2. TablesAgree'
  BY DEF IInv, TypeOK, TablesAgree, GrownFrom, Distinct, Rel
<1> QED
  BY <1>1, <1>2 DEF IInv

\* The source is refused: nothing but the phase changes.
LEMMA StopStep ==
  ASSUME IInv, NEW how \in {"failed", "exited"}, Stop(how)
  PROVE  IInv'
BY TablesKept DEF IInv, TypeOK, Stop

LEMMA SectionStep == ASSUME IInv, NEW s \in Sections, Section(s) PROVE IInv'
BY TablesKept DEF IInv, TypeOK, Section

LEMMA EquStep == ASSUME IInv, NEW n \in Names, Equ(n) PROVE IInv'
<1>1. CASE Stop("failed")
  BY <1>1, StopStep
<1>2. CASE /\ equs' = equs \cup {n}
           /\ UNCHANGED <<section, size, text, labels, patches, rels, phase>>
  BY <1>2, TablesKept DEF IInv, TypeOK
<1> QED
  BY <1>1, <1>2 DEF Equ

LEMMA GlobalStep == ASSUME IInv, NEW n \in Names, Global(n) PROVE IInv'
BY StopStep, GlobalGrows, LabelsChanged DEF Global

LEMMA ExternStep == ASSUME IInv, NEW n \in Names, Extern(n) PROVE IInv'
BY StopStep, ExternGrows, LabelsChanged DEF Extern

LEMMA LabelDefStep == ASSUME IInv, NEW n \in Names, LabelDef(n) PROVE IInv'
BY StopStep, LabelDefGrows, LabelsChanged DEF LabelDef

LEMMA BytesStep == ASSUME IInv, Bytes PROVE IInv'
<1>1. CASE Stop("failed")
  BY <1>1, StopStep
<1>2. CASE /\ section # "CODE"
           /\ size' = [size EXCEPT ![section] = @ + 1]
           /\ UNCHANGED <<section, text, equs, labels, patches, rels, phase>>
  BY <1>2, TablesKept DEF IInv, TypeOK
<1> QED
  BY <1>1, <1>2 DEF Bytes

LEMMA PlainStep == ASSUME IInv, Plain PROVE IInv'
BY TablesKept DEF IInv, TypeOK, Plain

LEMMA InstructionStep == ASSUME IInv, Instruction PROVE IInv'
BY StopStep, PlainStep DEF Instruction

\* The last entry of a table is new, the others are as they were.
LEMMA AppendIs ==
  ASSUME NEW S, NEW q \in Seq(S), NEW e, NEW q2, q2 = Append(q, e)
  PROVE  /\ \A j \in DOMAIN q2 : (j \in DOMAIN q /\ q2[j] = q[j]) \/ q2[j] = e
         /\ \A j \in DOMAIN q : j \in DOMAIN q2 /\ q2[j] = q[j]
         /\ Len(q) + 1 \in DOMAIN q2 /\ q2[Len(q) + 1] = e
<1>1. q \in Seq(S \cup {e}) /\ e \in S \cup {e} /\ Len(q) \in Nat /\ DOMAIN q = 1..Len(q)
  OBVIOUS
<1> QED
  BY <1>1

\* A place that refers to a label: the tables get one entry more at most, for
\* this place.
LEMMA ReferenceStep ==
  ASSUME IInv, NEW v \in Nat, text' = Append(text, v),
         GrownFrom(labels, labels'),
         UNCHANGED <<section, size, equs, phase>>,
         \/ patches' = patches
         \/ /\ Len(patches) < MaxPatches
            /\ \E n \in Names, is64 \in BOOLEAN :
                 patches' = Append(patches, [name |-> n, at |-> Len(text), is64 |-> is64]),
         \/ rels' = rels
         \/ /\ Len(rels) < MaxRels
            /\ \E k \in DOMAIN labels', kind \in {"CODE", "DATA"} :
                 rels' = Append(rels, [at |-> Len(text), sym |-> k, kind |-> kind])
  PROVE  IInv'
<1> USE DEF IInv
<1>1. Len(text) \in Nat /\ Len(text') = Len(text) + 1 /\ text' \in Seq(Nat)
  BY DEF TypeOK
<1>2. /\ patches' \in Seq(Patch) /\ Len(patches') <= MaxPatches
      /\ \A k \in DOMAIN patches' : patches'[k].at < Len(text')
  <2>1. /\ patches \in Seq(Patch) /\ Len(patches) <= MaxPatches
        /\ \A k \in DOMAIN patches : patches[k].at \in Nat /\ patches[k].at < Len(text)
    BY PlacesTyped DEF TypeOK
  <2>2. CASE patches' = patches
    BY <1>1, <2>1, <2>2
  <2>3. CASE /\ Len(patches) < MaxPatches
             /\ \E n \in Names, is64 \in BOOLEAN :
                  patches' = Append(patches, [name |-> n, at |-> Len(text), is64 |-> is64])
    <3>1. PICK n \in Names, is64 \in BOOLEAN :
            patches' = Append(patches, [name |-> n, at |-> Len(text), is64 |-> is64])
      BY <2>3
    <3>2. /\ [name |-> n, at |-> Len(text), is64 |-> is64] \in Patch
          /\ [name |-> n, at |-> Len(text), is64 |-> is64].at = Len(text)
      BY <1>1 DEF Patch
    <3> QED
      BY <1>1, <2>1, <2>3, <3>1, <3>2
  <2> QED
    BY <2>2, <2>3
<1>3. /\ rels' \in Seq(Rel) /\ Len(rels') <= MaxRels
      /\ \A k \in DOMAIN rels' : rels'[k].at < Len(text') /\ rels'[k].sym \in DOMAIN labels'
  <2>1. /\ rels \in Seq(Rel) /\ Len(rels) <= MaxRels
        /\ \A k \in DOMAIN rels : /\ rels[k].at \in Nat /\ rels[k].at < Len(text)
                                   /\ rels[k].sym \in DOMAIN labels'
    <3>1. rels \in Seq(Rel) /\ Len(rels) <= MaxRels /\ DOMAIN labels \subseteq DOMAIN labels'
      BY DEF TypeOK, GrownFrom
    <3>2. \A k \in DOMAIN rels : /\ rels[k].at \in Nat /\ rels[k].at < Len(text)
                                 /\ rels[k].sym \in DOMAIN labels
      BY PlacesTyped DEF TablesAgree
    <3> QED
      BY <3>1, <3>2
  <2>2. CASE rels' = rels
    BY <1>1, <2>1, <2>2
  <2>3. CASE /\ Len(rels) < MaxRels
             /\ \E k \in DOMAIN labels', kind \in {"CODE", "DATA"} :
                  rels' = Append(rels, [at |-> Len(text), sym |-> k, kind |-> kind])
    <3>1. PICK k \in DOMAIN labels', kind \in {"CODE", "DATA"} :
            rels' = Append(rels, [at |-> Len(text), sym |-> k, kind |-> kind])
      BY <2>3
    <3>2. /\ [at |-> Len(text), sym |-> k, kind |-> kind] \in Rel
          /\ [at |-> Len(text), sym |-> k, kind |-> kind].at = Len(text)
          /\ [at |-> Len(text), sym |-> k, kind |-> kind].sym \in DOMAIN labels'
      BY <1>1 DEF Rel, GrownFrom
    <3>3. rels' \in Seq(Rel) /\ Len(rels') = Len(rels) + 1
      BY <2>1, <3>1, <3>2
    <3>4. \A j \in DOMAIN rels' : (j \in DOMAIN rels /\ rels'[j] = rels[j])
                                    \/ rels'[j] = [at |-> Len(text), sym |-> k, kind |-> kind]
      BY <2>1, <3>1, AppendIs
    <3>5. ASSUME NEW j \in DOMAIN rels' PROVE rels'[j].at < Len(text') /\ rels'[j].sym \in DOMAIN labels'
      <4>1. CASE j \in DOMAIN rels /\ rels'[j] = rels[j]
        BY <1>1, <2>1, <4>1
      <4>2. CASE rels'[j] = [at |-> Len(text), sym |-> k, kind |-> kind]
        BY <1>1, <4>2
      <4> QED
        BY <3>4, <4>1, <4>2
    <3>6. Len(rels') <= MaxRels
      BY <2>1, <2>3, <3>3
    <3> QED
      BY <3>3, <3>5, <3>6
  <2> QED
    BY <2>2, <2>3
<1>4. TypeOK'
  BY <1>1, <1>2, <1>3 DEF TypeOK, GrownFrom
<1>5. TablesAgree'
  BY <1>2, <1>3 DEF TablesAgree, GrownFrom, Distinct
<1> QED
  BY <1>4, <1>5

\* label_ref_code.
LEMMA RefCodeStep == ASSUME IInv, NEW n \in Names, RefCode(n) PROVE IInv'
<1> DEFINE k == Find(labels, n)
<1>1. labels \in Seq(Label) /\ GrownFrom(labels, labels)
  BY DEF IInv, TypeOK, TablesAgree, GrownFrom, Distinct
<1>2. CASE /\ Known(n)
           /\ text' = Append(text, labels[k].offset)
           /\ UNCHANGED <<section, size, equs, labels, patches, rels, phase>>
  <2>1. k \in DOMAIN labels /\ labels[k].offset >= 0
    BY <1>1, <1>2, FindLabel DEF Known, GrownFrom
  <2>2. labels[k].offset \in Nat
    BY <1>1, <2>1, LabelTyped
  <2> QED
    BY <1>1, <1>2, <2>2, ReferenceStep
<1>3. CASE ~Known(n) /\ Stop("exited")
  BY <1>3, StopStep
<1>4. CASE /\ Len(patches) < MaxPatches
           /\ IsExtern(n) => Len(rels) < MaxRels
           /\ patches' = Append(patches, [name |-> n, at |-> Len(text), is64 |-> FALSE])
           /\ rels' = IF IsExtern(n)
                        THEN Append(rels, [at |-> Len(text), sym |-> k, kind |-> "CODE"])
                        ELSE rels
           /\ text' = Append(text, 0)
           /\ UNCHANGED <<section, size, equs, labels, phase>>
  <2>1. IsExtern(n) => k \in DOMAIN labels'
    BY <1>1, <1>4, FindLabel DEF IsExtern, GrownFrom
  <2>2. GrownFrom(labels, labels')
    BY <1>1, <1>4
  <2>3. \E m \in Names, is64 \in BOOLEAN :
          patches' = Append(patches, [name |-> m, at |-> Len(text), is64 |-> is64])
    BY <1>4
  <2>4. \/ rels' = rels
        \/ /\ Len(rels) < MaxRels
           /\ \E m \in DOMAIN labels', kind \in {"CODE", "DATA"} :
                rels' = Append(rels, [at |-> Len(text), sym |-> m, kind |-> kind])
    BY <1>4, <2>1
  <2> QED
    BY <1>4, <2>2, <2>3, <2>4, ReferenceStep
<1> QED
  BY <1>2, <1>3, <1>4 DEF RefCode

LEMMA JumpStep == ASSUME IInv, NEW n \in Names, Jump(n) PROVE IInv'
BY StopStep, RefCodeStep DEF Jump

\* label_ref_data.
LEMMA RefDataStep == ASSUME IInv, NEW n \in Names, RefData(n) PROVE IInv'
<1> DEFINE ls == WithPlaceholder(n)
           k  == Find(ls, n)
           full == \/ Len(rels) >= MaxRels
                   \/ NoRoom(n)
                   \/ ls[k].offset < 0 /\ Len(patches) >= MaxPatches
<1>1. CASE Stop("exited")
  BY <1>1, StopStep
<1>2. CASE /\ ~full
           /\ labels' = ls
           /\ rels' = Append(rels, [at |-> Len(text), sym |-> k, kind |-> "DATA"])
           /\ patches' = IF ls[k].offset < 0
                           THEN Append(patches, [name |-> n, at |-> Len(text), is64 |-> TRUE])
                           ELSE patches
           /\ text' = Append(text, 0)
           /\ UNCHANGED <<section, size, equs, phase>>
  <2>1. GrownFrom(labels, labels') /\ k \in DOMAIN labels'
    <3>1. ~NoRoom(n)
      BY <1>2
    <3>2. GrownFrom(labels, ls) /\ k \in DOMAIN ls
      BY <3>1, PlaceholderGrows
    <3> QED
      BY <1>2, <3>2
  <2>2. Len(rels) < MaxRels /\ (ls[k].offset < 0 => Len(patches) < MaxPatches)
    <3>1. {Len(rels), Len(patches), MaxRels, MaxPatches} \subseteq Nat
      BY ConstantsAssumption DEF IInv, TypeOK
    <3>2. ~(Len(rels) >= MaxRels) /\ ~(ls[k].offset < 0 /\ Len(patches) >= MaxPatches)
      BY <1>2
    <3> HIDE DEF ls, k
    <3> QED
      BY <3>1, <3>2
  <2>3. \/ patches' = patches
        \/ /\ Len(patches) < MaxPatches
           /\ \E m \in Names, is64 \in BOOLEAN :
                patches' = Append(patches, [name |-> m, at |-> Len(text), is64 |-> is64])
    BY <1>2, <2>2
  <2>4. \E m \in DOMAIN labels', kind \in {"CODE", "DATA"} :
          rels' = Append(rels, [at |-> Len(text), sym |-> m, kind |-> kind])
    BY <1>2, <2>1
  <2> QED
    BY <1>2, <2>1, <2>2, <2>3, <2>4, ReferenceStep
<1> QED
  BY <1>1, <1>2 DEF RefData

LEMMA AddressStep == ASSUME IInv, NEW n \in Names, Address(n) PROVE IInv'
BY StopStep, PlainStep, RefDataStep DEF Address

\* patches_resolve fills places in with offsets of defined labels.
LEMMA PatchedTyped ==
  ASSUME IInv, \A k \in DOMAIN patches : Resolvable(patches[k])
  PROVE  Patched \in Seq(Nat) /\ Len(Patched) = Len(text)
<1> DEFINE at(i) == {k \in DOMAIN patches : patches[k].at + 1 = i /\ ~patches[k].is64
                                              /\ ~IsExtern(patches[k].name)}
<1>1. labels \in Seq(Label) /\ Distinct(labels) /\ text \in Seq(Nat)
  BY DEF IInv, TypeOK, TablesAgree, Distinct
<1>2. \A k \in DOMAIN patches :
        ~IsExtern(patches[k].name) => labels[Find(labels, patches[k].name)].offset \in Nat
  <2> SUFFICES ASSUME NEW k \in DOMAIN patches, ~IsExtern(patches[k].name)
               PROVE  labels[Find(labels, patches[k].name)].offset \in Nat
    OBVIOUS
  <2> DEFINE f == Find(labels, patches[k].name)
  <2>1. f # 0 /\ labels[f].offset >= 0
    BY DEF Resolvable, IsExtern
  <2>2. f \in DOMAIN labels
    BY <1>1, <2>1, FindLabel
  <2>3. labels[f].offset \in Int
    BY <1>1, <2>2, LabelTyped
  <2> QED
    BY <2>1, <2>3
<1>3. \A i \in DOMAIN text : Patched[i] \in Nat
  <2> SUFFICES ASSUME NEW i \in DOMAIN text PROVE Patched[i] \in Nat
    OBVIOUS
  <2>1. CASE at(i) = {}
    <3>1. Patched[i] = text[i]
      BY <2>1 DEF Patched
    <3> QED
      BY <1>1, <3>1
  <2>2. CASE at(i) # {}
    <3> DEFINE k == CHOOSE k \in at(i) : TRUE
    <3>1. k \in at(i)
      BY <2>2
    <3>2. Patched[i] = labels[Find(labels, patches[k].name)].offset
      BY <2>2 DEF Patched
    <3> QED
      BY <1>2, <3>1, <3>2
  <2> QED
    BY <2>1, <2>2
<1>4. Patched \in Seq(Nat) /\ Len(Patched) = Len(text)
  <2>1. DOMAIN Patched = 1..Len(text) /\ Patched = [i \in DOMAIN text |-> Patched[i]]
    <3>1. DOMAIN text = 1..Len(text)
      BY <1>1
    <3>2. DOMAIN Patched = DOMAIN text /\ Patched = [i \in DOMAIN text |-> Patched[i]]
      <4> DEFINE f(i) == IF at(i) = {} THEN text[i]
                         ELSE labels[Find(labels, patches[CHOOSE k \in at(i) : TRUE].name)].offset
      <4>1. Patched = [i \in DOMAIN text |-> f(i)]
        BY Zenon DEF Patched
      <4> HIDE DEF f
      <4> QED
        BY <4>1
    <3> QED
      BY <3>1, <3>2
  <2>2. Patched \in [1..Len(text) -> Nat] /\ Len(text) \in Nat
    BY <1>1, <1>3, <2>1
  <2>3. Patched \in Seq(Nat)
    BY <2>2, SeqDef, Zenon
  <2>4. Len(Patched) = Len(text)
    BY <2>2, <2>3, LenProperties
  <2> QED
    BY <2>3, <2>4
<1> QED
  BY <1>4

LEMMA ResolveStep == ASSUME IInv, Resolve PROVE IInv'
<1>1. CASE Stop("failed")
  BY <1>1, StopStep
<1>2. CASE /\ \A k \in DOMAIN patches : Resolvable(patches[k])
           /\ text' = Patched
           /\ phase' = "resolved"
           /\ UNCHANGED <<section, size, equs, labels, patches, rels>>
  <2>1. text' \in Seq(Nat) /\ Len(text') = Len(text) /\ Len(text) \in Nat
    BY <1>2, PatchedTyped, PlacesTyped
  <2>2. TablesAgree'
    BY <1>2, <2>1, TablesKept
  <2>3. TypeOK'
    BY <1>2, <2>1 DEF IInv, TypeOK
  <2> QED
    BY <2>2, <2>3 DEF IInv
<1> QED
  BY <1>1, <1>2 DEF Resolve

LEMMA ToProgStep == ASSUME IInv, ToProg PROVE IInv'
<1>1. text \in Seq(Nat) /\ Len(text) \in Nat
  BY DEF IInv, TypeOK
<1>2. TablesAgree'
  BY <1>1, TablesKept DEF ToProg
<1> QED
  BY <1>2 DEF IInv, TypeOK, ToProg

LEMMA StutterStep == ASSUME IInv, UNCHANGED vars PROVE IInv'
<1>1. text \in Seq(Nat) /\ Len(text) \in Nat
  BY DEF IInv, TypeOK
<1>2. TablesAgree'
  BY <1>1, TablesKept DEF vars
<1> QED
  BY <1>2 DEF IInv, TypeOK, vars

-----------------------------------------------------------------------------
(* Theorems *)

LEMMA NextInv == IInv /\ [Next]_vars => IInv'
<1> SUFFICES ASSUME IInv, [Next]_vars PROVE IInv'
  OBVIOUS
<1>1. ASSUME NEW s \in Sections, Section(s) PROVE IInv'
  BY <1>1, SectionStep
<1>2. ASSUME NEW n \in Names,
             Equ(n) \/ Global(n) \/ Extern(n) \/ LabelDef(n) \/ Jump(n) \/ Address(n)
      PROVE  IInv'
  BY <1>2, EquStep, GlobalStep, ExternStep, LabelDefStep, JumpStep, AddressStep
<1>3. CASE Bytes \/ Instruction
  BY <1>3, BytesStep, InstructionStep
<1>4. CASE Resolve \/ ToProg
  BY <1>4, ResolveStep, ToProgStep
<1>5. CASE Ended \/ UNCHANGED vars
  BY <1>5, StutterStep DEF Ended
<1> QED
  BY <1>1, <1>2, <1>3, <1>4, <1>5 DEF Next

\* The tables are well-formed after any source, read to any point.
THEOREM Invariance == Spec => []IInv
<1> QED
  BY InitInv, NextInv, PTL DEF Spec

\* The variables of the assembler stay within their types and its tables within
\* their sizes: label_define, label_ref_code, label_ref_data and sym_index stop
\* in time.
THEOREM TypeCorrect == Spec => []TypeOK
<1>1. IInv => TypeOK
  BY DEF IInv
<1> QED
  BY Invariance, <1>1, PTL

\* No name has two labels, and no patch or relocation points outside the code or
\* the label table.
THEOREM TableSafety == Spec => []TablesAgree
<1>1. IInv => TablesAgree
  BY DEF IInv
<1> QED
  BY Invariance, <1>1, PTL

\* The index that a relocation recorded stays its label's until asm_to_prog reads
\* it: label_define, sym_index and the directives change labels in place.
THEOREM IndexSafety == Spec => IndicesStay
<1>1. IInv /\ [Next]_vars =>
        [\A k \in DOMAIN labels :
           k \in DOMAIN labels' /\ labels'[k].name = labels[k].name]_vars
  BY NextGrows DEF GrownFrom, IInv, TypeOK
<1> QED
  BY Invariance, <1>1, PTL DEF Spec, IndicesStay

-----------------------------------------------------------------------------
(* What the tables mean: the source read so far, statement by statement *)

Takers == {"jump", "address", "instruction", "bytes"}
Places(sec) == {j \in DOMAIN src : src[j].op \in Takers /\ SectionAt(j) = sec}

\* The part of WellDeclared that every prefix of a source has.
ExternsFirst ==
  \A n \in Names : \A i \in Stated("extern", n), j \in Named(n) :
    src[j].op # "extern" => i < j

\* What a section holds, and where, is what the source puts there.
CountInv ==
  /\ section = SectionAt(Len(src) + 1)
  /\ Cardinality(Places("CODE")) = Len(text)
  /\ \A sec \in {"CNST", "DATA"} : Cardinality(Places(sec)) = size[sec]
  /\ \A i \in References : SectionAt(i) = "CODE" /\ PlaceOf(i) < Len(text)
  /\ \A n \in Names : n \in equs <=> Stated("equ", n) # {}

\* What puts a name into the label table.
Mentions(n) == {i \in Named(n) : src[i].op # "jump"}

\* Where a name is defined.
DefSection(n) == SectionAt(Definition(n))
DefPlace(n) == PlaceOf(Definition(n))
Exported(n) == Stated("global", n) # {}

\* A label stands at its first definition if it has one.
LabelOK(n) ==
  LET k == Find(labels, n)
  IN  /\ k # 0 <=> Mentions(n) # {}
      /\ IsDefined(n) =>
           labels[k] = [name |-> n, section |-> DefSection(n), offset |-> DefPlace(n),
                        flags |-> IF Exported(n) THEN "GLOBAL" ELSE "LOCAL"]
      /\ ~IsDefined(n) /\ k # 0 =>
           /\ labels[k].offset = Undefined
           /\ labels[k].flags = IF Exported(n) THEN "GLOBAL" ELSE "EXTERN"

LabelInv == \A n \in Names : LabelOK(n)

\* When statement i was read, its name was an extern.
Earlier(op, n, i) == {j \in Stated(op, n) : j < i}
ExternAt(i) ==
  /\ Earlier("extern", src[i].name, i) # {}
  /\ Earlier("label", src[i].name, i) = {} /\ Earlier("global", src[i].name, i) = {}

InPlace(i) ==
  LET n == src[i].name
  IN  /\ IsDefined(n)
      /\ DefSection(n) = "CODE"
      /\ text[PlaceOf(i) + 1] = DefPlace(n)

\* A reference has what it takes to find its label: a relocation that names it, a
\* patch that names it, or the offset itself.
RefOK(i) ==
  LET n == src[i].name
      at == PlaceOf(i)
  IN  /\ \A k \in DOMAIN rels : rels[k].at = at => labels[rels[k].sym].name = n
      /\ src[i].op = "address" \/ ExternAt(i) => \E k \in DOMAIN rels : rels[k].at = at
      /\ \A k \in DOMAIN patches : patches[k].at = at =>
           patches[k].name = n /\ (patches[k].is64 <=> src[i].op = "address")
      /\ src[i].op = "jump" => InPlace(i) \/ \E k \in DOMAIN patches : patches[k].at = at

RefInv == \A i \in References : RefOK(i)

\* Once patches_resolve has run, no jump to a label of this source is left open.
EndInv ==
  /\ phase \in {"resolved", "done"} =>
       /\ \A k \in DOMAIN patches : Resolvable(patches[k])
       /\ \A i \in References : src[i].op = "jump" /\ IsDefined(src[i].name) => InPlace(i)
  /\ phase = "done" =>
       prog = [syms |-> [k \in DOMAIN KeptLabels |-> Symbol(KeptLabels[k])], rels |-> rels]

Meaning ==
  /\ src \in Seq(Statement)
  /\ phase \notin {"failed", "exited"} /\ ExternsFirst =>
       CountInv /\ LabelInv /\ RefInv /\ EndInv

-----------------------------------------------------------------------------
(* Reading one statement more *)

\* Statement m is read, and it is s.
Reads(m, s) ==
  /\ src \in Seq(Statement) /\ s \in Statement
  /\ src' = Append(src, s)
  /\ m = Len(src) + 1

LEMMA ReadSource ==
  ASSUME NEW m, NEW s, Reads(m, s)
  PROVE  /\ m \in Nat \ {0} /\ Len(src) = m - 1 /\ Len(src') = m
         /\ DOMAIN src = 1..(m - 1) /\ DOMAIN src' = 1..m
         /\ \A i \in 1..(m - 1) : src'[i] = src[i]
         /\ src'[m] = s
         /\ src' \in Seq(Statement)
BY DEF Reads

LEMMA LeastNumber ==
  ASSUME NEW S \in SUBSET Nat, S # {}
  PROVE  \E x \in S : \A y \in S : x <= y
<1>1. PICK x \in S : \A y \in S : ~ (<<y, x>> \in OpToRel(<, Nat))
  BY WFMin, NatLessThanWellFounded
<1>2. \A y \in S : x <= y
  <2>1. \A y \in S : ~(y < x)
    BY <1>1 DEF OpToRel
  <2> QED
    BY <2>1
<1> QED
  BY <1>2

LEMMA GreatestNumber ==
  ASSUME NEW n \in Nat, NEW S \in SUBSET (1..n), S # {}
  PROVE  \E x \in S : \A y \in S : y <= x
<1> DEFINE D == {n - x : x \in S}
<1>1. D \in SUBSET Nat /\ D # {}
  <2>1. \A x \in S : n - x \in Nat
    OBVIOUS
  <2> QED
    BY <2>1
<1>2. PICK d \in D : \A e \in D : d <= e
  <2> HIDE DEF D
  <2> QED
    BY <1>1, LeastNumber
<1>3. PICK x \in S : d = n - x
  OBVIOUS
<1>4. \A y \in S : n - x <= n - y
  BY <1>2, <1>3
<1>5. \A y \in S : y <= x
  BY <1>4
<1> QED
  BY <1>5

\* What is said of the statements so far does not change.
LEMMA BeforeKept ==
  ASSUME NEW m, NEW s, Reads(m, s), NEW S
  PROVE  /\ \A i \in 1..m : Before(i, S)' = Before(i, S)
         /\ Before(m + 1, S)' = Before(m, S) \cup (IF s.op \in S THEN {m} ELSE {})
<1>1. ASSUME NEW i \in 1..m PROVE Before(i, S)' = Before(i, S)
  <2>1. m \in Nat /\ \A j \in 1..(i - 1) : src'[j] = src[j]
    BY ReadSource
  <2> QED
    BY <2>1 DEF Before
<1>2. m \in Nat /\ (m + 1) - 1 = m /\ \A j \in 1..m : j = m \/ j \in 1..(m - 1)
  BY ReadSource
<1>3. Before(m + 1, S)' = {j \in 1..m : src'[j].op \in S}
  BY <1>2 DEF Before
<1>4. {j \in 1..m : src'[j].op \in S} = {j \in 1..(m - 1) : src[j].op \in S} \cup (IF s.op \in S THEN {m} ELSE {})
  BY <1>2, ReadSource
<1> QED
  BY <1>1, <1>3, <1>4 DEF Before

\* The section of a statement is that of the last directive before it.
LEMMA SectionIs ==
  ASSUME src \in Seq(Statement), NEW i \in 1..(Len(src) + 1)
  PROVE  LET at == Before(i, {"section"})
         IN  /\ at = {} => SectionAt(i) = "CODE"
             /\ \A j \in at : (\A l \in at : l <= j) => SectionAt(i) = src[j].section
             /\ at # {} => \E j \in at : \A l \in at : l <= j
<1> DEFINE at == Before(i, {"section"})
<1>1. at \in SUBSET (1..(i - 1)) /\ i - 1 \in Nat /\ Len(src) \in Nat
  BY DEF Before
<1>2. at # {} => \E j \in at : \A l \in at : l <= j
  BY <1>1, GreatestNumber
<1>3. ASSUME NEW j \in at, \A l \in at : l <= j PROVE SectionAt(i) = src[j].section
  <2>1. (CHOOSE x \in at : \A l \in at : l <= x) = j
    BY <1>1, <1>3
  <2> QED
    BY <2>1 DEF SectionAt
<1>4. at = {} => SectionAt(i) = "CODE"
  BY DEF SectionAt
<1> QED
  BY <1>2, <1>3, <1>4

LEMMA SectionIsThen ==
  ASSUME (src \in Seq(Statement))', NEW i, i \in 1..(Len(src') + 1)
  PROVE  LET at == Before(i, {"section"})'
         IN  /\ at = {} => SectionAt(i)' = "CODE"
             /\ \A j \in at : (\A l \in at : l <= j) => SectionAt(i)' = src'[j].section
<1> DEFINE at == Before(i, {"section"})
<1>1. at' \in SUBSET (1..(i - 1)) /\ i - 1 \in Nat /\ Len(src') \in Nat
  BY DEF Before
<1>3. ASSUME NEW j \in at', \A l \in at' : l <= j PROVE SectionAt(i)' = src'[j].section
  <2>1. (CHOOSE x \in at' : \A l \in at' : l <= x) = j
    BY <1>1, <1>3
  <2> QED
    BY <2>1 DEF SectionAt
<1>4. at' = {} => SectionAt(i)' = "CODE"
  BY DEF SectionAt
<1> QED
  BY <1>3, <1>4

LEMMA SectionKept ==
  ASSUME NEW m, NEW s, Reads(m, s)
  PROVE  /\ \A i \in 1..m : SectionAt(i)' = SectionAt(i)
         /\ SectionAt(m + 1)' = IF s.op = "section" THEN s.section ELSE SectionAt(m)
<1> DEFINE at(i) == Before(i, {"section"})
<1>1. /\ m \in Nat \ {0} /\ Len(src) + 1 = m /\ Len(src') + 1 = m + 1
      /\ src \in Seq(Statement) /\ src' \in Seq(Statement)
  BY ReadSource DEF Reads
<1>2. /\ \A i \in 1..m : at(i)' = at(i) /\ \A j \in at(i) : src'[j] = src[j]
      /\ at(m + 1)' = at(m) \cup (IF s.op = "section" THEN {m} ELSE {})
  <2>1. \A i \in 1..m : \A j \in at(i) : j \in 1..(m - 1)
    BY <1>1 DEF Before
  <2> QED
    BY <2>1, BeforeKept, ReadSource
<1>3. ASSUME NEW i \in 1..m, NEW l \in 1..(m + 1), at(l)' = at(i)
      PROVE  SectionAt(l)' = SectionAt(i)
  <2>1. CASE at(i) = {}
    BY <1>1, <1>3, <2>1, SectionIs, SectionIsThen
  <2>2. CASE at(i) # {}
    <3>1. PICK j \in at(i) : \A x \in at(i) : x <= j
      BY <1>1, <2>2, SectionIs
    <3>2. SectionAt(i) = src[j].section
      BY <1>1, <3>1, SectionIs
    <3>3. SectionAt(l)' = src'[j].section
      BY <1>1, <1>3, <3>1, SectionIsThen
    <3> QED
      BY <1>2, <3>1, <3>2, <3>3
  <2> QED
    BY <2>1, <2>2
<1>4. \A i \in 1..m : SectionAt(i)' = SectionAt(i)
  BY <1>1, <1>2, <1>3
<1>5. CASE s.op # "section"
  BY <1>1, <1>2, <1>3, <1>5
<1>6. CASE s.op = "section"
  <2>1. m \in at(m + 1)' /\ \A x \in at(m + 1)' : x <= m
    <3>1. \A x \in at(m) : x \in 1..(m - 1)
      BY <1>1 DEF Before
    <3>2. at(m + 1)' = at(m) \cup {m}
      BY <1>2, <1>6
    <3> HIDE DEF at
    <3> QED
      BY <1>1, <3>1, <3>2
  <2>2. m + 1 \in 1..(Len(src') + 1)
    BY <1>1
  <2>3. SectionAt(m + 1)' = src'[m].section
    <3>1. (src \in Seq(Statement))'
      BY <1>1
    <3>2. \A j \in at(m + 1)' : (\A l \in at(m + 1)' : l <= j) => SectionAt(m + 1)' = src'[j].section
      BY <2>2, <3>1, SectionIsThen
    <3> QED
      BY <2>1, <3>2
  <2> QED
    BY <2>3, <1>4, <1>6, ReadSource
<1> QED
  BY <1>4, <1>5, <1>6

LEMMA PlaceKept ==
  ASSUME NEW m, NEW s, Reads(m, s)
  PROVE  \A i \in 1..m : PlaceOf(i)' = PlaceOf(i)
<1> SUFFICES ASSUME NEW i \in 1..m PROVE PlaceOf(i)' = PlaceOf(i)
  OBVIOUS
<1>1. \A j \in Before(i, Takers) : j \in 1..m
  BY ReadSource DEF Before
<1>2. Before(i, Takers)' = Before(i, Takers)
  BY BeforeKept
<1>3. {j \in Before(i, Takers)' : SectionAt(j)' = SectionAt(i)'} = {j \in Before(i, Takers) : SectionAt(j) = SectionAt(i)}
  BY <1>1, <1>2, SectionKept
<1> QED
  BY <1>3 DEF PlaceOf, Takers

LEMMA PlaceNat == ASSUME NEW i \in Int PROVE PlaceOf(i) \in Nat
<1> DEFINE P == {j \in Before(i, Takers) : SectionAt(j) = SectionAt(i)}
<1>1. i - 1 \in Int
  OBVIOUS
<1>2. IsFiniteSet(1..(i - 1))
  BY <1>1, FS_Interval
<1>3. IsFiniteSet(P)
  <2>1. P \in SUBSET (1..(i - 1))
    BY DEF Before
  <2> HIDE DEF P
  <2> QED
    BY <1>2, <2>1, FS_Subset
<1>4. Cardinality(P) \in Nat
  BY <1>3, FS_CardinalityType
<1> QED
  BY <1>4 DEF PlaceOf, Takers

\* A statement that refers to a label, if it comes next.
IsRef(s) == s.op = "jump" \/ (s.op = "address" /\ Stated("equ", s.name) = {})

LEMMA StatedKept ==
  ASSUME NEW m, NEW s, Reads(m, s)
  PROVE  \A op, n : /\ Stated(op, n)' = Stated(op, n) \cup (IF s.op = op /\ s.name = n THEN {m} ELSE {})
                    /\ Stated(op, n) \subseteq 1..(m - 1)
<1> SUFFICES ASSUME NEW op, NEW n
             PROVE  /\ Stated(op, n)' = Stated(op, n) \cup (IF s.op = op /\ s.name = n THEN {m} ELSE {})
                    /\ Stated(op, n) \subseteq 1..(m - 1)
  OBVIOUS
<1>1. \A j \in 1..m : j = m \/ j \in 1..(m - 1)
  BY ReadSource
<1>2. {j \in 1..m : src'[j].op = op /\ src'[j].name = n}
        = {j \in 1..(m - 1) : src[j].op = op /\ src[j].name = n} \cup (IF s.op = op /\ s.name = n THEN {m} ELSE {})
  BY <1>1, ReadSource
<1> QED
  BY <1>2, ReadSource DEF Stated

LEMMA ReferencesGrow ==
  ASSUME NEW m, NEW s, Reads(m, s)
  PROVE  /\ References' = References \cup (IF IsRef(s) THEN {m} ELSE {})
         /\ References \subseteq 1..(m - 1)
         /\ \A i \in References : src'[i] = src[i]
<1> DEFINE Cons(i) == IsConstant(i)
<1>1. ASSUME NEW i \in 1..(m - 1) PROVE Cons(i)' <=> Cons(i)
  <2>1. src'[i] = src[i] /\ i \in 1..m
    BY ReadSource
  <2>2. Before(i, {"equ"})' = Before(i, {"equ"}) /\ m \notin Before(i, {"equ"})
    <3>1. m \in Nat /\ m \notin 1..(i - 1)
      BY ReadSource
    <3>2. m \notin Before(i, {"equ"})
      BY <3>1 DEF Before
    <3> QED
      BY <2>1, <3>2, BeforeKept
  <2>3. \A n : Stated("equ", n)' \cap Before(i, {"equ"}) = Stated("equ", n) \cap Before(i, {"equ"})
    BY <2>2, StatedKept
  <2> QED
    BY <2>1, <2>2, <2>3 DEF IsConstant
<1>2. Cons(m)' <=> s.op = "address" /\ Stated("equ", s.name) # {}
  <2>1. src'[m] = s /\ Before(m, {"equ"})' = Before(m, {"equ"})
    BY BeforeKept, ReadSource
  <2>2. \A n : Stated("equ", n) \subseteq Before(m, {"equ"}) /\ m \notin Before(m, {"equ"})
    BY ReadSource DEF Before, Stated
  <2>3. s.op = "address" => Stated("equ", s.name)' = Stated("equ", s.name)
    BY StatedKept
  <2> QED
    BY <2>1, <2>2, <2>3 DEF IsConstant
<1>3. /\ References = {i \in 1..(m - 1) : src[i].op \in {"jump", "address"} /\ ~Cons(i)}
      /\ References' = {i \in 1..m : src'[i].op \in {"jump", "address"} /\ ~Cons(i)'}
  BY ReadSource DEF References
<1> HIDE DEF Cons
<1>4. \A i \in 1..m : i = m \/ i \in 1..(m - 1)
  BY ReadSource
<1> QED
  BY <1>1, <1>2, <1>3, <1>4, ReadSource DEF IsRef

LEMMA NamedGrow ==
  ASSUME NEW m, NEW s, Reads(m, s)
  PROVE  \A n :
    /\ Named(n) \subseteq 1..(m - 1)
    /\ Named(n)' = Named(n) \cup
         (IF s.name = n /\ (s.op \in {"label", "global", "extern"} \/ IsRef(s)) THEN {m} ELSE {})
    /\ Mentions(n)' = Mentions(n) \cup
         (IF s.name = n /\ (s.op \in {"label", "global", "extern"} \/ (s.op = "address" /\ IsRef(s)))
            THEN {m} ELSE {})
    /\ Mentions(n) \subseteq 1..(m - 1)
<1> SUFFICES ASSUME NEW n
             PROVE  /\ Named(n) \subseteq 1..(m - 1)
                    /\ Named(n)' = Named(n) \cup
                         (IF s.name = n /\ (s.op \in {"label", "global", "extern"} \/ IsRef(s)) THEN {m} ELSE {})
                    /\ Mentions(n)' = Mentions(n) \cup
                         (IF s.name = n /\ (s.op \in {"label", "global", "extern"} \/ (s.op = "address" /\ IsRef(s)))
                            THEN {m} ELSE {})
                    /\ Mentions(n) \subseteq 1..(m - 1)
  OBVIOUS
<1> DEFINE refs == {i \in References : src[i].name = n}
<1>1. refs \subseteq 1..(m - 1) /\ refs' = refs \cup (IF s.name = n /\ IsRef(s) THEN {m} ELSE {})
  <2>1. m \notin References
    BY ReferencesGrow, ReadSource
  <2>2. src'[m] = s
    BY ReadSource
  <2> QED
    BY <2>1, <2>2, ReferencesGrow
<1>2. /\ Named(n) = refs \cup Stated("label", n) \cup Stated("global", n) \cup Stated("extern", n)
      /\ Named(n)' = refs' \cup Stated("label", n)' \cup Stated("global", n)' \cup Stated("extern", n)'
  BY DEF Named
<1> HIDE DEF refs
<1>3. Named(n) \subseteq 1..(m - 1)
  BY <1>1, <1>2, StatedKept
<1>4. Named(n)' = Named(n) \cup
        (IF s.name = n /\ (s.op \in {"label", "global", "extern"} \/ IsRef(s)) THEN {m} ELSE {})
  BY <1>1, <1>2, StatedKept
<1>5. \A i \in Named(n) : src'[i] = src[i] /\ i # m
  BY <1>3, ReadSource
<1>6. Mentions(n)' = Mentions(n) \cup
        (IF s.name = n /\ (s.op \in {"label", "global", "extern"} \/ (s.op = "address" /\ IsRef(s)))
           THEN {m} ELSE {})
  <2>1. src'[m] = s
    BY ReadSource
  <2>2. IsRef(s) => s.op \in {"jump", "address"}
    BY DEF IsRef
  <2> QED
    BY <1>4, <1>5, <2>1, <2>2 DEF Mentions
<1> QED
  BY <1>3, <1>4, <1>6 DEF Mentions

\* The first definition of a name.
LEMMA DefinitionIs ==
  src \in Seq(Statement) =>
    \A n : /\ IsDefined(n) => \E i \in Stated("label", n) : \A j \in Stated("label", n) : i <= j
           /\ \A i \in Stated("label", n) :
                (\A j \in Stated("label", n) : i <= j) => Definition(n) = i
<1> SUFFICES ASSUME src \in Seq(Statement), NEW n
             PROVE  /\ IsDefined(n) => \E i \in Stated("label", n) : \A j \in Stated("label", n) : i <= j
                    /\ \A i \in Stated("label", n) :
                         (\A j \in Stated("label", n) : i <= j) => Definition(n) = i
  OBVIOUS
<1> DEFINE S == Stated("label", n)
<1>1. S \in SUBSET Nat
  BY DEF Stated
<1>2. IsDefined(n) => \E i \in S : \A j \in S : i <= j
  <2> HIDE DEF S
  <2>1. S # {} => \E i \in S : \A j \in S : i <= j
    BY <1>1, LeastNumber
  <2> QED
    BY <2>1 DEF IsDefined, S
<1>3. ASSUME NEW i \in S, \A j \in S : i <= j PROVE Definition(n) = i
  <2>1. \A x \in S : (\A j \in S : x <= j) => x = i
    BY <1>1, <1>3
  <2>2. Definition(n) = CHOOSE x \in S : \A j \in S : x <= j
    BY DEF Definition
  <2> HIDE DEF S
  <2> QED
    BY <1>3, <2>1, <2>2
<1> QED
  BY <1>2, <1>3

LEMMA DefinitionThen ==
  (src \in Seq(Statement))' =>
    (\A n : \A i \in Stated("label", n) :
              (\A j \in Stated("label", n) : i <= j) => Definition(n) = i)'
<1>1. src \in Seq(Statement) =>
        \A n : \A i \in Stated("label", n) :
                 (\A j \in Stated("label", n) : i <= j) => Definition(n) = i
  BY DefinitionIs
<1> QED
  BY <1>1, PTL

LEMMA DefinitionKept ==
  ASSUME NEW m, NEW s, Reads(m, s)
  PROVE  \A n :
    /\ IsDefined(n)' <=> IsDefined(n) \/ (s.op = "label" /\ s.name = n)
    /\ IsDefined(n) => Definition(n)' = Definition(n) /\ Definition(n) \in Stated("label", n)
    /\ ~IsDefined(n) /\ s.op = "label" /\ s.name = n => Definition(n)' = m
<1> SUFFICES ASSUME NEW n
             PROVE  /\ IsDefined(n)' <=> IsDefined(n) \/ (s.op = "label" /\ s.name = n)
                    /\ IsDefined(n) => Definition(n)' = Definition(n) /\ Definition(n) \in Stated("label", n)
                    /\ ~IsDefined(n) /\ s.op = "label" /\ s.name = n => Definition(n)' = m
  OBVIOUS
<1> DEFINE S == Stated("label", n)
<1>1. /\ S' = S \cup (IF s.op = "label" /\ s.name = n THEN {m} ELSE {})
      /\ S \subseteq 1..(m - 1) /\ m \in Nat
      /\ src \in Seq(Statement) /\ (src \in Seq(Statement))'
  BY StatedKept, ReadSource DEF Reads
<1>2. IsDefined(n)' <=> IsDefined(n) \/ (s.op = "label" /\ s.name = n)
  BY <1>1 DEF IsDefined
<1>3. ASSUME IsDefined(n) PROVE Definition(n)' = Definition(n) /\ Definition(n) \in S
  <2>1. PICK i \in S : \A j \in S : i <= j
    BY <1>1, <1>3, DefinitionIs
  <2>2. Definition(n) = i
    BY <1>1, <2>1, DefinitionIs
  <2>3. i \in S' /\ \A j \in S' : i <= j
    BY <1>1, <2>1
  <2>4. Definition(n)' = i
    BY <1>1, <2>3, DefinitionThen
  <2> QED
    BY <2>2, <2>4
<1>4. ASSUME ~IsDefined(n), s.op = "label", s.name = n PROVE Definition(n)' = m
  <2>1. m \in S' /\ \A j \in S' : m <= j
    BY <1>1, <1>4 DEF IsDefined
  <2> QED
    BY <1>1, <2>1, DefinitionThen
<1> QED
  BY <1>2, <1>3, <1>4

\* Where a name is defined does not change.
LEMMA DefPlaceKept ==
  ASSUME NEW m, NEW s, Reads(m, s)
  PROVE  \A n :
    /\ IsDefined(n) => DefSection(n)' = DefSection(n) /\ DefPlace(n)' = DefPlace(n)
    /\ ~IsDefined(n) /\ s.op = "label" /\ s.name = n =>
         DefSection(n)' = SectionAt(m) /\ DefPlace(n)' = PlaceOf(m)
<1> SUFFICES ASSUME NEW n
             PROVE  /\ IsDefined(n) => DefSection(n)' = DefSection(n) /\ DefPlace(n)' = DefPlace(n)
                    /\ ~IsDefined(n) /\ s.op = "label" /\ s.name = n =>
                         DefSection(n)' = SectionAt(m) /\ DefPlace(n)' = PlaceOf(m)
  OBVIOUS
<1>1. ASSUME NEW d \in 1..m, Definition(n)' = d
      PROVE  DefSection(n)' = SectionAt(d) /\ DefPlace(n)' = PlaceOf(d)
  <2>1. SectionAt(d)' = SectionAt(d) /\ PlaceOf(d)' = PlaceOf(d)
    BY SectionKept, PlaceKept
  <2> QED
    BY <1>1, <2>1 DEF DefSection, DefPlace
<1>2. CASE IsDefined(n)
  <2>1. PICK d \in 1..m : d = Definition(n)
    BY <1>2, DefinitionKept, StatedKept, ReadSource
  <2> QED
    BY <1>1, <1>2, <2>1, DefinitionKept DEF DefSection, DefPlace
<1>3. CASE ~IsDefined(n)
  BY <1>1, <1>3, DefinitionKept, ReadSource
<1> QED
  BY <1>2, <1>3

LEMMA ExternsFirstBefore ==
  ASSUME NEW m, NEW s, Reads(m, s), ExternsFirst'
  PROVE  ExternsFirst
<1> SUFFICES ASSUME NEW n \in Names, NEW i \in Stated("extern", n), NEW j \in Named(n), src[j].op # "extern"
             PROVE  i < j
  BY DEF ExternsFirst
<1>1. i \in Stated("extern", n)' /\ j \in Named(n)' /\ src'[j] = src[j]
  BY StatedKept, NamedGrow, ReadSource
<1> QED
  BY <1>1 DEF ExternsFirst

\* The new statement takes the next place of its section.
LEMMA PlacesGrow ==
  ASSUME NEW m, NEW s, Reads(m, s), section = SectionAt(m)
  PROVE  /\ \A sec : /\ Places(sec)' = Places(sec) \cup (IF s.op \in Takers /\ section = sec THEN {m} ELSE {})
                     /\ m \notin Places(sec)
                     /\ IsFiniteSet(Places(sec))
         /\ PlaceOf(m) = Cardinality(Places(section))
<1>1. ASSUME NEW sec
      PROVE  /\ Places(sec)' = Places(sec) \cup (IF s.op \in Takers /\ section = sec THEN {m} ELSE {})
             /\ m \notin Places(sec)
             /\ IsFiniteSet(Places(sec))
  <2>1. Places(sec) = {j \in 1..(m - 1) : src[j].op \in Takers /\ SectionAt(j) = sec}
    BY ReadSource DEF Places
  <2>2. Places(sec)' = {j \in 1..m : src'[j].op \in Takers /\ SectionAt(j)' = sec}
    BY ReadSource DEF Places
  <2>3. m \in Nat /\ m \in 1..m /\ \A j \in 1..m : j = m \/ j \in 1..(m - 1)
    BY ReadSource
  <2>4. /\ \A j \in 1..(m - 1) : src'[j] = src[j] /\ SectionAt(j)' = SectionAt(j)
        /\ src'[m] = s /\ SectionAt(m)' = section
    BY <2>3, ReadSource, SectionKept
  <2>5. Places(sec)' = Places(sec) \cup (IF s.op \in Takers /\ section = sec THEN {m} ELSE {})
    BY <2>1, <2>2, <2>3, <2>4
  <2>6. IsFiniteSet(Places(sec))
    <3>1. m - 1 \in Int /\ Places(sec) \in SUBSET (1..(m - 1))
      BY <2>1, <2>3
    <3>2. IsFiniteSet(1..(m - 1))
      BY <3>1, FS_Interval
    <3> QED
      BY <3>1, <3>2, FS_Subset
  <2> QED
    BY <2>1, <2>3, <2>5, <2>6
<1>2. PlaceOf(m) = Cardinality(Places(section))
  <2>1. Before(m, Takers) = {j \in 1..(m - 1) : src[j].op \in Takers}
    BY DEF Before
  <2>2. {j \in Before(m, Takers) : SectionAt(j) = SectionAt(m)} = Places(section)
    BY <2>1, ReadSource DEF Places
  <2> QED
    BY <2>2 DEF PlaceOf, Takers
<1> QED
  BY <1>1, <1>2

LEMMA CountStep ==
  ASSUME TypeOK, CountInv, NEW m, NEW s, Reads(m, s),
         section' = IF s.op = "section" THEN s.section ELSE section,
         Len(text') = Len(text) + (IF s.op \in Takers /\ section = "CODE" THEN 1 ELSE 0),
         size' = IF s.op \in Takers /\ section # "CODE" THEN [size EXCEPT ![section] = @ + 1] ELSE size,
         equs' = equs \cup (IF s.op = "equ" THEN {s.name} ELSE {}),
         IsRef(s) => section = "CODE"
  PROVE  CountInv' /\ PlaceOf(m) = Here
<1>1. section = SectionAt(m) /\ section \in Sections /\ Len(text) \in Nat
      /\ size \in [{"CNST", "DATA"} -> Nat]
  BY DEF CountInv, TypeOK, Reads
<1> DEFINE new(sec) == IF s.op \in Takers /\ section = sec THEN 1 ELSE 0
<1>2. \A sec : Cardinality(Places(sec))' = Cardinality(Places(sec)) + new(sec)
  <2> SUFFICES ASSUME NEW sec PROVE Cardinality(Places(sec)') = Cardinality(Places(sec)) + new(sec)
    OBVIOUS
  <2>1. IsFiniteSet(Places(sec)) /\ m \notin Places(sec)
    BY <1>1, PlacesGrow
  <2>2. Cardinality(Places(sec)) \in Nat /\ Cardinality(Places(sec) \cup {m}) = Cardinality(Places(sec)) + 1
    BY <2>1, FS_AddElement, FS_CardinalityType
  <2>3. Places(sec)' = Places(sec) \cup (IF s.op \in Takers /\ section = sec THEN {m} ELSE {})
    BY <1>1, PlacesGrow
  <2>4. CASE s.op \in Takers /\ section = sec
    BY <2>2, <2>3, <2>4
  <2>5. CASE ~(s.op \in Takers /\ section = sec)
    <3>1. Places(sec)' = Places(sec) /\ new(sec) = 0
      BY <2>3, <2>5
    <3> QED
      BY <2>2, <3>1
  <2> QED
    BY <2>4, <2>5
<1>3. PlaceOf(m) = Here
  BY <1>1, PlacesGrow DEF CountInv, Here
<1>4. (section = SectionAt(Len(src) + 1))'
  <2>1. (Len(src) + 1)' = m + 1
    BY ReadSource
  <2>2. SectionAt(m + 1)' = section'
    BY <1>1, SectionKept
  <2>3. SectionAt(Len(src) + 1)' = SectionAt(m + 1)'
    BY <2>1
  <2> QED
    BY <2>2, <2>3
<1>5. Cardinality(Places("CODE"))' = Len(text)'
  BY <1>2 DEF CountInv
<1>6. \A sec \in {"CNST", "DATA"} : Cardinality(Places(sec))' = size'[sec]
  BY <1>1, <1>2 DEF CountInv
<1>7. \A i \in References' : SectionAt(i)' = "CODE" /\ PlaceOf(i)' < Len(text)'
  <2> SUFFICES ASSUME NEW i \in References' PROVE SectionAt(i)' = "CODE" /\ PlaceOf(i)' < Len(text)'
    OBVIOUS
  <2>1. \A j \in 1..m : SectionAt(j)' = SectionAt(j) /\ PlaceOf(j)' = PlaceOf(j)
    BY SectionKept, PlaceKept
  <2>2. CASE i \in References
    <3>1. i \in 1..m
      BY <2>2, ReferencesGrow, ReadSource
    <3>2. SectionAt(i) = "CODE" /\ PlaceOf(i) < Len(text) /\ PlaceOf(i) \in Nat
      BY <2>2, <3>1, PlaceNat DEF CountInv
    <3> QED
      BY <1>1, <2>1, <3>1, <3>2
  <2>3. CASE i = m /\ IsRef(s)
    <3>1. section = "CODE" /\ s.op \in Takers
      BY <2>3 DEF IsRef, Takers
    <3>2. PlaceOf(m) = Len(text) /\ m \in 1..m
      BY <1>3, <3>1, ReadSource DEF Here
    <3>3. Len(text') = Len(text) + 1
      BY <3>1
    <3>4. SectionAt(m)' = "CODE" /\ PlaceOf(m)' = Len(text)
      BY <1>1, <2>1, <3>1, <3>2
    <3> QED
      BY <1>1, <2>3, <3>3, <3>4
  <2> QED
    BY <2>2, <2>3, ReferencesGrow
<1>8. \A n \in Names : n \in equs' <=> Stated("equ", n)' # {}
  BY StatedKept DEF CountInv
<1> QED
  BY <1>3, <1>4, <1>5, <1>6, <1>7, <1>8 DEF CountInv

-----------------------------------------------------------------------------
(* The labels *)

LEMMA LabelsTyped ==
  ASSUME IInv
  PROVE  labels \in Seq(Label) /\ Distinct(labels) /\ Len(labels) \in Nat
BY DEF IInv, TypeOK, TablesAgree, Distinct

LEMMA FindIs ==
  ASSUME NEW ls \in Seq(Label), Distinct(ls), NEW k \in DOMAIN ls
  PROVE  Find(ls, ls[k].name) = k
BY FindLabel DEF Distinct

\* Only the label of n0 may be different in ls.
ChangedAt(n0, ls) ==
  \A k \in DOMAIN ls : ls[k].name # n0 => k \in DOMAIN labels /\ ls[k] = labels[k]

LEMMA OthersKept ==
  ASSUME IInv, NEW ls, GrownFrom(labels, ls), NEW n0, ChangedAt(n0, ls), NEW n, n # n0
  PROVE  /\ Find(ls, n) = Find(labels, n)
         /\ Find(labels, n) # 0 => ls[Find(labels, n)] = labels[Find(labels, n)]
<1>1. /\ labels \in Seq(Label) /\ Distinct(labels) /\ Len(labels) \in Nat
      /\ ls \in Seq(Label) /\ Distinct(ls) /\ Len(ls) \in Nat /\ Len(labels) <= Len(ls)
      /\ \A k \in DOMAIN labels : k \in DOMAIN ls /\ ls[k].name = labels[k].name
  BY LabelsTyped DEF GrownFrom
<1>2. CASE Find(ls, n) = 0
  BY <1>1, <1>2, FindLabel
<1>3. CASE Find(ls, n) # 0
  <2> DEFINE k == Find(ls, n)
  <2>1. k \in DOMAIN ls /\ ls[k].name = n
    BY <1>1, <1>3, FindLabel
  <2>2. k \in DOMAIN labels /\ ls[k] = labels[k]
    BY <2>1 DEF ChangedAt
  <2>3. Find(labels, n) = k
    BY <1>1, <2>1, <2>2, FindIs
  <2> QED
    BY <2>2, <2>3
<1> QED
  BY <1>2, <1>3

\* label_define: what the label is afterwards.
LEMMA DefineIs ==
  ASSUME IInv, NEW l \in Label, ~NoRoom(l.name)
  PROVE  LET ls == Define(l)
             k  == Find(labels, l.name)
         IN  /\ ChangedAt(l.name, ls)
             /\ Find(ls, l.name) # 0
             /\ k = 0 \/ labels[k].offset < 0 => ls[Find(ls, l.name)] = l
             /\ k # 0 /\ ~(labels[k].flags = "EXTERN" /\ l.flags # "EXTERN")
                /\ ~(labels[k].offset < 0) => ls[Find(ls, l.name)] = labels[k]
<1> DEFINE ls == Define(l)
           k  == Find(labels, l.name)
<1>1. /\ labels \in Seq(Label) /\ Distinct(labels) /\ Len(labels) \in Nat
      /\ ls \in Seq(Label) /\ Distinct(ls)
  BY LabelsTyped, DefineGrows DEF GrownFrom
<1>2. CASE k = 0
  <2>1. ls = Append(labels, l)
    BY <1>2 DEF Define
  <2>2. /\ Len(labels) + 1 \in DOMAIN ls /\ ls[Len(labels) + 1] = l
        /\ ChangedAt(l.name, ls)
    BY <1>1, <2>1 DEF ChangedAt
  <2> HIDE DEF ls
  <2>3. Find(ls, l.name) = Len(labels) + 1
    BY <1>1, <2>2, FindIs
  <2> QED
    BY <1>1, <1>2, <2>2, <2>3 DEF ls
<1>3. CASE k # 0
  <2>1. k \in DOMAIN labels /\ labels[k].name = l.name
    BY <1>1, <1>3, FindLabel
  <2>2. ls = labels \/ ls = [labels EXCEPT ![k] = l]
    BY <1>3 DEF Define
  <2>3. k \in DOMAIN ls /\ ls[k].name = l.name /\ ChangedAt(l.name, ls)
    BY <1>1, <2>1, <2>2 DEF ChangedAt
  <2>4. /\ labels[k].offset < 0 => ls = [labels EXCEPT ![k] = l]
        /\ ~(labels[k].flags = "EXTERN" /\ l.flags # "EXTERN") /\ ~(labels[k].offset < 0) => ls = labels
    BY <1>3 DEF Define
  <2> HIDE DEF ls
  <2>5. Find(ls, l.name) = k
    BY <1>1, <2>3, FindIs
  <2> QED
    BY <1>1, <1>3, <2>1, <2>3, <2>4, <2>5 DEF ls
<1> QED
  BY <1>2, <1>3

\* A statement that says nothing of n's label.
Silent(s, n) ==
  ~(s.name = n /\ (s.op \in {"label", "global", "extern"} \/ (s.op = "address" /\ IsRef(s))))

LEMMA LabelKept ==
  ASSUME NEW m, NEW s, Reads(m, s), NEW n, LabelOK(n), Silent(s, n),
         Find(labels', n) = Find(labels, n),
         Find(labels, n) # 0 => labels'[Find(labels, n)] = labels[Find(labels, n)]
  PROVE  LabelOK(n)'
<1>1. Mentions(n)' = Mentions(n) /\ (Exported(n)' <=> Exported(n)) /\ (IsDefined(n)' <=> IsDefined(n))
  <2>1. Mentions(n)' = Mentions(n)
    BY NamedGrow DEF Silent
  <2>2. Exported(n)' <=> Exported(n)
    BY StatedKept DEF Silent, Exported
  <2>3. IsDefined(n)' <=> IsDefined(n)
    BY DefinitionKept DEF Silent
  <2> QED
    BY <2>1, <2>2, <2>3
<1>2. IsDefined(n) => DefSection(n)' = DefSection(n) /\ DefPlace(n)' = DefPlace(n)
  BY DefPlaceKept
<1>3. IsDefined(n) => Find(labels, n) # 0
  <2>1. Stated("label", n) \subseteq Mentions(n)
    BY DEF Mentions, Named, Stated
  <2> QED
    BY <2>1 DEF LabelOK, IsDefined
<1> QED
  BY <1>1, <1>2, <1>3 DEF LabelOK

\* A step that changes no label but that of n0.
LEMMA LabelStep ==
  ASSUME IInv, LabelInv, NEW m, NEW s, Reads(m, s), GrownFrom(labels, labels'),
         NEW n0, \A n \in Names : n # n0 => Silent(s, n),
         ChangedAt(n0, labels'), n0 \in Names => LabelOK(n0)'
  PROVE  LabelInv'
<1> SUFFICES ASSUME NEW n \in Names, n # n0 PROVE LabelOK(n)'
  BY DEF LabelInv
<1>1. LabelOK(n) /\ Silent(s, n)
  BY DEF LabelInv
<1> QED
  BY <1>1, OthersKept, LabelKept

\* A step that says nothing of labels.
LEMMA LabelsStand ==
  ASSUME IInv, LabelInv, NEW m, NEW s, Reads(m, s), labels' = labels,
         \A n \in Names : Silent(s, n)
  PROVE  LabelInv'
<1> SUFFICES ASSUME NEW n \in Names PROVE LabelOK(n)'
  BY DEF LabelInv
<1>1. LabelOK(n) /\ Silent(s, n)
  BY DEF LabelInv
<1> QED
  BY <1>1, LabelKept

\* What LabelOK says of a name and of what makes it into the table.
LEMMA LabelFacts ==
  ASSUME IInv, NEW m, NEW s, Reads(m, s), NEW n, LabelOK(n)
  PROVE  LET k == Find(labels, n)
         IN  /\ k # 0 => k \in DOMAIN labels /\ labels[k].name = n /\ labels[k] \in Label
             /\ k = 0 => ~IsDefined(n) /\ ~Exported(n)
             /\ IsDefined(n) => /\ k # 0 /\ ~(labels[k].offset < 0)
                                /\ labels[k].flags # "EXTERN"
             /\ ~IsDefined(n) /\ k # 0 => labels[k].offset < 0
             /\ IsGlobal(n) <=> Exported(n)
             /\ IsExtern(n) <=> Mentions(n) # {} /\ ~IsDefined(n) /\ ~Exported(n)
<1> DEFINE k == Find(labels, n)
<1>1. k # 0 => k \in DOMAIN labels /\ labels[k].name = n /\ labels[k] \in Label
  BY LabelsTyped, FindLabel
<1>2. Stated("label", n) \cup Stated("global", n) \subseteq Mentions(n)
  BY DEF Mentions, Named, Stated
<1>3. k = 0 => ~IsDefined(n) /\ ~Exported(n)
  BY <1>2 DEF LabelOK, IsDefined, Exported
<1>4. IsDefined(n) => DefPlace(n) \in Nat
  <2>1. IsDefined(n) => Definition(n) \in 1..m
    BY DefinitionKept, StatedKept, ReadSource
  <2> QED
    BY <2>1, PlaceNat DEF DefPlace
<1>5. IsDefined(n) => k # 0 /\ ~(labels[k].offset < 0) /\ labels[k].flags # "EXTERN"
  BY <1>3, <1>4 DEF LabelOK
<1>6. ~IsDefined(n) /\ k # 0 => labels[k].offset < 0
  BY DEF LabelOK
<1>7. IsGlobal(n) <=> Exported(n)
  BY <1>3 DEF LabelOK, IsGlobal
<1>8. IsExtern(n) <=> Mentions(n) # {} /\ ~IsDefined(n) /\ ~Exported(n)
  BY <1>3, <1>5 DEF LabelOK, IsExtern
<1> QED
  BY <1>1, <1>3, <1>5, <1>6, <1>7, <1>8

\* name:
LEMMA LabelDefMeans ==
  ASSUME IInv, LabelInv, CountInv, NEW n \in Names,
         NEW m, Reads(m, [op |-> "label", name |-> n]), ~NoRoom(n),
         labels' = Define([name |-> n, section |-> section, offset |-> Here,
                           flags |-> IF IsGlobal(n) THEN "GLOBAL" ELSE "LOCAL"]),
         PlaceOf(m) = Here
  PROVE  LabelInv'
<1> DEFINE s == [op |-> "label", name |-> n]
           l == [name |-> n, section |-> section, offset |-> Here,
                 flags |-> IF IsGlobal(n) THEN "GLOBAL" ELSE "LOCAL"]
           k == Find(labels, n)
<1>1. l \in Label /\ l.name = n /\ l.flags # "EXTERN"
  <2>1. Here \in Int
    BY DEF Here, IInv, TypeOK
  <2> QED
    BY <2>1 DEF Label, IInv, TypeOK
<1>2. GrownFrom(labels, labels') /\ ChangedAt(n, labels')
  BY <1>1, DefineGrows, DefineIs
<1>3. LabelOK(n)
  BY DEF LabelInv
<1>4. /\ Find(labels', n) # 0
      /\ k = 0 \/ labels[k].offset < 0 => labels'[Find(labels', n)] = l
      /\ k # 0 /\ labels[k].flags # "EXTERN" /\ ~(labels[k].offset < 0) =>
           labels'[Find(labels', n)] = labels[k]
  BY <1>1, DefineIs
<1>5. /\ Mentions(n)' # {} /\ (Exported(n)' <=> Exported(n)) /\ IsDefined(n)'
  BY NamedGrow, StatedKept, DefinitionKept DEF Exported
<1>6. ASSUME IsDefined(n) PROVE LabelOK(n)'
  <2>1. labels'[Find(labels', n)] = labels[k]
    BY <1>3, <1>4, <1>6, LabelFacts
  <2>2. DefSection(n)' = DefSection(n) /\ DefPlace(n)' = DefPlace(n)
    BY <1>6, DefPlaceKept
  <2> QED
    BY <1>3, <1>4, <1>5, <1>6, <2>1, <2>2 DEF LabelOK
<1>7. ASSUME ~IsDefined(n) PROVE LabelOK(n)'
  <2>1. labels'[Find(labels', n)] = l
    BY <1>3, <1>4, <1>7, LabelFacts
  <2>2. DefSection(n)' = section /\ DefPlace(n)' = Here
    <3>1. section = SectionAt(m)
      BY DEF CountInv, Reads
    <3> QED
      BY <1>7, <3>1, DefPlaceKept
  <2>3. IsGlobal(n) <=> Exported(n)'
    BY <1>3, <1>5, LabelFacts
  <2> QED
    BY <1>4, <1>5, <2>1, <2>2, <2>3 DEF LabelOK
<1>8. LabelOK(n)'
  BY <1>6, <1>7
<1>9. \A n1 \in Names : n1 # n => Silent(s, n1)
  BY DEF Silent
<1> QED
  BY <1>2, <1>8, <1>9, LabelStep

\* global name
LEMMA GlobalMeans ==
  ASSUME IInv, LabelInv, NEW n \in Names, NEW m, Reads(m, [op |-> "global", name |-> n]),
         ~NoRoom(n), GrownFrom(labels, labels'),
         labels' = IF Find(labels, n) # 0 THEN [labels EXCEPT ![Find(labels, n)].flags = "GLOBAL"]
                   ELSE Define(Declared(n, "GLOBAL", section))
  PROVE  LabelOK(n)' /\ ChangedAt(n, labels')
<1> DEFINE s == [op |-> "global", name |-> n]
           l == Declared(n, "GLOBAL", section)
           k == Find(labels, n)
<1>1. LabelOK(n)
  BY DEF LabelInv
<1>2. Mentions(n)' # {} /\ Exported(n)' /\ (IsDefined(n)' <=> IsDefined(n))
  <2>1. s.op = "global" /\ s.name = n
    OBVIOUS
  <2> HIDE DEF s
  <2>2. Mentions(n)' # {}
    BY <2>1, NamedGrow
  <2>3. Exported(n)'
    BY <2>1, StatedKept DEF Exported
  <2>4. IsDefined(n)' <=> IsDefined(n)
    BY <2>1, DefinitionKept
  <2> QED
    BY <2>2, <2>3, <2>4
<1>3. CASE k = 0
  <2>1. l \in Label /\ l.name = n
    BY DEF Label, Declared, IInv, TypeOK
  <2>2. ChangedAt(n, labels') /\ Find(labels', n) # 0 /\ labels'[Find(labels', n)] = l
    BY <1>3, <2>1, DefineIs
  <2>3. ~IsDefined(n)
    BY <1>1, <1>3, LabelFacts
  <2>4. LabelOK(n)'
    BY <1>2, <2>2, <2>3 DEF LabelOK, Declared
  <2> QED
    BY <2>2, <2>4
<1>4. CASE k # 0
  <2>1. k \in DOMAIN labels /\ labels[k].name = n /\ labels[k] \in Label
    BY <1>1, <1>4, LabelFacts
  <2>2. labels' = [labels EXCEPT ![k] = [labels[k] EXCEPT !.flags = "GLOBAL"]]
    BY <1>4
  <2>3. [labels[k] EXCEPT !.flags = "GLOBAL"].name = n
    BY <2>1 DEF Label
  <2>4. /\ ChangedAt(n, labels') /\ k \in DOMAIN labels' /\ labels'[k].name = n
        /\ labels'[k] = [labels[k] EXCEPT !.flags = "GLOBAL"]
    BY <2>1, <2>2, <2>3, LabelsTyped DEF ChangedAt
  <2>5. Find(labels', n) = k
    BY <2>4, FindIs DEF GrownFrom
  <2>6. ASSUME IsDefined(n) PROVE LabelOK(n)'
    <3>1. DefSection(n)' = DefSection(n) /\ DefPlace(n)' = DefPlace(n)
      BY <2>6, DefPlaceKept
    <3>2. labels'[k] = [name |-> n, section |-> DefSection(n), offset |-> DefPlace(n), flags |-> "GLOBAL"]
      BY <1>1, <2>4, <2>6 DEF LabelOK
    <3> QED
      BY <1>2, <1>4, <2>5, <2>6, <3>1, <3>2 DEF LabelOK
  <2>7. ASSUME ~IsDefined(n) PROVE LabelOK(n)'
    <3>1. labels'[k].offset = Undefined /\ labels'[k].flags = "GLOBAL"
      BY <1>1, <1>4, <2>1, <2>4, <2>7 DEF LabelOK, Label
    <3> QED
      BY <1>2, <1>4, <2>5, <2>7, <3>1 DEF LabelOK
  <2>8. LabelOK(n)'
    BY <2>6, <2>7
  <2> QED
    BY <2>4, <2>8
<1> QED
  BY <1>3, <1>4

\* extern name, before anything else is said of the name.
LEMMA ExternMeans ==
  ASSUME IInv, LabelInv, NEW n \in Names, NEW m, Reads(m, [op |-> "extern", name |-> n]),
         ExternsFirst', ~NoRoom(n), labels' = Define(Declared(n, "EXTERN", "NONE"))
  PROVE  LabelInv'
<1> DEFINE s == [op |-> "extern", name |-> n]
           l == Declared(n, "EXTERN", "NONE")
           k == Find(labels, n)
<1>1. LabelOK(n)
  BY DEF LabelInv
<1>2. l \in Label /\ l.name = n
  BY DEF Label, Declared
<1>3. Mentions(n)' # {} /\ (Exported(n)' <=> Exported(n)) /\ (IsDefined(n)' <=> IsDefined(n))
  BY NamedGrow, StatedKept, DefinitionKept DEF Exported
<1>4. ~Exported(n) /\ ~IsDefined(n)
  <2>1. m \in Stated("extern", n)'
    BY StatedKept
  <2>2. \A j \in Named(n)' : src'[j].op # "extern" => m < j
    BY <2>1 DEF ExternsFirst
  <2>3. \A j \in Named(n)' : j \in 1..m
    BY NamedGrow, ReadSource
  <2>4. m \in Nat
    BY ReadSource
  <2>5. \A j \in Named(n)' : src'[j].op = "extern"
    BY <2>2, <2>3, <2>4
  <2>6. Stated("global", n)' = {} /\ Stated("label", n)' = {}
    BY <2>5 DEF Named, Stated
  <2> QED
    BY <2>6, <1>3 DEF Exported, IsDefined
<1>5. /\ ChangedAt(n, labels') /\ Find(labels', n) # 0 /\ labels'[Find(labels', n)] = l
      /\ GrownFrom(labels, labels')
  BY <1>1, <1>2, <1>4, LabelFacts, DefineIs, DefineGrows
<1>6. LabelOK(n)'
  BY <1>3, <1>4, <1>5 DEF LabelOK, Declared
<1>7. \A n1 \in Names : n1 # n => Silent(s, n1)
  BY DEF Silent
<1> QED
  BY <1>5, <1>6, <1>7, LabelStep

\* MOV reg, name: the name gets a label.
LEMMA AddressMeans ==
  ASSUME IInv, LabelInv, NEW n \in Names, NEW m, Reads(m, [op |-> "address", name |-> n]),
         Stated("equ", n) = {}, ~NoRoom(n), labels' = WithPlaceholder(n)
  PROVE  LabelInv'
<1> DEFINE s == [op |-> "address", name |-> n]
           l == Declared(n, "EXTERN", "NONE")
           k == Find(labels, n)
<1>1. LabelOK(n)
  BY DEF LabelInv
<1>2. l \in Label /\ l.name = n
  BY DEF Label, Declared
<1>3. Mentions(n)' # {} /\ (Exported(n)' <=> Exported(n)) /\ (IsDefined(n)' <=> IsDefined(n))
  BY NamedGrow, StatedKept, DefinitionKept DEF Exported, IsRef
<1>4. IsDefined(n) => DefSection(n)' = DefSection(n) /\ DefPlace(n)' = DefPlace(n)
  BY DefPlaceKept
<1>5. GrownFrom(labels, labels')
  BY PlaceholderGrows
<1>6. ASSUME k = 0 PROVE LabelOK(n)'
  <2>1. ChangedAt(n, labels') /\ Find(labels', n) # 0 /\ labels'[Find(labels', n)] = l
    BY <1>2, <1>6, DefineIs DEF WithPlaceholder
  <2>2. ~IsDefined(n) /\ ~Exported(n)
    BY <1>1, <1>6, LabelFacts
  <2> QED
    BY <1>3, <2>1, <2>2 DEF LabelOK, Declared
<1>7. ASSUME k # 0 PROVE LabelOK(n)'
  <2>1. labels' = labels
    BY <1>7 DEF WithPlaceholder
  <2> QED
    BY <1>1, <1>3, <1>4, <1>7, <2>1 DEF LabelOK
<1>8. ChangedAt(n, labels')
  <2>1. CASE k = 0
    BY <1>2, <2>1, DefineIs DEF WithPlaceholder
  <2>2. CASE k # 0
    BY <2>2 DEF WithPlaceholder, ChangedAt
  <2> QED
    BY <2>1, <2>2
<1>9. LabelOK(n)'
  BY <1>6, <1>7
<1>10. \A n1 \in Names : n1 # n => Silent(s, n1)
  BY DEF Silent
<1> QED
  BY <1>5, <1>8, <1>9, <1>10, LabelStep

-----------------------------------------------------------------------------
(* The references *)

\* Entries for the place of the new statement may be added to a table.
Extends(old, tab) ==
  \A k \in DOMAIN tab : (k \in DOMAIN old /\ tab[k] = old[k]) \/ tab[k].at = Len(text)

LEMMA TablesTyped ==
  ASSUME IInv
  PROVE  /\ text \in Seq(Nat) /\ Len(text) \in Nat
         /\ patches \in Seq(Patch) /\ rels \in Seq(Rel)
         /\ \A k \in DOMAIN patches : patches[k].at \in Nat /\ patches[k].at < Len(text)
         /\ \A k \in DOMAIN rels : rels[k].at \in Nat /\ rels[k].at < Len(text)
         /\ \A k \in DOMAIN rels : rels[k].sym \in DOMAIN labels
BY PlacesTyped DEF IInv, TypeOK, TablesAgree

LEMMA EarlierKept ==
  ASSUME NEW m, NEW s, Reads(m, s), NEW op, NEW n
  PROVE  /\ \A j \in 1..m : Earlier(op, n, j)' = Earlier(op, n, j)
         /\ Earlier(op, n, m) = Stated(op, n)
<1>1. /\ m \in Nat
      /\ Stated(op, n)' = Stated(op, n) \/ Stated(op, n)' = Stated(op, n) \cup {m}
      /\ Stated(op, n) \subseteq 1..(m - 1)
  <2>1. /\ Stated(op, n)' = Stated(op, n) \cup (IF s.op = op /\ s.name = n THEN {m} ELSE {})
        /\ Stated(op, n) \subseteq 1..(m - 1)
    BY StatedKept
  <2>2. m \in Nat
    BY ReadSource
  <2> QED
    BY <2>1, <2>2
<1>2. ASSUME NEW j \in 1..m PROVE Earlier(op, n, j)' = Earlier(op, n, j)
  <2>1. \A h \in Stated(op, n)' : h < j => h \in Stated(op, n)
    BY <1>1
  <2> QED
    BY <1>1, <2>1 DEF Earlier
<1>3. Earlier(op, n, m) = Stated(op, n)
  BY <1>1 DEF Earlier
<1> QED
  BY <1>2, <1>3

LEMMA ExternAtKept ==
  ASSUME NEW m, NEW s, Reads(m, s)
  PROVE  /\ \A i \in 1..(m - 1) : ExternAt(i)' <=> ExternAt(i)
         /\ ExternAt(m)' <=> /\ Stated("extern", s.name) # {}
                             /\ Stated("label", s.name) = {} /\ Stated("global", s.name) = {}
<1>1. ASSUME NEW i \in 1..m, NEW n, n = src'[i].name
      PROVE  ExternAt(i)' <=> /\ Earlier("extern", n, i) # {}
                              /\ Earlier("label", n, i) = {} /\ Earlier("global", n, i) = {}
  <2>1. ExternAt(i)' <=> /\ Earlier("extern", n, i)' # {}
                         /\ Earlier("label", n, i)' = {} /\ Earlier("global", n, i)' = {}
    BY <1>1 DEF ExternAt, Earlier
  <2>2. ASSUME NEW op PROVE Earlier(op, n, i)' = Earlier(op, n, i)
    <3>1. \A j \in 1..m : Earlier(op, n, j)' = Earlier(op, n, j)
      BY EarlierKept
    <3> QED
      BY <3>1
  <2>3. /\ Earlier("extern", n, i)' = Earlier("extern", n, i)
        /\ Earlier("label", n, i)' = Earlier("label", n, i)
        /\ Earlier("global", n, i)' = Earlier("global", n, i)
    BY <2>2
  <2> QED
    BY <2>1, <2>3
<1>2. ASSUME NEW i \in 1..(m - 1) PROVE ExternAt(i)' <=> ExternAt(i)
  <2>1. PICK n : n = src[i].name
    OBVIOUS
  <2>2. i \in 1..m /\ src'[i] = src[i]
    BY ReadSource
  <2> QED
    BY <1>1, <2>1, <2>2 DEF ExternAt
<1>3. ExternAt(m)' <=> /\ Stated("extern", s.name) # {}
                       /\ Stated("label", s.name) = {} /\ Stated("global", s.name) = {}
  <2>1. PICK n : n = s.name
    OBVIOUS
  <2>2. m \in 1..m /\ src'[m] = s
    BY ReadSource
  <2> QED
    BY <1>1, <2>1, <2>2, EarlierKept
<1> QED
  BY <1>2, <1>3

\* A reference read earlier keeps what it has.
LEMMA OldReference ==
  ASSUME IInv, CountInv, NEW m, NEW s, Reads(m, s), GrownFrom(labels, labels'),
         \A j \in 1..Len(text) : text'[j] = text[j],
         Extends(patches, patches'), Extends(rels, rels'),
         DOMAIN patches \subseteq DOMAIN patches', \A k \in DOMAIN patches : patches'[k] = patches[k],
         DOMAIN rels \subseteq DOMAIN rels', \A k \in DOMAIN rels : rels'[k] = rels[k],
         NEW i \in References, RefOK(i)
  PROVE  RefOK(i)'
<1> PICK n : n = src[i].name
  OBVIOUS
<1>1. /\ i \in 1..m /\ i \in 1..(m - 1) /\ src'[i] = src[i]
      /\ PlaceOf(i)' = PlaceOf(i) /\ PlaceOf(i) \in Nat /\ PlaceOf(i) < Len(text)
      /\ Len(text) \in Nat
  <2>1. i \in 1..m /\ i \in 1..(m - 1) /\ src'[i] = src[i] /\ m \in Nat
    BY ReferencesGrow, ReadSource
  <2>2. i \in Int
    BY <2>1
  <2>3. PlaceOf(i) \in Nat
    BY <2>2, PlaceNat
  <2>4. PlaceOf(i)' = PlaceOf(i) /\ PlaceOf(i) < Len(text)
    BY <2>1, PlaceKept DEF CountInv
  <2> QED
    BY <2>1, <2>3, <2>4, TablesTyped
<1>2. ExternAt(i)' <=> ExternAt(i)
  BY <1>1, ExternAtKept
<1>3. InPlace(i) => InPlace(i)'
  <2> SUFFICES ASSUME InPlace(i) PROVE InPlace(i)'
    OBVIOUS
  <2>1. IsDefined(n)' /\ DefSection(n)' = DefSection(n) /\ DefPlace(n)' = DefPlace(n)
    BY DefinitionKept, DefPlaceKept DEF InPlace
  <2>2. text'[PlaceOf(i) + 1] = text[PlaceOf(i) + 1]
    BY <1>1
  <2> QED
    BY <1>1, <2>1, <2>2 DEF InPlace
<1>4. \A k \in DOMAIN rels' : rels'[k].at = PlaceOf(i) => labels'[rels'[k].sym].name = n
  <2> SUFFICES ASSUME NEW k \in DOMAIN rels', rels'[k].at = PlaceOf(i)
               PROVE  labels'[rels'[k].sym].name = n
    OBVIOUS
  <2>1. k \in DOMAIN rels /\ rels'[k] = rels[k]
    BY <1>1 DEF Extends
  <2>2. labels[rels[k].sym].name = n /\ rels[k].sym \in DOMAIN labels
    BY <2>1, TablesTyped DEF RefOK
  <2> QED
    BY <2>1, <2>2 DEF GrownFrom
<1>5. \A k \in DOMAIN patches' : patches'[k].at = PlaceOf(i) =>
        patches'[k].name = n /\ (patches'[k].is64 <=> src[i].op = "address")
  <2> SUFFICES ASSUME NEW k \in DOMAIN patches', patches'[k].at = PlaceOf(i)
               PROVE  patches'[k].name = n /\ (patches'[k].is64 <=> src[i].op = "address")
    OBVIOUS
  <2>1. k \in DOMAIN patches /\ patches'[k] = patches[k]
    BY <1>1 DEF Extends
  <2> QED
    BY <2>1 DEF RefOK
<1>6. /\ (\E k \in DOMAIN rels : rels[k].at = PlaceOf(i)) => \E k \in DOMAIN rels' : rels'[k].at = PlaceOf(i)
      /\ (\E k \in DOMAIN patches : patches[k].at = PlaceOf(i)) => \E k \in DOMAIN patches' : patches'[k].at = PlaceOf(i)
  OBVIOUS
<1> QED
  BY <1>1, <1>2, <1>3, <1>4, <1>5, <1>6 DEF RefOK

\* label_ref_code: the new reference.
LEMMA NewJump ==
  ASSUME IInv, LabelInv, NEW n \in Names, NEW m, Reads(m, [op |-> "jump", name |-> n]),
         PlaceOf(m) = Len(text), labels' = labels,
         \/ /\ Known(n)
            /\ text' = Append(text, labels[Find(labels, n)].offset)
            /\ patches' = patches /\ rels' = rels
         \/ /\ patches' = Append(patches, [name |-> n, at |-> Len(text), is64 |-> FALSE])
            /\ rels' = IF IsExtern(n)
                         THEN Append(rels, [at |-> Len(text), sym |-> Find(labels, n), kind |-> "CODE"])
                         ELSE rels
  PROVE  RefOK(m)'
<1> DEFINE s == [op |-> "jump", name |-> n]
           k == Find(labels, n)
<1>1. /\ m \in 1..m /\ src'[m].op = "jump" /\ src'[m].name = n /\ PlaceOf(m)' = Len(text)
      /\ LabelOK(n)
  BY ReadSource, PlaceKept DEF LabelInv
<1>2. ExternAt(m)' <=> Stated("extern", n) # {} /\ ~IsDefined(n) /\ ~Exported(n)
  <2>1. s.name = n
    OBVIOUS
  <2> QED
    BY <2>1, ExternAtKept DEF IsDefined, Exported
<1>3. CASE /\ Known(n)
           /\ text' = Append(text, labels[k].offset)
           /\ patches' = patches /\ rels' = rels
  <2>1. IsDefined(n) /\ labels[k].section = "CODE"
    <3>1. k # 0 /\ labels[k].offset >= 0 /\ labels[k].section = "CODE"
      BY <1>3 DEF Known
    <3>2. k \in DOMAIN labels
      BY <1>1, <3>1, LabelFacts
    <3>3. labels[k].offset \in Int
      BY <3>2, LabelsTyped, LabelTyped
    <3> QED
      BY <1>1, <3>1, <3>3, LabelFacts
  <2>2. DefSection(n)' = "CODE" /\ DefPlace(n)' = labels[k].offset /\ IsDefined(n)'
    BY <1>1, <2>1, DefPlaceKept, DefinitionKept DEF LabelOK
  <2>3. text'[Len(text) + 1] = labels[k].offset
    BY <1>3, TablesTyped
  <2>4. InPlace(m)'
    BY <1>1, <2>2, <2>3 DEF InPlace
  <2>5. /\ \A j \in DOMAIN rels' : rels'[j].at # Len(text)
        /\ \A j \in DOMAIN patches' : patches'[j].at # Len(text)
    BY <1>3, TablesTyped
  <2> QED
    BY <1>1, <1>2, <2>1, <2>4, <2>5 DEF RefOK
<1>4. CASE /\ patches' = Append(patches, [name |-> n, at |-> Len(text), is64 |-> FALSE])
           /\ rels' = IF IsExtern(n)
                        THEN Append(rels, [at |-> Len(text), sym |-> k, kind |-> "CODE"])
                        ELSE rels
  <2>1. \A j \in DOMAIN patches' : patches'[j].at = Len(text) =>
          patches'[j].name = n /\ patches'[j].is64 = FALSE
    <3>1. \A j \in DOMAIN patches' :
            (j \in DOMAIN patches /\ patches'[j] = patches[j])
              \/ patches'[j] = [name |-> n, at |-> Len(text), is64 |-> FALSE]
      <4>1. patches \in Seq(Patch)
        BY TablesTyped
      <4> QED
        BY <1>4, <4>1, AppendIs
    <3> QED
      BY <3>1, TablesTyped
  <2>2. \E j \in DOMAIN patches' : patches'[j].at = Len(text)
    <3>1. Len(patches) + 1 \in DOMAIN patches' /\ patches'[Len(patches) + 1].at = Len(text)
      BY <1>4, TablesTyped
    <3> QED
      BY <3>1
  <2>3. ExternAt(m)' => IsExtern(n)
    <3>1. Stated("extern", n) \subseteq Mentions(n)
      BY DEF Mentions, Named, Stated
    <3> QED
      BY <1>1, <1>2, <3>1, LabelFacts
  <2>4. /\ \A j \in DOMAIN rels' : rels'[j].at = Len(text) => labels[rels'[j].sym].name = n
        /\ IsExtern(n) => \E j \in DOMAIN rels' : rels'[j].at = Len(text)
    <3>3. rels \in Seq(Rel)
      BY TablesTyped
    <3>1. CASE IsExtern(n)
      <4>1. labels[k].name = n
        BY <1>1, <3>1, LabelFacts DEF IsExtern
      <4>2. rels' = Append(rels, [at |-> Len(text), sym |-> k, kind |-> "CODE"])
        BY <1>4, <3>1
      <4>3. \A j \in DOMAIN rels' :
              (j \in DOMAIN rels /\ rels'[j] = rels[j])
                \/ rels'[j] = [at |-> Len(text), sym |-> k, kind |-> "CODE"]
        BY <4>2, <3>3, AppendIs
      <4>4. Len(rels) + 1 \in DOMAIN rels' /\ rels'[Len(rels) + 1].at = Len(text)
        <5>1. Len(rels) + 1 \in DOMAIN rels' /\ rels'[Len(rels) + 1] = [at |-> Len(text), sym |-> k, kind |-> "CODE"]
          BY <4>2, <3>3, AppendIs
        <5> QED
          BY <5>1
      <4>5. \A j \in DOMAIN rels' : rels'[j].at = Len(text) => labels[rels'[j].sym].name = n
        <5> SUFFICES ASSUME NEW j \in DOMAIN rels', rels'[j].at = Len(text)
                     PROVE  labels[rels'[j].sym].name = n
          OBVIOUS
        <5>1. ~(j \in DOMAIN rels /\ rels'[j] = rels[j])
          BY TablesTyped
        <5>2. rels'[j].sym = k
          BY <4>3, <5>1
        <5> QED
          BY <4>1, <5>2
      <4> QED
        BY <4>4, <4>5
    <3>2. CASE ~IsExtern(n)
      <4>1. rels' = rels
        BY <1>4, <3>2
      <4> QED
        BY <3>2, <4>1, TablesTyped
    <3> QED
      BY <3>1, <3>2
  <2> QED
    BY <1>1, <2>1, <2>2, <2>3, <2>4 DEF RefOK
<1> QED
  BY <1>3, <1>4

\* label_ref_data: the new reference.
LEMMA NewAddress ==
  ASSUME IInv, NEW n \in Names, NEW m, Reads(m, [op |-> "address", name |-> n]),
         PlaceOf(m) = Len(text), NEW k \in DOMAIN labels', labels'[k].name = n,
         rels' = Append(rels, [at |-> Len(text), sym |-> k, kind |-> "DATA"]),
         \/ patches' = patches
         \/ patches' = Append(patches, [name |-> n, at |-> Len(text), is64 |-> TRUE])
  PROVE  RefOK(m)'
<1>1. m \in 1..m /\ src'[m].op = "address" /\ src'[m].name = n /\ PlaceOf(m)' = Len(text)
  BY ReadSource, PlaceKept
<1>2. \A j \in DOMAIN patches' : patches'[j].at = Len(text) =>
        patches'[j].name = n /\ patches'[j].is64 = TRUE
  <2>1. \A j \in DOMAIN patches' :
          (j \in DOMAIN patches /\ patches'[j] = patches[j])
            \/ patches'[j] = [name |-> n, at |-> Len(text), is64 |-> TRUE]
    BY TablesTyped, AppendIs
  <2> QED
    BY <2>1, TablesTyped
<1>3. \A j \in DOMAIN rels' :
        (j \in DOMAIN rels /\ rels'[j] = rels[j])
          \/ rels'[j] = [at |-> Len(text), sym |-> k, kind |-> "DATA"]
  BY TablesTyped
<1>4. Len(rels) + 1 \in DOMAIN rels' /\ rels'[Len(rels) + 1].at = Len(text)
  BY TablesTyped
<1>5. \A j \in DOMAIN rels' : rels'[j].at = Len(text) => labels'[rels'[j].sym].name = n
  BY <1>3, TablesTyped
<1> QED
  BY <1>1, <1>2, <1>4, <1>5 DEF RefOK

-----------------------------------------------------------------------------
(* One lemma per action, again *)

LEMMA Refused ==
  ASSUME NEW m, NEW s, Reads(m, s), phase' \in {"failed", "exited"}
  PROVE  Meaning'
BY ReadSource DEF Meaning

LEMMA Reading ==
  ASSUME Meaning, phase = "read", NEW m, NEW s, Reads(m, s), ExternsFirst'
  PROVE  CountInv /\ LabelInv /\ RefInv
BY ExternsFirstBefore DEF Meaning

\* The statement is read, and means what the tables now hold.
LEMMA Accepted ==
  ASSUME NEW m, NEW s, Reads(m, s), phase = "read", phase' = phase,
         ExternsFirst' => CountInv' /\ LabelInv' /\ RefInv'
  PROVE  Meaning'
<1>1. src' \in Seq(Statement)
  BY ReadSource
<1>2. EndInv'
  BY DEF EndInv
<1> QED
  BY <1>1, <1>2 DEF Meaning

LEMMA TextGrows ==
  ASSUME text \in Seq(Nat), text' = text \/ \E v \in Nat : text' = Append(text, v)
  PROVE  \A j \in DOMAIN text : text'[j] = text[j]
<1>1. ASSUME NEW v \in Nat, text' = Append(text, v) PROVE \A j \in DOMAIN text : text'[j] = text[j]
  BY <1>1, AppendIs
<1> QED
  BY <1>1

LEMMA ReferencesStep ==
  ASSUME IInv, CountInv, RefInv, NEW m, NEW s, Reads(m, s), GrownFrom(labels, labels'),
         text' = text \/ \E v \in Nat : text' = Append(text, v),
         patches' = patches \/ \E p : p.at = Len(text) /\ patches' = Append(patches, p),
         rels' = rels \/ \E r : r.at = Len(text) /\ rels' = Append(rels, r),
         IsRef(s) => RefOK(m)'
  PROVE  RefInv'
<1>1. \A j \in 1..Len(text) : text'[j] = text[j]
  <2>1. DOMAIN text = 1..Len(text) /\ text \in Seq(Nat)
    BY TablesTyped
  <2> QED
    BY <2>1, TextGrows
<1>2. /\ Extends(patches, patches')
      /\ DOMAIN patches \subseteq DOMAIN patches' /\ \A k \in DOMAIN patches : patches'[k] = patches[k]
  <2>1. CASE patches' = patches
    BY <2>1 DEF Extends
  <2>2. CASE \E p : p.at = Len(text) /\ patches' = Append(patches, p)
    <3>1. PICK p : p.at = Len(text) /\ patches' = Append(patches, p)
      BY <2>2
    <3>2. patches \in Seq(Patch)
      BY TablesTyped
    <3>3. /\ \A k \in DOMAIN patches' : (k \in DOMAIN patches /\ patches'[k] = patches[k]) \/ patches'[k] = p
          /\ \A k \in DOMAIN patches : k \in DOMAIN patches' /\ patches'[k] = patches[k]
      BY <3>1, <3>2, AppendIs
    <3> QED
      BY <3>1, <3>3 DEF Extends
  <2> QED
    BY <2>1, <2>2
<1>3. /\ Extends(rels, rels')
      /\ DOMAIN rels \subseteq DOMAIN rels' /\ \A k \in DOMAIN rels : rels'[k] = rels[k]
  <2>1. CASE rels' = rels
    BY <2>1 DEF Extends
  <2>2. CASE \E r : r.at = Len(text) /\ rels' = Append(rels, r)
    <3>1. PICK r : r.at = Len(text) /\ rels' = Append(rels, r)
      BY <2>2
    <3>2. rels \in Seq(Rel)
      BY TablesTyped
    <3>3. /\ \A k \in DOMAIN rels' : (k \in DOMAIN rels /\ rels'[k] = rels[k]) \/ rels'[k] = r
          /\ \A k \in DOMAIN rels : k \in DOMAIN rels' /\ rels'[k] = rels[k]
      BY <3>1, <3>2, AppendIs
    <3> QED
      BY <3>1, <3>3 DEF Extends
  <2> QED
    BY <2>1, <2>2
<1>4. ASSUME NEW i \in References PROVE RefOK(i)'
  <2>1. RefOK(i)
    BY DEF RefInv
  <2> QED
    BY <1>1, <1>2, <1>3, <2>1, OldReference
<1>5. \A i \in References' : i \in References \/ (i = m /\ IsRef(s))
  BY ReferencesGrow
<1> QED
  BY <1>4, <1>5 DEF RefInv

\* A statement that says nothing of labels.
LEMMA PlainMeans ==
  ASSUME IInv, Meaning, phase = "read", phase' = phase, NEW m, NEW s, Reads(m, s),
         ~IsRef(s), \A n \in Names : Silent(s, n),
         section' = IF s.op = "section" THEN s.section ELSE section,
         text' = (IF s.op \in Takers /\ section = "CODE" THEN Append(text, 0) ELSE text),
         size' = IF s.op \in Takers /\ section # "CODE" THEN [size EXCEPT ![section] = @ + 1] ELSE size,
         equs' = equs \cup (IF s.op = "equ" THEN {s.name} ELSE {}),
         UNCHANGED <<labels, patches, rels>>
  PROVE  Meaning'
<1> SUFFICES ASSUME ExternsFirst' PROVE CountInv' /\ LabelInv' /\ RefInv'
  BY Accepted
<1>1. CountInv /\ LabelInv /\ RefInv
  BY Reading
<1>2. Len(text') = Len(text) + (IF s.op \in Takers /\ section = "CODE" THEN 1 ELSE 0)
  BY TablesTyped
<1>3. CountInv'
  <2>1. TypeOK
    BY DEF IInv
  <2> HIDE DEF Takers
  <2> QED
    BY <1>1, <1>2, <2>1, CountStep
<1>4. LabelInv'
  BY <1>1, LabelsStand
<1>5. RefInv'
  <2>1. text' = text \/ \E v \in Nat : text' = Append(text, v)
    OBVIOUS
  <2> QED
    BY <1>1, <2>1, SameLabels, ReferencesStep
<1> QED
  BY <1>3, <1>4, <1>5

LEMMA SectionMeans == ASSUME IInv, Meaning, NEW sec \in Sections, Section(sec) PROVE Meaning'
<1> DEFINE s == [op |-> "section", section |-> sec]
<1>1. PICK m : m = Len(src) + 1
  OBVIOUS
<1>2. Reads(m, s) /\ phase = "read" /\ phase' = phase
  BY <1>1 DEF Reads, Meaning, Section, Read, Statement
<1>3. s.op = "section" /\ s.section = sec
  OBVIOUS
<1>4. s.op \notin Takers /\ s.op # "equ" /\ ~IsRef(s) /\ \A n \in Names : Silent(s, n)
  BY DEF IsRef, Silent, Takers
<1> HIDE DEF s
<1> QED
  BY <1>2, <1>3, <1>4, PlainMeans DEF Section

LEMMA EquMeans == ASSUME IInv, Meaning, NEW n \in Names, Equ(n) PROVE Meaning'
<1> DEFINE s == [op |-> "equ", name |-> n]
<1>1. PICK m : m = Len(src) + 1
  OBVIOUS
<1>2. Reads(m, s) /\ phase = "read"
  BY <1>1 DEF Reads, Meaning, Equ, Read, Statement
<1>3. s.op = "equ" /\ s.name = n
  OBVIOUS
<1>4. s.op \notin Takers /\ s.op # "section" /\ ~IsRef(s) /\ \A x \in Names : Silent(s, x)
  BY DEF IsRef, Silent, Takers
<1> HIDE DEF s
<1>5. CASE Stop("failed")
  BY <1>2, <1>5, Refused DEF Stop
<1>6. CASE /\ equs' = equs \cup {n}
           /\ UNCHANGED <<section, size, text, labels, patches, rels, phase>>
  BY <1>2, <1>3, <1>4, <1>6, PlainMeans
<1> QED
  BY <1>5, <1>6 DEF Equ

LEMMA BytesMeans == ASSUME IInv, Meaning, Bytes PROVE Meaning'
<1> DEFINE s == [op |-> "bytes"]
<1>1. PICK m : m = Len(src) + 1
  OBVIOUS
<1>2. Reads(m, s) /\ phase = "read"
  BY <1>1 DEF Reads, Meaning, Bytes, Read, Statement
<1>3. s.op = "bytes"
  OBVIOUS
<1>4. s.op \in Takers /\ s.op # "section" /\ s.op # "equ" /\ ~IsRef(s) /\ \A x \in Names : Silent(s, x)
  BY DEF IsRef, Silent, Takers
<1> HIDE DEF s
<1>5. CASE Stop("failed")
  BY <1>2, <1>5, Refused DEF Stop
<1>6. CASE /\ section # "CODE"
           /\ size' = [size EXCEPT ![section] = @ + 1]
           /\ UNCHANGED <<section, text, equs, labels, patches, rels, phase>>
  BY <1>2, <1>4, <1>6, PlainMeans
<1> QED
  BY <1>5, <1>6 DEF Bytes

LEMMA InstructionMeans == ASSUME IInv, Meaning, Instruction PROVE Meaning'
<1> DEFINE s == [op |-> "instruction"]
<1>1. PICK m : m = Len(src) + 1
  OBVIOUS
<1>2. Reads(m, s) /\ phase = "read"
  BY <1>1 DEF Reads, Meaning, Instruction, Read, Statement
<1>3. s.op = "instruction"
  OBVIOUS
<1>4. s.op \in Takers /\ s.op # "section" /\ s.op # "equ" /\ ~IsRef(s) /\ \A x \in Names : Silent(s, x)
  BY DEF IsRef, Silent, Takers
<1> HIDE DEF s
<1>5. CASE Stop("failed")
  BY <1>2, <1>5, Refused DEF Stop
<1>6. CASE section = "CODE" /\ Plain
  BY <1>2, <1>4, <1>6, PlainMeans DEF Plain
<1> QED
  BY <1>5, <1>6 DEF Instruction

\* A statement about the label of n that takes no place.
LEMMA LabelMeans ==
  ASSUME IInv, Meaning, phase = "read", phase' = phase, NEW m, NEW n \in Names,
         NEW op \in {"label", "global", "extern"}, Reads(m, [op |-> op, name |-> n]),
         UNCHANGED <<section, size, text, equs, patches, rels>>, GrownFrom(labels, labels'),
         ExternsFirst' /\ CountInv /\ LabelInv /\ PlaceOf(m) = Here => LabelInv'
  PROVE  Meaning'
<1> DEFINE s == [op |-> op, name |-> n]
<1>1. s.op = op /\ s.name = n
  OBVIOUS
<1>2. s.op \notin Takers /\ s.op # "section" /\ s.op # "equ" /\ ~IsRef(s)
  BY DEF IsRef, Takers
<1>3. Reads(m, s)
  OBVIOUS
<1> HIDE DEF s
<1> SUFFICES ASSUME ExternsFirst' PROVE CountInv' /\ LabelInv' /\ RefInv'
  BY <1>3, Accepted
<1>4. CountInv /\ LabelInv /\ RefInv
  BY <1>3, Reading
<1>5. CountInv' /\ PlaceOf(m) = Here
  <2>1. TypeOK /\ Len(text') = Len(text) + 0
    BY TablesTyped DEF IInv
  <2> QED
    BY <1>2, <1>3, <1>4, <2>1, CountStep
<1>6. RefInv'
  BY <1>2, <1>3, <1>4, ReferencesStep
<1> QED
  BY <1>4, <1>5, <1>6

LEMMA GlobalActionMeans == ASSUME IInv, Meaning, NEW n \in Names, Global(n) PROVE Meaning'
<1>1. PICK m : m = Len(src) + 1
  OBVIOUS
<1>2. Reads(m, [op |-> "global", name |-> n]) /\ phase = "read"
  BY <1>1 DEF Reads, Meaning, Global, Read, Statement
<1>3. CASE Stop("exited")
  BY <1>2, <1>3, Refused DEF Stop
<1>4. CASE /\ ~NoRoom(n)
           /\ labels' = IF Find(labels, n) # 0 THEN [labels EXCEPT ![Find(labels, n)].flags = "GLOBAL"]
                        ELSE Define(Declared(n, "GLOBAL", section))
           /\ UNCHANGED <<section, size, text, equs, patches, rels, phase>>
  <2>1. GrownFrom(labels, labels')
    BY GlobalGrows
  <2>2. LabelInv => LabelOK(n)' /\ ChangedAt(n, labels')
    BY <1>2, <1>4, <2>1, GlobalMeans
  <2>3. LabelInv => LabelInv'
    <3>1. \A n1 \in Names : n1 # n => Silent([op |-> "global", name |-> n], n1)
      BY DEF Silent
    <3> QED
      BY <1>2, <2>1, <2>2, <3>1, LabelStep
  <2> QED
    BY <1>2, <1>4, <2>1, <2>3, LabelMeans
<1> QED
  BY <1>3, <1>4 DEF Global

LEMMA ExternActionMeans == ASSUME IInv, Meaning, NEW n \in Names, Extern(n) PROVE Meaning'
<1>1. PICK m : m = Len(src) + 1
  OBVIOUS
<1>2. Reads(m, [op |-> "extern", name |-> n]) /\ phase = "read"
  BY <1>1 DEF Reads, Meaning, Extern, Read, Statement
<1>3. CASE Stop("exited")
  BY <1>2, <1>3, Refused DEF Stop
<1>4. CASE /\ ~NoRoom(n)
           /\ labels' = Define(Declared(n, "EXTERN", "NONE"))
           /\ UNCHANGED <<section, size, text, equs, patches, rels, phase>>
  <2>1. GrownFrom(labels, labels')
    BY ExternGrows
  <2>2. LabelInv /\ ExternsFirst' => LabelInv'
    BY <1>2, <1>4, ExternMeans
  <2> QED
    BY <1>2, <1>4, <2>1, <2>2, LabelMeans
<1> QED
  BY <1>3, <1>4 DEF Extern

LEMMA LabelDefActionMeans == ASSUME IInv, Meaning, NEW n \in Names, LabelDef(n) PROVE Meaning'
<1>1. PICK m : m = Len(src) + 1
  OBVIOUS
<1>2. Reads(m, [op |-> "label", name |-> n]) /\ phase = "read"
  BY <1>1 DEF Reads, Meaning, LabelDef, Read, Statement
<1>3. CASE Stop("exited")
  BY <1>2, <1>3, Refused DEF Stop
<1>4. CASE /\ ~NoRoom(n)
           /\ labels' = Define([name |-> n, section |-> section, offset |-> Here,
                                flags |-> IF IsGlobal(n) THEN "GLOBAL" ELSE "LOCAL"])
           /\ UNCHANGED <<section, size, text, equs, patches, rels, phase>>
  <2>1. GrownFrom(labels, labels')
    BY LabelDefGrows
  <2>2. LabelInv /\ CountInv /\ PlaceOf(m) = Here => LabelInv'
    BY <1>2, <1>4, LabelDefMeans
  <2> QED
    BY <1>2, <1>4, <2>1, <2>2, LabelMeans
<1> QED
  BY <1>3, <1>4 DEF LabelDef

\* A statement that refers to n, in .text: it takes the next place.
LEMMA ReferenceMeans ==
  ASSUME IInv, Meaning, phase = "read", phase' = phase, section = "CODE",
         NEW m, NEW n \in Names, NEW op \in {"jump", "address"}, Reads(m, [op |-> op, name |-> n]),
         op = "jump" \/ n \notin equs,
         UNCHANGED <<section, size, equs>>, GrownFrom(labels, labels'),
         \E v \in Nat : text' = Append(text, v),
         patches' = patches \/ \E p : p.at = Len(text) /\ patches' = Append(patches, p),
         rels' = rels \/ \E r : r.at = Len(text) /\ rels' = Append(rels, r),
         LabelInv /\ PlaceOf(m) = Len(text) /\ (op = "jump" \/ Stated("equ", n) = {}) =>
           LabelInv' /\ RefOK(m)'
  PROVE  Meaning'
<1> DEFINE s == [op |-> op, name |-> n]
<1>1. s.op = op /\ s.name = n /\ Reads(m, s)
  OBVIOUS
<1>2. s.op \in Takers /\ s.op # "section" /\ s.op # "equ"
  BY DEF Takers
<1> HIDE DEF s
<1> SUFFICES ASSUME ExternsFirst' PROVE CountInv' /\ LabelInv' /\ RefInv'
  BY <1>1, Accepted
<1>3. CountInv /\ LabelInv /\ RefInv
  BY <1>1, Reading
<1>4. CountInv' /\ PlaceOf(m) = Len(text)
  <2>1. TypeOK /\ Len(text') = Len(text) + 1
    BY TablesTyped DEF IInv
  <2>2. Here = Len(text)
    BY DEF Here
  <2> QED
    BY <1>1, <1>2, <1>3, <2>1, <2>2, CountStep
<1>5. op = "jump" \/ Stated("equ", n) = {}
  BY <1>3 DEF CountInv
<1>6. LabelInv' /\ RefOK(m)'
  BY <1>3, <1>4, <1>5
<1>7. RefInv'
  <2>1. text' = text \/ \E v \in Nat : text' = Append(text, v)
    OBVIOUS
  <2> QED
    BY <1>1, <1>3, <1>6, <2>1, ReferencesStep
<1> QED
  BY <1>4, <1>6, <1>7

LEMMA JumpMeans == ASSUME IInv, Meaning, NEW n \in Names, Jump(n) PROVE Meaning'
<1> DEFINE k == Find(labels, n)
<1>1. PICK m : m = Len(src) + 1
  OBVIOUS
<1>2. Reads(m, [op |-> "jump", name |-> n]) /\ phase = "read"
  BY <1>1 DEF Reads, Meaning, Jump, Read, Statement
<1>3. CASE Stop("failed") \/ Stop("exited")
  BY <1>2, <1>3, Refused DEF Stop
<1>4. CASE section = "CODE" /\ RefCode(n) /\ ~Stop("exited")
  <2>1. /\ UNCHANGED <<section, size, equs, labels, phase>>
        /\ \/ /\ Known(n)
              /\ text' = Append(text, labels[k].offset)
              /\ patches' = patches /\ rels' = rels
           \/ /\ patches' = Append(patches, [name |-> n, at |-> Len(text), is64 |-> FALSE])
              /\ rels' = IF IsExtern(n)
                           THEN Append(rels, [at |-> Len(text), sym |-> k, kind |-> "CODE"])
                           ELSE rels
              /\ text' = Append(text, 0)
    BY <1>4 DEF RefCode
  <2>2. LabelInv /\ PlaceOf(m) = Len(text) => LabelInv' /\ RefOK(m)'
    <3> SUFFICES ASSUME LabelInv, PlaceOf(m) = Len(text) PROVE LabelInv' /\ RefOK(m)'
      OBVIOUS
    <3>1. \A x \in Names : Silent([op |-> "jump", name |-> n], x)
      BY DEF Silent
    <3>2. LabelInv'
      BY <1>2, <2>1, <3>1, LabelsStand
    <3>3. RefOK(m)'
      BY <1>2, <2>1, NewJump
    <3> QED
      BY <3>2, <3>3
  <2>3. \E v \in Nat : text' = Append(text, v)
    <3>1. Known(n) => labels[k].offset \in Nat
      <4>1. Known(n) => k \in DOMAIN labels /\ labels[k].offset >= 0
        BY LabelsTyped, FindLabel DEF Known
      <4> QED
        BY <4>1, LabelsTyped, LabelTyped
    <3> QED
      BY <2>1, <3>1
  <2>4. patches' = patches \/ \E p : p.at = Len(text) /\ patches' = Append(patches, p)
    BY <2>1
  <2>5. rels' = rels \/ \E r : r.at = Len(text) /\ rels' = Append(rels, r)
    BY <2>1
  <2>6. GrownFrom(labels, labels')
    BY <2>1, SameLabels
  <2> QED
    BY <1>2, <1>4, <2>1, <2>2, <2>3, <2>4, <2>5, <2>6, ReferenceMeans
<1> QED
  BY <1>3, <1>4 DEF Jump

LEMMA AddressActionMeans == ASSUME IInv, Meaning, NEW n \in Names, Address(n) PROVE Meaning'
<1> DEFINE s == [op |-> "address", name |-> n]
<1>1. PICK m : m = Len(src) + 1
  OBVIOUS
<1>2. Reads(m, s) /\ phase = "read"
  BY <1>1 DEF Reads, Meaning, Address, Read, Statement
<1>3. CASE Stop("failed") \/ Stop("exited")
  BY <1>2, <1>3, Refused DEF Stop
<1>4. CASE section = "CODE" /\ n \in equs /\ Plain
  <2> SUFFICES ASSUME ExternsFirst' PROVE CountInv' /\ LabelInv' /\ RefInv'
    BY <1>2, <1>4, Accepted DEF Plain
  <2>1. CountInv
    BY <1>2, Reading
  <2>2. s.name = n /\ s.op = "address" /\ ~IsRef(s) /\ \A x \in Names : Silent(s, x)
    BY <1>4, <2>1 DEF CountInv, IsRef, Silent
  <2>3. s.op \in Takers
    BY DEF Takers
  <2> HIDE DEF s
  <2>4. Meaning'
    BY <1>2, <1>4, <2>2, <2>3, PlainMeans DEF Plain
  <2> QED
    BY <2>4, <1>2, <1>4 DEF Meaning, Plain
<1>5. CASE section = "CODE" /\ n \notin equs /\ RefData(n) /\ ~Stop("exited")
  <2> DEFINE ls == WithPlaceholder(n)
             k  == Find(ls, n)
  <2>1. /\ ~NoRoom(n) /\ labels' = ls
        /\ rels' = Append(rels, [at |-> Len(text), sym |-> k, kind |-> "DATA"])
        /\ \/ patches' = patches
           \/ patches' = Append(patches, [name |-> n, at |-> Len(text), is64 |-> TRUE])
        /\ text' = Append(text, 0)
        /\ UNCHANGED <<section, size, equs, phase>>
    BY <1>5 DEF RefData
  <2>2. GrownFrom(labels, labels') /\ k \in DOMAIN labels'
    BY <2>1, PlaceholderGrows
  <2>3. labels'[k].name = n
    BY <2>1, <2>2, FindLabel DEF GrownFrom
  <2>4. LabelInv /\ PlaceOf(m) = Len(text) /\ Stated("equ", n) = {} => LabelInv' /\ RefOK(m)'
    <3> SUFFICES ASSUME LabelInv, PlaceOf(m) = Len(text), Stated("equ", n) = {} PROVE LabelInv' /\ RefOK(m)'
      OBVIOUS
    <3>1. LabelInv'
      BY <1>2, <2>1, AddressMeans
    <3>2. RefOK(m)'
      <4> HIDE DEF k
      <4> QED
        BY <1>2, <2>1, <2>2, <2>3, NewAddress
    <3> QED
      BY <3>1, <3>2
  <2>5. patches' = patches \/ \E p : p.at = Len(text) /\ patches' = Append(patches, p)
    BY <2>1
  <2>6. \E r : r.at = Len(text) /\ rels' = Append(rels, r)
    BY <2>1
  <2>7. \E v \in Nat : text' = Append(text, v)
    BY <2>1
  <2> QED
    BY <1>2, <1>5, <2>1, <2>2, <2>4, <2>5, <2>6, <2>7, ReferenceMeans
<1> QED
  BY <1>3, <1>4, <1>5 DEF Address

\* asm_to_prog and patches_resolve read no more of the source.
SourceVars == <<src, section, size, equs, labels, patches, rels>>

LEMMA SourceStands ==
  ASSUME UNCHANGED SourceVars
  PROVE  /\ ExternsFirst' <=> ExternsFirst
         /\ LabelInv' <=> LabelInv
         /\ References' = References
         /\ \A i : /\ PlaceOf(i)' = PlaceOf(i) /\ SectionAt(i)' = SectionAt(i)
                   /\ (ExternAt(i)' <=> ExternAt(i))
         /\ \A n : /\ Stated("equ", n)' = Stated("equ", n) /\ (IsDefined(n)' <=> IsDefined(n))
                   /\ DefSection(n)' = DefSection(n) /\ DefPlace(n)' = DefPlace(n)
<1>1. \A op, n, i : Stated(op, n)' = Stated(op, n) /\ Earlier(op, n, i)' = Earlier(op, n, i)
  BY DEF SourceVars, Stated, Earlier
<1>2. \A S, i : Before(i, S)' = Before(i, S)
  BY DEF SourceVars, Before
<1>3. ASSUME NEW i PROVE SectionAt(i)' = SectionAt(i)
  <2> DEFINE at == Before(i, {"section"})
             last == CHOOSE j \in at : \A l \in at : l <= j
  <2>1. at' = at /\ src' = src
    BY <1>2 DEF SourceVars
  <2>2. (CHOOSE j \in at : \A l \in at : l <= j)' = CHOOSE j \in at : \A l \in at : l <= j
    BY <2>1
  <2>3. CASE at = {}
    BY <2>1, <2>3 DEF SectionAt
  <2>4. CASE at # {}
    <3>1. SectionAt(i) = src[last].section /\ SectionAt(i)' = src'[last].section
      BY <2>1, <2>2, <2>4 DEF SectionAt
    <3> QED
      BY <2>1, <3>1
  <2> QED
    BY <2>3, <2>4
<1>4. \A i : PlaceOf(i)' = PlaceOf(i)
  BY <1>2, <1>3 DEF PlaceOf
<1>5. References' = References
  BY <1>1, <1>2 DEF SourceVars, References, IsConstant
<1>6. \A n : Named(n)' = Named(n) /\ Mentions(n)' = Mentions(n)
  BY <1>1, <1>5 DEF SourceVars, Named, Mentions
<1>7. \A n : Definition(n)' = Definition(n) /\ (IsDefined(n)' <=> IsDefined(n))
  BY <1>1 DEF Definition, IsDefined
<1>8. \A n : DefSection(n)' = DefSection(n) /\ DefPlace(n)' = DefPlace(n)
  BY <1>3, <1>4, <1>7 DEF DefSection, DefPlace
<1>9. \A i : ExternAt(i)' <=> ExternAt(i)
  BY <1>1 DEF SourceVars, ExternAt
<1>10. ExternsFirst' <=> ExternsFirst
  BY <1>1, <1>6 DEF SourceVars, ExternsFirst
<1>11. LabelInv' <=> LabelInv
  BY <1>1, <1>6, <1>7, <1>8 DEF SourceVars, LabelInv, LabelOK, Exported
<1> QED
  BY <1>1, <1>3, <1>4, <1>5, <1>7, <1>8, <1>9, <1>10, <1>11

LEMMA CountStands ==
  ASSUME CountInv, UNCHANGED SourceVars, Len(text') = Len(text)
  PROVE  CountInv'
<1>1. (Len(src) + 1)' = Len(src) + 1 /\ section' = section /\ size' = size /\ equs' = equs
  BY DEF SourceVars
<1>2. SectionAt(Len(src) + 1)' = SectionAt(Len(src) + 1)
  BY <1>1, SourceStands
<1>3. \A sec : Places(sec)' = Places(sec)
  BY SourceStands DEF SourceVars, Places
<1> QED
  BY <1>1, <1>2, <1>3, SourceStands DEF CountInv

\* The source, the tables and the code stay: so does what they mean.
LEMMA TablesStand ==
  ASSUME CountInv, LabelInv, RefInv, UNCHANGED SourceVars, text' = text
  PROVE  /\ CountInv' /\ LabelInv' /\ RefInv'
         /\ \A i : InPlace(i)' <=> InPlace(i)
         /\ \A k \in DOMAIN patches : Resolvable(patches[k])' <=> Resolvable(patches[k])
         /\ KeptLabels' = KeptLabels
<1>1. src' = src /\ labels' = labels /\ rels' = rels /\ patches' = patches
  BY DEF SourceVars
<1>2. \A i : InPlace(i)' <=> InPlace(i)
  BY <1>1, SourceStands DEF InPlace
<1>3. CountInv' /\ LabelInv'
  BY CountStands, SourceStands
<1>4. RefInv'
  BY <1>1, <1>2, SourceStands DEF RefInv, RefOK
<1>5. \A k \in DOMAIN patches : Resolvable(patches[k])' <=> Resolvable(patches[k])
  BY <1>1 DEF Resolvable
<1>6. KeptLabels' = KeptLabels
  BY <1>1 DEF KeptLabels
<1> QED
  BY <1>2, <1>3, <1>4, <1>5, <1>6

\* The name of a reference is a name.
LEMMA NameOf ==
  ASSUME src \in Seq(Statement), NEW i \in References
  PROVE  src[i].name \in Names /\ src[i].op \in {"jump", "address"}
<1>1. src[i] \in Statement /\ src[i].op \in {"jump", "address"}
  BY DEF References
<1> QED
  BY <1>1 DEF Statement

\* patches_resolve leaves no jump open that this source defines the label of.
LEMMA ResolveMeans == ASSUME IInv, IInv', Meaning, Resolve PROVE Meaning'
<1>1. CASE Stop("failed")
  BY <1>1 DEF Resolve, Meaning, Stop
<1>2. CASE /\ \A k \in DOMAIN patches : Resolvable(patches[k])
           /\ text' = Patched
           /\ phase' = "resolved"
           /\ UNCHANGED <<section, size, equs, labels, patches, rels>>
  <2>1. UNCHANGED SourceVars /\ phase = "read"
    BY <1>2 DEF Resolve, SourceVars
  <2> SUFFICES ASSUME ExternsFirst PROVE CountInv' /\ LabelInv' /\ RefInv' /\ EndInv'
    BY <1>2, <2>1, SourceStands DEF Meaning, SourceVars
  <2>2. CountInv /\ LabelInv /\ RefInv /\ src \in Seq(Statement)
    BY <2>1 DEF Meaning
  <2>3. LabelInv'
    BY <2>1, <2>2, SourceStands
  <2>4. Len(text') = Len(text) /\ Len(text) \in Nat /\ text \in Seq(Nat) /\ DOMAIN text = 1..Len(text)
    BY <1>2, PatchedTyped, TablesTyped
  <2>5. CountInv'
    BY <2>1, <2>2, <2>4, CountStands
  <2>6. ASSUME NEW i \in References, src[i].op = "jump"
        PROVE  IF \E k \in DOMAIN patches : patches[k].at = PlaceOf(i)
                 THEN IsDefined(src[i].name) => InPlace(i)' ELSE InPlace(i)'
    <3> PICK n \in Names : n = src[i].name
      BY <2>2, NameOf
    <3> DEFINE at == {k \in DOMAIN patches : patches[k].at + 1 = PlaceOf(i) + 1 /\ ~patches[k].is64
                                               /\ ~IsExtern(patches[k].name)}
    <3>1. /\ PlaceOf(i) \in Nat /\ PlaceOf(i) < Len(text)
          /\ RefOK(i) /\ LabelOK(n)
      <4>1. i \in Int
        BY <2>2 DEF References
      <4> QED
        BY <2>2, <4>1, PlaceNat DEF CountInv, RefInv, LabelInv
    <3>2. InPlace(i)' <=> IsDefined(n) /\ DefSection(n) = "CODE" /\ Patched[PlaceOf(i) + 1] = DefPlace(n)
      <4>1. src' = src /\ text' = Patched
        BY <1>2, <2>1 DEF SourceVars
      <4> QED
        BY <2>1, <4>1, SourceStands DEF InPlace
    <3>3. CASE ~\E k \in DOMAIN patches : patches[k].at = PlaceOf(i)
      <4>1. Patched[PlaceOf(i) + 1] = text[PlaceOf(i) + 1]
        <5>1. at = {}
          <6>1. \A k \in DOMAIN patches : patches[k].at + 1 = PlaceOf(i) + 1 => patches[k].at = PlaceOf(i)
            <7> TAKE k \in DOMAIN patches
            <7>1. patches[k].at \in Nat /\ PlaceOf(i) \in Nat
              BY <3>1, TablesTyped
            <7> QED
              BY <7>1
          <6> QED
            BY <3>3, <6>1
        <5>2. PlaceOf(i) + 1 \in DOMAIN text
          BY <2>4, <3>1
        <5> QED
          BY <5>1, <5>2 DEF Patched
      <4> QED
        BY <2>6, <3>1, <3>2, <3>3, <4>1 DEF RefOK, InPlace
    <3>4. ASSUME NEW k \in DOMAIN patches, patches[k].at = PlaceOf(i), IsDefined(n) PROVE InPlace(i)'
      <4>1. \A j \in DOMAIN patches : patches[j].at = PlaceOf(i) => patches[j].name = n /\ ~patches[j].is64
        BY <2>6, <3>1 DEF RefOK
      <4>2. /\ Find(labels, n) # 0 /\ labels[Find(labels, n)].section = "CODE" /\ ~IsExtern(n)
        <5>1. patches[k].name = n /\ ~patches[k].is64 /\ Resolvable(patches[k])
          BY <1>2, <3>4, <4>1
        <5>2. labels[Find(labels, n)].flags # "EXTERN"
          BY <3>1, <3>4 DEF LabelOK
        <5> QED
          BY <5>1, <5>2 DEF Resolvable, IsExtern
      <4>3. Patched[PlaceOf(i) + 1] = labels[Find(labels, n)].offset
        <5>1. k \in at
          <6>1. patches[k].name = n /\ ~patches[k].is64
            BY <3>4, <4>1
          <6>2. ~IsExtern(patches[k].name)
            BY <4>2, <6>1
          <6> QED
            BY <3>4, <6>1, <6>2
        <5>2. \A j \in at : patches[j].name = n
          <6>1. ASSUME NEW j \in at PROVE patches[j].at = PlaceOf(i)
            <7>1. patches[j].at \in Nat /\ PlaceOf(i) \in Nat /\ patches[j].at + 1 = PlaceOf(i) + 1
              BY <3>1, TablesTyped
            <7> QED
              BY <7>1
          <6> QED
            BY <4>1, <6>1
        <5>3. PlaceOf(i) + 1 \in DOMAIN text
          BY <2>4, <3>1
        <5>4. Patched[PlaceOf(i) + 1] = labels[Find(labels, patches[CHOOSE j \in at : TRUE].name)].offset
          BY <5>1, <5>3 DEF Patched
        <5>5. (CHOOSE j \in at : TRUE) \in at
          BY <5>1
        <5> QED
          BY <5>2, <5>4, <5>5
      <4> QED
        BY <3>1, <3>2, <3>4, <4>2, <4>3 DEF LabelOK
    <3> QED
      BY <3>3, <3>4
  <2>7. RefInv'
    <3> SUFFICES ASSUME NEW i \in References PROVE RefOK(i)'
      BY <2>1, SourceStands DEF RefInv
    <3>1. RefOK(i)
      BY <2>2 DEF RefInv
    <3>2. /\ PlaceOf(i)' = PlaceOf(i) /\ (ExternAt(i)' <=> ExternAt(i)) /\ src' = src
          /\ labels' = labels /\ rels' = rels /\ patches' = patches
      BY <2>1, SourceStands DEF SourceVars
    <3>3. src[i].op = "jump" => InPlace(i)' \/ \E k \in DOMAIN patches : patches[k].at = PlaceOf(i)
      BY <2>6
    <3> QED
      BY <3>1, <3>2, <3>3 DEF RefOK
  <2>8. EndInv'
    <3>1. \A k \in DOMAIN patches' : Resolvable(patches[k])'
      BY <1>2 DEF Resolvable
    <3>2. \A i \in References' : (src[i].op = "jump" /\ IsDefined(src[i].name))' => InPlace(i)'
      <4> SUFFICES ASSUME NEW i \in References, src[i].op = "jump", IsDefined(src[i].name)' PROVE InPlace(i)'
        BY <2>1, SourceStands DEF SourceVars
      <4>1. IsDefined(src[i].name)
        BY <2>1, SourceStands DEF SourceVars
      <4> QED
        BY <2>6, <4>1
    <3> QED
      BY <1>2, <3>1, <3>2 DEF EndInv
  <2> QED
    BY <2>3, <2>5, <2>7, <2>8
<1> QED
  BY <1>1, <1>2 DEF Resolve

\* asm_to_prog makes the object out of the tables.
LEMMA ToProgMeans == ASSUME Meaning, ToProg PROVE Meaning'
<1>1. /\ UNCHANGED SourceVars /\ text' = text /\ phase = "resolved" /\ phase' = "done"
      /\ prog' = [syms |-> [k \in DOMAIN KeptLabels |-> Symbol(KeptLabels[k])], rels |-> rels]
  BY DEF ToProg, SourceVars
<1>2. src' = src /\ rels' = rels /\ patches' = patches
  BY <1>1 DEF SourceVars
<1> SUFFICES ASSUME ExternsFirst PROVE CountInv' /\ LabelInv' /\ RefInv' /\ EndInv'
  BY <1>1, <1>2, SourceStands DEF Meaning
<1>3. CountInv /\ LabelInv /\ RefInv /\ EndInv
  BY <1>1 DEF Meaning
<1>4. EndInv'
  <2>1. prog' = [syms |-> [k \in DOMAIN KeptLabels' |-> Symbol(KeptLabels'[k])], rels |-> rels']
    BY <1>1, <1>2, <1>3, TablesStand
  <2>2. \A k \in DOMAIN patches' : Resolvable(patches[k])'
    BY <1>1, <1>2, <1>3, TablesStand DEF EndInv
  <2>3. \A i \in References' : (src[i].op = "jump" /\ IsDefined(src[i].name))' => InPlace(i)'
    BY <1>1, <1>2, <1>3, TablesStand, SourceStands DEF EndInv
  <2> QED
    BY <2>1, <2>2, <2>3 DEF EndInv, Symbol
<1> QED
  BY <1>1, <1>3, <1>4, TablesStand

LEMMA StutterMeans == ASSUME Meaning, UNCHANGED vars PROVE Meaning'
<1>1. UNCHANGED SourceVars /\ text' = text /\ phase' = phase /\ prog' = prog
  BY DEF vars, SourceVars
<1>2. src' = src /\ rels' = rels /\ patches' = patches
  BY <1>1 DEF SourceVars
<1> SUFFICES ASSUME ExternsFirst, phase \notin {"failed", "exited"}
             PROVE  CountInv' /\ LabelInv' /\ RefInv' /\ EndInv'
  BY <1>1, <1>2, SourceStands DEF Meaning
<1>3. CountInv /\ LabelInv /\ RefInv /\ EndInv
  BY <1>1 DEF Meaning
<1>4. EndInv'
  <2>1. KeptLabels' = KeptLabels
    BY <1>1, <1>3, TablesStand
  <2>2. phase \in {"resolved", "done"} => \A k \in DOMAIN patches' : Resolvable(patches[k])'
    BY <1>1, <1>2, <1>3, TablesStand DEF EndInv
  <2>3. phase \in {"resolved", "done"} =>
          \A i \in References' : (src[i].op = "jump" /\ IsDefined(src[i].name))' => InPlace(i)'
    BY <1>1, <1>2, <1>3, TablesStand, SourceStands DEF EndInv
  <2> QED
    BY <1>1, <1>2, <1>3, <2>1, <2>2, <2>3 DEF EndInv, Symbol
<1> QED
  BY <1>1, <1>3, <1>4, TablesStand

LEMMA InitMeans == Init => Meaning
<1> SUFFICES ASSUME Init PROVE Meaning
  OBVIOUS
<1>1. /\ src = <<>> /\ labels = <<>> /\ text = <<>> /\ equs = {} /\ phase = "read"
      /\ section = "CODE" /\ size = [s \in {"CNST", "DATA"} |-> 0]
  BY DEF Init
<1>2. /\ DOMAIN src = {} /\ Len(src) + 1 = 1 /\ src \in Seq(Statement)
      /\ Len(text) = 0 /\ DOMAIN labels = {}
  BY <1>1
<1>3. References = {} /\ \A op, n : Stated(op, n) = {}
  BY <1>2 DEF References, Stated
<1>4. \A sec : Places(sec) = {}
  BY <1>2 DEF Places
<1>5. SectionAt(1) = "CODE"
  <2>1. Before(1, {"section"}) = {}
    BY DEF Before
  <2> QED
    BY <2>1 DEF SectionAt
<1>6. CountInv
  BY <1>1, <1>2, <1>3, <1>4, <1>5, FS_EmptySet DEF CountInv
<1>7. LabelInv
  <2> SUFFICES ASSUME NEW n \in Names PROVE LabelOK(n)
    BY DEF LabelInv
  <2>1. Mentions(n) = {} /\ ~IsDefined(n)
    BY <1>3 DEF Mentions, Named, IsDefined
  <2>2. Find(labels, n) = 0
    BY <1>2 DEF Find
  <2> QED
    BY <2>1, <2>2 DEF LabelOK
<1>8. RefInv /\ EndInv
  BY <1>1, <1>3 DEF RefInv, EndInv
<1> QED
  BY <1>2, <1>6, <1>7, <1>8 DEF Meaning

LEMMA MeaningNext == IInv /\ Meaning /\ [Next]_vars => Meaning'
<1> SUFFICES ASSUME IInv, Meaning, [Next]_vars PROVE Meaning'
  OBVIOUS
<1>1. IInv'
  BY NextInv
<1>2. ASSUME NEW s \in Sections, Section(s) PROVE Meaning'
  BY <1>2, SectionMeans
<1>3. ASSUME NEW n \in Names, Equ(n) \/ Global(n) \/ Extern(n) \/ LabelDef(n) PROVE Meaning'
  BY <1>3, EquMeans, GlobalActionMeans, ExternActionMeans, LabelDefActionMeans
<1>4. ASSUME NEW n \in Names, Jump(n) \/ Address(n) PROVE Meaning'
  BY <1>4, JumpMeans, AddressActionMeans
<1>5. CASE Bytes \/ Instruction
  BY <1>5, BytesMeans, InstructionMeans
<1>6. CASE Resolve \/ ToProg
  BY <1>1, <1>6, ResolveMeans, ToProgMeans
<1>7. CASE UNCHANGED vars
  BY <1>7, StutterMeans
<1>8. CASE Ended
  BY <1>7, <1>8 DEF Ended
<1> QED
  BY <1>2, <1>3, <1>4, <1>5, <1>6, <1>7, <1>8 DEF Next

\* The tables mean what the source says, whatever it is and wherever it ends.
THEOREM MeaningInvariance == Spec => []Meaning
<1>1. Init => Meaning
  BY InitMeans
<1>2. IInv /\ Meaning /\ [Next]_vars => Meaning'
  BY MeaningNext
<1> QED
  BY <1>1, <1>2, Invariance, PTL DEF Spec

-----------------------------------------------------------------------------
(* The object that comes out *)

\* An assembled source of which asm.c can be expected to keep every name.
Finished == IInv /\ Meaning /\ phase = "done" /\ WellDeclared

LEMMA FinishedFacts ==
  ASSUME Finished
  PROVE  /\ CountInv /\ LabelInv /\ RefInv /\ src \in Seq(Statement)
         /\ \A k \in DOMAIN patches : Resolvable(patches[k])
         /\ \A i \in References : src[i].op = "jump" /\ IsDefined(src[i].name) => InPlace(i)
         /\ prog = [syms |-> [k \in DOMAIN KeptLabels |-> Symbol(KeptLabels[k])], rels |-> rels]
<1>1. ExternsFirst
  BY DEF Finished, WellDeclared, ExternsFirst
<1>2. CountInv /\ LabelInv /\ RefInv /\ EndInv /\ src \in Seq(Statement)
  BY <1>1 DEF Finished, Meaning
<1> QED
  BY <1>2 DEF Finished, EndInv

\* A name that is only jumped to is an error: its patch cannot be resolved.
LEMMA OnlyJumps ==
  ASSUME Finished, NEW n \in Names, Mentions(n) = {}
  PROVE  Named(n) = {}
<1> SUFFICES ASSUME NEW i \in Named(n) PROVE FALSE
  OBVIOUS
<1>1. Stated("label", n) = {} /\ src[i].op = "jump"
  BY DEF Mentions, Named, Stated
<1>2. ~IsDefined(n)
  BY <1>1 DEF IsDefined
<1>3. Find(labels, n) = 0
  BY FinishedFacts DEF LabelInv, LabelOK
<1>4. i \in References /\ src[i].name = n
  BY <1>1 DEF Named, Stated
<1>5. RefOK(i) /\ ~InPlace(i)
  BY <1>2, <1>4, FinishedFacts DEF RefInv, InPlace
<1>6. PICK k \in DOMAIN patches : patches[k].at = PlaceOf(i)
  BY <1>1, <1>5 DEF RefOK
<1>7. patches[k].name = n
  BY <1>4, <1>5, <1>6 DEF RefOK
<1>8. Resolvable(patches[k])
  BY FinishedFacts
<1> QED
  BY <1>3, <1>7, <1>8 DEF Resolvable

\* The place of the first definition is a place.
LEMMA DefPlaceNat ==
  ASSUME src \in Seq(Statement), NEW n, IsDefined(n)
  PROVE  DefPlace(n) \in Nat
<1>1. PICK i \in Stated("label", n) : \A j \in Stated("label", n) : i <= j
  BY DefinitionIs
<1>2. Definition(n) = i /\ i \in Int
  BY <1>1, DefinitionIs DEF Stated
<1> QED
  BY <1>2, PlaceNat DEF DefPlace

LEMMA LabelIsKept ==
  ASSUME Finished, NEW k \in DOMAIN labels
  PROVE  Kept(labels[k])
<1> PICK n \in Names : n = labels[k].name
  <2>1. labels[k] \in Label
    BY LabelsTyped DEF Finished
  <2> QED
    BY <2>1 DEF Label
<1>1. Find(labels, n) = k /\ k # 0
  BY LabelsTyped, FindIs DEF Finished
<1>2. LabelOK(n) /\ src \in Seq(Statement)
  BY FinishedFacts DEF LabelInv
<1>3. CASE IsDefined(n)
  <2>1. labels[k].offset = DefPlace(n) /\ DefPlace(n) \in Nat
    BY <1>1, <1>2, <1>3, DefPlaceNat DEF LabelOK
  <2> QED
    BY <2>1 DEF Kept
<1>4. CASE ~IsDefined(n)
  <2>1. ~Exported(n)
    BY <1>4 DEF Finished, WellDeclared, Exported
  <2> QED
    BY <1>1, <1>2, <1>4, <2>1 DEF LabelOK, Kept
<1> QED
  BY <1>3, <1>4

\* No label is left out, so a relocation's index is that of its symbol.
LEMMA AllKept == ASSUME Finished PROVE KeptLabels = labels
<1>1. /\ labels \in Seq(Label) /\ Len(labels) \in Nat /\ DOMAIN labels = 1..Len(labels)
      /\ labels = [m \in 1..Len(labels) |-> labels[m]]
  BY LabelsTyped DEF Finished
<1> DEFINE kept == {k \in DOMAIN labels : Kept(labels[k])}
<1>2. kept = 1..Len(labels)
  BY <1>1, LabelIsKept
<1>3. ASSUME NEW k \in kept PROVE Cardinality({l \in kept : l <= k}) = k
  <2>1. {l \in kept : l <= k} = 1..k /\ k \in Nat /\ k - 1 + 1 = k
    BY <1>1, <1>2, <1>3
  <2>2. Cardinality(1..k) = IF 1 > k THEN 0 ELSE k - 1 + 1
    BY <2>1, FS_Interval
  <2>3. Cardinality(1..k) = k
    BY <1>1, <1>2, <1>3, <2>1, <2>2
  <2> QED
    BY <2>1, <2>3
<1>4. Cardinality(kept) = Len(labels)
  <2>1. PICK N : N = Len(labels)
    OBVIOUS
  <2> N \in Int /\ N \in Nat
    BY <1>1, <2>1
  <2>2. Cardinality(1..N) = IF 1 > N THEN 0 ELSE N - 1 + 1
    BY FS_Interval
  <2>3. Cardinality(1..N) = N
    BY <1>1, <2>1, <2>2
  <2> QED
    BY <1>2, <2>1, <2>3
<1>5. ASSUME NEW m \in 1..Len(labels)
      PROVE  (CHOOSE k \in kept : Cardinality({l \in kept : l <= k}) = m) = m
  <2>1. m \in kept
    BY <1>2
  <2> HIDE DEF kept
  <2> QED
    BY <1>3, <2>1
<1>6. KeptLabels = [m \in 1..Cardinality(kept) |-> labels[CHOOSE k \in kept : Cardinality({l \in kept : l <= k}) = m]]
  BY DEF KeptLabels
<1>7. [m \in 1..Len(labels) |-> labels[CHOOSE k \in kept : Cardinality({l \in kept : l <= k}) = m]]
        = [m \in 1..Len(labels) |-> labels[m]]
  <2> DEFINE nth(m) == CHOOSE k \in kept : Cardinality({l \in kept : l <= k}) = m
  <2>1. \A m \in 1..Len(labels) : nth(m) = m
    BY <1>5, Zenon
  <2> HIDE DEF nth
  <2>2. [m \in 1..Len(labels) |-> labels[nth(m)]] = [m \in 1..Len(labels) |-> labels[m]]
    BY <2>1
  <2> QED
    BY <2>2 DEF nth
<1> HIDE DEF kept
<1> QED
  BY <1>1, <1>4, <1>6, <1>7

\* The object's tables, in terms of the assembler's.
LEMMA ObjectIs ==
  ASSUME Finished
  PROVE  /\ prog.rels = rels /\ DOMAIN prog.syms = DOMAIN labels
         /\ \A k \in DOMAIN labels : prog.syms[k] = Symbol(labels[k])
         /\ \A at : RelsAt(at) = {k \in DOMAIN rels : rels[k].at = at}
<1>1. prog = [syms |-> [k \in DOMAIN labels |-> Symbol(labels[k])], rels |-> rels]
  BY FinishedFacts, AllKept
<1> QED
  BY <1>1 DEF RelsAt

LEMMA ReferenceFinished ==
  ASSUME Finished, NEW i \in References, NEW n \in Names, n = src[i].name
  PROVE  /\ \A k \in RelsAt(PlaceOf(i)) : SymNamed(k, n)
         /\ src[i].op = "address" \/ ~IsDefined(n) => RelsAt(PlaceOf(i)) # {}
         /\ src[i].op = "jump" /\ IsDefined(n) =>
              SectionAt(Definition(n)) = "CODE" /\ text[PlaceOf(i) + 1] = PlaceOf(Definition(n))
<1>1. RefOK(i)
  BY FinishedFacts DEF RefInv
<1>2. ASSUME NEW k \in RelsAt(PlaceOf(i)) PROVE SymNamed(k, n)
  <2>1. k \in DOMAIN rels /\ rels[k].at = PlaceOf(i) /\ prog.rels[k] = rels[k]
    BY <1>2, ObjectIs
  <2>2. rels[k].sym \in DOMAIN labels /\ labels[rels[k].sym].name = n
    BY <1>1, <2>1, TablesTyped DEF RefOK, Finished
  <2>3. prog.rels[k].sym \in DOMAIN prog.syms /\ prog.syms[rels[k].sym] = Symbol(labels[rels[k].sym])
    BY <2>1, <2>2, ObjectIs
  <2>4. \A l : Symbol(l).name = l.name
    BY DEF Symbol
  <2> QED
    BY <2>1, <2>2, <2>3, <2>4 DEF SymNamed
<1>3. ASSUME src[i].op = "address" \/ ~IsDefined(n) PROVE RelsAt(PlaceOf(i)) # {}
  <2>1. SUFFICES src[i].op = "address" \/ ExternAt(i)
    BY <1>1, ObjectIs DEF RefOK
  <2>2. SUFFICES ASSUME src[i].op = "jump", ~IsDefined(n) PROVE ExternAt(i)
    BY <1>3, FinishedFacts, NameOf
  <2>3. Stated("label", n) = {} /\ Stated("global", n) = {}
    BY <2>2 DEF Finished, WellDeclared, IsDefined
  <2>4. i \in Named(n)
    BY DEF Named
  <2>5. Stated("extern", n) # {}
    <3> SUFFICES ASSUME Stated("extern", n) = {} PROVE FALSE
      OBVIOUS
    <3>1. \A j \in Named(n) : src[j].op = src[i].op
      BY <2>2, <2>4 DEF Finished, WellDeclared
    <3>2. Mentions(n) = {}
      BY <2>2, <3>1 DEF Mentions
    <3> QED
      BY <2>4, <3>2, OnlyJumps
  <2>6. PICK j \in Stated("extern", n) : j < i
    BY <2>2, <2>4, <2>5 DEF Finished, WellDeclared
  <2> QED
    BY <2>3, <2>6 DEF ExternAt, Earlier
<1>4. ASSUME src[i].op = "jump", IsDefined(n)
      PROVE  SectionAt(Definition(n)) = "CODE" /\ text[PlaceOf(i) + 1] = PlaceOf(Definition(n))
  BY <1>4, FinishedFacts DEF InPlace, DefSection, DefPlace
<1> QED
  BY <1>2, <1>3, <1>4

LEMMA SymbolFinished ==
  ASSUME Finished, NEW n \in Names, Named(n) # {}
  PROVE  \E k \in DOMAIN prog.syms :
           /\ \A l \in DOMAIN prog.syms : prog.syms[l].name = n <=> l = k
           /\ IsDefined(n) =>
                prog.syms[k] =
                  [name |-> n, section |-> SectionAt(Definition(n)), offset |-> PlaceOf(Definition(n)),
                   flags |-> IF Stated("global", n) # {} THEN "GLOBAL" ELSE "LOCAL"]
           /\ ~IsDefined(n) => prog.syms[k].flags = "EXTERN"
<1> DEFINE k == Find(labels, n)
<1>1. LabelOK(n) /\ src \in Seq(Statement)
  BY FinishedFacts DEF LabelInv
<1>2. k # 0
  BY <1>1, OnlyJumps DEF LabelOK
<1>3. k \in DOMAIN labels /\ labels[k].name = n /\ Distinct(labels)
  BY <1>2, FindLabel, LabelsTyped DEF Finished
<1>4. k \in DOMAIN prog.syms /\ prog.syms[k] = Symbol(labels[k])
  BY <1>3, ObjectIs
<1>5. \A l \in DOMAIN prog.syms : prog.syms[l].name = n <=> l = k
  <2>1. \A l : Symbol(l).name = l.name
    BY DEF Symbol
  <2>2. \A l \in DOMAIN labels : prog.syms[l].name = labels[l].name
    BY <2>1, ObjectIs
  <2> HIDE DEF k
  <2> QED
    BY <1>3, <2>2, ObjectIs DEF Distinct
<1>6. ASSUME IsDefined(n)
      PROVE  prog.syms[k] =
               [name |-> n, section |-> SectionAt(Definition(n)), offset |-> PlaceOf(Definition(n)),
                flags |-> IF Stated("global", n) # {} THEN "GLOBAL" ELSE "LOCAL"]
  <2>1. labels[k] = [name |-> n, section |-> DefSection(n), offset |-> DefPlace(n),
                     flags |-> IF Exported(n) THEN "GLOBAL" ELSE "LOCAL"]
    BY <1>1, <1>6 DEF LabelOK
  <2>2. DefPlace(n) >= 0
    BY <1>1, <1>6, DefPlaceNat
  <2>3. labels[k].flags # "EXTERN" /\ labels[k].offset >= 0
    BY <2>1, <2>2
  <2> QED
    BY <1>4, <2>1, <2>3 DEF Symbol, DefSection, DefPlace, Exported
<1>7. ASSUME ~IsDefined(n) PROVE prog.syms[k].flags = "EXTERN"
  <2>1. ~Exported(n)
    BY <1>7 DEF Finished, WellDeclared, Exported
  <2> QED
    BY <1>1, <1>2, <1>4, <1>7, <2>1 DEF LabelOK, Symbol
<1> HIDE DEF k
<1> QED
  BY <1>4, <1>5, <1>6, <1>7

\* Of a source that declares what it uses, whatever the order of its lines, the
\* object keeps every reference: label_ref_code, label_ref_data, patches_resolve
\* and asm_to_prog leave the offset of the label, or a relocation that names it.
THEOREM ReferenceSafety == Spec => []ReferencesKept
<1>1. IInv /\ Meaning => ReferencesKept
  <2> SUFFICES ASSUME IInv, Meaning, phase = "done", WellDeclared, NEW i \in References
               PROVE  LET n == src[i].name
                          at == PlaceOf(i)
                      IN  /\ \A k \in RelsAt(at) : SymNamed(k, n)
                          /\ src[i].op = "address" \/ ~IsDefined(n) => RelsAt(at) # {}
                          /\ src[i].op = "jump" /\ IsDefined(n) =>
                               SectionAt(Definition(n)) = "CODE" /\ text[at + 1] = PlaceOf(Definition(n))
    BY DEF ReferencesKept
  <2>1. Finished
    BY DEF Finished
  <2>2. PICK n \in Names : n = src[i].name
    BY <2>1, NameOf, FinishedFacts
  <2> QED
    BY <2>1, <2>2, ReferenceFinished
<1> QED
  BY <1>1, Invariance, MeaningInvariance, PTL

\* Its symbols are the names it uses, once each, at their first definition and
\* exported if some .global says so, or extern.
THEOREM SymbolSafety == Spec => []SymbolsAsDefined
<1>1. IInv /\ Meaning => SymbolsAsDefined
  BY SymbolFinished DEF Finished, SymbolsAsDefined
<1> QED
  BY <1>1, Invariance, MeaningInvariance, PTL
=============================================================================
