--------------------------------- MODULE Asm ---------------------------------
(***************************************************************************)
(* The assembler's symbols (asm.c): labels, forward references, patches    *)
(* and relocations, from the first line read to the object that            *)
(* asm_to_prog hands to the writer or the linker.                          *)
(*                                                                         *)
(* A source is a sequence of statements; a line with a label and an        *)
(* instruction is two of them, and so is a CALL, which refers to two       *)
(* labels.  Which instruction it is does not matter here, only whether it  *)
(* refers to a label and how: as a code offset (jumps, CALL, the handler   *)
(* of CALLR) or as an address (MOV).  Offsets are counted in instructions  *)
(* and pseudo-ops; every one of them takes one place of its section.       *)
(***************************************************************************)
EXTENDS Integers, Sequences, FiniteSets

CONSTANTS Names,          \* label names
          MaxStatements,  \* bound of the model: length of a source
          MaxLabels,      \* ASM_MAX_LABELS
          MaxPatches,     \* ASM_MAX_PATCHES
          MaxRels,        \* DVM_MAX_RELS
          MaxEqus         \* ASM_MAX_EQUS

ASSUME ConstantsAssumption ==
  {MaxStatements, MaxLabels, MaxPatches, MaxRels} \subseteq Nat

ASSUME EqusAssumption == MaxEqus \in Nat

Sections == {"CNST", "DATA", "CODE"}
Flags == {"LOCAL", "GLOBAL", "EXTERN"}
Undefined == -1

\* .text, .data, .cnst; global; extern; name: ; a code offset; an address;
\* .equ; any other instruction; any data pseudo-op.
Statement ==
       [op : {"section"}, section : Sections]
  \cup [op : {"global", "extern", "label", "jump", "address", "equ"}, name : Names]
  \cup [op : {"instruction", "bytes"}]

VARIABLES
  src,      \* the statements read so far
  section,  \* cursec
  size,     \* bytes put into CNST and DATA
  text,     \* ctx->text: the offset stored at each place, 0 where there is none
  equs,     \* names of .equ constants
  labels,   \* lt.labels
  patches,  \* lt.patches: name, place and is64
  rels,     \* ctx->rels, with 1-based symbol indices
  prog,     \* the DvmProg of asm_to_prog: syms and rels
  phase     \* "read", "resolved", "done", "failed" (return 0), "exited" (exit(1))

vars == <<src, section, size, text, equs, labels, patches, rels, prog, phase>>

Label == [name : Names, flags : Flags, section : Sections \cup {"NONE"}, offset : Int]
Patch == [name : Names, at : Nat, is64 : BOOLEAN]
Rel   == [at : Nat, sym : Nat, kind : {"CODE", "DATA"}]

Init ==
  /\ src = <<>>
  /\ section = "CODE"
  /\ size = [s \in {"CNST", "DATA"} |-> 0]
  /\ text = <<>>
  /\ equs = {}
  /\ labels = <<>>
  /\ patches = <<>>
  /\ rels = <<>>
  /\ prog = [syms |-> <<>>, rels |-> <<>>]
  /\ phase = "read"

Read(s) ==
  /\ phase = "read"
  /\ Len(src) < MaxStatements
  /\ src' = Append(src, s)
  /\ UNCHANGED prog

Stop(how) ==
  /\ phase' = how
  /\ UNCHANGED <<section, size, text, equs, labels, patches, rels>>

-----------------------------------------------------------------------------
(* The label table *)

\* asm_label_find: the first label of that name, 0 if there is none.
Find(ls, name) ==
  IF \E k \in DOMAIN ls : ls[k].name = name
    THEN CHOOSE k \in DOMAIN ls :
           ls[k].name = name /\ \A l \in 1..(k - 1) : ls[l].name # name
    ELSE 0

\* Defective variant of NoRoom: one label too many.
NoRoomLate(name) == Find(labels, name) = 0 /\ Len(labels) > MaxLabels

\* label_define stops the program when a new label finds the table full.
NoRoom(name) == Find(labels, name) = 0 /\ Len(labels) >= MaxLabels

\* Defective variant of Define: a label that was only declared is taken out and
\* put at the end again.
DefineAnew(l) ==
  LET k == Find(labels, l.name)
      Other(m) == m.name # l.name
  IN  IF k # 0 /\ labels[k].offset >= 0 THEN labels
      ELSE Append(SelectSeq(labels, Other), l)

\* label_define: a new label, or one that was only declared or referred to; the
\* first definition stays.
Define(l) ==
  LET k == Find(labels, l.name) IN
    IF k = 0 THEN Append(labels, l)
    ELSE IF \/ labels[k].flags = "EXTERN" /\ l.flags # "EXTERN"
            \/ labels[k].offset < 0
      THEN [labels EXCEPT ![k] = l]
      ELSE labels

Declared(name, flags, sec) ==
  [name |-> name, flags |-> flags, section |-> sec, offset |-> Undefined]

\* Where the next instruction or pseudo-op goes.
Here == IF section = "CODE" THEN Len(text) ELSE size[section]

-----------------------------------------------------------------------------
(* asm_compile: directives and labels *)

Section(s) ==
  /\ Read([op |-> "section", section |-> s])
  /\ section' = s
  /\ UNCHANGED <<size, text, equs, labels, patches, rels, phase>>

\* How many constants are in their table, one for each .equ so far.
Equs == Cardinality({i \in DOMAIN src : src[i].op = "equ"})

\* Refused if the value is no number, or the table full.
Equ(name) ==
  /\ Read([op |-> "equ", name |-> name])
  /\ \/ Stop("failed")
     \/ /\ Equs < MaxEqus
        /\ equs' = equs \cup {name}
        /\ UNCHANGED <<section, size, text, labels, patches, rels, phase>>

Global(name) ==
  /\ Read([op |-> "global", name |-> name])
  /\ LET k == Find(labels, name) IN
       \/ NoRoom(name) /\ Stop("exited")
       \/ /\ ~NoRoom(name)
          /\ labels' = IF k # 0 THEN [labels EXCEPT ![k].flags = "GLOBAL"]
                       ELSE Define(Declared(name, "GLOBAL", section))
          /\ UNCHANGED <<section, size, text, equs, patches, rels, phase>>

Extern(name) ==
  /\ Read([op |-> "extern", name |-> name])
  /\ \/ NoRoom(name) /\ Stop("exited")
     \/ /\ ~NoRoom(name)
        /\ labels' = Define(Declared(name, "EXTERN", "NONE"))
        /\ UNCHANGED <<section, size, text, equs, patches, rels, phase>>

IsGlobal(name) == LET k == Find(labels, name) IN k # 0 /\ labels[k].flags = "GLOBAL"

\* Defective variant of LabelDef: the label is LOCAL even if declared global.
LabelDefLocal(name) ==
  /\ Read([op |-> "label", name |-> name])
  /\ \/ NoRoom(name) /\ Stop("exited")
     \/ /\ ~NoRoom(name)
        /\ labels' = Define([name |-> name, flags |-> "LOCAL", section |-> section, offset |-> Here])
        /\ UNCHANGED <<section, size, text, equs, patches, rels, phase>>

\* A label that was declared global keeps that.
LabelDef(name) ==
  /\ Read([op |-> "label", name |-> name])
  /\ \/ NoRoom(name) /\ Stop("exited")
     \/ /\ ~NoRoom(name)
        /\ labels' = Define([name |-> name, section |-> section, offset |-> Here,
                             flags |-> IF IsGlobal(name) THEN "GLOBAL" ELSE "LOCAL"])
        /\ UNCHANGED <<section, size, text, equs, patches, rels, phase>>

-----------------------------------------------------------------------------
(* asm_compile: what takes a place *)

\* db, dw, dd, dq, ds, dsz: unknown mnemonics in .text.
Bytes ==
  /\ Read([op |-> "bytes"])
  /\ \/ section = "CODE" /\ Stop("failed")
     \/ /\ section # "CODE"
        /\ size' = [size EXCEPT ![section] = @ + 1]
        /\ UNCHANGED <<section, text, equs, labels, patches, rels, phase>>

Plain ==
  /\ text' = Append(text, 0)
  /\ UNCHANGED <<section, size, equs, labels, patches, rels, phase>>

\* Instructions outside .text are invalid pseudo-ops.
Instruction ==
  /\ Read([op |-> "instruction"])
  /\ \/ section # "CODE" /\ Stop("failed")
     \/ section = "CODE" /\ Plain

\* Is the label defined, and in .text?
Known(name) ==
  LET k == Find(labels, name) IN
    /\ k # 0
    /\ labels[k].offset >= 0 /\ labels[k].section = "CODE" /\ labels[k].flags # "EXTERN"

IsExtern(name) == LET k == Find(labels, name) IN k # 0 /\ labels[k].flags = "EXTERN"

\* label_ref_code: the offset itself when it is known; else a patch, and a
\* relocation as well if the label is extern by now.
RefCode(name) ==
  \/ /\ Known(name)
     /\ text' = Append(text, labels[Find(labels, name)].offset)
     /\ UNCHANGED <<section, size, equs, labels, patches, rels, phase>>
  \/ /\ ~Known(name)
     /\ Len(patches) >= MaxPatches \/ (IsExtern(name) /\ Len(rels) >= MaxRels)
     /\ Stop("exited")
  \/ /\ ~Known(name)
     /\ Len(patches) < MaxPatches
     /\ IsExtern(name) => Len(rels) < MaxRels
     /\ patches' = Append(patches, [name |-> name, at |-> Len(text), is64 |-> FALSE])
     /\ rels' = IF IsExtern(name)
                  THEN Append(rels, [at |-> Len(text), sym |-> Find(labels, name), kind |-> "CODE"])
                  ELSE rels
     /\ text' = Append(text, 0)
     /\ UNCHANGED <<section, size, equs, labels, phase>>

Jump(name) ==
  /\ Read([op |-> "jump", name |-> name])
  /\ \/ section # "CODE" /\ Stop("failed")
     \/ section = "CODE" /\ RefCode(name)

\* Defective variant of WithPlaceholder: the table is not searched first.
WithPlaceholderAgain(name) == Append(labels, Declared(name, "EXTERN", "NONE"))

\* sym_index: the label, as an extern placeholder if it is new.
WithPlaceholder(name) ==
  IF Find(labels, name) # 0 THEN labels ELSE Define(Declared(name, "EXTERN", "NONE"))

\* label_ref_data: always a relocation; a patch too while it is undefined, for
\* patches_resolve to look at.
RefData(name) ==
  LET ls == WithPlaceholder(name)
      k  == Find(ls, name)
      full == \/ Len(rels) >= MaxRels
              \/ NoRoom(name)
              \/ ls[k].offset < 0 /\ Len(patches) >= MaxPatches
  IN \/ full /\ Stop("exited")
     \/ /\ ~full
        /\ labels' = ls
        /\ rels' = Append(rels, [at |-> Len(text), sym |-> k, kind |-> "DATA"])
        /\ patches' = IF ls[k].offset < 0
                        THEN Append(patches, [name |-> name, at |-> Len(text), is64 |-> TRUE])
                        ELSE patches
        /\ text' = Append(text, 0)
        /\ UNCHANGED <<section, size, equs, phase>>

\* MOV reg, name: an immediate if name is a constant by now.
Address(name) ==
  /\ Read([op |-> "address", name |-> name])
  /\ \/ section # "CODE" /\ Stop("failed")
     \/ section = "CODE" /\ name \in equs /\ Plain
     \/ section = "CODE" /\ name \notin equs /\ RefData(name)

-----------------------------------------------------------------------------
(* patches_resolve and asm_to_prog *)

\* An extern is left to the linker; a reference to any other label needs its
\* definition, and a code offset needs it in .text.
Resolvable(p) ==
  LET k == Find(labels, p.name) IN
    /\ k # 0
    /\ labels[k].flags # "EXTERN" =>
         labels[k].offset >= 0 /\ (p.is64 \/ labels[k].section = "CODE")

\* The offsets of the labels that patches refer to, put where they belong; a
\* place has one patch at most.
Patched ==
  LET at(i) == {k \in DOMAIN patches : patches[k].at + 1 = i /\ ~patches[k].is64
                                        /\ ~IsExtern(patches[k].name)}
  IN  [i \in DOMAIN text |->
         IF at(i) = {} THEN text[i]
         ELSE labels[Find(labels, patches[CHOOSE k \in at(i) : TRUE].name)].offset]

\* Defective variant of Resolve: any section will do for a code offset.
ResolveAnySection ==
  /\ phase = "read"
  /\ UNCHANGED <<src, prog>>
  /\ \/ /\ \E k \in DOMAIN patches : ~Resolvable([patches[k] EXCEPT !.is64 = TRUE])
        /\ Stop("failed")
     \/ /\ \A k \in DOMAIN patches : Resolvable([patches[k] EXCEPT !.is64 = TRUE])
        /\ text' = Patched
        /\ phase' = "resolved"
        /\ UNCHANGED <<section, size, equs, labels, patches, rels>>

\* The source ends.
Resolve ==
  /\ phase = "read"
  /\ UNCHANGED <<src, prog>>
  /\ \/ /\ \E k \in DOMAIN patches : ~Resolvable(patches[k])
        /\ Stop("failed")
     \/ /\ \A k \in DOMAIN patches : Resolvable(patches[k])
        /\ text' = Patched
        /\ phase' = "resolved"
        /\ UNCHANGED <<section, size, equs, labels, patches, rels>>

\* A label that is neither defined nor extern is left out of the table.
Kept(l) == l.offset >= 0 \/ l.flags = "EXTERN"

Symbol(l) ==
  [name |-> l.name, flags |-> l.flags,
   section |-> IF l.flags = "EXTERN" THEN "NONE" ELSE l.section,
   offset |-> IF l.offset >= 0 THEN l.offset ELSE 0]

\* The labels that are kept, in their order: the m-th of them is at place m.
KeptLabels ==
  LET kept == {k \in DOMAIN labels : Kept(labels[k])}
      nth(m) == CHOOSE k \in kept : Cardinality({l \in kept : l <= k}) = m
  IN  [m \in 1..Cardinality(kept) |-> labels[nth(m)]]

ToProg ==
  /\ phase = "resolved"
  /\ prog' = [syms |-> [k \in DOMAIN KeptLabels |-> Symbol(KeptLabels[k])],
              rels |-> rels]
  /\ phase' = "done"
  /\ UNCHANGED <<src, section, size, text, equs, labels, patches, rels>>

Ended == phase \in {"done", "failed", "exited"} /\ UNCHANGED vars

Next ==
  \/ \E s \in Sections : Section(s)
  \/ \E n \in Names : Equ(n) \/ Global(n) \/ Extern(n) \/ LabelDef(n) \/ Jump(n) \/ Address(n)
  \/ Bytes \/ Instruction
  \/ Resolve \/ ToProg
  \/ Ended

Spec == Init /\ [][Next]_vars

-----------------------------------------------------------------------------
(* What a source says, read off its statements *)

Before(i, S) == {j \in 1..(i - 1) : src[j].op \in S}
Stated(op, n) == {i \in DOMAIN src : src[i].op = op /\ src[i].name = n}

\* The section statement i is in, and the place it gets there.
SectionAt(i) ==
  LET at == Before(i, {"section"})
  IN  IF at = {} THEN "CODE" ELSE src[CHOOSE j \in at : \A l \in at : l <= j].section

PlaceOf(i) ==
  Cardinality({j \in Before(i, {"jump", "address", "instruction", "bytes"}) :
                 SectionAt(j) = SectionAt(i)})

\* The first definition of a name counts.
Definition(n) == CHOOSE i \in Stated("label", n) : \A j \in Stated("label", n) : i <= j
IsDefined(n) == Stated("label", n) # {}

IsConstant(i) == src[i].op = "address" /\ Before(i, {"equ"}) \cap Stated("equ", src[i].name) # {}
References == {i \in DOMAIN src : src[i].op \in {"jump", "address"} /\ ~IsConstant(i)}
Named(n) == {i \in References : src[i].name = n}
             \cup Stated("label", n) \cup Stated("global", n) \cup Stated("extern", n)

\* Externs are declared before anything else is said of them, what is exported
\* is defined, and what is not defined here is declared.  (Without a declaration
\* a name can be used in jumps only, and is then an error.)
WellDeclared ==
  \A n \in Names :
    /\ \A i \in Stated("extern", n), j \in Named(n) :
         src[j].op # "extern" => i < j
    /\ Stated("global", n) # {} => IsDefined(n)
    /\ ~IsDefined(n) /\ Stated("extern", n) = {} =>
         \A i, j \in Named(n) : src[i].op = src[j].op

-----------------------------------------------------------------------------
(* Properties *)

TypeOK ==
  /\ section \in Sections
  /\ size \in [{"CNST", "DATA"} -> Nat]
  /\ text \in Seq(Nat)
  /\ equs \subseteq Names
  /\ labels \in Seq(Label) /\ Len(labels) <= MaxLabels
  /\ patches \in Seq(Patch) /\ Len(patches) <= MaxPatches
  /\ rels \in Seq(Rel) /\ Len(rels) <= MaxRels
  /\ phase \in {"read", "resolved", "done", "failed", "exited"}

\* What identifies a label is its name, and every patch and relocation points
\* into the code and the label table, in each prefix of the source.
TablesAgree ==
  /\ \A k, l \in DOMAIN labels : labels[k].name = labels[l].name => k = l
  /\ \A k \in DOMAIN patches : patches[k].at < Len(text)
  /\ \A k \in DOMAIN rels : rels[k].at < Len(text) /\ rels[k].sym \in DOMAIN labels

\* Whatever is read later, the index a relocation recorded for a label stays that
\* label's: labels are redefined in place.
IndicesStay ==
  [][\A k \in DOMAIN labels :
       k \in DOMAIN labels' /\ labels'[k].name = labels[k].name]_vars

RelsAt(at) == {k \in DOMAIN prog.rels : prog.rels[k].at = at}
SymNamed(k, n) ==
  prog.rels[k].sym \in DOMAIN prog.syms /\ prog.syms[prog.rels[k].sym].name = n

\* Wherever a name is used, before or after its definition or declaration: an
\* address leaves a relocation that names it; a jump holds the offset of its
\* label, or, if that is elsewhere, leaves a relocation that names it.
ReferencesKept ==
  phase = "done" /\ WellDeclared =>
    \A i \in References :
      LET n == src[i].name
          at == PlaceOf(i)
      IN  /\ \A k \in RelsAt(at) : SymNamed(k, n)
          /\ src[i].op = "address" \/ ~IsDefined(n) => RelsAt(at) # {}
          /\ src[i].op = "jump" /\ IsDefined(n) =>
               SectionAt(Definition(n)) = "CODE" /\ text[at + 1] = PlaceOf(Definition(n))

\* The object's symbols are the names of the source, once each: at their first
\* definition, exported if some global says so, or extern.
SymbolsAsDefined ==
  phase = "done" /\ WellDeclared =>
    \A n \in {m \in Names : Named(m) # {}} :
      \E k \in DOMAIN prog.syms :
        /\ \A l \in DOMAIN prog.syms : prog.syms[l].name = n <=> l = k
        /\ IsDefined(n) =>
             prog.syms[k] =
               [name |-> n, section |-> SectionAt(Definition(n)), offset |-> PlaceOf(Definition(n)),
                flags |-> IF Stated("global", n) # {} THEN "GLOBAL" ELSE "LOCAL"]
        /\ ~IsDefined(n) => prog.syms[k].flags = "EXTERN"
=============================================================================
