------------------------------- MODULE Linker -------------------------------
(***************************************************************************)
(* The linker and the loader (linker.c, dvm_load of dvm_io.c): N objects   *)
(* are merged, their symbols placed and resolved, their relocations        *)
(* remapped, the entry point chosen, and the result is mapped and patched. *)
(*                                                                         *)
(* An object is what asm_to_prog produces.  Its bytes are left out but for *)
(* the places in CODE that refer to something: a relocation names a symbol *)
(* and is patched by dvm_load; a jump or call to a label of the same       *)
(* object (label_ref_code) is already a number in the code, and no table   *)
(* lists it.  Offsets are counted in such places.                          *)
(***************************************************************************)
EXTENDS Naturals, Sequences, SequencesExt

CONSTANTS
  Inputs,    \* what is linked: sequences of objects
  Entries,   \* the entry symbols asked for: names, or None for the default
  Names,     \* symbol names
  None,      \* no name
  Start,     \* the name "_start"
  Main,      \* the name "main"
  MaxSyms,   \* DVM_MAX_SYMS
  MaxRels    \* DVM_MAX_RELS

Sections == {"CNST", "DATA", "CODE"}
Flags == {"LOCAL", "GLOBAL", "EXTERN"}

Symbol == [name : Names, flags : Flags, section : Sections \cup {"NONE"}, offset : Nat]
\* at is code_offset, sym a 1-based index.
Reloc == [at : Nat, sym : Nat, kind : {"CODE", "DATA"}]

\* jumps has the offset assembled into each local jump.
Object == [syms : Seq(Symbol), rels : Seq(Reloc), len : [Sections -> Nat],
           jumps : SUBSET [at : Nat, to : Nat]]

\* An object as asm_to_prog makes them: a name is in its table once; what is
\* defined has a place in a section, or at its end; relocations are inside CODE,
\* and no two at one place.
WellFormed(o) ==
  /\ \A j, l \in DOMAIN o.syms : o.syms[j].name = o.syms[l].name => j = l
  /\ \A j \in DOMAIN o.syms : o.syms[j].flags # "EXTERN" =>
       /\ o.syms[j].section \in Sections
       /\ o.syms[j].offset <= o.len[o.syms[j].section]
  /\ \A j \in DOMAIN o.rels : o.rels[j].at < o.len["CODE"]
  /\ \A j, l \in DOMAIN o.rels : o.rels[j].at = o.rels[l].at => j = l

ASSUME ConstantsAssumption ==
  /\ MaxSyms \in Nat /\ MaxRels \in Nat
  /\ Inputs \subseteq Seq(Object)
  /\ \A os \in Inputs : \A i \in DOMAIN os : WellFormed(os[i])

VARIABLES
  objs,      \* objs
  entrySym,  \* entry_sym
  phase,     \* the pass dvm_link is in, then "load", "loaded"; or "failed"
  obj,       \* i of the pass
  idx,       \* j of the pass
  size,      \* cnst_off, data_off, code_off
  base,      \* states[i].cnst_base, data_base, code_base
  symMap,    \* states[i].sym_map: merged index of each symbol, 0 for none
  syms,      \* the merged symbol table
  rels,      \* out->rels
  entry,     \* out->entry_offset
  image      \* what the places of the merged code hold, by offset

vars == <<objs, entrySym, phase, obj, idx, size, base, symMap, syms, rels, entry, image>>

Objects == DOMAIN objs

Init ==
  /\ objs \in Inputs
  /\ entrySym \in Entries
  /\ phase = "layout"
  /\ obj = 1 /\ idx = 1
  /\ size = [sec \in Sections |-> 0]
  /\ base = <<>>
  /\ symMap = [i \in Objects |-> [j \in DOMAIN objs[i].syms |-> 0]]
  /\ syms = <<>>
  /\ rels = <<>>
  /\ entry = 0
  /\ image = <<>>

Fail ==
  /\ phase' = "failed"
  /\ UNCHANGED <<objs, entrySym, obj, idx, size, base, symMap, syms, rels, entry, image>>

\* On to the next pass, from the first object.
Pass(next) ==
  /\ obj \notin Objects
  /\ phase' = next
  /\ obj' = 1 /\ idx' = 1
  /\ UNCHANGED <<objs, entrySym, size, base, symMap, syms, rels, image>>

Table(i) == IF phase = "relocate" THEN objs[i].rels ELSE objs[i].syms
Visiting(p) == phase = p /\ obj \in Objects /\ idx \in DOMAIN Table(obj)
Sym == objs[obj].syms[idx]
Done == idx' = idx + 1 /\ UNCHANGED <<objs, entrySym, phase, obj, size, base, entry, image>>

\* The inner loop is through with the table of an object.
NextObject ==
  /\ phase \in {"define", "resolve", "relocate"}
  /\ obj \in Objects /\ idx \notin DOMAIN Table(obj)
  /\ obj' = obj + 1 /\ idx' = 1
  /\ UNCHANGED <<objs, entrySym, phase, size, base, symMap, syms, rels, entry, image>>

\* msyms_find: the first entry of that name, of any kind; 0 if there is none.
Find(name) ==
  LET at == {k \in DOMAIN syms : syms[k].name = name}
  IN  IF at = {} THEN 0 ELSE Min(at)

\* What a place in the code holds: an offset that is taken from the start of
\* CODE, or a pointer into a section.
CodeAt(offset) == [kind |-> "CODE", section |-> "CODE", offset |-> offset]
PointerTo(s) == [kind |-> "DATA", section |-> s.section, offset |-> s.offset]

\* What dvm_load stores: in a call the bare offset of the symbol, whatever section
\* it is an offset in.
Value(kind, s) == IF kind = "CODE" THEN CodeAt(s.offset) ELSE PointerTo(s)

-----------------------------------------------------------------------------
(* dvm_link, passes 1 to 3 *)

\* Pass 1 allocates the sections, which may fail.
Layout ==
  /\ phase = "layout"
  /\ \/ /\ phase' = "copy"
        /\ UNCHANGED <<objs, entrySym, obj, idx, size, base, symMap, syms, rels, entry, image>>
     \/ Fail

\* The local jumps of the object at their places in the merged code.
Jumps ==
  LET jumps == objs[obj].jumps
  IN  [p \in {j.at + size["CODE"] : j \in jumps} |->
         CodeAt((CHOOSE j \in jumps : j.at + size["CODE"] = p).to)]

\* Pass 2 notes where the bytes of an object go and copies them, local jumps as
\* they are.
CopyObject ==
  /\ phase = "copy" /\ obj \in Objects
  /\ base' = Append(base, size)
  /\ size' = [sec \in Sections |-> size[sec] + objs[obj].len[sec]]
  /\ image' = image @@ Jumps
  /\ obj' = obj + 1
  /\ UNCHANGED <<objs, entrySym, phase, idx, symMap, syms, rels, entry>>

Copied == phase = "copy" /\ Pass("define") /\ UNCHANGED entry

\* The symbol at its place in the merged section.
Placed == [Sym EXCEPT !.offset = @ + base[obj][Sym.section]]

Map(k) == symMap' = [symMap EXCEPT ![obj][idx] = k]

\* msyms_add: a full table drops the symbol and leaves it unmapped.
Add ==
  IF Len(syms) < MaxSyms
    THEN syms' = Append(syms, Placed) /\ Map(Len(syms) + 1)
    ELSE UNCHANGED <<syms, symMap>>

\* Externs wait for pass 4.
SkipExtern ==
  /\ Visiting("define") /\ Sym.flags = "EXTERN"
  /\ Done
  /\ UNCHANGED <<symMap, syms, rels>>

DefineLocal ==
  /\ Visiting("define") /\ Sym.flags = "LOCAL"
  /\ Add
  /\ Done
  /\ UNCHANGED rels

\* A second GLOBAL of a name is an error; any other entry of that name is taken
\* for an extern placeholder and overwritten.
DefineGlobal ==
  /\ Visiting("define") /\ Sym.flags = "GLOBAL"
  /\ LET k == Find(Sym.name) IN
       \/ /\ k # 0 /\ syms[k].flags = "GLOBAL"
          /\ Fail
       \/ /\ k # 0 /\ syms[k].flags # "GLOBAL"
          /\ syms' = [syms EXCEPT ![k] = Placed]
          /\ Map(k)
          /\ Done /\ UNCHANGED rels
       \/ /\ k = 0
          /\ Add
          /\ Done /\ UNCHANGED rels

Defined == phase = "define" /\ Pass("resolve") /\ UNCHANGED entry

-----------------------------------------------------------------------------
(* Pass 4: externs *)

SkipDefined ==
  /\ Visiting("resolve") /\ Sym.flags # "EXTERN"
  /\ Done
  /\ UNCHANGED <<symMap, syms, rels>>

\* Defective variant of ResolveExtern: an extern nobody defines is let through.
ResolveExternUnchecked ==
  /\ Visiting("resolve") /\ Sym.flags = "EXTERN"
  /\ Map(Find(Sym.name))
  /\ Done
  /\ UNCHANGED <<syms, rels>>

ResolveExtern ==
  /\ Visiting("resolve") /\ Sym.flags = "EXTERN"
  /\ LET k == Find(Sym.name) IN
       \/ k = 0 /\ Fail
       \/ k # 0 /\ Map(k) /\ Done /\ UNCHANGED <<syms, rels>>

Resolved == phase = "resolve" /\ Pass("relocate") /\ UNCHANGED entry

-----------------------------------------------------------------------------
(* Pass 5: relocations *)

\* The relocation visited, and the merged index of its symbol: 0 if its index is
\* outside its table or the symbol was dropped.
Rel == objs[obj].rels[idx]
NewSym == IF Rel.sym \in DOMAIN objs[obj].syms THEN symMap[obj][Rel.sym] ELSE 0

\* The relocation in the merged code, by the code base of its object.
Remap(codeBase) == [at |-> Rel.at + codeBase, sym |-> NewSym, kind |-> Rel.kind]

\* Defective variant of Relocate: code_base is not added.
RelocateUnbased ==
  /\ Visiting("relocate")
  /\ \/ (Len(rels) >= MaxRels \/ NewSym = 0) /\ Fail
     \/ /\ Len(rels) < MaxRels /\ NewSym # 0
        /\ rels' = Append(rels, Remap(0))
        /\ Done
        /\ UNCHANGED <<symMap, syms>>

\* Defective variant of Relocate: a symbol that was dropped is not noticed.
RelocateUnmapped ==
  /\ Visiting("relocate")
  /\ \/ Len(rels) >= MaxRels /\ Fail
     \/ /\ Len(rels) < MaxRels
        /\ rels' = Append(rels, Remap(base[obj]["CODE"]))
        /\ Done
        /\ UNCHANGED <<symMap, syms>>

\* A full table, or a symbol that has no merged index, is an error.
Relocate ==
  /\ Visiting("relocate")
  /\ \/ (Len(rels) >= MaxRels \/ NewSym = 0) /\ Fail
     \/ /\ Len(rels) < MaxRels /\ NewSym # 0
        /\ rels' = Append(rels, Remap(base[obj]["CODE"]))
        /\ Done
        /\ UNCHANGED <<symMap, syms>>

-----------------------------------------------------------------------------
(* Entry point *)

Candidates == IF entrySym = None THEN <<Start, Main>> ELSE <<entrySym>>
IsEntry(name) == Find(name) # 0 /\ syms[Find(name)].section = "CODE"
Found == {c \in DOMAIN Candidates : IsEntry(Candidates[c])}

\* Defective variant of ChooseEntry: main is preferred to _start.
ChooseEntryReversed ==
  /\ phase = "relocate"
  /\ Pass("load")
  /\ entry' = IF Found = {} THEN 0 ELSE syms[Find(Candidates[Max(Found)])].offset

\* The first candidate that is a code symbol, else the start of CODE.
ChooseEntry ==
  /\ phase = "relocate"
  /\ Pass("load")
  /\ entry' = IF Found = {} THEN 0 ELSE syms[Find(Candidates[Min(Found)])].offset

-----------------------------------------------------------------------------
(* dvm_load *)

LoadEmpty ==
  /\ phase = "load"
  /\ size["CODE"] = 0
  /\ Fail

Patch(at, v) == [p \in DOMAIN image \cup {at} |-> IF p = at THEN v ELSE image[p]]

\* A relocation to a section that has no bytes is refused.
LoadPatch ==
  /\ phase = "load" /\ size["CODE"] > 0
  /\ idx \in DOMAIN rels
  /\ LET r == rels[idx]
         s == syms[r.sym]
     IN \/ size[s.section] = 0 /\ Fail
        \/ /\ size[s.section] > 0
           /\ image' = Patch(r.at, Value(r.kind, s))
           /\ idx' = idx + 1
           /\ UNCHANGED <<objs, entrySym, phase, obj, size, base, symMap, syms, rels, entry>>

Loaded ==
  /\ phase = "load" /\ size["CODE"] > 0
  /\ idx \notin DOMAIN rels
  /\ phase' = "loaded"
  /\ UNCHANGED <<objs, entrySym, obj, idx, size, base, symMap, syms, rels, entry, image>>

Ended == phase \in {"loaded", "failed"} /\ UNCHANGED vars

Next ==
  \/ Layout \/ CopyObject \/ Copied \/ NextObject
  \/ SkipExtern \/ DefineLocal \/ DefineGlobal \/ Defined
  \/ SkipDefined \/ ResolveExtern \/ Resolved
  \/ Relocate \/ ChooseEntry
  \/ LoadEmpty \/ LoadPatch \/ Loaded
  \/ Ended

Spec == Init /\ [][Next]_vars

-----------------------------------------------------------------------------
(* Properties *)

\* What the earlier objects take of a section, and what all of them do.
Base(i, sec) ==
  LET taken[n \in 0..Len(objs)] == IF n = 0 THEN 0 ELSE taken[n - 1] + objs[n].len[sec]
  IN  taken[i - 1]
Total(sec) == Base(Len(objs) + 1, sec)

\* Merged tables stay within their sizes, their symbols are definitions within
\* their sections, and no index in them is stale, whatever was dropped.
TypeOK ==
  /\ phase \in {"layout", "copy", "define", "resolve", "relocate", "load", "loaded", "failed"}
  /\ Len(syms) <= MaxSyms
  /\ \A k \in DOMAIN syms :
       /\ syms[k].flags \in {"LOCAL", "GLOBAL"}
       /\ syms[k].section \in Sections
       /\ syms[k].offset \in 0..Total(syms[k].section)
  /\ \A i \in Objects : \A j \in DOMAIN symMap[i] : symMap[i][j] \in 0..Len(syms)
  /\ Len(rels) <= MaxRels
  /\ \A k \in DOMAIN rels : rels[k].sym \in DOMAIN syms

\* No name is LOCAL in one object and shared in another.
NamesOf(o, fs) == {o.syms[j].name : j \in {k \in DOMAIN o.syms : o.syms[k].flags \in fs}}
PrivateNames(os) ==
  \A i, k \in DOMAIN os :
    i # k => NamesOf(os[i], {"LOCAL"}) \cap NamesOf(os[k], {"GLOBAL", "EXTERN"}) = {}

\* All the symbols of that name and flags, as pairs <<object, index>>.
Symbols(name, flags) ==
  {d \in UNION {{i} \X DOMAIN objs[i].syms : i \in Objects} :
     objs[d[1]].syms[d[2]].name = name /\ objs[d[1]].syms[d[2]].flags = flags}

\* What the source means by symbol j of object i: its own definition, or for an
\* extern the GLOBAL of that name.
Meant(i, j) ==
  LET s == objs[i].syms[j]
  IN  IF s.flags = "EXTERN" THEN Symbols(s.name, "GLOBAL") ELSE {<<i, j>>}

\* The symbol of the pair d, where merging should have put it.
Merged(d) ==
  LET s == objs[d[1]].syms[d[2]] IN [s EXCEPT !.offset = @ + Base(d[1], s.section)]

\* The place that a reference to s stands for, its section included
\* (dvm_fmt.h:79-80).
Place(kind, s) == [kind |-> kind, section |-> s.section, offset |-> s.offset]

\* Nothing keeps a call from naming a symbol of DATA or CNST; dvm_load then makes
\* it a call of whatever is at that offset of CODE.
CallsCode(i, r) ==
  r.kind = "CODE" => \A d \in Meant(i, r.sym) : Merged(d).section = "CODE"

\* Every relocated reference of every object, but for a call that names data,
\* reaches, once loaded, the very place of what its source means: across merging,
\* renumbering and resolution, the right symbol, section and offset.
ReferencesReachMeant ==
  phase = "loaded" =>
    \A i \in Objects : \A j \in DOMAIN objs[i].rels :
      LET r == objs[i].rels[j]
          at == r.at + Base(i, "CODE")
      IN  CallsCode(i, r) =>
            /\ at \in DOMAIN image
            /\ \E d \in Meant(i, r.sym) : image[at] = Place(r.kind, Merged(d))

\* linker.h:15: unresolved externs and duplicate globals are errors.
NoBadLink ==
  phase \in {"load", "loaded"} /\ Len(syms) < MaxSyms =>
    /\ \A i, k \in Objects : \A j \in DOMAIN objs[i].syms, l \in DOMAIN objs[k].syms :
         /\ <<i, j>> # <<k, l>>
         /\ objs[i].syms[j].flags = "GLOBAL" /\ objs[k].syms[l].flags = "GLOBAL"
         => objs[i].syms[j].name # objs[k].syms[l].name
    /\ \A i \in Objects : \A j \in DOMAIN objs[i].syms :
         objs[i].syms[j].flags = "EXTERN" =>
           Symbols(objs[i].syms[j].name, "GLOBAL") # {}

\* The symbols that define a name.
Defs(name) == Symbols(name, "GLOBAL") \cup Symbols(name, "LOCAL")
CodeDefs(name) == {d \in Defs(name) : objs[d[1]].syms[d[2]].section = "CODE"}

Wanted ==
  IF entrySym # None THEN CodeDefs(entrySym)
  ELSE IF CodeDefs(Start) # {} THEN CodeDefs(Start) ELSE CodeDefs(Main)

\* linker.h:21: if an entry point is asked for, execution starts there, or at 0
\* when no code has that name; if none is, it starts at _start, else at main, else
\* at 0.  As linker.c:187 has it, a missing name does not fall back to _start.  No object
\* may define such a name a second time, and the symbol table must not overflow.
EntryAsWanted ==
  phase = "loaded" /\ Len(syms) < MaxSyms
    /\ (\A c \in DOMAIN Candidates : \A d, e \in Defs(Candidates[c]) : d = e) =>
    IF Wanted = {} THEN entry = 0
    ELSE \A d \in Wanted : entry = Merged(d).offset

\* A jump inside an object goes where its label is once merged.
JumpsLand ==
  phase = "loaded" =>
    \A i \in Objects : \A j \in objs[i].jumps :
      image[j.at + Base(i, "CODE")] = CodeAt(j.to + Base(i, "CODE"))
=============================================================================
