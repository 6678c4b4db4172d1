------------------------------- MODULE ObjFile -------------------------------
(***************************************************************************)
(* Object files (dvm_io.c) and the commands that write and read them:      *)
(* cmd_asm, cmd_link with dvm_link_files, cmd_run with dvm_load_file, and  *)
(* cmd_dump.  Each command is a process of its own: it may be killed, the  *)
(* disk may be full, allocations may fail, and a file may be anything that *)
(* an earlier command left of it.                                          *)
(*                                                                         *)
(* A file is a sequence of units: a tag, a 4-byte number, a byte of a      *)
(* section, a symbol, a relocation.  It can be cut anywhere; a unit that is *)
(* not there in full is not there, as fread then falls short of its count. *)
(***************************************************************************)
EXTENDS Integers, Sequences

CONSTANTS Files,    \* paths
          Items,    \* the units of sections and tables: bytes, symbols, relocations
          Progs,    \* programs that the assembler and the linker produce
          MaxObjs,  \* bound of the model: objects of one link
          MaxSyms,  \* DVM_MAX_SYMS
          MaxRels,  \* DVM_MAX_RELS
          NULL

Sections == {"CNST", "DATA", "CODE"}
Slots == 0..MaxObjs

Limit(table) == IF table = "SYMS" THEN MaxSyms ELSE MaxRels

\* A program has section contents (or NULL), an entry point and two tables.
Program == [sec : [Sections -> Seq(Items) \cup {NULL}], entry : Nat, SYMS : Seq(Items), RELS : Seq(Items)]

ASSUME ConstantsAssumption ==
  /\ MaxObjs \in Nat \ {0} /\ {MaxSyms, MaxRels} \subseteq Nat
  /\ Progs \subseteq Program
  /\ \A p \in Progs : \A t \in {"SYMS", "RELS"} : Len(p[t]) <= Limit(t)
  /\ NULL \notin Program \cup Seq(Items)

VARIABLES
  disk,    \* what is in each file
  latest,  \* history: the program that was last to be written to it, or NULL
  call,    \* the command: "asm", "link", "run", "dump", or "none"
  inputs,  \* the files it reads
  slot,    \* which of them it is at
  field,   \* what comes next: a part of the file, or a step of the command
  pos,     \* units read
  objs,    \* objs of dvm_link_files (or its one program), and linked, at 0
  heap,    \* section buffers allocated and not freed
  ok       \* the result

vars == <<disk, latest, call, inputs, slot, field, pos, objs, heap, ok>>
files == <<disk, latest>>

Zero == [sec |-> [s \in Sections |-> NULL], entry |-> 0, SYMS |-> <<>>, RELS |-> <<>>]

Init ==
  /\ disk \in [Files -> {<<>>, <<<<"text", 0>>>>}]
  /\ latest = [f \in Files |-> NULL]
  /\ call = "none" /\ inputs = <<>> /\ slot = 0
  /\ field = "none" /\ pos = 0
  /\ objs = [i \in Slots |-> Zero]
  /\ heap = {}
  /\ ok = FALSE

-----------------------------------------------------------------------------
(* dvm_write *)

Tag(t) == <<<<"tag", t>>>>
Number(n) == <<<<"u32", n>>>>
Contents(p, s) == IF p.sec[s] = NULL THEN <<>> ELSE p.sec[s]
Part(tag, seq) == Tag(tag) \o Number(Len(seq)) \o seq

Units(p) ==
  Tag("dvm@") \o Tag("ENTR") \o Number(p.entry)
    \o Part("CNST", Contents(p, "CNST")) \o Part("DATA", Contents(p, "DATA"))
    \o Part("CODE", Contents(p, "CODE"))
    \o Part("SYMS", p.SYMS) \o Part("RELS", p.RELS) \o Tag("END")

\* dvm_write_file: the file may not open; a write that fails ends it and is
\* reported; what stdio still holds is written by fclose, whose result is not
\* looked at.  (A process killed here leaves a cut file too.)
WriteFile(f, p) ==
  \/ ok' = FALSE /\ UNCHANGED files
  \/ \E n \in 0..Len(Units(p)) :
       /\ disk' = [disk EXCEPT ![f] = SubSeq(Units(p), 1, n)]
       /\ latest' = [latest EXCEPT ![f] = p]
       /\ ok' \in (IF n = Len(Units(p)) THEN {TRUE} ELSE BOOLEAN)

-----------------------------------------------------------------------------
(* dvm_read, part by part *)

File == disk[inputs[slot]]
Has(n) == pos + n <= Len(File)
Expect(tag) == Has(1) /\ File[pos + 1] = <<"tag", tag>>
Value == File[pos + 2][2]

\* The number behind the tag, and as many units as it says.
HasPart(tag) == Expect(tag) /\ Has(2) /\ Has(2 + Value)
Entries == SubSeq(File, pos + 3, pos + 2 + Value)

After == [magic |-> "ENTR", ENTR |-> "CNST", CNST |-> "DATA", DATA |-> "CODE",
          CODE |-> "SYMS", SYMS |-> "RELS", RELS |-> "END"]

\* Go on with the next part.
Advance(n) ==
  /\ pos' = pos + n
  /\ field' = After[field]
  /\ UNCHANGED <<files, call, inputs, slot, ok>>

\* dvm_read returns 0: dvm_link_files goes to done, dvm_load_file and cmd_dump
\* return at once.
Fail ==
  /\ ok' = FALSE
  /\ field' = IF call = "link" THEN "free" ELSE "end"
  /\ UNCHANGED <<files, call, inputs, slot, pos, heap>>

ReadMagic ==
  /\ field = "magic"
  /\ objs' = [objs EXCEPT ![slot] = Zero]
  /\ \/ ~Expect("dvm@") /\ Fail
     \/ Expect("dvm@") /\ Advance(1) /\ UNCHANGED heap

ReadEntry ==
  /\ field = "ENTR"
  /\ \/ ~(Expect("ENTR") /\ Has(2)) /\ Fail /\ UNCHANGED objs
     \/ /\ Expect("ENTR") /\ Has(2)
        /\ objs' = [objs EXCEPT ![slot].entry = Value]
        /\ Advance(2)
        /\ UNCHANGED heap

\* Defective variant of ReadSection: what fread returns is not looked at.
ReadSectionShort(s) ==
  /\ field = s
  /\ \/ Fail /\ UNCHANGED objs
     \/ /\ Expect(s) /\ Has(2)
        /\ objs' = [objs EXCEPT ![slot].sec[s] = SubSeq(File, pos + 3, Len(File))]
        /\ heap' = heap \cup {<<slot, s>>}
        /\ pos' = pos + 2 + Value
        /\ field' = After[field]
        /\ UNCHANGED <<files, call, inputs, slot, ok>>

\* fr_section allocates a buffer even for an empty section.  Without memory, or
\* when the contents are cut short, it frees the buffer and returns NULL.
ReadSection(s) ==
  /\ field = s
  /\ \/ Fail /\ UNCHANGED objs
     \/ /\ HasPart(s)
        /\ objs' = [objs EXCEPT ![slot].sec[s] = Entries]
        /\ heap' = heap \cup {<<slot, s>>}
        /\ Advance(2 + Value)

\* The symbols, or the relocations.
ReadTable(t) ==
  /\ field = t
  /\ \/ /\ ~(HasPart(t) /\ Value <= Limit(t))
        /\ Fail
        /\ UNCHANGED objs
     \/ /\ HasPart(t) /\ Value <= Limit(t)
        /\ objs' = [objs EXCEPT ![slot][t] = Entries]
        /\ Advance(2 + Value)
        /\ UNCHANGED heap

\* The program is read: on to the next object, or to what the command does.
Accept ==
  /\ UNCHANGED <<files, call, inputs, objs, heap, ok>>
  /\ slot' = slot + 1
  /\ pos' = 0
  /\ field' = IF call = "link" /\ slot < Len(inputs) THEN "magic" ELSE call

\* Defective variant of ReadEnd: the end sentinel is not asked for.
ReadEndAnyhow ==
  /\ field = "END"
  /\ UNCHANGED <<objs>>
  /\ Accept

ReadEnd ==
  /\ field = "END"
  /\ \/ ~Expect("END") /\ Fail /\ UNCHANGED objs
     \/ Expect("END") /\ Accept

-----------------------------------------------------------------------------
(* Commands *)

Begin(cmd, in, first) ==
  /\ call = "none"
  /\ call' = cmd
  /\ inputs' = in
  /\ slot' = 1
  /\ field' = first
  /\ UNCHANGED <<pos, objs, heap>>

\* cmd_asm frees nothing: its sections are the assembler's, and it ends.
Asm(f, p) ==
  /\ Begin("asm", <<>>, "end")
  /\ WriteFile(f, p)

LinkCall(in) == Begin("link", in, "magic") /\ ok' = FALSE /\ UNCHANGED files
RunCall(f) == Begin("run", <<f>>, "magic") /\ ok' = FALSE /\ UNCHANGED files
DumpCall(f) == Begin("dump", <<f>>, "magic") /\ ok' = FALSE /\ UNCHANGED files

\* dvm_link frees what it allocated when it fails; its sections are NULL if they
\* are empty.
Link ==
  /\ field = "link"
  /\ UNCHANGED <<files, call, inputs, slot, pos>>
  /\ \/ field' = "free" /\ ok' = FALSE /\ UNCHANGED <<objs, heap>>
     \/ \E p \in Progs :
          /\ objs' = [objs EXCEPT ![0] = [p EXCEPT !.sec =
                        [s \in Sections |-> IF Contents(p, s) = <<>> THEN NULL ELSE p.sec[s]]]]
          /\ heap' = heap \cup {<<0, s>> : s \in {t \in Sections : Contents(p, t) # <<>>}}
          /\ field' = "write"
          /\ UNCHANGED ok

Buffers(i) == {<<i, s>> : s \in {t \in Sections : objs[i].sec[t] # NULL}}
Cleared(p) == [p EXCEPT !.sec = Zero.sec]

\* dvm_write_file, and dvm_prog_free of linked.
WriteLinked(f) ==
  /\ field = "write"
  /\ WriteFile(f, objs[0])
  /\ heap' = heap \ Buffers(0)
  /\ objs' = [objs EXCEPT ![0] = Cleared(@)]
  /\ field' = "free"
  /\ UNCHANGED <<call, inputs, slot, pos>>

\* Defective variant of FreeObjs: only objects read in full are freed.
FreeAccepted ==
  /\ field = "free"
  /\ heap' = heap \ UNION {Buffers(i) : i \in 1..(slot - 1)}
  /\ objs' = [i \in Slots |-> IF i \in 1..(slot - 1) THEN Cleared(objs[i]) ELSE objs[i]]
  /\ field' = "end"
  /\ UNCHANGED <<files, call, inputs, slot, pos, ok>>

\* done: every object is freed, read or not (calloc has made their pointers NULL).
FreeObjs ==
  /\ field = "free"
  /\ heap' = heap \ UNION {Buffers(i) : i \in 1..Len(inputs)}
  /\ objs' = [i \in Slots |-> IF i \in 1..Len(inputs) THEN Cleared(objs[i]) ELSE objs[i]]
  /\ field' = "end"
  /\ UNCHANGED <<files, call, inputs, slot, pos, ok>>

\* dvm_load, which may fail, or the listing; then dvm_prog_free.
Use ==
  /\ field \in {"run", "dump"}
  /\ ok' \in (IF call = "run" THEN BOOLEAN ELSE {TRUE})
  /\ heap' = heap \ Buffers(1)
  /\ objs' = [objs EXCEPT ![1] = Cleared(@)]
  /\ field' = "end"
  /\ UNCHANGED <<files, call, inputs, slot, pos>>

\* The command ends, or is killed before that; its memory goes with it.
Exit ==
  /\ call # "none"
  /\ call' = "none" /\ inputs' = <<>> /\ slot' = 0
  /\ field' = "none" /\ pos' = 0
  /\ objs' = [i \in Slots |-> Zero]
  /\ heap' = {}
  /\ ok' = FALSE
  /\ UNCHANGED files

Next ==
  \/ \E f \in Files : RunCall(f) \/ DumpCall(f) \/ WriteLinked(f) \/ \E p \in Progs : Asm(f, p)
  \/ \E n \in 1..MaxObjs : \E in \in [1..n -> Files] : LinkCall(in)
  \/ ReadMagic \/ ReadEntry \/ ReadEnd
  \/ \E s \in Sections : ReadSection(s)
  \/ \E t \in {"SYMS", "RELS"} : ReadTable(t)
  \/ Link \/ FreeObjs \/ Use \/ Exit

Spec == Init /\ [][Next]_vars

-----------------------------------------------------------------------------
(* Properties *)

TypeOK ==
  /\ call \in {"none", "asm", "link", "run", "dump"}
  /\ field \in DOMAIN After \cup {"END", "link", "write", "run", "dump", "free", "end", "none"}
  /\ inputs \in Seq(Files) /\ Len(inputs) <= MaxObjs
  /\ slot \in 0..(MaxObjs + 1)
  /\ pos \in Nat
  /\ field \in DOMAIN After \cup {"END"} => slot \in DOMAIN inputs /\ pos <= Len(File)
  /\ heap \subseteq Slots \X Sections
  /\ ok \in BOOLEAN

Same(p, q) ==
  /\ p.entry = q.entry /\ p.SYMS = q.SYMS /\ p.RELS = q.RELS
  /\ \A s \in Sections : Contents(p, s) = Contents(q, s)

\* Whatever became of the file, a program that dvm_read accepts is the one that
\* was written, and all of it is there: a file cut short at any point, or one of
\* another kind, is refused.
AcceptedIsWhole ==
  field \in DOMAIN After \cup {"END", "link", "run", "dump"} =>
    \A i \in 1..(slot - 1) :
      LET f == inputs[i] IN
        latest[f] # NULL /\ Same(objs[i], latest[f]) /\ disk[f] = Units(latest[f])

\* Wherever it fails, a pointer is NULL or has a buffer, so that dvm_prog_free
\* frees what there is once; and dvm_link_files leaves nothing behind.
BuffersOwned ==
  /\ heap = UNION {Buffers(i) : i \in Slots}
  /\ call = "link" /\ field = "end" => heap = {}
=============================================================================
