---------------------------- MODULE ObjFileProof ----------------------------
(***************************************************************************)
(* What ObjFile promises, for all paths, programs and limits: types, that  *)
(* a program which dvm_read accepts is the one last written and whole, and *)
(* that every buffer has one owner.                                        *)
(***************************************************************************)
EXTENDS ObjFile, TLAPS, SequenceTheorems

Reading == {"magic", "ENTR", "CNST", "DATA", "CODE", "SYMS", "RELS", "END"}
Parts == {"CNST", "DATA", "CODE", "SYMS", "RELS"}
Tags == {"dvm@", "END"} \cup {"ENTR"} \cup Parts

Unit == Items \cup ({"tag"} \X Tags) \cup ({"u32"} \X Nat) \cup {<<"text", 0>>}

\* What the file holds of a part.
Content(p, F) == CASE F \in Sections -> Contents(p, F)
                   [] F = "SYMS" -> p.SYMS
                   [] F = "RELS" -> p.RELS

\* What precedes each part in the file of p.
ToENTR(p) == Tag("dvm@")
ToCNST(p) == Tag("dvm@") \o Tag("ENTR") \o Number(p.entry)
ToDATA(p) == ToCNST(p) \o Part("CNST", Contents(p, "CNST"))
ToCODE(p) == ToDATA(p) \o Part("DATA", Contents(p, "DATA"))
ToSYMS(p) == ToCODE(p) \o Part("CODE", Contents(p, "CODE"))
ToRELS(p) == ToSYMS(p) \o Part("SYMS", p.SYMS)
ToEND(p)  == ToRELS(p) \o Part("RELS", p.RELS)

Before(p, F) == CASE F = "ENTR" -> ToENTR(p) [] F = "CNST" -> ToCNST(p)
                  [] F = "DATA" -> ToDATA(p) [] F = "CODE" -> ToCODE(p)
                  [] F = "SYMS" -> ToSYMS(p) [] F = "RELS" -> ToRELS(p)
                  [] F = "END"  -> ToEND(p)

\* u begins with b.
Starts(b, u) == Len(b) <= Len(u) /\ \A i \in 1..Len(b) : u[i] = b[i]

\* A part lies in u from place n on.
Lies(u, n, tag, seq) ==
  /\ u[n + 1] = <<"tag", tag>>
  /\ u[n + 2] = <<"u32", Len(seq)>>
  /\ \A i \in 1..Len(seq) : u[n + 2 + i] = seq[i]

-----------------------------------------------------------------------------
(* The layout that dvm_write gives a file *)

LEMMA Joined ==
  ASSUME NEW S, NEW b \in Seq(S), NEW c \in Seq(S)
  PROVE  /\ b \o c \in Seq(S)
         /\ Len(b \o c) = Len(b) + Len(c)
         /\ Starts(b, b \o c)
         /\ \A i \in 1..Len(c) : (b \o c)[Len(b) + i] = c[i]
<1>1. /\ b \o c \in Seq(S)
      /\ Len(b \o c) = Len(b) + Len(c)
      /\ \A i \in 1..(Len(b) + Len(c)) : (b \o c)[i] = IF i <= Len(b) THEN b[i] ELSE c[i - Len(b)]
  BY ConcatProperties
<1>2. Len(b) \in Nat /\ Len(c) \in Nat
  BY LenProperties
<1> DEFINE j == b \o c
           m == Len(b)
           k == Len(c)
<1>3. /\ m \in Nat /\ k \in Nat
      /\ \A i \in 1..(m + k) : j[i] = IF i <= m THEN b[i] ELSE c[i - m]
  BY <1>1, <1>2
<1> HIDE DEF j, m, k
<1>4. m <= m + k /\ \A i \in 1..m : j[i] = b[i]
  BY <1>3
<1>5. \A i \in 1..k : j[m + i] = c[i]
  <2> SUFFICES ASSUME NEW i \in 1..k PROVE j[m + i] = c[i]
    OBVIOUS
  <2>1. m + i \in 1..(m + k) /\ ~(m + i <= m) /\ (m + i) - m = i
    BY <1>3
  <2> QED
    BY <2>1, <1>3
<1> QED
  BY <1>1, <1>4, <1>5 DEF Starts, j, m, k

LEMMA JoinedUnits ==
  ASSUME NEW b, NEW c, b \in Seq(Unit), c \in Seq(Unit)
  PROVE  /\ b \o c \in Seq(Unit)
         /\ Len(b \o c) = Len(b) + Len(c)
         /\ Starts(b, b \o c)
         /\ \A i \in 1..Len(c) : (b \o c)[Len(b) + i] = c[i]
BY Joined

LEMMA TagUnits ==
  ASSUME NEW t \in Tags
  PROVE  Tag(t) \in Seq(Unit) /\ Len(Tag(t)) = 1 /\ Tag(t)[1] = <<"tag", t>>
BY DEF Tag, Unit

LEMMA NumberUnits ==
  ASSUME NEW n \in Nat
  PROVE  Number(n) \in Seq(Unit) /\ Len(Number(n)) = 1 /\ Number(n)[1] = <<"u32", n>>
BY DEF Number, Unit

LEMMA ItemUnits == ASSUME NEW c \in Seq(Items) PROVE c \in Seq(Unit)
<1>1. Len(c) \in Nat /\ c = [i \in 1..Len(c) |-> c[i]]
  BY LenProperties
<1>2. \A i \in 1..Len(c) : c[i] \in Unit
  BY ElementOfSeq DEF Unit
<1> QED
  BY <1>1, <1>2, IsASeq

LEMMA PartUnits ==
  ASSUME NEW t \in Tags, NEW c \in Seq(Items)
  PROVE  /\ Part(t, c) \in Seq(Unit)
         /\ Len(Part(t, c)) = 2 + Len(c)
         /\ Lies(Part(t, c), 0, t, c)
<1> DEFINE h == Tag(t) \o Number(Len(c))
<1>1. Len(c) \in Nat /\ c \in Seq(Unit)
  BY LenProperties, ItemUnits
<1>2. /\ h \in Seq(Unit) /\ Len(h) = 2 /\ h[1] = <<"tag", t>> /\ h[2] = <<"u32", Len(c)>>
  <2>1. Tag(t) \in Seq(Unit) /\ Len(Tag(t)) = 1 /\ Tag(t)[1] = <<"tag", t>>
    BY TagUnits
  <2>2. /\ Number(Len(c)) \in Seq(Unit) /\ Len(Number(Len(c))) = 1
        /\ Number(Len(c))[1] = <<"u32", Len(c)>>
    BY <1>1, NumberUnits
  <2>3. /\ h \in Seq(Unit) /\ Len(h) = Len(Tag(t)) + Len(Number(Len(c)))
        /\ Starts(Tag(t), h)
        /\ \A i \in 1..Len(Number(Len(c))) : h[Len(Tag(t)) + i] = Number(Len(c))[i]
    BY <2>1, <2>2, Joined
  <2> HIDE DEF h
  <2>4. h[1] = Tag(t)[1] /\ h[1 + 1] = Number(Len(c))[1]
    BY <2>1, <2>2, <2>3 DEF Starts
  <2> QED
    BY <2>1, <2>2, <2>3, <2>4
<1>3. Part(t, c) = h \o c
  BY DEF Part
<1> HIDE DEF h
<1>4. /\ h \o c \in Seq(Unit) /\ Len(h \o c) = Len(h) + Len(c) /\ Starts(h, h \o c)
      /\ \A i \in 1..Len(c) : (h \o c)[Len(h) + i] = c[i]
  <2>1. h \in Seq(Unit) /\ c \in Seq(Unit)
    BY <1>1, <1>2
  <2> QED
    BY <2>1, JoinedUnits
<1>5. (h \o c)[1] = h[1] /\ (h \o c)[2] = h[2]
  BY <1>2, <1>4 DEF Starts
<1> DEFINE j == h \o c
<1>6. \A i \in 1..Len(c) : j[2 + i] = c[i]
  BY <1>2, <1>4
<1>7. j[1] = <<"tag", t>> /\ j[2] = <<"u32", Len(c)>> /\ Len(j) = 2 + Len(c) /\ j \in Seq(Unit)
  BY <1>2, <1>4, <1>5
<1> HIDE DEF j
<1>8. \A i \in 1..Len(c) : 0 + 2 + i = 2 + i
  BY <1>1
<1>9. Lies(j, 0, t, c)
  BY <1>6, <1>7, <1>8 DEF Lies
<1> QED
  BY <1>3, <1>7, <1>9 DEF j

\* A part after what precedes it.
LEMMA PartAdded ==
  ASSUME NEW b \in Seq(Unit), NEW t \in Tags, NEW c \in Seq(Items)
  PROVE  /\ b \o Part(t, c) \in Seq(Unit)
         /\ Len(b \o Part(t, c)) = Len(b) + 2 + Len(c)
         /\ Starts(b, b \o Part(t, c))
         /\ Lies(b \o Part(t, c), Len(b), t, c)
<1> DEFINE q == Part(t, c)
           j == b \o q
<1>1. q \in Seq(Unit) /\ Len(q) = 2 + Len(c) /\ Lies(q, 0, t, c)
  BY PartUnits
<1>2. Len(b) \in Nat /\ Len(c) \in Nat
  BY LenProperties
<1> HIDE DEF q
<1>3. /\ j \in Seq(Unit) /\ Len(j) = Len(b) + Len(q) /\ Starts(b, j)
      /\ \A i \in 1..Len(q) : j[Len(b) + i] = q[i]
  BY <1>1, JoinedUnits
<1> HIDE DEF j
<1>4. 1 \in 1..Len(q) /\ 2 \in 1..Len(q)
  BY <1>1, <1>2
<1>5. j[Len(b) + 1] = <<"tag", t>> /\ j[Len(b) + 2] = <<"u32", Len(c)>>
  <2>1. q[1] = <<"tag", t>> /\ q[2] = <<"u32", Len(c)>>
    BY <1>1 DEF Lies
  <2> QED
    BY <2>1, <1>3, <1>4
<1>6. ASSUME NEW i \in 1..Len(c) PROVE j[Len(b) + 2 + i] = c[i]
  <2>1. 2 + i \in 1..Len(q) /\ Len(b) + 2 + i = Len(b) + (2 + i) /\ 0 + 2 + i = 2 + i
    BY <1>1, <1>2
  <2>2. q[2 + i] = c[i]
    BY <1>1, <2>1 DEF Lies
  <2> QED
    BY <2>1, <2>2, <1>3
<1>7. Lies(j, Len(b), t, c)
  BY <1>5, <1>6 DEF Lies
<1>8. Len(j) = Len(b) + 2 + Len(c)
  BY <1>1, <1>2, <1>3
<1> QED
  BY <1>3, <1>7, <1>8 DEF j, q

\* What lies at the end of a beginning of u lies there in u.
LEMMA Laid ==
  ASSUME NEW b \in Seq(Unit), NEW t \in Tags, NEW c \in Seq(Items), NEW u \in Seq(Unit),
         Starts(b \o Part(t, c), u)
  PROVE  /\ Starts(b, u)
         /\ Lies(u, Len(b), t, c)
<1> DEFINE q == b \o Part(t, c)
           m == Len(b)
           k == Len(c)
<1>1. Len(q) = m + 2 + k /\ Starts(b, q) /\ Lies(q, m, t, c)
  BY PartAdded
<1>2. m \in Nat /\ k \in Nat /\ Len(u) \in Nat
  BY LenProperties
<1>3. Starts(q, u)
  OBVIOUS
<1> HIDE DEF q
<1>4. \A i \in 1..(m + 2 + k) : u[i] = q[i]
  BY <1>1, <1>3 DEF Starts
<1>5. Starts(b, u)
  <2>1. m <= Len(u)
    BY <1>1, <1>2, <1>3 DEF Starts
  <2>2. \A i \in 1..m : i \in 1..(m + 2 + k) /\ q[i] = b[i]
    BY <1>1, <1>2 DEF Starts
  <2> QED
    BY <2>1, <2>2, <1>4 DEF Starts
<1>6. Lies(u, m, t, c)
  <2>1. /\ m + 1 \in 1..(m + 2 + k) /\ m + 2 \in 1..(m + 2 + k)
        /\ \A i \in 1..k : m + 2 + i \in 1..(m + 2 + k)
    BY <1>2
  <2>2. /\ u[m + 1] = q[m + 1] /\ u[m + 2] = q[m + 2]
        /\ \A i \in 1..k : u[m + 2 + i] = q[m + 2 + i]
    BY <1>4, <2>1
  <2>3. /\ q[m + 1] = <<"tag", t>> /\ q[m + 2] = <<"u32", k>>
        /\ \A i \in 1..k : q[m + 2 + i] = c[i]
    BY <1>1 DEF Lies
  <2> QED
    BY <2>2, <2>3 DEF Lies
<1> QED
  BY <1>5, <1>6

LEMMA ProgramParts ==
  ASSUME NEW p \in Program
  PROVE  /\ p.entry \in Nat /\ p.SYMS \in Seq(Items) /\ p.RELS \in Seq(Items)
         /\ \A s \in Sections : Contents(p, s) \in Seq(Items)
BY DEF Program, Contents

LEMMA Beginning ==
  ASSUME NEW p \in Program
  PROVE  /\ ToCNST(p) \in Seq(Unit) /\ Len(ToCNST(p)) = 3
         /\ ToCNST(p)[1] = <<"tag", "dvm@">>
         /\ ToCNST(p)[2] = <<"tag", "ENTR">> /\ ToCNST(p)[3] = <<"u32", p.entry>>
<1> DEFINE a == Tag("dvm@")
           b == Tag("ENTR")
           c == Number(p.entry)
           ab == a \o b
           abc == ab \o c
<1>1. /\ a \in Seq(Unit) /\ Len(a) = 1 /\ a[1] = <<"tag", "dvm@">>
      /\ b \in Seq(Unit) /\ Len(b) = 1 /\ b[1] = <<"tag", "ENTR">>
  BY TagUnits DEF Tags
<1>2. c \in Seq(Unit) /\ Len(c) = 1 /\ c[1] = <<"u32", p.entry>>
  BY ProgramParts, NumberUnits
<1>3. ToCNST(p) = abc
  BY DEF ToCNST
<1> HIDE DEF a, b, c
<1>4. /\ ab \in Seq(Unit) /\ Len(ab) = 1 + 1 /\ Starts(a, ab) /\ \A i \in 1..1 : ab[1 + i] = b[i]
  <2>1. a \in Seq(Unit) /\ b \in Seq(Unit)
    BY <1>1
  <2>2. /\ ab \in Seq(Unit) /\ Len(ab) = Len(a) + Len(b) /\ Starts(a, ab)
        /\ \A i \in 1..Len(b) : ab[Len(a) + i] = b[i]
    BY <2>1, JoinedUnits
  <2> QED
    BY <1>1, <2>2
<1> HIDE DEF ab
<1>5. /\ abc \in Seq(Unit) /\ Len(abc) = 2 + 1 /\ Starts(ab, abc) /\ \A i \in 1..1 : abc[2 + i] = c[i]
  <2>1. ab \in Seq(Unit) /\ c \in Seq(Unit)
    BY <1>2, <1>4
  <2>2. /\ abc \in Seq(Unit) /\ Len(abc) = Len(ab) + Len(c) /\ Starts(ab, abc)
        /\ \A i \in 1..Len(c) : abc[Len(ab) + i] = c[i]
    BY <2>1, JoinedUnits
  <2> QED
    BY <1>2, <1>4, <2>2
<1> HIDE DEF abc
<1>6. ab[1] = a[1] /\ ab[2] = b[1]
  BY <1>1, <1>4 DEF Starts
<1>7. abc[1] = ab[1] /\ abc[2] = ab[2] /\ abc[3] = c[1]
  BY <1>4, <1>5 DEF Starts
<1> QED
  BY <1>1, <1>2, <1>3, <1>5, <1>6, <1>7

LEMMA NextPart ==
  ASSUME NEW p \in Program, NEW F \in Parts
  PROVE  Before(p, After[F]) = Before(p, F) \o Part(F, Content(p, F))
<1>1. CASE F = "CNST"
  BY <1>1 DEF Before, After, ToDATA, Content, Sections
<1>2. CASE F = "DATA"
  BY <1>2 DEF Before, After, ToCODE, Content, Sections
<1>3. CASE F = "CODE"
  BY <1>3 DEF Before, After, ToSYMS, Content, Sections
<1>4. CASE F = "SYMS"
  BY <1>4 DEF Before, After, ToRELS, Content, Sections
<1>5. CASE F = "RELS"
  BY <1>5 DEF Before, After, ToEND, Content, Sections
<1> QED
  BY <1>1, <1>2, <1>3, <1>4, <1>5 DEF Parts

LEMMA ContentItems ==
  ASSUME NEW p \in Program, NEW F \in Parts
  PROVE  Content(p, F) \in Seq(Items)
BY ProgramParts DEF Content, Parts, Sections

LEMMA BeforeUnits ==
  ASSUME NEW p \in Program
  PROVE  \A F \in Parts \cup {"END"} : Before(p, F) \in Seq(Unit)
<1>1. \A F \in Parts : Before(p, F) \in Seq(Unit) => Before(p, After[F]) \in Seq(Unit)
  BY NextPart, ContentItems, PartAdded DEF Parts, Tags
<1>2. Before(p, "CNST") \in Seq(Unit)
  BY Beginning DEF Before
<1>3. Before(p, "DATA") \in Seq(Unit)
  BY <1>1, <1>2 DEF Parts, After
<1>4. Before(p, "CODE") \in Seq(Unit)
  BY <1>1, <1>3 DEF Parts, After
<1>5. Before(p, "SYMS") \in Seq(Unit)
  BY <1>1, <1>4 DEF Parts, After
<1>6. Before(p, "RELS") \in Seq(Unit)
  BY <1>1, <1>5 DEF Parts, After
<1>7. Before(p, "END") \in Seq(Unit)
  BY <1>1, <1>6 DEF Parts, After
<1> QED
  BY <1>2, <1>3, <1>4, <1>5, <1>6, <1>7 DEF Parts

LEMMA UnitsEnd ==
  ASSUME NEW p \in Program
  PROVE  /\ Units(p) \in Seq(Unit)
         /\ Len(Units(p)) = Len(Before(p, "END")) + 1
         /\ Starts(Before(p, "END"), Units(p))
         /\ Units(p)[Len(Before(p, "END")) + 1] = <<"tag", "END">>
<1> DEFINE b == Before(p, "END")
           e == Tag("END")
           j == b \o e
<1>1. Units(p) = j
  BY DEF Units, Before, ToEND, ToRELS, ToSYMS, ToCODE, ToDATA, ToCNST
<1>2. b \in Seq(Unit)
  BY BeforeUnits
<1>3. e \in Seq(Unit) /\ Len(e) = 1 /\ e[1] = <<"tag", "END">>
  BY TagUnits DEF Tags
<1> HIDE DEF b, e
<1>4. /\ j \in Seq(Unit) /\ Len(j) = Len(b) + Len(e) /\ Starts(b, j)
      /\ \A i \in 1..Len(e) : j[Len(b) + i] = e[i]
  <2>1. b \in Seq(Unit) /\ e \in Seq(Unit)
    BY <1>2, <1>3
  <2> QED
    BY <2>1, JoinedUnits
<1> HIDE DEF j
<1> QED
  BY <1>1, <1>3, <1>4 DEF b

\* Each part is in the file of p at its place.
LEMMA Layout ==
  ASSUME NEW p \in Program
  PROVE  /\ \A F \in Parts : Starts(Before(p, F), Units(p))
         /\ \A F \in Parts : Lies(Units(p), Len(Before(p, F)), F, Content(p, F))
<1> DEFINE u == Units(p)
<1>1. u \in Seq(Unit) /\ Starts(Before(p, "END"), u)
  BY UnitsEnd
<1> HIDE DEF u
<1>2. ASSUME NEW F \in Parts, Starts(Before(p, After[F]), u)
      PROVE  Starts(Before(p, F), u) /\ Lies(u, Len(Before(p, F)), F, Content(p, F))
  <2> DEFINE b == Before(p, F)
             c == Content(p, F)
  <2>1. b \in Seq(Unit) /\ F \in Tags /\ c \in Seq(Items)
    BY BeforeUnits, ContentItems DEF Tags
  <2>2. Starts(b \o Part(F, c), u)
    BY <1>2, NextPart
  <2> HIDE DEF b, c
  <2>3. Starts(b, u) /\ Lies(u, Len(b), F, c)
    BY <1>1, <2>1, <2>2, Laid
  <2> QED
    BY <2>3 DEF b, c
<1>3. Starts(Before(p, "RELS"), u)
  BY <1>1, <1>2 DEF Parts, After
<1>4. Starts(Before(p, "SYMS"), u)
  BY <1>2, <1>3 DEF Parts, After
<1>5. Starts(Before(p, "CODE"), u)
  BY <1>2, <1>4 DEF Parts, After
<1>6. Starts(Before(p, "DATA"), u)
  BY <1>2, <1>5 DEF Parts, After
<1>7. Starts(Before(p, "CNST"), u)
  BY <1>2, <1>6 DEF Parts, After
<1>8. \A F \in Parts : Starts(Before(p, After[F]), u)
  BY <1>1, <1>3, <1>4, <1>5, <1>6 DEF Parts, After
<1> QED
  BY <1>2, <1>8 DEF u

\* The lengths, in the order of the file.
LEMMA Places ==
  ASSUME NEW p \in Program
  PROVE  /\ Len(Units(p)) \in Nat
         /\ Len(Before(p, "ENTR")) = 1 /\ Len(Before(p, "CNST")) = 3
         /\ \A F \in Parts :
              /\ Len(Before(p, F)) \in Nat /\ Len(Content(p, F)) \in Nat
              /\ Len(Before(p, After[F])) = Len(Before(p, F)) + 2 + Len(Content(p, F))
         /\ Len(Before(p, "END")) \in Nat
         /\ Len(Units(p)) = Len(Before(p, "END")) + 1
         /\ Units(p)[1] = <<"tag", "dvm@">>
         /\ Units(p)[2] = <<"tag", "ENTR">> /\ Units(p)[3] = <<"u32", p.entry>>
<1>1. Len(Before(p, "ENTR")) = 1
  BY TagUnits DEF Before, ToENTR, Tags
<1>2. Before(p, "CNST") = ToCNST(p) /\ Starts(Before(p, "CNST"), Units(p))
  BY Layout DEF Before, Parts
<1>3. Len(Before(p, "CNST")) = 3
  BY <1>2, Beginning
<1>4. ASSUME NEW F \in Parts
      PROVE  /\ Len(Before(p, F)) \in Nat /\ Len(Content(p, F)) \in Nat
             /\ Len(Before(p, After[F])) = Len(Before(p, F)) + 2 + Len(Content(p, F))
  <2>1. Before(p, F) \in Seq(Unit) /\ F \in Tags /\ Content(p, F) \in Seq(Items)
    BY BeforeUnits, ContentItems DEF Tags
  <2> QED
    BY <2>1, NextPart, PartAdded, LenProperties
<1>5. Len(Before(p, "END")) \in Nat
  BY BeforeUnits, LenProperties
<1>6. Len(Units(p)) \in Nat /\ Len(Units(p)) = Len(Before(p, "END")) + 1
  BY UnitsEnd, LenProperties
<1>7. \A i \in 1..3 : Units(p)[i] = ToCNST(p)[i]
  BY <1>2, <1>3 DEF Starts
<1> QED
  BY <1>1, <1>3, <1>4, <1>5, <1>6, <1>7, Beginning

-----------------------------------------------------------------------------
(* What dvm_read makes of a file that was cut *)

LEMMA Cut ==
  ASSUME NEW u \in Seq(Unit), NEW n \in 0..Len(u)
  PROVE  /\ SubSeq(u, 1, n) \in Seq(Unit)
         /\ Len(SubSeq(u, 1, n)) = n
         /\ \A i \in 1..n : SubSeq(u, 1, n)[i] = u[i]
<1>1. Len(u) \in Nat /\ n \in Int /\ 1 \in Int /\ \A i \in 1..n : u[i] \in Unit
  BY LenProperties, ElementOfSeq
<1>2. /\ SubSeq(u, 1, n) \in Seq(Unit)
      /\ Len(SubSeq(u, 1, n)) = IF 1 <= n THEN n - 1 + 1 ELSE 0
      /\ \A i \in 1..(n - 1 + 1) : SubSeq(u, 1, n)[i] = u[1 + i - 1]
  BY <1>1, SubSeqProperties
<1> DEFINE x == SubSeq(u, 1, n)
<1>3. n \in Nat /\ 1..(n - 1 + 1) = 1..n /\ \A i \in 1..n : 1 + i - 1 = i
  BY <1>1
<1> HIDE DEF x
<1>4. Len(SubSeq(u, 1, n)) = n
  BY <1>2, <1>3
<1> QED
  BY <1>2, <1>3, <1>4

\* A number read is the length of the part, and so much after it is the part.
LEMMA ReadBack ==
  ASSUME NEW g \in Seq(Unit), NEW m \in Nat, NEW c \in Seq(Items), NEW t, Lies(g, m, t, c),
         m + 2 + Len(c) <= Len(g)
  PROVE  /\ g[m + 2][2] = Len(c)
         /\ SubSeq(g, m + 3, m + 2 + Len(c)) = c
<1>1. g[m + 2][2] = Len(c)
  BY DEF Lies
<1> DEFINE k == Len(c)
           a == m + 3
           z == m + 2 + k
           x == SubSeq(g, a, z)
<1>2. k \in Nat /\ Len(g) \in Nat /\ a \in Int /\ z \in Int /\ \A i \in a..z : g[i] \in Unit
  BY LenProperties, ElementOfSeq
<1>3. /\ a = m + 3 /\ z = m + 2 + k
      /\ \A i \in 1..k : g[m + 2 + i] = c[i]
  BY DEF Lies
<1> HIDE DEF a, z, k
<1>4. /\ x \in Seq(Unit)
      /\ Len(x) = IF a <= z THEN z - a + 1 ELSE 0
      /\ \A i \in 1..(z - a + 1) : x[i] = g[a + i - 1]
  BY <1>2, SubSeqProperties
<1> HIDE DEF x
<1>5. z - a + 1 = k /\ (~(a <= z) => k = 0) /\ \A i \in 1..k : a + i - 1 = m + 2 + i
  BY <1>2, <1>3
<1>6. Len(x) = Len(c) /\ \A i \in 1..Len(x) : x[i] = c[i]
  BY <1>3, <1>4, <1>5 DEF k
<1>7. x = c
  BY <1>4, <1>6, ItemUnits, SeqEqual
<1> QED
  BY <1>1, <1>7 DEF x, a, z, k

-----------------------------------------------------------------------------
(* The inductive invariant *)

Typed ==
  /\ disk = [f \in Files |-> disk[f]]
  /\ latest \in [Files -> Program \cup {NULL}]
  /\ objs \in [Slots -> Program]

\* What is in a file: what dvm_write wrote of the last program, or none ever.
Written ==
  \A f \in Files :
    \/ latest[f] = NULL /\ disk[f] \in {<<>>, <<<<"text", 0>>>>}
    \/ latest[f] # NULL /\ \E n \in 0..Len(Units(latest[f])) : disk[f] = SubSeq(Units(latest[f]), 1, n)

\* Which steps each command has.
Steps ==
  /\ call = "none" => field = "none" /\ inputs = <<>> /\ pos = 0
  /\ field \in Reading => call \in {"link", "run", "dump"}
  /\ field \in {"link", "write", "free"} => call = "link"
  /\ field \in {"run", "dump"} => call = field
  /\ field = "magic" => pos = 0

\* The object o has what p has up to part F.
Partly(o, p, F) ==
  /\ F # "ENTR" => o.entry = p.entry
  /\ F \in {"DATA", "CODE", "SYMS", "RELS", "END"} => Contents(o, "CNST") = Contents(p, "CNST")
  /\ F \in {"CODE", "SYMS", "RELS", "END"} => Contents(o, "DATA") = Contents(p, "DATA")
  /\ F \in {"SYMS", "RELS", "END"} => Contents(o, "CODE") = Contents(p, "CODE")
  /\ F \in {"RELS", "END"} => o.SYMS = p.SYMS
  /\ F = "END" => o.RELS = p.RELS

Source == latest[inputs[slot]]

\* Past the magic number, the reader is where the writer was.
ReadSoFar ==
  field \in Reading \ {"magic"} =>
    /\ Source # NULL
    /\ pos = Len(Before(Source, field))
    /\ Partly(objs[slot], Source, field)

Empty(p) == \A s \in Sections : p.sec[s] = NULL

\* A pointer is NULL or has its buffer; objects not read yet, or freed, have none.
Memory ==
  /\ \A i \in Slots, s \in Sections : <<i, s>> \in heap <=> objs[i].sec[s] # NULL
  /\ field # "write" => Empty(objs[0])
  /\ \A i \in Slots \ {0} : i > Len(inputs) \/ i > slot => Empty(objs[i])
  /\ field = "magic" => Empty(objs[slot])
  /\ call = "link" /\ field = "end" => heap = {}

IInv == TypeOK /\ Typed /\ Written /\ Steps /\ ReadSoFar /\ AcceptedIsWhole /\ Memory

-----------------------------------------------------------------------------
(* Facts about a state in which the invariant holds *)

LEMMA ZeroProgram == Zero \in Program /\ Empty(Zero)
BY DEF Zero, Program, Empty

LEMMA CutUnits ==
  ASSUME NEW p \in Program, NEW n \in 0..Len(Units(p))
  PROVE  SubSeq(Units(p), 1, n) \in Seq(Unit)
BY UnitsEnd, Cut

LEMMA FileUnits ==
  ASSUME IInv, NEW f \in Files
  PROVE  disk[f] \in Seq(Unit)
<1>1. CASE latest[f] = NULL
  <2>1. disk[f] = <<>> \/ disk[f] = <<<<"text", 0>>>>
    BY <1>1 DEF IInv, Written
  <2>2. <<>> \in Seq(Unit) /\ \A x \in Unit : <<x>> \in Seq(Unit)
    OBVIOUS
  <2>3. <<"text", 0>> \in Unit
    BY DEF Unit
  <2>4. <<<<"text", 0>>>> \in Seq(Unit)
    BY <2>2, <2>3, Zenon
  <2> QED
    BY <2>1, <2>2, <2>4, Zenon
<1>2. CASE latest[f] # NULL
  <2>1. latest[f] \in Program
    BY <1>2 DEF IInv, Typed
  <2>2. PICK n \in 0..Len(Units(latest[f])) : disk[f] = SubSeq(Units(latest[f]), 1, n)
    BY <1>2 DEF IInv, Written
  <2> QED
    BY <2>1, <2>2, CutUnits
<1> QED
  BY <1>1, <1>2

\* What is being read, and the slot it goes to.
LEMMA AtFile ==
  ASSUME IInv, field \in Reading
  PROVE  /\ slot \in 1..Len(inputs) /\ slot \in 1..MaxObjs /\ slot \in Slots
         /\ inputs[slot] \in Files
         /\ Len(inputs) \in Nat /\ Len(inputs) <= MaxObjs
         /\ pos \in Nat /\ pos <= Len(File)
         /\ File \in Seq(Unit) /\ Len(File) \in Nat
         /\ objs[slot] \in Program
         /\ call \in {"link", "run", "dump"}
         /\ field \notin {"write", "end", "none", "run", "dump", "link", "free"}
<1>1. field \in DOMAIN After \cup {"END"}
  BY DEF Reading, After
<1>2. /\ slot \in DOMAIN inputs /\ inputs \in Seq(Files) /\ Len(inputs) <= MaxObjs
      /\ pos \in Nat /\ pos <= Len(File)
  BY <1>1 DEF IInv, TypeOK
<1>3. Len(inputs) \in Nat /\ slot \in 1..Len(inputs)
  BY <1>2, LenProperties
<1>4. inputs[slot] \in Files
  BY <1>2, <1>3, ElementOfSeq
<1>5. slot \in 1..MaxObjs /\ slot \in Slots
  BY <1>2, <1>3, ConstantsAssumption DEF Slots
<1>6. objs[slot] \in Program
  BY <1>5 DEF IInv, Typed
<1>7. File \in Seq(Unit)
  BY <1>4, FileUnits DEF File
<1>8. Len(File) \in Nat
  BY <1>7, LenProperties
<1>9. call \in {"link", "run", "dump"}
  BY DEF IInv, Steps
<1> QED
  BY <1>2, <1>3, <1>4, <1>5, <1>6, <1>7, <1>8, <1>9 DEF Reading

\* The file of a program that was written is a beginning of it.
LEMMA AtSource ==
  ASSUME IInv, field \in Reading, Source # NULL
  PROVE  /\ Source \in Program
         /\ Len(File) \in 0..Len(Units(Source))
         /\ File = SubSeq(Units(Source), 1, Len(File))
         /\ \A i \in 1..Len(File) : File[i] = Units(Source)[i]
<1>1. inputs[slot] \in Files
  BY AtFile
<1>2. Source \in Program
  BY <1>1 DEF IInv, Typed, Source
<1>3. PICK n \in 0..Len(Units(Source)) : File = SubSeq(Units(Source), 1, n)
  BY <1>1 DEF IInv, Written, Source, File
<1>4. Units(Source) \in Seq(Unit)
  BY <1>2, UnitsEnd
<1>5. /\ Len(SubSeq(Units(Source), 1, n)) = n
      /\ \A i \in 1..n : SubSeq(Units(Source), 1, n)[i] = Units(Source)[i]
  BY <1>4, Cut
<1>6. Len(File) = n
  BY <1>3, <1>5
<1> QED
  BY <1>2, <1>3, <1>5, <1>6

\* A part that is there in full is read as it was written.
LEMMA PartRead ==
  ASSUME IInv, NEW F \in Parts, field = F, HasPart(F)
  PROVE  /\ Source # NULL /\ Source \in Program
         /\ Value = Len(Content(Source, F)) /\ Value \in Nat
         /\ Entries = Content(Source, F) /\ Entries \in Seq(Items)
         /\ pos + (2 + Value) = Len(Before(Source, After[F]))
         /\ pos + (2 + Value) <= Len(File)
<1> DEFINE p == Source
           c == Content(Source, F)
           k == Len(Content(Source, F))
           g == File
<1>1. /\ F \in Reading /\ field \in Reading \ {"magic"} /\ F \in Tags
  BY DEF Parts, Reading, Tags
<1>2. p # NULL /\ pos = Len(Before(p, F))
  BY <1>1 DEF IInv, ReadSoFar
<1>3. pos \in Nat /\ g \in Seq(Unit) /\ Len(g) \in Nat
  BY <1>1, AtFile
<1>4. /\ p \in Program /\ Len(g) <= Len(Units(p))
      /\ \A i \in 1..Len(g) : g[i] = Units(p)[i]
  BY <1>1, <1>2, AtSource
<1>5. c \in Seq(Items) /\ k \in Nat /\ Len(Before(p, After[F])) = pos + 2 + k
  BY <1>2, <1>4, ContentItems, Places
<1>6. Lies(Units(p), pos, F, c)
  BY <1>2, <1>4, Layout
<1>7. pos + 2 <= Len(g) /\ pos + (2 + Value) <= Len(g)
  BY DEF HasPart, Has
<1> HIDE DEF p, c, g
<1>8. g[pos + 2] = Units(p)[pos + 2] /\ Units(p)[pos + 2] = <<"u32", Len(c)>>
  BY <1>3, <1>4, <1>6, <1>7 DEF Lies
<1>9. Value = k
  BY <1>8 DEF Value, g, c
<1>10. pos + 2 + Len(c) <= Len(g) /\ Len(c) \in Nat
  BY <1>3, <1>5, <1>7, <1>9 DEF c
<1>11. Lies(g, pos, F, c)
  <2>1. /\ pos + 1 \in 1..Len(g) /\ pos + 2 \in 1..Len(g)
        /\ \A i \in 1..Len(c) : pos + 2 + i \in 1..Len(g)
    BY <1>3, <1>10
  <2>2. /\ Units(p)[pos + 1] = <<"tag", F>> /\ Units(p)[pos + 2] = <<"u32", Len(c)>>
        /\ \A i \in 1..Len(c) : Units(p)[pos + 2 + i] = c[i]
    BY <1>6 DEF Lies
  <2>3. /\ g[pos + 1] = <<"tag", F>> /\ g[pos + 2] = <<"u32", Len(c)>>
        /\ \A i \in 1..Len(c) : g[pos + 2 + i] = c[i]
    BY <1>4, <2>1, <2>2
  <2> QED
    BY <2>3 DEF Lies
<1>12. SubSeq(g, pos + 3, pos + 2 + Len(c)) = c
  BY <1>3, <1>5, <1>10, <1>11, ReadBack
<1>13. Entries = c
  BY <1>9, <1>12 DEF Entries, g, c
<1>14. pos + (2 + Value) = Len(Before(p, After[F]))
  BY <1>3, <1>5, <1>9
<1> QED
  BY <1>2, <1>4, <1>5, <1>7, <1>9, <1>13, <1>14 DEF p, c, g

-----------------------------------------------------------------------------
(* Steps *)

LEMMA FilesKept ==
  ASSUME IInv, UNCHANGED files
  PROVE  Written' /\ latest' \in [Files -> Program \cup {NULL}] /\ disk' = [f \in Files |-> disk'[f]]
BY DEF IInv, Written, Typed, files

\* A command that is not reading, and has not read, has nothing to say of that.
LEMMA NotReading ==
  ASSUME field' \in {"write", "free", "end", "none"}
  PROVE  ReadSoFar' /\ AcceptedIsWhole'
BY DEF ReadSoFar, AcceptedIsWhole, Reading, After

LEMMA WrittenFile ==
  ASSUME IInv, NEW f \in Files, NEW p \in Program, WriteFile(f, p)
  PROVE  /\ Written' /\ latest' \in [Files -> Program \cup {NULL}] /\ disk' = [g \in Files |-> disk'[g]]
         /\ ok' \in BOOLEAN
<1>1. CASE ok' = FALSE /\ UNCHANGED files
  BY <1>1, FilesKept
<1>2. CASE \E n \in 0..Len(Units(p)) :
             /\ disk' = [disk EXCEPT ![f] = SubSeq(Units(p), 1, n)]
             /\ latest' = [latest EXCEPT ![f] = p]
             /\ ok' \in (IF n = Len(Units(p)) THEN {TRUE} ELSE BOOLEAN)
  <2>1. PICK n \in 0..Len(Units(p)) :
             /\ disk' = [disk EXCEPT ![f] = SubSeq(Units(p), 1, n)]
             /\ latest' = [latest EXCEPT ![f] = p]
             /\ ok' \in (IF n = Len(Units(p)) THEN {TRUE} ELSE BOOLEAN)
    BY <1>2
  <2>2. ok' \in BOOLEAN
    <3>1. CASE n = Len(Units(p))
      BY <2>1, <3>1, Zenon
    <3>2. CASE n # Len(Units(p))
      BY <2>1, <3>2, Zenon
    <3> QED
      BY <3>1, <3>2
  <2>3. latest' \in [Files -> Program \cup {NULL}]
    BY <2>1 DEF IInv, Typed
  <2>4. p # NULL
    BY ConstantsAssumption
  <2>5. ASSUME NEW g \in Files
        PROVE  \/ latest'[g] = NULL /\ disk'[g] \in {<<>>, <<<<"text", 0>>>>}
               \/ /\ latest'[g] # NULL
                  /\ \E m \in 0..Len(Units(latest'[g])) : disk'[g] = SubSeq(Units(latest'[g]), 1, m)
    <3>1. CASE g = f
      <4>1. latest'[f] = p /\ disk'[f] = SubSeq(Units(p), 1, n)
        BY <2>1 DEF IInv, Typed
      <4> QED
        BY <2>4, <3>1, <4>1
    <3>2. CASE g # f
      <4>1. latest'[g] = latest[g] /\ disk'[g] = disk[g]
        BY <2>1, <3>2 DEF IInv, Typed, TypeOK
      <4> QED
        BY <4>1 DEF IInv, Written
    <3> QED
      BY <3>1, <3>2
  <2>6. disk' = [g \in Files |-> disk'[g]]
    BY <2>1 DEF IInv, Typed
  <2> QED
    BY <2>2, <2>3, <2>5, <2>6 DEF Written
<1> QED
  BY <1>1, <1>2 DEF WriteFile

\* A part cannot be read: what was allocated stays for dvm_prog_free.
LEMMA FailStep ==
  ASSUME IInv, field \in Reading, Fail, objs' \in [Slots -> Program],
         \A i \in Slots, s \in Sections : objs'[i].sec[s] = objs[i].sec[s]
  PROVE  IInv'
<1>1. /\ slot \in 1..Len(inputs) /\ Len(inputs) \in Nat /\ Len(inputs) <= MaxObjs
      /\ call \in {"link", "run", "dump"} /\ field # "write"
  BY AtFile
<1>2. /\ UNCHANGED <<files, call, inputs, slot, pos, heap>> /\ ok' = FALSE
      /\ field' \in {"free", "end"} /\ (call = "link" => field' = "free")
      /\ (field' = "free" => call = "link")
  BY <1>1 DEF Fail
<1>3. TypeOK'
  BY <1>2 DEF IInv, TypeOK, After
<1>4. Written' /\ Typed'
  BY <1>2, FilesKept DEF Typed
<1>5. Steps'
  BY <1>1, <1>2 DEF Steps, Reading
<1>6. ReadSoFar' /\ AcceptedIsWhole'
  BY <1>2, NotReading
<1>7. Memory'
  <2>1. \A i \in Slots : Empty(objs[i]) => Empty(objs'[i])
    BY DEF Empty
  <2>2. 0 \in Slots
    BY ConstantsAssumption DEF Slots
  <2> QED
    BY <1>1, <1>2, <2>1, <2>2 DEF IInv, Memory
<1> QED
  BY <1>3, <1>4, <1>5, <1>6, <1>7 DEF IInv

\* A part is read into object o: on to the next part.
LEMMA PartStep ==
  ASSUME IInv, field \in Reading \ {"END"}, NEW n \in Nat, Advance(n), pos + n <= Len(File),
         NEW o \in Program, objs' = [objs EXCEPT ![slot] = o],
         Source # NULL, pos + n = Len(Before(Source, After[field])),
         Partly(o, Source, After[field]),
         heap' \subseteq Slots \X Sections,
         \A s \in Sections : <<slot, s>> \in heap' <=> o.sec[s] # NULL,
         \A i \in Slots \ {slot}, s \in Sections : <<i, s>> \in heap' <=> <<i, s>> \in heap
  PROVE  IInv'
<1>1. /\ slot \in 1..Len(inputs) /\ slot \in Slots \ {0} /\ pos \in Nat
      /\ Len(inputs) \in Nat /\ call \in {"link", "run", "dump"} /\ field # "write"
  BY AtFile
<1>2. /\ disk' = disk /\ latest' = latest /\ call' = call /\ inputs' = inputs /\ slot' = slot
      /\ ok' = ok /\ pos' = pos + n /\ field' = After[field]
  BY DEF Advance, files
<1>3. field' \in Reading \ {"magic"} /\ field \in DOMAIN After
  BY <1>2 DEF Reading, After
<1>4. File' = File /\ Source' = Source
  BY <1>2 DEF File, Source
<1>5. /\ objs' \in [Slots -> Program] /\ objs'[slot] = o
      /\ \A i \in Slots \ {slot} : objs'[i] = objs[i]
  BY <1>1 DEF IInv, Typed
<1>6. TypeOK'
  <2>1. field' \in DOMAIN After \cup {"END"}
    BY <1>3 DEF Reading, After
  <2>2. pos' \in Nat /\ pos' <= Len(File')
    BY <1>1, <1>2, <1>4
  <2>3. slot \in DOMAIN inputs
    BY <1>3 DEF IInv, TypeOK
  <2> QED
    BY <1>2, <2>1, <2>2, <2>3 DEF IInv, TypeOK
<1>7. Written' /\ Typed'
  BY <1>2, <1>5, FilesKept DEF Typed, files
<1>8. Steps'
  BY <1>1, <1>2, <1>3 DEF Steps, Reading
<1>9. ReadSoFar'
  <2>1. pos' = Len(Before(Source', field')) /\ Source' # NULL
    BY <1>2, <1>4
  <2>2. Partly(objs'[slot'], Source', field')
    BY <1>2, <1>4, <1>5
  <2> QED
    BY <2>1, <2>2 DEF ReadSoFar
<1>10. AcceptedIsWhole'
  <2>1. \A i \in 1..(slot - 1) :
          /\ latest[inputs[i]] # NULL /\ Same(objs[i], latest[inputs[i]])
          /\ disk[inputs[i]] = Units(latest[inputs[i]])
    BY <1>3 DEF IInv, AcceptedIsWhole
  <2>2. \A i \in 1..(slot - 1) : i \in Slots \ {slot}
    BY <1>1, ConstantsAssumption DEF Slots
  <2>3. \A i \in 1..(slot - 1) : objs'[i] = objs[i]
    BY <1>5, <2>2
  <2> QED
    BY <1>2, <2>1, <2>3 DEF AcceptedIsWhole
<1>11. Memory'
  <2>1. \A i \in Slots, s \in Sections : <<i, s>> \in heap' <=> objs'[i].sec[s] # NULL
    BY <1>5 DEF IInv, Memory
  <2>2. 0 \in Slots \ {slot} /\ objs'[0] = objs[0]
    BY <1>1, <1>5, ConstantsAssumption DEF Slots
  <2>3. \A i \in Slots \ {0} : i > Len(inputs) \/ i > slot => i \in Slots \ {slot}
    BY <1>1, ConstantsAssumption DEF Slots
  <2>4. Empty(objs'[0])
    BY <1>1, <2>2 DEF IInv, Memory
  <2>5. \A i \in Slots \ {0} : i > Len(inputs) \/ i > slot => Empty(objs'[i])
    BY <1>5, <2>3 DEF IInv, Memory
  <2>6. field' # "magic" /\ field' # "end"
    BY <1>3 DEF Reading
  <2> QED
    BY <1>2, <2>1, <2>4, <2>5, <2>6 DEF Memory
<1> QED
  BY <1>6, <1>7, <1>8, <1>9, <1>10, <1>11 DEF IInv

LEMMA ReadMagicStep == ASSUME IInv, ReadMagic PROVE IInv'
<1>1. field = "magic" /\ field \in Reading
  BY DEF ReadMagic, Reading
<1>2. slot \in Slots /\ pos = 0 /\ Empty(objs[slot]) /\ inputs[slot] \in Files
  BY <1>1, AtFile DEF IInv, Memory, Steps
<1>3. objs' = [objs EXCEPT ![slot] = Zero]
  BY DEF ReadMagic
<1>4. CASE Fail
  <2>1. objs' \in [Slots -> Program]
    BY <1>3, ZeroProgram DEF IInv, Typed
  <2>2. \A i \in Slots, s \in Sections : objs'[i].sec[s] = objs[i].sec[s]
    BY <1>2, <1>3, ZeroProgram DEF IInv, Typed, Empty
  <2> QED
    BY <1>1, <1>4, <2>1, <2>2, FailStep
<1>5. CASE Expect("dvm@") /\ Advance(1) /\ heap' = heap
  <2>1. pos + 1 <= Len(File) /\ File[1] = <<"tag", "dvm@">>
    BY <1>2, <1>5 DEF Expect, Has
  <2>2. Len(File) # 0 /\ File # <<<<"text", 0>>>>
    BY <1>2, <2>1
  <2>3. Source # NULL
    <3>1. ASSUME latest[inputs[slot]] = NULL PROVE FALSE
      <4>1. File = <<>> \/ File = <<<<"text", 0>>>>
        BY <1>2, <3>1 DEF IInv, Written, File
      <4> QED
        BY <2>2, <4>1
    <3> QED
      BY <3>1 DEF Source
  <2>4. Source \in Program
    BY <1>1, <2>3, AtSource
  <2>5. After[field] = "ENTR" /\ Len(Before(Source, "ENTR")) = 1
    BY <1>1, <2>4, Places DEF After
  <2>6. Partly(Zero, Source, "ENTR")
    BY DEF Partly
  <2>7. /\ \A s \in Sections : <<slot, s>> \in heap' <=> Zero.sec[s] # NULL
        /\ \A i \in Slots \ {slot}, s \in Sections : <<i, s>> \in heap' <=> <<i, s>> \in heap
        /\ heap' \subseteq Slots \X Sections
    BY <1>2, <1>5, ZeroProgram DEF IInv, Memory, Empty, TypeOK
  <2>8. field \in Reading \ {"END"} /\ pos + 1 = 1 /\ 1 \in Nat
    BY <1>1, <1>2
  <2> QED
    BY <1>3, <1>5, <2>1, <2>3, <2>5, <2>6, <2>7, <2>8, ZeroProgram, PartStep
<1> QED
  BY <1>4, <1>5 DEF ReadMagic

LEMMA ReadEntryStep == ASSUME IInv, ReadEntry PROVE IInv'
<1>1. field = "ENTR" /\ field \in Reading \ {"END", "magic"} /\ field \in Reading
  BY DEF ReadEntry, Reading
<1>2. slot \in Slots /\ objs[slot] \in Program
  BY <1>1, AtFile
<1>3. Source # NULL /\ pos = Len(Before(Source, "ENTR"))
  BY <1>1 DEF IInv, ReadSoFar
<1>4. /\ Source \in Program /\ Len(File) \in Nat
      /\ \A i \in 1..Len(File) : File[i] = Units(Source)[i]
  BY <1>1, <1>3, AtSource, AtFile
<1>5. CASE Fail /\ objs' = objs
  BY <1>1, <1>5, FailStep DEF IInv, Typed
<1>6. CASE Has(2) /\ objs' = [objs EXCEPT ![slot].entry = Value] /\ Advance(2) /\ heap' = heap
  <2> DEFINE o == [objs[slot] EXCEPT !.entry = Value]
  <2>1. pos = 1 /\ pos + 2 <= Len(File) /\ pos + 2 = 3
    <3>1. Len(Before(Source, "ENTR")) = 1
      BY <1>4, Places
    <3>2. pos = 1
      BY <1>3, <3>1
    <3> QED
      BY <1>6, <3>2 DEF Has
  <2>2. File[3] = <<"u32", Source.entry>>
    BY <1>4, <2>1, Places
  <2>3. Value = Source.entry /\ Value \in Nat
    BY <1>4, <2>1, <2>2, ProgramParts DEF Value
  <2>4. o \in Program /\ o.entry = Source.entry /\ o.sec = objs[slot].sec
    BY <1>2, <2>3 DEF Program
  <2>5. objs' = [objs EXCEPT ![slot] = o]
    BY <1>2, <1>6 DEF IInv, Typed
  <2> HIDE DEF o
  <2>6. After[field] = "CNST" /\ pos + 2 = Len(Before(Source, "CNST"))
    BY <1>1, <1>4, <2>1, Places DEF After
  <2>7. Partly(o, Source, "CNST")
    BY <2>4 DEF Partly
  <2>8. /\ \A s \in Sections : <<slot, s>> \in heap' <=> o.sec[s] # NULL
        /\ \A i \in Slots \ {slot}, s \in Sections : <<i, s>> \in heap' <=> <<i, s>> \in heap
        /\ heap' \subseteq Slots \X Sections
    BY <1>2, <1>6, <2>4 DEF IInv, Memory, TypeOK
  <2>9. 2 \in Nat /\ Advance(2) /\ field \in Reading \ {"END"}
    BY <1>1, <1>6
  <2> QED
    BY <1>3, <2>1, <2>4, <2>5, <2>6, <2>7, <2>8, <2>9, PartStep
<1> QED
  BY <1>5, <1>6 DEF ReadEntry

LEMMA ReadSectionStep == ASSUME IInv, NEW F \in Sections, ReadSection(F) PROVE IInv'
<1>1. field = F /\ F \in Parts /\ field \in Reading \ {"END", "magic"} /\ field \in Reading
  BY DEF ReadSection, Reading, Parts, Sections
<1>2. slot \in Slots /\ objs[slot] \in Program
  BY <1>1, AtFile
<1>3. CASE Fail /\ objs' = objs
  BY <1>1, <1>3, FailStep DEF IInv, Typed
<1>4. CASE /\ HasPart(F) /\ objs' = [objs EXCEPT ![slot].sec[F] = Entries]
           /\ heap' = heap \cup {<<slot, F>>} /\ Advance(2 + Value)
  <2> DEFINE o == [objs[slot] EXCEPT !.sec[F] = Entries]
             p == Source
  <2>1. /\ p # NULL /\ p \in Program /\ Value \in Nat /\ Entries = Content(p, F)
        /\ Entries \in Seq(Items)
        /\ pos + (2 + Value) = Len(Before(p, After[F])) /\ pos + (2 + Value) <= Len(File)
    BY <1>1, <1>4, PartRead
  <2>2. Content(p, F) = Contents(p, F)
    <3>1. F \in Sections /\ F # "SYMS" /\ F # "RELS"
      BY DEF Sections
    <3> QED
      BY <3>1 DEF Content
  <2>3. /\ o \in Program /\ o.entry = objs[slot].entry
        /\ o.sec = [objs[slot].sec EXCEPT ![F] = Entries]
    BY <1>2, <2>1 DEF Program
  <2>4. objs' = [objs EXCEPT ![slot] = o]
    BY <1>2, <1>4 DEF IInv, Typed
  <2> HIDE DEF o, p
  <2>5. /\ o.sec[F] = Entries /\ Entries # NULL
        /\ \A s \in Sections \ {F} : o.sec[s] = objs[slot].sec[s]
    BY <1>2, <2>1, <2>3, ConstantsAssumption DEF Program
  <2>6. Contents(o, F) = Contents(p, F)
    BY <2>1, <2>2, <2>5 DEF Contents
  <2>7. \A s \in Sections \ {F} : Contents(o, s) = Contents(objs[slot], s)
    BY <2>5 DEF Contents
  <2>8. Partly(objs[slot], p, F)
    BY <1>1 DEF IInv, ReadSoFar, p
  <2>9. Partly(o, p, After[F])
    <3>1. CASE F = "CNST"
      BY <3>1, <2>3, <2>6, <2>8 DEF Partly, After
    <3>2. CASE F = "DATA"
      BY <3>2, <2>3, <2>6, <2>7, <2>8 DEF Partly, After, Sections
    <3>3. CASE F = "CODE"
      BY <3>3, <2>3, <2>6, <2>7, <2>8 DEF Partly, After, Sections
    <3> QED
      BY <3>1, <3>2, <3>3 DEF Sections
  <2>10. /\ \A s \in Sections : <<slot, s>> \in heap' <=> o.sec[s] # NULL
         /\ \A i \in Slots \ {slot}, s \in Sections : <<i, s>> \in heap' <=> <<i, s>> \in heap
         /\ heap' \subseteq Slots \X Sections
    <3>1. heap' = heap \cup {<<slot, F>>}
      BY <1>4
    <3>2. \A s \in Sections : <<slot, s>> \in heap <=> objs[slot].sec[s] # NULL
      BY <1>2 DEF IInv, Memory
    <3>3. \A s \in Sections : <<slot, s>> \in heap' <=> o.sec[s] # NULL
      BY <3>1, <3>2, <2>5
    <3>4. heap' \subseteq Slots \X Sections
      BY <1>2, <3>1 DEF IInv, TypeOK
    <3> QED
      BY <3>1, <3>3, <3>4
  <2>11. 2 + Value \in Nat /\ Advance(2 + Value)
    BY <1>4, <2>1
  <2>12. After[field] = After[F]
    BY <1>1
  <2> QED
    BY <1>1, <2>1, <2>3, <2>4, <2>9, <2>10, <2>11, <2>12, PartStep DEF p
<1> QED
  BY <1>3, <1>4 DEF ReadSection

LEMMA ReadTableStep == ASSUME IInv, NEW F \in {"SYMS", "RELS"}, ReadTable(F) PROVE IInv'
<1>1. field = F /\ F \in Parts /\ field \in Reading \ {"END", "magic"} /\ field \in Reading
  BY DEF ReadTable, Reading, Parts
<1>2. slot \in Slots /\ objs[slot] \in Program
  BY <1>1, AtFile
<1>3. CASE Fail /\ objs' = objs
  BY <1>1, <1>3, FailStep DEF IInv, Typed
<1>4. CASE /\ HasPart(F) /\ objs' = [objs EXCEPT ![slot][F] = Entries]
           /\ Advance(2 + Value) /\ heap' = heap
  <2> DEFINE o == [objs[slot] EXCEPT ![F] = Entries]
             p == Source
  <2>1. /\ p # NULL /\ p \in Program /\ Value \in Nat /\ Entries = Content(p, F)
        /\ Entries \in Seq(Items)
        /\ pos + (2 + Value) = Len(Before(p, After[F])) /\ pos + (2 + Value) <= Len(File)
    BY <1>1, <1>4, PartRead
  <2>2. objs' = [objs EXCEPT ![slot] = o]
    BY <1>2, <1>4 DEF IInv, Typed
  <2>3. Partly(objs[slot], p, F)
    BY <1>1 DEF IInv, ReadSoFar, p
  <2> HIDE DEF p
  <2>4. o \in Program /\ o.sec = objs[slot].sec /\ Partly(o, p, After[F])
    <3>1. CASE F = "SYMS"
      <4>1. /\ o \in Program /\ o.sec = objs[slot].sec /\ o.entry = objs[slot].entry
            /\ o.SYMS = Entries
        BY <1>2, <2>1, <3>1 DEF Program
      <4>2. Entries = p.SYMS
        BY <2>1, <3>1 DEF Content, Sections
      <4> HIDE DEF o
      <4> QED
        BY <3>1, <4>1, <4>2, <2>3 DEF Partly, After, Contents
    <3>2. CASE F = "RELS"
      <4>1. /\ o \in Program /\ o.sec = objs[slot].sec /\ o.entry = objs[slot].entry
            /\ o.SYMS = objs[slot].SYMS /\ o.RELS = Entries
        BY <1>2, <2>1, <3>2 DEF Program
      <4>2. Entries = p.RELS
        BY <2>1, <3>2 DEF Content, Sections
      <4> HIDE DEF o
      <4> QED
        BY <3>2, <4>1, <4>2, <2>3 DEF Partly, After, Contents
    <3> QED
      BY <3>1, <3>2
  <2> HIDE DEF o
  <2>5. /\ \A s \in Sections : <<slot, s>> \in heap' <=> o.sec[s] # NULL
        /\ \A i \in Slots \ {slot}, s \in Sections : <<i, s>> \in heap' <=> <<i, s>> \in heap
        /\ heap' \subseteq Slots \X Sections
    BY <1>2, <1>4, <2>4 DEF IInv, Memory, TypeOK
  <2>6. 2 + Value \in Nat /\ Advance(2 + Value) /\ After[field] = After[F]
    BY <1>1, <1>4, <2>1
  <2> QED
    BY <1>1, <2>1, <2>2, <2>4, <2>5, <2>6, PartStep DEF p
<1> QED
  BY <1>3, <1>4 DEF ReadTable

\* The program is accepted: its end is there, so the file is whole.
LEMMA ReadEndStep == ASSUME IInv, ReadEnd PROVE IInv'
<1>1. field = "END" /\ field \in Reading /\ field \in Reading \ {"magic"}
  BY DEF ReadEnd, Reading
<1>2. /\ slot \in 1..Len(inputs) /\ slot \in Slots \ {0} /\ slot \in 1..MaxObjs
      /\ Len(inputs) \in Nat /\ Len(inputs) <= MaxObjs /\ MaxObjs \in Nat
      /\ call \in {"link", "run", "dump"} /\ inputs \in Seq(Files)
      /\ \A i \in 1..Len(inputs) : inputs[i] \in Files
  BY <1>1, AtFile, ElementOfSeq, ConstantsAssumption DEF IInv, TypeOK
<1>3. CASE Fail /\ objs' = objs
  BY <1>1, <1>3, FailStep DEF IInv, Typed
<1>4. CASE Expect("END") /\ Accept
  <2>1. /\ disk' = disk /\ latest' = latest /\ call' = call /\ inputs' = inputs /\ objs' = objs
        /\ heap' = heap /\ ok' = ok /\ slot' = slot + 1 /\ pos' = 0
        /\ field' = IF call = "link" /\ slot < Len(inputs) THEN "magic" ELSE call
    BY <1>4 DEF Accept, files
  <2>2. \/ field' = "magic" /\ call = "link" /\ slot + 1 \in 1..Len(inputs)
        \/ field' = call
    BY <1>2, <2>1
  <2>3. /\ Source # NULL /\ pos = Len(Before(Source, "END"))
        /\ Partly(objs[slot], Source, "END")
    BY <1>1 DEF IInv, ReadSoFar
  <2>4. disk[inputs[slot]] = Units(Source)
    <3>1. /\ Source \in Program /\ Len(File) \in 0..Len(Units(Source))
          /\ File = SubSeq(Units(Source), 1, Len(File))
      BY <1>1, <2>3, AtSource
    <3>2. pos + 1 <= Len(File) /\ pos \in Nat
      BY <1>1, <1>4, AtFile DEF Expect, Has
    <3>3. Len(Units(Source)) = pos + 1 /\ Len(Units(Source)) \in Nat
      BY <2>3, <3>1, Places
    <3>4. Len(File) = Len(Units(Source))
      <4>1. Len(File) \in 0..Len(Units(Source))
        BY <3>1
      <4> QED
        BY <3>2, <3>3, <4>1
    <3>5. Units(Source) \in Seq(Unit)
      BY <3>1, UnitsEnd
    <3>6. SubSeq(Units(Source), 1, Len(Units(Source))) = Units(Source)
      <4> DEFINE u == Units(Source)
                 n == Len(u)
                 x == SubSeq(u, 1, n)
      <4>1. u \in Seq(Unit) /\ n \in 0..n /\ n = Len(u)
        BY <3>3, <3>5
      <4>2. x \in Seq(Unit) /\ Len(x) = n /\ \A i \in 1..n : x[i] = u[i]
        BY <4>1, Cut
      <4> HIDE DEF x, u, n
      <4>3. x = u
        BY <4>1, <4>2, SeqEqual
      <4> QED
        BY <4>3 DEF x, u, n
    <3> QED
      BY <3>1, <3>4, <3>6 DEF File
  <2>5. Same(objs[slot], Source)
    BY <2>3 DEF Same, Partly, Sections
  <2>6. TypeOK'
    <3>1. field' \in {"magic", "link", "run", "dump"} /\ slot' \in 0..(MaxObjs + 1)
      BY <1>2, <2>1, <2>2
    <3>2. ASSUME field' \in DOMAIN After \cup {"END"}
          PROVE  slot' \in DOMAIN inputs' /\ pos' <= Len(File')
      <4>1. slot + 1 \in 1..Len(inputs)
        BY <1>2, <2>2, <3>2 DEF After
      <4>2. inputs[slot + 1] \in Files
        BY <1>2, <4>1
      <4>3. disk[inputs[slot + 1]] \in Seq(Unit)
        BY <4>2, FileUnits
      <4>4. Len(disk[inputs[slot + 1]]) \in Nat
        BY <4>3, LenProperties
      <4>5. File' = disk[inputs[slot + 1]]
        BY <2>1 DEF File
      <4>6. DOMAIN inputs = 1..Len(inputs)
        BY <1>2, LenProperties
      <4> QED
        BY <2>1, <4>1, <4>4, <4>5, <4>6
    <3> QED
      BY <2>1, <3>1, <3>2 DEF IInv, TypeOK, After
  <2>7. Written' /\ Typed'
    BY <2>1, FilesKept DEF IInv, Typed, files
  <2>8. Steps'
    BY <1>2, <2>1, <2>2 DEF Steps, Reading
  <2>9. ReadSoFar'
    BY <1>2, <2>2 DEF ReadSoFar, Reading
  <2>10. AcceptedIsWhole'
    <3>1. \A i \in 1..(slot - 1) :
          /\ latest[inputs[i]] # NULL /\ Same(objs[i], latest[inputs[i]])
          /\ disk[inputs[i]] = Units(latest[inputs[i]])
      BY <1>1 DEF IInv, AcceptedIsWhole
    <3>2. /\ latest[inputs[slot]] # NULL /\ Same(objs[slot], latest[inputs[slot]])
          /\ disk[inputs[slot]] = Units(latest[inputs[slot]])
      BY <2>3, <2>4, <2>5 DEF Source
    <3>3. \A i \in 1..(slot + 1 - 1) : i \in 1..(slot - 1) \/ i = slot
      BY <1>2
    <3>4. \A i \in 1..(slot + 1 - 1) :
          /\ latest[inputs[i]] # NULL /\ Same(objs[i], latest[inputs[i]])
          /\ disk[inputs[i]] = Units(latest[inputs[i]])
      BY <3>1, <3>2, <3>3
    <3>5. ASSUME NEW i \in 1..(slot + 1 - 1)
          PROVE  /\ latest'[inputs'[i]] # NULL /\ Same(objs'[i], latest'[inputs'[i]])
                 /\ disk'[inputs'[i]] = Units(latest'[inputs'[i]])
      <4>1. /\ latest[inputs[i]] # NULL /\ Same(objs[i], latest[inputs[i]])
            /\ disk[inputs[i]] = Units(latest[inputs[i]])
        BY <3>4
      <4>2. objs' = objs /\ latest' = latest /\ inputs' = inputs /\ disk' = disk
        BY <2>1
      <4>3. Same(objs'[i], latest'[inputs'[i]])
        BY <4>1, <4>2 DEF Same, Contents
      <4> QED
        BY <4>1, <4>2, <4>3
    <3>6. 1..(slot' - 1) = 1..(slot + 1 - 1)
      <4>1. slot' = slot + 1 /\ slot \in Int
        BY <1>2, <2>1
      <4>2. slot' - 1 = slot + 1 - 1
        BY <4>1
      <4> QED
        BY <4>2
    <3> QED
      BY <3>5, <3>6 DEF AcceptedIsWhole
  <2>11. Memory'
    <3>1. \A i \in Slots \ {0} : i > slot + 1 => i > slot
      BY <1>2, ConstantsAssumption DEF Slots
    <3>2. Empty(objs[0]) /\ \A i \in Slots \ {0} : i > Len(inputs) \/ i > slot => Empty(objs[i])
      BY <1>1 DEF IInv, Memory
    <3>3. field' = "magic" => Empty(objs[slot + 1])
      <4>1. field' = "magic" => slot + 1 \in Slots \ {0} /\ slot + 1 > slot
        BY <1>2, <2>2 DEF Slots
      <4> QED
        BY <3>2, <4>1
    <3>4. \A i \in Slots, s \in Sections : <<i, s>> \in heap <=> objs[i].sec[s] # NULL
      BY DEF IInv, Memory
    <3>5. field' # "end"
      BY <1>2, <2>2
    <3>6. \A i \in Slots \ {0} : i > Len(inputs) \/ i > slot + 1 => Empty(objs[i])
      BY <3>1, <3>2
    <3> QED
      BY <2>1, <3>2, <3>3, <3>4, <3>5, <3>6 DEF Memory
  <2> QED
    BY <2>6, <2>7, <2>8, <2>9, <2>10, <2>11 DEF IInv
<1> QED
  BY <1>3, <1>4 DEF ReadEnd

LEMMA Idle ==
  ASSUME IInv, call = "none"
  PROVE  inputs = <<>> /\ pos = 0 /\ field = "none" /\ \A i \in Slots : Empty(objs[i])
<1>1. inputs = <<>> /\ pos = 0 /\ field = "none"
  BY DEF IInv, Steps
<1>2. Len(inputs) = 0
  BY <1>1
<1>3. \A i \in Slots \ {0} : i > 0
  BY DEF Slots
<1> QED
  BY <1>1, <1>2, <1>3 DEF IInv, Memory

LEMMA BeginStep ==
  ASSUME IInv, NEW cmd, NEW in, NEW first, Begin(cmd, in, first),
         Written', latest' \in [Files -> Program \cup {NULL}], disk' = [f \in Files |-> disk'[f]],
         ok' \in BOOLEAN, in \in Seq(Files), Len(in) <= MaxObjs,
         \/ cmd = "asm" /\ first = "end"
         \/ cmd \in {"link", "run", "dump"} /\ first = "magic" /\ 1 <= Len(in) /\ disk' = disk
  PROVE  IInv'
<1>1. /\ call = "none" /\ call' = cmd /\ inputs' = in /\ slot' = 1 /\ field' = first
      /\ pos' = pos /\ objs' = objs /\ heap' = heap
  BY DEF Begin
<1>2. pos = 0 /\ \A i \in Slots : Empty(objs[i])
  BY <1>1, Idle
<1>3. Len(in) \in Nat /\ DOMAIN in = 1..Len(in) /\ 0 \in Slots /\ 1 \in Slots
  BY LenProperties, ConstantsAssumption DEF Slots
<1>4. TypeOK'
  <2>1. ASSUME first = "magic" PROVE 1 \in DOMAIN in /\ 0 <= Len(disk'[in[1]])
    <3>1. 1 \in DOMAIN in /\ 1 \in 1..Len(in) /\ disk' = disk
      BY <1>3, <2>1
    <3>2. in[1] \in Files
      BY <3>1, ElementOfSeq
    <3>3. disk[in[1]] \in Seq(Unit)
      BY <3>2, FileUnits
    <3>4. Len(disk[in[1]]) \in Nat
      BY <3>3, LenProperties
    <3> QED
      BY <3>1, <3>4
  <2>2. File' = disk'[in[1]]
    BY <1>1 DEF File
  <2>3. heap' \subseteq Slots \X Sections /\ slot' \in 0..(MaxObjs + 1) /\ pos' \in Nat
    BY <1>1, <1>2, ConstantsAssumption DEF IInv, TypeOK
  <2>4. field' \in DOMAIN After \cup {"END"} =>
          slot' \in DOMAIN inputs' /\ pos' <= Len(File')
    BY <1>1, <1>2, <2>1, <2>2 DEF After
  <2>5. /\ call' \in {"none", "asm", "link", "run", "dump"}
        /\ field' \in DOMAIN After \cup {"END", "link", "write", "run", "dump", "free", "end", "none"}
    BY <1>1 DEF After
  <2> QED
    BY <1>1, <2>3, <2>4, <2>5 DEF TypeOK
<1>5. Typed' /\ Written'
  BY <1>1 DEF IInv, Typed
<1>6. Steps'
  BY <1>1, <1>2 DEF Steps, Reading
<1>7. ReadSoFar'
  BY <1>1 DEF ReadSoFar, Reading
<1>8. AcceptedIsWhole'
  <2>1. 1..(slot' - 1) = {}
    BY <1>1
  <2> QED
    BY <2>1 DEF AcceptedIsWhole
<1>9. Memory'
  BY <1>1, <1>2, <1>3 DEF IInv, Memory
<1> QED
  BY <1>4, <1>5, <1>6, <1>7, <1>8, <1>9 DEF IInv

LEMMA AsmStep == ASSUME IInv, NEW f \in Files, NEW p \in Progs, Asm(f, p) PROVE IInv'
<1>1. Begin("asm", <<>>, "end") /\ WriteFile(f, p) /\ p \in Program
  BY ConstantsAssumption DEF Asm
<1>2. /\ Written' /\ latest' \in [Files -> Program \cup {NULL}] /\ disk' = [g \in Files |-> disk'[g]]
      /\ ok' \in BOOLEAN
  BY <1>1, WrittenFile
<1>3. <<>> \in Seq(Files) /\ Len(<<>>) <= MaxObjs
  BY ConstantsAssumption
<1> QED
  BY <1>1, <1>2, <1>3, BeginStep

\* The commands that read start in the same way.
LEMMA ReaderStep ==
  ASSUME IInv, NEW cmd \in {"link", "run", "dump"}, NEW in, in \in Seq(Files),
         1 <= Len(in), Len(in) <= MaxObjs,
         Begin(cmd, in, "magic"), ok' = FALSE, UNCHANGED files
  PROVE  IInv'
<1>1. Written' /\ latest' \in [Files -> Program \cup {NULL}] /\ disk' = [f \in Files |-> disk'[f]]
  BY FilesKept
<1>2. disk' = disk /\ ok' \in BOOLEAN
  BY DEF files
<1> QED
  BY <1>1, <1>2, BeginStep

LEMMA OneFile == ASSUME NEW f \in Files PROVE <<f>> \in Seq(Files) /\ 1 <= Len(<<f>>) /\ Len(<<f>>) <= MaxObjs
BY ConstantsAssumption

LEMMA LinkStep == ASSUME IInv, Link PROVE IInv'
<1>1. /\ field = "link" /\ call = "link"
      /\ disk' = disk /\ latest' = latest /\ call' = call /\ inputs' = inputs /\ slot' = slot /\ pos' = pos
  BY DEF Link, files, IInv, Steps
<1>2. 0 \in Slots /\ Empty(objs[0])
  BY <1>1, ConstantsAssumption DEF Slots, IInv, Memory
<1>3. CASE field' = "free" /\ ok' = FALSE /\ objs' = objs /\ heap' = heap
  <2>1. TypeOK'
    BY <1>1, <1>3 DEF IInv, TypeOK, After
  <2>2. Written' /\ Typed'
    BY <1>1, <1>3, FilesKept DEF IInv, Typed, files
  <2>3. Steps' /\ Memory'
    BY <1>1, <1>3 DEF IInv, Steps, Memory, Reading
  <2> QED
    BY <1>3, <2>1, <2>2, <2>3, NotReading DEF IInv
<1>4. ASSUME NEW p \in Progs,
             objs' = [objs EXCEPT ![0] = [p EXCEPT !.sec =
                        [s \in Sections |-> IF Contents(p, s) = <<>> THEN NULL ELSE p.sec[s]]]],
             heap' = heap \cup {<<0, s>> : s \in {t \in Sections : Contents(p, t) # <<>>}},
             field' = "write", ok' = ok
      PROVE  IInv'
  <2> DEFINE x == [s \in Sections |-> IF Contents(p, s) = <<>> THEN NULL ELSE p.sec[s]]
             o == [p EXCEPT !.sec = x]
  <2>1. p \in Program
    BY ConstantsAssumption
  <2>2. x \in [Sections -> Seq(Items) \cup {NULL}]
    BY <2>1 DEF Program
  <2>3. \A s \in Sections : x[s] # NULL <=> Contents(p, s) # <<>>
    BY <2>1 DEF Contents, Program
  <2> HIDE DEF x
  <2>4. o \in Program /\ o.sec = x
    BY <2>1, <2>2 DEF Program
  <2>5. objs' = [objs EXCEPT ![0] = o]
    BY <1>4 DEF x
  <2> HIDE DEF o
  <2>6. objs' \in [Slots -> Program] /\ objs'[0] = o /\ \A i \in Slots \ {0} : objs'[i] = objs[i]
    BY <1>2, <2>4, <2>5 DEF IInv, Typed
  <2>7. heap' \subseteq Slots \X Sections
    BY <1>2, <1>4 DEF IInv, TypeOK
  <2>8. TypeOK'
    BY <1>1, <1>4, <2>7 DEF IInv, TypeOK, After
  <2>9. Written' /\ Typed'
    BY <1>1, <2>6, FilesKept DEF IInv, Typed, files
  <2>10. Steps'
    BY <1>1, <1>4 DEF Steps, Reading
  <2>11. Memory'
    <3>1. \A s \in Sections : <<0, s>> \in heap' <=> o.sec[s] # NULL
      <4>1. \A s \in Sections : <<0, s>> \notin heap
        BY <1>2 DEF IInv, Memory, Empty
      <4> QED
        BY <1>4, <2>3, <2>4, <4>1
    <3>2. \A i \in Slots \ {0}, s \in Sections : <<i, s>> \in heap' <=> <<i, s>> \in heap
      BY <1>4
    <3>3. \A i \in Slots, s \in Sections : <<i, s>> \in heap' <=> objs'[i].sec[s] # NULL
      BY <2>6, <3>1, <3>2 DEF IInv, Memory
    <3> QED
      BY <1>1, <1>4, <2>6, <3>3 DEF IInv, Memory
  <2> QED
    BY <1>4, <2>8, <2>9, <2>10, <2>11, NotReading DEF IInv
<1> QED
  BY <1>3, <1>4 DEF Link

LEMMA ClearedProgram ==
  ASSUME NEW p \in Program
  PROVE  Cleared(p) \in Program /\ Empty(Cleared(p))
BY DEF Cleared, Zero, Program, Empty

LEMMA BuffersOf ==
  ASSUME IInv, NEW i \in Slots
  PROVE  \A j, s : <<j, s>> \in Buffers(i) <=> j = i /\ s \in Sections /\ objs[i].sec[s] # NULL
BY DEF Buffers

LEMMA WriteLinkedStep == ASSUME IInv, NEW f \in Files, WriteLinked(f) PROVE IInv'
<1>1. /\ field = "write" /\ call = "link" /\ field' = "free" /\ WriteFile(f, objs[0])
      /\ call' = call /\ inputs' = inputs /\ slot' = slot /\ pos' = pos
      /\ heap' = heap \ Buffers(0) /\ objs' = [objs EXCEPT ![0] = Cleared(@)]
  BY DEF WriteLinked, IInv, Steps
<1>2. 0 \in Slots /\ objs[0] \in Program
  BY ConstantsAssumption DEF Slots, IInv, Typed
<1>3. /\ Written' /\ latest' \in [Files -> Program \cup {NULL}] /\ disk' = [g \in Files |-> disk'[g]]
      /\ ok' \in BOOLEAN
  BY <1>1, <1>2, WrittenFile
<1>4. /\ objs' \in [Slots -> Program] /\ Empty(objs'[0])
      /\ \A i \in Slots \ {0} : objs'[i] = objs[i]
  BY <1>1, <1>2, ClearedProgram DEF IInv, Typed
<1>5. TypeOK'
  BY <1>1, <1>3 DEF IInv, TypeOK, After
<1>6. Typed' /\ Steps'
  BY <1>1, <1>3, <1>4 DEF Typed, Steps, Reading
<1>7. Memory'
  <2>1. \A s \in Sections : <<0, s>> \in heap => <<0, s>> \in Buffers(0)
    BY <1>2, BuffersOf DEF IInv, Memory
  <2>2. \A i \in Slots \ {0}, s \in Sections : <<i, s>> \notin Buffers(0)
    BY <1>2, BuffersOf
  <2>3. \A i \in Slots, s \in Sections : <<i, s>> \in heap' <=> objs'[i].sec[s] # NULL
    BY <1>1, <1>4, <2>1, <2>2 DEF IInv, Memory, Empty
  <2> QED
    BY <1>1, <1>4, <2>3 DEF IInv, Memory
<1> QED
  BY <1>1, <1>3, <1>5, <1>6, <1>7, NotReading DEF IInv

LEMMA UseStep == ASSUME IInv, Use PROVE IInv'
<1>1. /\ field \in {"run", "dump"} /\ call = field /\ field' = "end"
      /\ disk' = disk /\ latest' = latest /\ call' = call /\ inputs' = inputs /\ slot' = slot /\ pos' = pos
      /\ heap' = heap \ Buffers(1) /\ objs' = [objs EXCEPT ![1] = Cleared(@)]
  BY DEF Use, IInv, Steps, files
<1>2. ok' \in BOOLEAN
  <2>1. ok' \in (IF call = "run" THEN BOOLEAN ELSE {TRUE})
    BY DEF Use
  <2>2. CASE call = "run"
    BY <2>1, <2>2, Zenon
  <2>3. CASE call # "run"
    BY <2>1, <2>3, Zenon
  <2> QED
    BY <2>2, <2>3
<1>3. 1 \in Slots \ {0} /\ 0 \in Slots \ {1} /\ objs[1] \in Program
  BY ConstantsAssumption DEF Slots, IInv, Typed
<1>4. /\ objs' \in [Slots -> Program] /\ Empty(objs'[1])
      /\ \A i \in Slots \ {1} : objs'[i] = objs[i]
  BY <1>1, <1>3, ClearedProgram DEF IInv, Typed
<1>5. TypeOK'
  BY <1>1, <1>2 DEF IInv, TypeOK, After
<1>6. Written' /\ Typed'
  BY <1>1, <1>4, FilesKept DEF IInv, Typed, files
<1>7. Steps'
  BY <1>1 DEF Steps, Reading
<1>8. Memory'
  <2>1. \A s \in Sections : <<1, s>> \in heap => <<1, s>> \in Buffers(1)
    BY <1>3, BuffersOf DEF IInv, Memory
  <2>2. \A i \in Slots \ {1}, s \in Sections : <<i, s>> \notin Buffers(1)
    BY <1>3, BuffersOf
  <2>3. \A i \in Slots, s \in Sections : <<i, s>> \in heap' <=> objs'[i].sec[s] # NULL
    BY <1>1, <1>4, <2>1, <2>2 DEF IInv, Memory, Empty
  <2> QED
    BY <1>1, <1>3, <1>4, <2>3 DEF IInv, Memory
<1> QED
  BY <1>1, <1>5, <1>6, <1>7, <1>8, NotReading DEF IInv

LEMMA FreeObjsStep == ASSUME IInv, FreeObjs PROVE IInv'
<1> DEFINE N == 1..Len(inputs)
<1>1. /\ field = "free" /\ call = "link" /\ field' = "end"
      /\ disk' = disk /\ latest' = latest /\ call' = call /\ inputs' = inputs /\ slot' = slot
      /\ pos' = pos /\ ok' = ok
      /\ heap' = heap \ UNION {Buffers(i) : i \in N}
      /\ objs' = [i \in Slots |-> IF i \in N THEN Cleared(objs[i]) ELSE objs[i]]
  BY DEF FreeObjs, IInv, Steps, files
<1>2. \A i \in Slots : objs[i] \in Program
  BY DEF IInv, Typed
<1>3. /\ objs' \in [Slots -> Program]
      /\ \A i \in Slots : IF i \in N THEN Empty(objs'[i]) ELSE objs'[i] = objs[i]
  BY <1>1, <1>2, ClearedProgram
<1>4. Len(inputs) \in Nat /\ Len(inputs) <= MaxObjs /\ MaxObjs \in Nat
  BY LenProperties, ConstantsAssumption DEF IInv, TypeOK
<1>5. N \subseteq Slots /\ 0 \notin N /\ 0 \in Slots /\ \A i \in Slots \ {0} : i \in N \/ i > Len(inputs)
  BY <1>4 DEF Slots
<1> HIDE DEF N
<1>6. \A i \in Slots : Empty(objs'[i])
  BY <1>1, <1>3, <1>5 DEF IInv, Memory
<1>7. heap' = {}
  <2>1. ASSUME NEW i \in Slots, NEW s \in Sections, <<i, s>> \in heap, <<i, s>> \in heap'
        PROVE  FALSE
    <3>1. objs[i].sec[s] # NULL
      BY <2>1 DEF IInv, Memory
    <3>2. i \in N
      BY <1>1, <1>5, <3>1 DEF IInv, Memory, Empty
    <3>3. <<i, s>> \in Buffers(i)
      BY <3>1, BuffersOf
    <3> QED
      BY <1>1, <2>1, <3>2, <3>3
  <2>2. heap \subseteq Slots \X Sections /\ heap' \subseteq heap
    BY <1>1 DEF IInv, TypeOK
  <2> QED
    BY <2>1, <2>2
<1>8. TypeOK'
  BY <1>1, <1>7 DEF IInv, TypeOK, After
<1>9. Written' /\ Typed'
  BY <1>1, <1>3, FilesKept DEF IInv, Typed, files
<1>10. Steps'
  BY <1>1 DEF Steps, Reading
<1>11. Memory'
  BY <1>1, <1>5, <1>6, <1>7 DEF Memory, Empty
<1> QED
  BY <1>1, <1>8, <1>9, <1>10, <1>11, NotReading DEF IInv

LEMMA ExitStep == ASSUME IInv, Exit PROVE IInv'
<1>1. /\ call' = "none" /\ inputs' = <<>> /\ slot' = 0 /\ field' = "none" /\ pos' = 0
      /\ objs' = [i \in Slots |-> Zero] /\ heap' = {} /\ ok' = FALSE
      /\ disk' = disk /\ latest' = latest
  BY DEF Exit, files
<1>2. 0 \in Slots /\ MaxObjs \in Nat
  BY ConstantsAssumption DEF Slots
<1>3. TypeOK'
  BY <1>1, <1>2 DEF TypeOK, After
<1>4. Written' /\ Typed'
  BY <1>1, FilesKept, ZeroProgram DEF IInv, Typed, files
<1>5. Steps'
  BY <1>1 DEF Steps, Reading
<1>6. Memory'
  BY <1>1, <1>2, ZeroProgram DEF Memory, Empty
<1> QED
  BY <1>1, <1>3, <1>4, <1>5, <1>6, NotReading DEF IInv

LEMMA InitIInv == Init => IInv
<1> SUFFICES ASSUME Init PROVE IInv
  OBVIOUS
<1>1. 0 \in Slots /\ MaxObjs \in Nat
  BY ConstantsAssumption DEF Slots
<1>2. TypeOK
  BY <1>1 DEF Init, TypeOK, After
<1>3. Typed
  BY ZeroProgram DEF Init, Typed
<1>4. Written
  BY DEF Init, Written
<1>5. Steps /\ ReadSoFar /\ AcceptedIsWhole
  BY DEF Init, Steps, ReadSoFar, AcceptedIsWhole, Reading, After
<1>6. Memory
  BY <1>1, ZeroProgram DEF Init, Memory, Empty
<1> QED
  BY <1>2, <1>3, <1>4, <1>5, <1>6 DEF IInv

LEMMA NextIInv == IInv /\ [Next]_vars => IInv'
<1> SUFFICES ASSUME IInv, [Next]_vars PROVE IInv'
  OBVIOUS
<1>1. ASSUME NEW f \in Files, RunCall(f) \/ DumpCall(f) PROVE IInv'
  BY <1>1, OneFile, ReaderStep DEF RunCall, DumpCall
<1>2. ASSUME NEW f \in Files, WriteLinked(f) PROVE IInv'
  BY <1>2, WriteLinkedStep
<1>3. ASSUME NEW f \in Files, NEW p \in Progs, Asm(f, p) PROVE IInv'
  BY <1>3, AsmStep
<1>4. ASSUME NEW n \in 1..MaxObjs, NEW in \in [1..n -> Files], LinkCall(in) PROVE IInv'
  <2>1. n \in Nat /\ 1 <= n /\ n <= MaxObjs
    BY ConstantsAssumption
  <2>2. in \in Seq(Files) /\ Len(in) = n
    BY <2>1, LenProperties
  <2> QED
    BY <1>4, <2>1, <2>2, ReaderStep DEF LinkCall
<1>5. ASSUME ReadMagic \/ ReadEntry \/ ReadEnd PROVE IInv'
  BY <1>5, ReadMagicStep, ReadEntryStep, ReadEndStep
<1>6. ASSUME NEW s \in Sections, ReadSection(s) PROVE IInv'
  BY <1>6, ReadSectionStep
<1>7. ASSUME NEW t \in {"SYMS", "RELS"}, ReadTable(t) PROVE IInv'
  BY <1>7, ReadTableStep
<1>8. ASSUME Link \/ FreeObjs \/ Use \/ Exit PROVE IInv'
  BY <1>8, LinkStep, FreeObjsStep, UseStep, ExitStep
<1>9. ASSUME UNCHANGED vars PROVE IInv'
  <2>1. /\ UNCHANGED <<disk, latest, call, inputs, slot, field, pos, objs, heap, ok>>
    BY <1>9 DEF vars, files
  <2>2. TypeOK' /\ Typed' /\ Written' /\ Steps' /\ Memory'
    BY <2>1 DEF IInv, TypeOK, Typed, Written, Steps, Memory, File
  <2>3. ReadSoFar' /\ AcceptedIsWhole'
    BY <2>1 DEF IInv, ReadSoFar, AcceptedIsWhole, Source
  <2> QED
    BY <2>2, <2>3 DEF IInv
<1> QED
  BY <1>1, <1>2, <1>3, <1>4, <1>5, <1>6, <1>7, <1>8, <1>9 DEF Next

-----------------------------------------------------------------------------
(* What the project says of object files *)

LEMMA Invariance == Spec => []IInv
BY InitIInv, NextIInv, PTL DEF Spec

\* The reader stays within the file and the link within its objects.
THEOREM TypeCorrect == Spec => []TypeOK
<1>1. IInv => TypeOK
  BY DEF IInv
<1> QED
  BY <1>1, Invariance, PTL

\* Wherever the disk filled up or the writer was killed, dvm_read accepts a file
\* only if all of the program that was last written to it is there, and then
\* what it makes of it is that program.
THEOREM WholeSafety == Spec => []AcceptedIsWhole
<1>1. IInv => AcceptedIsWhole
  BY DEF IInv
<1> QED
  BY <1>1, Invariance, PTL

\* On every path of dvm_read, dvm_link_files and the commands the buffers that
\* are allocated are those that a section points to, so that dvm_prog_free frees
\* each once, and a link that has ended keeps none.
THEOREM BufferSafety == Spec => []BuffersOwned
<1>1. IInv => BuffersOwned
  <2> SUFFICES ASSUME IInv PROVE BuffersOwned
    OBVIOUS
  <2>1. heap \subseteq Slots \X Sections
    BY DEF IInv, TypeOK
  <2>2. \A i \in Slots, s \in Sections : <<i, s>> \in heap <=> <<i, s>> \in Buffers(i)
    BY DEF IInv, Memory, Buffers
  <2>3. \A i \in Slots : Buffers(i) \subseteq {i} \X Sections
    BY DEF Buffers
  <2>4. heap = UNION {Buffers(i) : i \in Slots}
    <3>1. ASSUME NEW b \in heap PROVE b \in UNION {Buffers(i) : i \in Slots}
      <4>1. PICK i \in Slots, s \in Sections : b = <<i, s>>
        BY <2>1
      <4> QED
        BY <2>2, <4>1
    <3>2. ASSUME NEW i \in Slots, NEW b \in Buffers(i) PROVE b \in heap
      <4>1. PICK s \in Sections : b = <<i, s>>
        BY <2>3
      <4> QED
        BY <2>2, <4>1
    <3> QED
      BY <3>1, <3>2
  <2>5. call = "link" /\ field = "end" => heap = {}
    BY DEF IInv, Memory
  <2> QED
    BY <2>4, <2>5 DEF BuffersOwned
<1> QED
  BY <1>1, Invariance, PTL
=============================================================================
