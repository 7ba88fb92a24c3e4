------------------------------- MODULE DocProofs -------------------------------
(***************************************************************************)
(* For documents, names and lists of any size: operations make documents   *)
(* of documents; what the server makes of operations that fit what the     *)
(* page shows is what the page shows then; and the operations of a cascade *)
(* (ListOps by a longest common subsequence, MapOps by name) fit, and lead *)
(* to what the deletion leaves, but for the order of entries in a list.    *)
(***************************************************************************)
EXTENDS PolicyDoc, FiniteSetTheorems, SequenceTheorems, TLAPS

-----------------------------------------------------------------------------
(* Small facts about numbers, stated once.                                  *)

LEMMA LessThanNext ==
  ASSUME NEW a \in Nat, NEW b \in Nat, a < b  PROVE a < b + 1
OBVIOUS

LEMMA LessThanMore ==
  ASSUME NEW a \in Nat, NEW b \in Nat, NEW c \in Nat, a < b, b =< c  PROVE a < c
OBVIOUS

LEMMA NotLess ==
  ASSUME NEW a \in Nat, NEW b \in Nat, ~(a < b)  PROVE b =< a
OBVIOUS

LEMMA NotFirst ==
  ASSUME NEW b \in Nat, NEW a \in 0..b, a # 0  PROVE a \in 1..b
OBVIOUS

LEMMA Within ==
  ASSUME NEW b \in Nat, NEW a \in 1..b  PROVE a \in Nat /\ 0 < a /\ a < b + 1
OBVIOUS

\* The least of some numbers exists.
LEMMA LeastOf ==
  ASSUME NEW S \in SUBSET Nat, S # {}
  PROVE  \E x \in S : \A y \in S : x =< y
<1>1. PICK x \in S : \A y \in S : ~ (<<y, x>> \in OpToRel(<, Nat))
  BY WFMin, NatLessThanWellFounded, Zenon
<1>2. ASSUME NEW y \in S  PROVE ~ (y < x)
  BY <1>1, Zenon DEF OpToRel
<1> QED  BY <1>2

\* What holds at 0 and goes on from each number to the next holds up to N.
LEMMA UpTo ==
  ASSUME NEW N \in Nat, NEW P, 0 \in P, \A n \in 0..N : n \in P /\ n < N => n + 1 \in P
  PROVE  \A n \in 0..N : n \in P
<1> DEFINE Out == {n \in 0..N : n \notin P}
<1>1. ASSUME Out # {}  PROVE FALSE
  <2>0. Out \in SUBSET Nat
    OBVIOUS
  <2> HIDE DEF Out
  <2>1. PICK x \in Out : \A y \in Out : x =< y
    BY <1>1, <2>0, LeastOf
  <2> USE DEF Out
  <2>2. x # 0 /\ x - 1 \in 0..N /\ x - 1 < N /\ (x - 1) + 1 = x
    OBVIOUS
  <2>3. x - 1 \in P
    BY <2>1, <2>2
  <2> QED  BY <2>1, <2>2, <2>3
<1> QED  BY <1>1

-----------------------------------------------------------------------------
(* A patch is made operation by operation, by the server and on the page.   *)

Step(side, doc, o) == IF side = "server" THEN Served(doc, o) ELSE Displayed(doc, o)

\* f holds what the operations up to each one make of doc.
Makes(side, f, doc, ops, N) ==
  f = [n \in 0..N |-> IF n = 0 THEN doc ELSE Step(side, f[n - 1], ops[n])]

\* Such a function exists, up to any number.
LEMMA MakesExists ==
  ASSUME NEW side, NEW doc, NEW ops, NEW N \in Nat
  PROVE  \E f : Makes(side, f, doc, ops, N)
<1> DEFINE P == {n \in 0..N : \E f : Makes(side, f, doc, ops, n)}
<1>1. 0 \in P
  <2>1. Makes(side, [n \in 0..0 |-> doc], doc, ops, 0)
    BY DEF Makes
  <2> QED  BY <2>1
<1>2. ASSUME NEW n \in 0..N, n \in P, n < N  PROVE n + 1 \in P
  <2>1. PICK f : Makes(side, f, doc, ops, n)
    BY <1>2
  <2> DEFINE g == [k \in 0..n + 1 |-> IF k = n + 1 THEN Step(side, f[n], ops[n + 1]) ELSE f[k]]
  <2>2. \A k \in 0..n : f[k] = IF k = 0 THEN doc ELSE Step(side, f[k - 1], ops[k])
    BY <2>1 DEF Makes
  <2>3. ASSUME NEW k \in 0..n + 1
        PROVE  g[k] = IF k = 0 THEN doc ELSE Step(side, g[k - 1], ops[k])
    <3>1. CASE k = n + 1
      BY <3>1
    <3>2. CASE k # n + 1
      <4>1. k \in 0..n /\ (k # 0 => k - 1 \in 0..n)
        BY <3>2
      <4>2. g[k] = f[k] /\ (k # 0 => g[k - 1] = f[k - 1])
        BY <4>1
      <4> HIDE DEF g
      <4> QED  BY <2>2, <4>1, <4>2
    <3> QED  BY <3>1, <3>2
  <2>4. Makes(side, g, doc, ops, n + 1)
    BY <2>3 DEF Makes
  <2>5. n + 1 \in 0..N
    BY <1>2
  <2> HIDE DEF g
  <2> QED  BY <2>4, <2>5
<1> HIDE DEF P
<1>3. N \in P
  BY <1>1, <1>2, UpTo
<1> QED  BY <1>3 DEF P

\* There is one such function, whatever the operations behind those taken.
LEMMA MakesOnce ==
  ASSUME NEW side, NEW doc, NEW ops, NEW more, NEW N \in Nat, NEW M \in Nat, NEW f, NEW g,
         Makes(side, f, doc, ops, N), Makes(side, g, doc, more, M), N =< M,
         \A n \in 1..N : ops[n] = more[n]
  PROVE  \A n \in 0..N : f[n] = g[n]
<1> DEFINE P == {n \in 0..N : f[n] = g[n]}
<1>1. 0 \in P
  BY DEF Makes
<1>2. ASSUME NEW n \in 0..N, n \in P, n < N  PROVE n + 1 \in P
  <2>1. f[n + 1] = Step(side, f[n], ops[n + 1])
    BY <1>2 DEF Makes
  <2>2. g[n + 1] = Step(side, g[n], more[n + 1])
    BY <1>2 DEF Makes
  <2> QED  BY <1>2, <2>1, <2>2
<1> HIDE DEF P
<1>3. \A n \in 0..N : n \in P
  BY <1>1, <1>2, UpTo
<1> QED  BY <1>3 DEF P

\* In particular for the same operations.
LEMMA SameMakes ==
  ASSUME NEW side, NEW doc, NEW ops, NEW N \in Nat, NEW f, NEW g,
         Makes(side, f, doc, ops, N), Makes(side, g, doc, ops, N)
  PROVE  \A n \in 0..N : f[n] = g[n]
BY MakesOnce

Result(side, doc, ops) == IF side = "server" THEN Patched(doc, ops) ELSE Projected(doc, ops)

\* The result is what the last operation has made.
LEMMA ResultIsMade ==
  ASSUME NEW side \in {"server", "page"}, NEW doc, NEW ops, Len(ops) \in Nat, NEW f,
         Makes(side, f, doc, ops, Len(ops))
  PROVE  Result(side, doc, ops) = f[Len(ops)]
<1> DEFINE made == CHOOSE g : Makes(side, g, doc, ops, Len(ops))
<1>1. Makes(side, made, doc, ops, Len(ops))
  OBVIOUS
<1>2. Result(side, doc, ops) = made[Len(ops)]
  BY DEF Result, Patched, Projected, Makes, Step
<1> HIDE DEF made
<1>3. made[Len(ops)] = f[Len(ops)]
  BY <1>1, MakesOnce
<1> QED  BY <1>2, <1>3

\* Both sides go through stages to their result.
LEMMA Stages ==
  ASSUME NEW doc, NEW O, NEW ops \in Seq(O)
  PROVE  /\ \E f : Makes("server", f, doc, ops, Len(ops)) /\ Patched(doc, ops) = f[Len(ops)]
         /\ \E f : Makes("page", f, doc, ops, Len(ops)) /\ Projected(doc, ops) = f[Len(ops)]
<1>1. Len(ops) \in Nat
  OBVIOUS
<1>2. ASSUME NEW side \in {"server", "page"}
      PROVE  \E f : Makes(side, f, doc, ops, Len(ops)) /\ Result(side, doc, ops) = f[Len(ops)]
  <2>1. PICK f : Makes(side, f, doc, ops, Len(ops))
    BY <1>1, MakesExists, Zenon
  <2> QED  BY <1>1, <2>1, ResultIsMade
<1> QED  BY <1>2 DEF Result
-----------------------------------------------------------------------------
(* What an operation makes of a document is a document.                     *)

Place == Nat \union Group \union Tag \union Route \union {End}

WellFormed(o) ==
  /\ o.whole => o.op = "add" /\ IsContent(o.section, o.value)
  /\ ~o.whole /\ o.op # "remove" =>
       IF o.section \in ListSection THEN o.value \in Entry
                                    ELSE o.at \in Key[o.section] /\ o.value \subseteq Name

Operation ==
  {o \in [op : {"add", "replace", "remove"}, section : Section, whole : BOOLEAN, at : Place,
          value : Contents \union Entry \union SUBSET Name] : WellFormed(o)}

\* A section holds a map or a list, and not both.
LEMMA Sections ==
  /\ ListSection \subseteq Section /\ MapSection \subseteq Section
  /\ \A s \in Section : s \in ListSection <=> s \notin MapSection
  /\ \A s \in MapSection : Key[s] \subseteq Group \union Tag \union Route
BY DEF Section, ListSection, MapSection, Key

\* What a section can hold is something that some section can hold.
LEMMA ContentInContents ==
  ASSUME NEW s \in Section, NEW c, IsContent(s, c)
  PROVE  c \in Contents
<1>1. CASE s \in ListSection
  BY <1>1 DEF IsContent, Contents
<1>2. CASE s \notin ListSection
  <2>1. s \in MapSection /\ IsMap(s, c)
    BY <1>2, Sections DEF IsContent
  <2>2. DOMAIN c \in SUBSET (Group \union Tag \union Route)
    BY <2>1, Sections DEF IsMap
  <2>3. c \in [DOMAIN c -> SUBSET Name]
    BY <2>1 DEF IsMap
  <2> QED  BY <2>2, <2>3 DEF Contents
<1> QED  BY <1>1, <1>2

\* A refusal is no document.
LEMMA DocumentIsNotRefused ==
  ASSUME NEW doc, IsDocument(doc)
  PROVE  doc # Refused
<1>1. doc \in [DOMAIN doc -> Contents]
  BY ContentInContents DEF IsDocument
<1> QED  BY <1>1, RefusedAssumption DEF IsDocument

\* A section more, or one that holds something else.
LEMMA WithDocument ==
  ASSUME NEW doc, IsDocument(doc), NEW s \in Section, NEW c, IsContent(s, c)
  PROVE  IsDocument(With(doc, s, c))
BY DEF IsDocument, With

\* What the page makes up for a missing section.
LEMMA EmptyContent ==
  ASSUME NEW s \in Section
  PROVE  IsContent(s, <<>>)
<1>1. <<>> \in Seq(Entry)
  OBVIOUS
<1>2. <<>> = [k \in {} |-> {}] /\ DOMAIN <<>> = {}
  OBVIOUS
<1>3. IsMap(s, <<>>)
  BY <1>2, FS_EmptySet DEF IsMap
<1> QED  BY <1>1, <1>3 DEF IsContent

\* A list stays one, without holes (Doc.Patch).
LEMMA EditedList ==
  ASSUME NEW c \in Seq(Entry), NEW o \in Operation, ~o.whole, o.section \in ListSection,
         o.op = "add" \/ o.at \in DOMAIN c
  PROVE  EditedSection(c, o) \in Seq(Entry)
<1> USE DEF Operation, WellFormed
<1>1. CASE o.op = "add"
  <2>1. EditedSection(c, o) = Append(c, o.value)
    BY <1>1, Sections DEF EditedSection
  <2> QED  BY <1>1, <2>1
<1>2. CASE o.op = "replace"
  <2>1. EditedSection(c, o) = [c EXCEPT ![o.at] = o.value]
    BY <1>2 DEF EditedSection
  <2> QED  BY <1>2, <2>1
<1>3. CASE o.op = "remove"
  <2>1. EditedSection(c, o) = SubSeq(c, 1, o.at - 1) \o SubSeq(c, o.at + 1, Len(c))
    BY <1>3 DEF EditedSection, RemoveAt, ListSection, MapSection
  <2>2. o.at \in 1..Len(c)
    BY <1>3
  <2>3. SubSeq(c, 1, o.at - 1) \in Seq(Entry) /\ SubSeq(c, o.at + 1, Len(c)) \in Seq(Entry)
    BY <2>2
  <2> QED  BY <2>1, <2>3
<1> QED  BY <1>1, <1>2, <1>3

\* A map stays one, with names that can stand there.
LEMMA EditedMap ==
  ASSUME NEW s \in MapSection, NEW c, IsMap(s, c), NEW o \in Operation, ~o.whole, o.section = s,
         o.op = "add" \/ o.at \in DOMAIN c
  PROVE  IsMap(s, EditedSection(c, o))
<1> USE DEF Operation, WellFormed
<1>0. s \notin ListSection
  BY Sections
<1>1. CASE o.op = "add"
  <2>1. EditedSection(c, o) = With(c, o.at, o.value)
    BY <1>0, <1>1 DEF EditedSection
  <2>2. IsFiniteSet(DOMAIN c \union {o.at})
    BY FS_AddElement DEF IsMap
  <2> QED  BY <1>0, <1>1, <2>1, <2>2 DEF With, IsMap
<1>2. CASE o.op = "replace"
  <2>1. EditedSection(c, o) = [c EXCEPT ![o.at] = o.value]
    BY <1>2 DEF EditedSection
  <2>2. EditedSection(c, o) = [k \in DOMAIN c |-> IF k = o.at THEN o.value ELSE c[k]]
    BY <1>2, <2>1 DEF IsMap
  <2> QED  BY <1>0, <1>2, <2>2 DEF IsMap
<1>3. CASE o.op = "remove"
  <2>1. EditedSection(c, o) = Without(c, {o.at})
    BY <1>0, <1>3 DEF EditedSection
  <2>2. IsFiniteSet(DOMAIN c \ {o.at})
    BY FS_Difference DEF IsMap
  <2> QED  BY <1>0, <1>3, <2>1, <2>2 DEF Without, Restrict, IsMap
<1> QED  BY <1>1, <1>2, <1>3

\* An operation that applies makes a document of a document.
LEMMA AfterDocument ==
  ASSUME NEW doc, IsDocument(doc), NEW o \in Operation, Applies(doc, o)
  PROVE  IsDocument(After(doc, o))
<1>1. o.section \in Section /\ WellFormed(o) /\ o.whole \in BOOLEAN
  BY DEF Operation
<1>2. CASE o.whole
  <2>1. IsContent(o.section, o.value)
    BY <1>1, <1>2 DEF WellFormed
  <2> QED  BY <1>1, <1>2, <2>1, WithDocument DEF After
<1>3. CASE ~o.whole
  <2>1. o.section \in DOMAIN doc /\ (o.op = "add" \/ o.at \in DOMAIN doc[o.section])
    BY <1>3 DEF Applies
  <2>2. IsContent(o.section, doc[o.section])
    BY <2>1 DEF IsDocument
  <2>3. IsContent(o.section, EditedSection(doc[o.section], o))
    BY <1>1, <1>3, <2>1, <2>2, EditedList, EditedMap, Sections DEF IsContent
  <2> QED  BY <1>1, <1>3, <2>3, WithDocument DEF After
<1> QED  BY <1>2, <1>3

\* The page shows a document, whatever it makes up or skips.
LEMMA DisplayedDocument ==
  ASSUME NEW doc, IsDocument(doc), NEW o \in Operation
  PROVE  IsDocument(Displayed(doc, o))
<1>1. CASE Applies(doc, o)
  BY <1>1, AfterDocument DEF Displayed
<1>2. CASE ~Applies(doc, o) /\ o.op = "add"
  <2> DEFINE made == With(doc, o.section, <<>>)
  <2>1. o.section \in Section
    BY DEF Operation
  <2>2. IsDocument(made)
    BY <2>1, WithDocument, EmptyContent
  <2>3. Applies(made, o)
    BY <1>2 DEF Applies, With
  <2>4. Displayed(doc, o) = After(made, o)
    BY <1>2 DEF Displayed
  <2> HIDE DEF made
  <2> QED  BY <2>2, <2>3, <2>4, AfterDocument
<1>3. CASE ~Applies(doc, o) /\ o.op # "add"
  BY <1>3 DEF Displayed
<1> QED  BY <1>1, <1>2, <1>3

\* So does the server, unless it refuses.
LEMMA ServedDocument ==
  ASSUME NEW doc, doc # Refused => IsDocument(doc), NEW o \in Operation, Served(doc, o) # Refused
  PROVE  IsDocument(Served(doc, o))
BY AfterDocument DEF Served

\* Whatever operations are applied, in whatever order.
LEMMA ProjectedDocument ==
  ASSUME NEW doc, IsDocument(doc), NEW ops \in Seq(Operation)
  PROVE  IsDocument(Projected(doc, ops))
<1>1. PICK f : Makes("page", f, doc, ops, Len(ops)) /\ Projected(doc, ops) = f[Len(ops)]
  BY Stages
<1> DEFINE P == {n \in 0..Len(ops) : IsDocument(f[n])}
<1>3. 0 \in P
  BY <1>1 DEF Makes
<1>4. ASSUME NEW n \in 0..Len(ops), n \in P, n < Len(ops)  PROVE n + 1 \in P
  <2>1. f[n + 1] = Displayed(f[n], ops[n + 1]) /\ ops[n + 1] \in Operation
    BY <1>1, <1>4 DEF Makes, Step
  <2> QED  BY <1>4, <2>1, DisplayedDocument
<1> HIDE DEF P
<1>5. \A n \in 0..Len(ops) : n \in P
  <2>1. Len(ops) \in Nat
    OBVIOUS
  <2>2. \A n \in 0..Len(ops) : n \in P /\ n < Len(ops) => n + 1 \in P
    BY <1>4, Zenon
  <2> QED  BY <1>3, <2>1, <2>2, UpTo, Zenon
<1> QED  BY <1>1, <1>5 DEF P

\* So do all operations of a patch.
LEMMA PatchedDocument ==
  ASSUME NEW doc, IsDocument(doc), NEW ops \in Seq(Operation), Patched(doc, ops) # Refused
  PROVE  IsDocument(Patched(doc, ops))
<1>1. PICK f : Makes("server", f, doc, ops, Len(ops)) /\ Patched(doc, ops) = f[Len(ops)]
  BY Stages
<1> DEFINE P == {n \in 0..Len(ops) : f[n] # Refused => IsDocument(f[n])}
<1>3. 0 \in P
  BY <1>1 DEF Makes
<1>4. ASSUME NEW n \in 0..Len(ops), n \in P, n < Len(ops)  PROVE n + 1 \in P
  <2>1. f[n + 1] = Served(f[n], ops[n + 1]) /\ ops[n + 1] \in Operation
    BY <1>1, <1>4 DEF Makes, Step
  <2>2. f[n + 1] # Refused => IsDocument(f[n + 1])
    BY <1>4, <2>1, ServedDocument
  <2> QED  BY <1>4, <2>2
<1> HIDE DEF P
<1>5. \A n \in 0..Len(ops) : n \in P
  <2>1. Len(ops) \in Nat
    OBVIOUS
  <2>2. \A n \in 0..Len(ops) : n \in P /\ n < Len(ops) => n + 1 \in P
    BY <1>4, Zenon
  <2> QED  BY <1>3, <2>1, <2>2, UpTo, Zenon
<1> QED  BY <1>1, <1>5 DEF P

\* Leaving out empty sections leaves a document.
LEMMA DecodedDocument ==
  ASSUME NEW doc, IsDocument(doc)
  PROVE  IsDocument(Decoded(doc))
BY DEF IsDocument, Decoded, Restrict

-----------------------------------------------------------------------------
(* The server and the page, operation by operation.                         *)

\* What the server holds is what the page shows, and empty sections.
Agree(held, shown) ==
  /\ IsDocument(held) /\ IsDocument(shown)
  /\ {"ssh", "tests"} \subseteq DOMAIN held /\ DOMAIN shown \subseteq DOMAIN held
  /\ \A s \in DOMAIN held : IF s \in DOMAIN shown THEN held[s] = shown[s] ELSE DOMAIN held[s] = {}

\* An operation on what is shown, or one for which the server has the section.
Fits(shown, o) == Applies(shown, o) \/ (o.op = "add" /\ o.section \in {"ssh", "tests"})

\* At first the page shows what the server holds.
LEMMA DecodedAgrees ==
  ASSUME NEW doc, IsDocument(doc), {"ssh", "tests"} \subseteq DOMAIN doc
  PROVE  Agree(doc, Decoded(doc))
BY DecodedDocument DEF Agree, Decoded, Restrict

\* What agrees is the same document to whoever decodes it.
LEMMA AgreeingIsSame ==
  ASSUME NEW held, NEW shown, Agree(held, shown)
  PROVE  held # Refused /\ Decoded(held) = Decoded(shown)
<1>1. {s \in DOMAIN held : DOMAIN held[s] # {}} = {s \in DOMAIN shown : DOMAIN shown[s] # {}}
  BY DEF Agree
<1> QED  BY <1>1, DocumentIsNotRefused DEF Agree, Decoded, Restrict

\* They still agree after an operation that fits.
LEMMA StepAgrees ==
  ASSUME NEW held, NEW shown, Agree(held, shown), NEW o \in Operation, Fits(shown, o)
  PROVE  Agree(Served(held, o), Displayed(shown, o))
<1>1. Applies(held, o)
  BY DEF Agree, Fits, Applies
<1>2. Served(held, o) = After(held, o)
  BY <1>1, DocumentIsNotRefused DEF Served, Agree
<1>3. IsDocument(After(held, o)) /\ IsDocument(Displayed(shown, o))
  BY <1>1, AfterDocument, DisplayedDocument DEF Agree
<1> DEFINE content == IF o.whole THEN o.value ELSE EditedSection(held[o.section], o)
<1>4. Displayed(shown, o) = With(shown, o.section, content)
  <2>1. CASE Applies(shown, o)
    <3>1. ~o.whole => held[o.section] = shown[o.section]
      BY <2>1 DEF Applies, Agree
    <3> QED  BY <2>1, <3>1 DEF Displayed, After
  <2>2. CASE ~Applies(shown, o)
    <3>1. o.op = "add" /\ o.section \in {"ssh", "tests"} /\ ~o.whole /\ o.section \notin DOMAIN shown
      BY <2>2 DEF Fits, Applies
    <3>2. held[o.section] = <<>>
      <4>1. DOMAIN held[o.section] = {} /\ held[o.section] \in Seq(Entry)
        BY <3>1 DEF Agree, IsDocument, IsContent, ListSection
      <4>2. \A c \in Seq(Entry) : DOMAIN c = {} => c = <<>>
        OBVIOUS
      <4> QED  BY <4>1, <4>2
    <3>3. Displayed(shown, o) = After(With(shown, o.section, <<>>), o)
      BY <2>2, <3>1 DEF Displayed
    <3>4. With(shown, o.section, <<>>)[o.section] = <<>>
      BY DEF With
    <3>5. After(With(shown, o.section, <<>>), o) = With(With(shown, o.section, <<>>), o.section, content)
      BY <3>1, <3>2, <3>4 DEF After
    <3>6. \A c : With(With(shown, o.section, <<>>), o.section, c) = With(shown, o.section, c)
      BY DEF With
    <3> HIDE DEF content
    <3> QED  BY <3>3, <3>5, <3>6
  <2> QED  BY <2>1, <2>2
<1>5. After(held, o) = With(held, o.section, content)
  BY DEF After
<1> HIDE DEF content
<1> QED  BY <1>2, <1>3, <1>4, <1>5 DEF Agree, With

\* Every operation fits what those before it have made of what was shown.
FitInTurn(shown, ops) ==
  \A f : Makes("page", f, shown, ops, Len(ops)) => \A n \in 1..Len(ops) : Fits(f[n - 1], ops[n])

\* The page and the server agree on what they make of operations that fit.
LEMMA ResultsAgree ==
  ASSUME NEW held, NEW shown, Agree(held, shown), NEW ops \in Seq(Operation), FitInTurn(shown, ops)
  PROVE  Agree(Patched(held, ops), Projected(shown, ops))
<1>1. PICK f : Makes("server", f, held, ops, Len(ops)) /\ Patched(held, ops) = f[Len(ops)]
  BY Stages
<1>2. PICK g : Makes("page", g, shown, ops, Len(ops)) /\ Projected(shown, ops) = g[Len(ops)]
  BY Stages
<1> DEFINE P == {n \in 0..Len(ops) : Agree(f[n], g[n])}
<1>4. 0 \in P
  BY <1>1, <1>2 DEF Makes
<1>5. ASSUME NEW n \in 0..Len(ops), n \in P, n < Len(ops)  PROVE n + 1 \in P
  <2>1. f[n + 1] = Served(f[n], ops[n + 1]) /\ g[n + 1] = Displayed(g[n], ops[n + 1])
    BY <1>1, <1>2, <1>5 DEF Makes, Step
  <2>2. Fits(g[n], ops[n + 1]) /\ ops[n + 1] \in Operation
    <3>1. (n + 1) - 1 = n /\ n + 1 \in 1..Len(ops)
      BY <1>5
    <3>2. Fits(g[(n + 1) - 1], ops[n + 1])
      BY <1>2, <3>1, Zenon DEF FitInTurn
    <3> QED  BY <3>1, <3>2
  <2>3. Agree(f[n + 1], g[n + 1])
    BY <1>5, <2>1, <2>2, StepAgrees
  <2> QED  BY <1>5, <2>3
<1> HIDE DEF P
<1>6. \A n \in 0..Len(ops) : n \in P
  <2>1. Len(ops) \in Nat
    OBVIOUS
  <2>2. \A n \in 0..Len(ops) : n \in P /\ n < Len(ops) => n + 1 \in P
    BY <1>5, Zenon
  <2> QED  BY <1>4, <2>1, <2>2, UpTo, Zenon
<1> QED  BY <1>1, <1>2, <1>6 DEF P

-----------------------------------------------------------------------------
(* Operations after operations.                                             *)

\* Operations, and others behind them: the stages follow each other.
LEMMA MakesBoth ==
  ASSUME NEW side, NEW doc, NEW O, NEW a \in Seq(O), NEW b \in Seq(O), NEW f, NEW g,
         Makes(side, f, doc, a, Len(a)), Makes(side, g, f[Len(a)], b, Len(b))
  PROVE  Makes(side, [n \in 0..Len(a) + Len(b) |-> IF n =< Len(a) THEN f[n] ELSE g[n - Len(a)]],
               doc, a \o b, Len(a) + Len(b))
<1> DEFINE N == Len(a)
           M == Len(b)
           h == [n \in 0..N + M |-> IF n =< N THEN f[n] ELSE g[n - N]]
<1>1. N \in Nat /\ M \in Nat
  OBVIOUS
<1>2. \A n \in 0..N : f[n] = IF n = 0 THEN doc ELSE Step(side, f[n - 1], a[n])
  BY DEF Makes
<1>3. \A n \in 0..M : g[n] = IF n = 0 THEN f[N] ELSE Step(side, g[n - 1], b[n])
  BY DEF Makes
<1>4. \A n \in 1..N + M : (a \o b)[n] = IF n =< N THEN a[n] ELSE b[n - N]
  OBVIOUS
<1> HIDE DEF N, M
<1>5. ASSUME NEW n \in 0..N + M
      PROVE  h[n] = IF n = 0 THEN doc ELSE Step(side, h[n - 1], (a \o b)[n])
  <2>1. CASE n =< N
    <3>1. n \in 0..N /\ (n # 0 => n - 1 \in 0..N + M /\ n - 1 =< N /\ n \in 1..N + M)
      BY <1>1, <2>1
    <3>2. h[n] = f[n] /\ (n # 0 => h[n - 1] = f[n - 1] /\ (a \o b)[n] = a[n])
      BY <1>1, <1>4, <2>1, <3>1
    <3> HIDE DEF h
    <3> QED  BY <1>2, <3>1, <3>2
  <2>2. CASE ~(n =< N)
    <3>1. n # 0 /\ n - N \in 0..M /\ n - N # 0 /\ n - 1 \in 0..N + M /\ n \in 1..N + M
      BY <1>1, <2>2
    <3>2. h[n] = g[n - N] /\ (a \o b)[n] = b[n - N]
      BY <1>1, <1>4, <2>2, <3>1
    <3>3. h[n - 1] = g[(n - N) - 1]
      <4>1. CASE n - 1 =< N
        <5>1. n - 1 = N /\ (n - N) - 1 = 0
          BY <1>1, <2>2, <4>1
        <5>2. g[0] = f[N]
          BY <1>1, <1>3
        <5> QED  BY <3>1, <4>1, <5>1, <5>2
      <4>2. CASE ~(n - 1 =< N)
        <5>1. (n - 1) - N = (n - N) - 1
          BY <1>1
        <5> QED  BY <3>1, <4>2, <5>1
      <4> QED  BY <4>1, <4>2
    <3> HIDE DEF h
    <3> QED  BY <1>3, <3>1, <3>2, <3>3
  <2> QED  BY <2>1, <2>2
<1> QED  BY <1>5 DEF N, M, Makes

\* The others are applied to what the first have made.
LEMMA ResultInTurn ==
  ASSUME NEW side \in {"server", "page"}, NEW doc, NEW O, NEW a \in Seq(O), NEW b \in Seq(O)
  PROVE  Result(side, doc, a \o b) = Result(side, Result(side, doc, a), b)
<1>0. Len(a) \in Nat /\ Len(b) \in Nat
  OBVIOUS
<1>1. PICK f : Makes(side, f, doc, a, Len(a))
  BY <1>0, MakesExists, Zenon
<1>2. PICK g : Makes(side, g, f[Len(a)], b, Len(b))
  BY <1>0, MakesExists, Zenon
<1> DEFINE h == [n \in 0..Len(a) + Len(b) |-> IF n =< Len(a) THEN f[n] ELSE g[n - Len(a)]]
<1>3. Makes(side, h, doc, a \o b, Len(a) + Len(b))
  BY <1>1, <1>2, MakesBoth
<1>4. Len(a \o b) = Len(a) + Len(b) /\ Len(a) \in Nat /\ Len(b) \in Nat
  OBVIOUS
<1>5. h[Len(a) + Len(b)] = g[Len(b)]
  <2>1. CASE Len(b) = 0
    BY <1>2, <1>4, <2>1 DEF Makes
  <2>2. CASE Len(b) # 0
    BY <1>4, <2>2
  <2> QED  BY <2>1, <2>2
<1> HIDE DEF h
<1>6. Result(side, doc, a \o b) = h[Len(a) + Len(b)]
  <2> DEFINE ops == a \o b
  <2>1. Makes(side, h, doc, ops, Len(ops)) /\ Len(ops) \in Nat
    BY <1>3, <1>4
  <2> HIDE DEF ops
  <2>2. Result(side, doc, ops) = h[Len(ops)]
    BY <2>1, ResultIsMade
  <2> QED  BY <1>4, <2>2 DEF ops
<1>7. Result(side, doc, a) = f[Len(a)] /\ Result(side, f[Len(a)], b) = g[Len(b)]
  BY <1>0, <1>1, <1>2, ResultIsMade
<1> QED  BY <1>5, <1>6, <1>7

\* So the page does.
LEMMA ProjectedInTurn ==
  ASSUME NEW doc, NEW a \in Seq(Operation), NEW b \in Seq(Operation)
  PROVE  Projected(doc, a \o b) = Projected(Projected(doc, a), b)
BY ResultInTurn DEF Result

\* Without operations, what is shown is what there is.
LEMMA NothingProjected ==
  ASSUME NEW doc
  PROVE  Projected(doc, <<>>) = doc
<1>1. PICK f : Makes("page", f, doc, <<>>, 0)
  BY MakesExists
<1>2. Result("page", doc, <<>>) = f[0]
  <2>1. Len(<<>>) = 0 /\ 0 \in Nat
    OBVIOUS
  <2> QED  BY <1>1, <2>1, ResultIsMade
<1>3. f[0] = doc
  BY <1>1 DEF Makes
<1> QED  BY <1>2, <1>3 DEF Result

\* Operations fit in turn if the others fit what the first have made.
LEMMA FitBoth ==
  ASSUME NEW doc, NEW O, NEW a \in Seq(O), NEW b \in Seq(O),
         FitInTurn(doc, a), FitInTurn(Projected(doc, a), b)
  PROVE  FitInTurn(doc, a \o b)
<1>1. PICK f : Makes("page", f, doc, a, Len(a)) /\ Projected(doc, a) = f[Len(a)]
  BY Stages
<1>3. PICK g : Makes("page", g, f[Len(a)], b, Len(b))
  <2>1. Len(b) \in Nat
    OBVIOUS
  <2> QED  BY <2>1, MakesExists, Zenon
<1>4. /\ \A n \in 1..Len(a) : Fits(f[n - 1], a[n])
      /\ \A n \in 1..Len(b) : Fits(g[n - 1], b[n])
  BY <1>1, <1>3 DEF FitInTurn
<1> DEFINE h == [n \in 0..Len(a) + Len(b) |-> IF n =< Len(a) THEN f[n] ELSE g[n - Len(a)]]
<1>5. Makes("page", h, doc, a \o b, Len(a) + Len(b))
  BY <1>1, <1>3, MakesBoth
<1>6. /\ Len(a \o b) = Len(a) + Len(b) /\ Len(a) \in Nat /\ Len(b) \in Nat
      /\ \A n \in 1..Len(a) + Len(b) : (a \o b)[n] = IF n =< Len(a) THEN a[n] ELSE b[n - Len(a)]
  OBVIOUS
<1>7. ASSUME NEW n \in 1..Len(a) + Len(b)
      PROVE  Fits(h[n - 1], (a \o b)[n])
  <2>1. CASE n =< Len(a)
    BY <1>4, <1>6, <2>1
  <2>2. CASE n = Len(a) + 1
    <3>1. h[n - 1] = f[Len(a)] /\ (a \o b)[n] = b[1] /\ 1 \in 1..Len(b)
      BY <1>6, <2>2
    <3>2. g[1 - 1] = f[Len(a)]
      BY <1>3, <1>6 DEF Makes
    <3> QED  BY <1>4, <3>1, <3>2
  <2>3. CASE n > Len(a) + 1
    <3>1. /\ h[n - 1] = g[(n - 1) - Len(a)] /\ (a \o b)[n] = b[n - Len(a)] /\ n - Len(a) \in 1..Len(b)
          /\ (n - 1) - Len(a) = (n - Len(a)) - 1
      BY <1>6, <2>3
    <3> HIDE DEF h
    <3> QED  BY <1>4, <3>1
  <2> QED  BY <1>6, <2>1, <2>2, <2>3
<1> HIDE DEF h
<1>8. ASSUME NEW k, Makes("page", k, doc, a \o b, Len(a \o b)), NEW n \in 1..Len(a \o b)
      PROVE  Fits(k[n - 1], (a \o b)[n])
  <2>1. n - 1 \in 0..Len(a \o b) /\ n \in 1..Len(a) + Len(b)
    BY <1>6
  <2>2. k[n - 1] = h[n - 1]
    <3>1. Len(a \o b) \in Nat
      BY <1>6
    <3>2. Makes("page", h, doc, a \o b, Len(a \o b))
      BY <1>5, <1>6
    <3> DEFINE N == Len(a \o b)
    <3> HIDE DEF N
    <3>3. N \in Nat /\ Makes("page", k, doc, a \o b, N) /\ Makes("page", h, doc, a \o b, N)
      BY <1>8, <3>1, <3>2 DEF N
    <3>4. \A i \in 0..N : k[i] = h[i]
      BY <3>3, SameMakes
    <3> QED  BY <2>1, <3>4 DEF N
  <2> QED  BY <1>7, <2>1, <2>2
<1> QED  BY <1>8 DEF FitInTurn

-----------------------------------------------------------------------------
(* Positions in order.                                                      *)

Upto(at, i) == {k \in at : k <= i}

\* What is counted up to a position grows by one where there is one.
LEMMA UptoGrows ==
  ASSUME NEW at \in SUBSET Nat, IsFiniteSet(at), NEW i \in Nat
  PROVE  /\ IsFiniteSet(Upto(at, i)) /\ Cardinality(Upto(at, i)) \in Nat
         /\ Cardinality(Upto(at, i)) =< Cardinality(at)
         /\ i # 0 => Cardinality(Upto(at, i)) =
                       Cardinality(Upto(at, i - 1)) + (IF i \in at THEN 1 ELSE 0)
         /\ i = 0 => Cardinality(Upto(at, i)) = IF i \in at THEN 1 ELSE 0
<1>1. /\ IsFiniteSet(Upto(at, i)) /\ Cardinality(Upto(at, i)) \in Nat
      /\ Cardinality(Upto(at, i)) =< Cardinality(at)
  <2>1. Upto(at, i) \in SUBSET at
    BY DEF Upto
  <2> QED  BY <2>1, FS_Subset, FS_CardinalityType
<1>2. ASSUME i # 0
      PROVE  Cardinality(Upto(at, i)) = Cardinality(Upto(at, i - 1)) + (IF i \in at THEN 1 ELSE 0)
  <2>1. i - 1 \in Nat /\ i \notin Upto(at, i - 1)
    BY <1>2 DEF Upto
  <2>2. Upto(at, i - 1) \in SUBSET at
    BY DEF Upto
  <2>3. IsFiniteSet(Upto(at, i - 1)) /\ Cardinality(Upto(at, i - 1)) \in Nat
    BY <2>2, FS_Subset, FS_CardinalityType
  <2>4. \A k \in at : k <= i <=> k <= i - 1 \/ k = i
    BY <1>2
  <2>5. CASE i \in at
    <3>1. Upto(at, i) = Upto(at, i - 1) \union {i}
      BY <2>4, <2>5, Zenon DEF Upto
    <3> QED  BY <2>1, <2>3, <2>5, <3>1, FS_AddElement
  <2>6. CASE i \notin at
    <3>1. Upto(at, i) = Upto(at, i - 1)
      BY <2>4, <2>6, Zenon DEF Upto
    <3> QED  BY <2>3, <2>6, <3>1
  <2> QED  BY <2>5, <2>6
<1>3. ASSUME i = 0
      PROVE  Cardinality(Upto(at, i)) = IF i \in at THEN 1 ELSE 0
  <2>1. \A k \in at : k <= i <=> k = i
    BY <1>3
  <2>2. CASE i \in at
    <3>1. Upto(at, i) = {i}
      BY <2>1, <2>2, Zenon DEF Upto
    <3> QED  BY <2>2, <3>1, FS_Singleton
  <2>3. CASE i \notin at
    <3>1. Upto(at, i) = {}
      BY <2>1, <2>3, Zenon DEF Upto
    <3> QED  BY <2>3, <3>1, FS_EmptySet
  <2> QED  BY <2>2, <2>3
<1> QED  BY <1>1, <1>2, <1>3

\* More is counted up to a later position.
LEMMA UptoOrdered ==
  ASSUME NEW at \in SUBSET Nat, IsFiniteSet(at), NEW i \in at, NEW j \in at, i < j
  PROVE  Cardinality(Upto(at, i)) < Cardinality(Upto(at, j))
<1>1. Upto(at, i) \in SUBSET Upto(at, j) /\ j \in Upto(at, j) /\ j \notin Upto(at, i)
  <2>1. /\ \A k \in at : k <= i => k <= j
        /\ j <= j /\ ~(j <= i)
    OBVIOUS
  <2> QED  BY <2>1, Zenon DEF Upto
<1>2. IsFiniteSet(Upto(at, j)) /\ Cardinality(Upto(at, j)) \in Nat /\ Cardinality(Upto(at, i)) \in Nat
  BY UptoGrows
<1>3. Cardinality(Upto(at, i)) =< Cardinality(Upto(at, j))
  BY <1>1, <1>2, FS_Subset
<1>4. Cardinality(Upto(at, i)) # Cardinality(Upto(at, j))
  BY <1>1, <1>2, FS_Subset
<1> QED  BY <1>2, <1>3, <1>4

\* Finitely many numbers have a bound.
LEMMA FiniteIsBounded ==
  ASSUME NEW at \in SUBSET Nat, IsFiniteSet(at)
  PROVE  \E i \in Nat : \A k \in at : k =< i
<1>1. Cardinality(at) \in Nat
  BY FS_CardinalityType
<1>2. PICK f : f \in Bijection(1..Cardinality(at), at)
  BY FS_CardinalityType DEF ExistsBijection
<1> DEFINE N == Cardinality(at)
           P == {n \in 0..N : \E i \in Nat : \A k \in 1..n : f[k] =< i}
<1>3. N \in Nat /\ (\A n \in 1..N : f[n] \in Nat) /\ \A k \in at : \E n \in 1..N : f[n] = k
  BY <1>1, <1>2 DEF Bijection, Injection, Surjection
<1>4. 0 \in P
  BY <1>1
<1> HIDE DEF N
<1>5. ASSUME NEW n \in 0..N, n \in P, n < N  PROVE n + 1 \in P
  <2>1. PICK i \in Nat : \A k \in 1..n : f[k] =< i
    BY <1>5
  <2>2. f[n + 1] \in Nat /\ N \in Nat
    BY <1>3, <1>5
  <2>3. i + f[n + 1] \in Nat /\ \A k \in 1..n + 1 : f[k] =< i + f[n + 1]
    <3>1. \A k \in 1..n : f[k] \in Nat
      BY <1>3, <1>5
    <3> QED  BY <2>1, <2>2, <3>1
  <2>4. n + 1 \in 0..N
    BY <1>1, <1>5, <2>2
  <2> QED  BY <2>3, <2>4
<1> HIDE DEF P
<1>6. N \in P
  BY <1>1, <1>4, <1>5, UpTo DEF N
<1> QED  BY <1>1, <1>3, <1>6 DEF P, N

\* Each of the counted positions exists.
LEMMA NthExists ==
  ASSUME NEW at \in SUBSET Nat, IsFiniteSet(at), NEW n \in 1..Cardinality(at)
  PROVE  Nth(at, n) \in at /\ Cardinality(Upto(at, Nth(at, n))) = n
<1> DEFINE Far == {i \in Nat : Cardinality(Upto(at, i)) >= n}
<1>0. Cardinality(at) \in Nat
  BY FS_CardinalityType
<1>1. Far # {}
  <2>1. at # {}
    BY <1>0, FS_EmptySet
  <2>2. PICK i \in Nat : \A k \in at : k =< i
    BY FiniteIsBounded
  <2>3. Upto(at, i) = at
    BY <2>2 DEF Upto
  <2>4. i \in Far
    BY <1>0, <2>3
  <2> QED  BY <2>4
<1>2. PICK i \in Far : \A k \in Far : i =< k
  <2>1. Far \in SUBSET Nat
    OBVIOUS
  <2> HIDE DEF Far
  <2> QED  BY <1>1, <2>1, LeastOf
<1>3. i \in at /\ Cardinality(Upto(at, i)) = n
  <2>1. CASE i = 0
    BY <2>1, <1>2, UptoGrows
  <2>2. CASE i # 0
    <3>1. i - 1 \in Nat /\ i - 1 \notin Far
      BY <1>2, <2>2
    <3>2. Cardinality(Upto(at, i - 1)) \in Nat /\ Cardinality(Upto(at, i - 1)) < n
      BY <3>1, UptoGrows
    <3> QED  BY <1>2, <2>2, <3>2, UptoGrows
  <2> QED  BY <2>1, <2>2
<1>4. \E k \in at : Cardinality({x \in at : x <= k}) = n
  BY <1>3 DEF Upto
<1> QED  BY <1>4 DEF Nth, Upto

\* Each position is the one that its count says.
LEMMA NthOf ==
  ASSUME NEW at \in SUBSET Nat, IsFiniteSet(at), NEW i \in at
  PROVE  /\ Cardinality(Upto(at, i)) \in 1..Cardinality(at)
         /\ Nth(at, Cardinality(Upto(at, i))) = i
<1> DEFINE n == Cardinality(Upto(at, i))
<1>1. n \in 1..Cardinality(at)
  <2>1. i \in Upto(at, i) /\ i \in Nat
    BY DEF Upto
  <2>2. n # 0 /\ n \in Nat /\ n =< Cardinality(at) /\ Cardinality(at) \in Nat
    BY <2>1, UptoGrows, FS_EmptySet, FS_CardinalityType
  <2> QED  BY <2>2
<1>2. Nth(at, n) \in at /\ Cardinality(Upto(at, Nth(at, n))) = n
  <2> HIDE DEF n
  <2> QED  BY <1>1, NthExists
<1>3. Nth(at, n) = i
  <2>1. Nth(at, n) \in Nat /\ i \in Nat /\ n \in Nat
    <3>1. \A k \in at : k \in Nat
      OBVIOUS
    <3>2. n \in Nat
      BY UptoGrows, <3>1
    <3> HIDE DEF n
    <3> QED  BY <1>2, <3>1, <3>2
  <2>2. CASE Nth(at, n) < i
    <3>1. Cardinality(Upto(at, Nth(at, n))) < Cardinality(Upto(at, i))
      BY <1>2, <2>2, UptoOrdered
    <3> QED  BY <1>2, <2>1, <3>1
  <2>3. CASE i < Nth(at, n)
    <3>1. Cardinality(Upto(at, i)) < Cardinality(Upto(at, Nth(at, n)))
      BY <1>2, <2>3, UptoOrdered
    <3> QED  BY <1>2, <2>1, <3>1
  <2> HIDE DEF n
  <2> QED  BY <2>1, <2>2, <2>3
<1> QED  BY <1>1, <1>3

\* The last of them, less the last but one, and so on: what is below stays in place.
LEMMA NthOrdered ==
  ASSUME NEW at \in SUBSET Nat, IsFiniteSet(at), NEW m \in 1..Cardinality(at), NEW n \in 1..Cardinality(at),
         m < n
  PROVE  Nth(at, m) < Nth(at, n)
<1>1. /\ Nth(at, m) \in at /\ Nth(at, n) \in at
      /\ Cardinality(Upto(at, Nth(at, m))) = m /\ Cardinality(Upto(at, Nth(at, n))) = n
  BY NthExists
<1>2. Nth(at, m) \in Nat /\ Nth(at, n) \in Nat /\ m \in Nat /\ n \in Nat
  <2>1. Cardinality(at) \in Nat /\ \A k \in at : k \in Nat
    BY FS_CardinalityType
  <2>2. m \in Nat /\ n \in Nat
    BY <2>1
  <2> QED  BY <1>1, <2>1, <2>2, Zenon
<1>3. CASE Nth(at, n) < Nth(at, m)
  <2>1. n < m
    BY <1>1, <1>3, UptoOrdered
  <2> QED  BY <1>2, <2>1
<1>4. CASE Nth(at, n) = Nth(at, m)
  BY <1>1, <1>2, <1>4
<1> QED  BY <1>2, <1>3, <1>4

\* The entries at some positions, in order.
Picked(list, at) == [n \in 1..Cardinality(at) |-> list[Nth(at, n)]]

\* They are a list.
LEMMA PickedType ==
  ASSUME NEW S, NEW at \in SUBSET Nat, IsFiniteSet(at), NEW list, \A i \in at : list[i] \in S
  PROVE  Picked(list, at) \in Seq(S) /\ Len(Picked(list, at)) = Cardinality(at)
<1>1. Cardinality(at) \in Nat
  BY FS_CardinalityType
<1>2. \A n \in 1..Cardinality(at) : list[Nth(at, n)] \in S
  BY NthExists
<1> QED  BY <1>1, <1>2 DEF Picked

\* What RemoveAt leaves, index by index.
LEMMA RemovedAt ==
  ASSUME NEW S, NEW c \in Seq(S), NEW n \in 1..Len(c)
  PROVE  RemoveAt(c, n) = [k \in 1..Len(c) - 1 |-> IF k < n THEN c[k] ELSE c[k + 1]]
<1> DEFINE a == SubSeq(c, 1, n - 1)
           b == SubSeq(c, n + 1, Len(c))
<1>1. Len(c) \in Nat /\ n \in Nat
  OBVIOUS
<1>2. a \in Seq(S) /\ Len(a) = n - 1 /\ \A k \in 1..n - 1 : a[k] = c[k]
  OBVIOUS
<1>3. b \in Seq(S) /\ Len(b) = Len(c) - n /\ \A k \in 1..Len(c) - n : b[k] = c[k + n]
  OBVIOUS
<1> HIDE DEF a, b
<1>4. a \o b \in Seq(S) /\ Len(a \o b) = Len(c) - 1
  <2>1. a \o b \in Seq(S) /\ Len(a \o b) = Len(a) + Len(b)
    BY <1>2, <1>3, ConcatProperties, Zenon
  <2> QED  BY <1>1, <1>2, <1>3, <2>1
<1>5. \A k \in 1..Len(c) - 1 : (a \o b)[k] = IF k < n THEN a[k] ELSE b[k - (n - 1)]
  BY <1>1, <1>2, <1>3
<1>6. ASSUME NEW k \in 1..Len(c) - 1
      PROVE  (a \o b)[k] = IF k < n THEN c[k] ELSE c[k + 1]
  <2>1. CASE k < n
    BY <1>1, <1>2, <1>5, <2>1
  <2>2. CASE ~(k < n)
    <3>1. k - (n - 1) \in 1..Len(c) - n /\ (k - (n - 1)) + n = k + 1
      BY <1>1, <2>2
    <3> QED  BY <1>3, <1>5, <2>2, <3>1
  <2> QED  BY <2>1, <2>2
<1>7. a \o b = [k \in 1..Len(c) - 1 |-> (a \o b)[k]]
  <2>1. \A s \in Seq(S) : s = [k \in 1..Len(s) |-> s[k]]
    OBVIOUS
  <2> QED  BY <1>4, <2>1
<1> QED  BY <1>6, <1>7 DEF RemoveAt, a, b

\* Removing the n-th of them picks the others.
LEMMA PickedRemoves ==
  ASSUME NEW at \in SUBSET Nat, IsFiniteSet(at), NEW list, \A i \in at : list[i] \in Entry,
         NEW n \in 1..Cardinality(at)
  PROVE  RemoveAt(Picked(list, at), n) = Picked(list, at \ {Nth(at, n)})
<1> DEFINE i == Nth(at, n)
           rest == at \ {i}
           c == Picked(list, at)
<1>1. i \in at /\ Cardinality(Upto(at, i)) = n /\ i \in Nat
  BY NthExists
<1>2. Cardinality(at) \in Nat /\ IsFiniteSet(rest) /\ Cardinality(rest) = Cardinality(at) - 1
  BY <1>1, FS_RemoveElement, FS_CardinalityType
<1>3. c \in Seq(Entry) /\ Len(c) = Cardinality(at) /\ \A k \in 1..Cardinality(at) : c[k] = list[Nth(at, k)]
  <2>1. c \in Seq(Entry) /\ Len(c) = Cardinality(at)
    BY PickedType
  <2> QED  BY <2>1 DEF Picked
<1>4. ASSUME NEW j \in rest
      PROVE  Cardinality(Upto(rest, j)) = Cardinality(Upto(at, j)) - (IF i < j THEN 1 ELSE 0)
  <2>1. j \in Nat /\ IsFiniteSet(Upto(at, j)) /\ Cardinality(Upto(at, j)) \in Nat /\ j # i
    <3>1. j \in at /\ j \in Nat /\ j # i
      OBVIOUS
    <3> QED  BY <3>1, UptoGrows
  <2>2. CASE i < j
    <3>1. Upto(rest, j) = Upto(at, j) \ {i} /\ i \in Upto(at, j)
      BY <1>1, <2>1, <2>2 DEF Upto
    <3>2. Cardinality(Upto(at, j) \ {i}) = Cardinality(Upto(at, j)) - 1
      BY <2>1, <3>1, FS_RemoveElement
    <3> HIDE DEF i, rest
    <3> QED  BY <2>2, <3>1, <3>2
  <2>3. CASE ~(i < j)
    <3>1. Upto(rest, j) = Upto(at, j)
      BY <1>1, <2>1, <2>3 DEF Upto
    <3> QED  BY <2>1, <2>3, <3>1
  <2> QED  BY <2>2, <2>3
<1>5. ASSUME NEW k \in 1..Cardinality(at) - 1
      PROVE  Nth(rest, k) = IF k < n THEN Nth(at, k) ELSE Nth(at, k + 1)
  <2> DEFINE x == IF k < n THEN k ELSE k + 1
             j == Nth(at, x)
  <2>1. x \in 1..Cardinality(at) /\ x # n /\ (n < x <=> ~(k < n))
    BY <1>2
  <2>2. j \in at /\ Cardinality(Upto(at, j)) = x
    <3> HIDE DEF x
    <3> QED  BY <2>1, NthExists
  <2>3. j # i
    BY <1>1, <2>1, <2>2
  <2>4. i < j <=> ~(k < n)
    <3>1. i \in Nat /\ j \in Nat
      BY <1>1, <2>2
    <3>2. CASE n < x
      <4>1. i < j
        BY <2>1, <3>2, NthOrdered
      <4> QED  BY <2>1, <3>2, <4>1
    <3>3. CASE x < n
      <4>1. j < i
        <5> HIDE DEF x
        <5> QED  BY <2>1, <3>3, NthOrdered
      <4> QED  BY <2>1, <3>1, <3>3, <4>1
    <3>4. x \in Nat /\ n \in Nat
      BY <1>2, <2>1
    <3> HIDE DEF x, i, j
    <3> QED  BY <2>1, <3>2, <3>3, <3>4
  <2>5. Cardinality(Upto(rest, j)) = k
    <3>1. Cardinality(Upto(rest, j)) = Cardinality(Upto(at, j)) - (IF i < j THEN 1 ELSE 0)
      BY <1>4, <2>2, <2>3
    <3> HIDE DEF i, j, rest
    <3> QED  BY <1>2, <2>2, <2>4, <3>1
  <2>6. rest \in SUBSET Nat /\ j \in rest
    BY <2>2, <2>3
  <2>7. Nth(rest, Cardinality(Upto(rest, j))) = j
    <3> HIDE DEF rest, j
    <3> QED  BY <1>2, <2>6, NthOf
  <2> QED  BY <2>5, <2>7
<1>6. RemoveAt(c, n) = [k \in 1..Cardinality(at) - 1 |-> IF k < n THEN c[k] ELSE c[k + 1]]
  <2> HIDE DEF c
  <2> QED  BY <1>3, RemovedAt
<1>7. Picked(list, rest) = [k \in 1..Cardinality(at) - 1 |-> list[Nth(rest, k)]]
  BY <1>2 DEF Picked
<1>8. ASSUME NEW k \in 1..Cardinality(at) - 1
      PROVE  (IF k < n THEN c[k] ELSE c[k + 1]) = list[Nth(rest, k)]
  <2>1. k \in 1..Cardinality(at) /\ k + 1 \in 1..Cardinality(at)
    BY <1>2
  <2> HIDE DEF c, rest
  <2> QED  BY <1>3, <1>5, <2>1
<1> HIDE DEF c, rest
<1> QED  BY <1>6, <1>7, <1>8 DEF c, rest

-----------------------------------------------------------------------------
(* The walk over two lists.                                                 *)

\* f holds where the walk is after each step.
Walks(f, before, after, N) ==
  f = [k \in 0..N |-> IF k = 0 THEN [i |-> 1, j |-> 1, pairs |-> <<>>]
                      ELSE Walked(before, after, CommonLengths(before, after), f[k - 1])]

\* Such a function exists.
LEMMA WalkExists ==
  ASSUME NEW before, NEW after, NEW N \in Nat
  PROVE  \E f : Walks(f, before, after, N)
<1> DEFINE Next(at) == Walked(before, after, CommonLengths(before, after), at)
           start == [i |-> 1, j |-> 1, pairs |-> <<>>]
           P == {n \in 0..N : \E f : Walks(f, before, after, n)}
<1>1. 0 \in P
  <2>1. Walks([n \in 0..0 |-> start], before, after, 0)
    BY DEF Walks
  <2> QED  BY <2>1
<1>2. ASSUME NEW n \in 0..N, n \in P, n < N  PROVE n + 1 \in P
  <2>1. PICK f : Walks(f, before, after, n)
    BY <1>2
  <2> DEFINE g == [k \in 0..n + 1 |-> IF k = n + 1 THEN Next(f[n]) ELSE f[k]]
  <2>2. \A k \in 0..n : f[k] = IF k = 0 THEN start ELSE Next(f[k - 1])
    BY <2>1 DEF Walks
  <2> HIDE DEF Next, start
  <2>3. ASSUME NEW k \in 0..n + 1
        PROVE  g[k] = IF k = 0 THEN start ELSE Next(g[k - 1])
    <3>1. CASE k = n + 1
      BY <3>1
    <3>2. CASE k # n + 1
      <4>1. k \in 0..n /\ (k # 0 => k - 1 \in 0..n)
        BY <3>2
      <4>2. g[k] = f[k] /\ (k # 0 => g[k - 1] = f[k - 1])
        BY <4>1
      <4> HIDE DEF g
      <4> QED  BY <2>2, <4>1, <4>2
    <3> QED  BY <3>1, <3>2
  <2>4. g = [k \in 0..n + 1 |-> IF k = 0 THEN start ELSE Next(g[k - 1])]
    BY <2>3
  <2>5. n + 1 \in 0..N
    BY <1>2
  <2>6. Walks(g, before, after, n + 1)
    <3> HIDE DEF g
    <3> QED  BY <2>4 DEF Walks, Next, start
  <2> HIDE DEF g
  <2> QED  BY <2>5, <2>6
<1> HIDE DEF P
<1>3. N \in P
  BY <1>1, <1>2, UpTo
<1> QED  BY <1>3 DEF P

\* The pairs found in front of i and j: equal entries, in order in both lists.
PairsBelow(before, after, i, j, pairs) ==
  /\ pairs \in Seq((1..Len(before)) \X (1..Len(after)))
  /\ \A g \in 1..Len(pairs) : /\ pairs[g][1] < i /\ pairs[g][2] < j
                              /\ before[pairs[g][1]] = after[pairs[g][2]]
  /\ \A g \in 1..Len(pairs), h \in 1..Len(pairs) :
       g < h => pairs[g][1] < pairs[h][1] /\ pairs[g][2] < pairs[h][2]

OnTheWay(before, after, at) ==
  /\ at = [i |-> at.i, j |-> at.j, pairs |-> at.pairs]
  /\ at.i \in 1..Len(before) + 1 /\ at.j \in 1..Len(after) + 1
  /\ PairsBelow(before, after, at.i, at.j, at.pairs)

\* One pair more.
LEMMA PairAppended ==
  ASSUME NEW S, NEW before \in Seq(S), NEW after \in Seq(S),
         NEW i \in 1..Len(before), NEW j \in 1..Len(after), NEW pairs,
         PairsBelow(before, after, i, j, pairs), before[i] = after[j]
  PROVE  PairsBelow(before, after, i + 1, j + 1, Append(pairs, <<i, j>>))
<1> DEFINE more == Append(pairs, <<i, j>>)
           T == (1..Len(before)) \X (1..Len(after))
<1>0. i \in Nat /\ j \in Nat
  OBVIOUS
<1>1. <<i, j>> \in T /\ pairs \in Seq(T)
  BY DEF PairsBelow
<1>2. ASSUME NEW g \in 1..Len(pairs)
      PROVE  /\ pairs[g] \in T /\ pairs[g][1] < i /\ pairs[g][2] < j
             /\ pairs[g][1] \in Nat /\ pairs[g][2] \in Nat
             /\ before[pairs[g][1]] = after[pairs[g][2]]
  <2>1. pairs[g] \in T
    <3> HIDE DEF T
    <3> QED  BY <1>1
  <2>2. pairs[g][1] \in Nat /\ pairs[g][2] \in Nat
    BY <2>1
  <2>3. /\ pairs[g][1] < i /\ pairs[g][2] < j
        /\ before[pairs[g][1]] = after[pairs[g][2]]
    BY Zenon DEF PairsBelow
  <2> QED  BY <2>1, <2>2, <2>3, Zenon
<1> HIDE DEF T
<1>3. /\ more \in Seq(T) /\ Len(more) = Len(pairs) + 1 /\ Len(pairs) \in Nat
      /\ \A g \in 1..Len(pairs) + 1 : more[g] = IF g =< Len(pairs) THEN pairs[g] ELSE <<i, j>>
  BY <1>1
<1> HIDE DEF more
<1>4. ASSUME NEW g \in 1..Len(more)
      PROVE  /\ more[g][1] < i + 1 /\ more[g][2] < j + 1
             /\ before[more[g][1]] = after[more[g][2]]
  <2>0. g \in 1..Len(pairs) + 1 /\ Len(pairs) \in Nat
    BY <1>3
  <2>1. CASE g =< Len(pairs)
    <3>1. g \in 1..Len(pairs)
      BY <2>0, <2>1
    <3>2. more[g] = pairs[g]
      BY <1>3, <2>0, <2>1, Zenon
    <3>3. PICK k \in Nat, l \in Nat :
            k = pairs[g][1] /\ l = pairs[g][2] /\ k < i /\ l < j /\ before[k] = after[l]
      BY <1>2, <3>1, Zenon
    <3>4. k < i + 1 /\ l < j + 1
      BY <1>0, <3>3, LessThanNext, Zenon
    <3> QED  BY <3>2, <3>3, <3>4, Zenon
  <2>2. CASE ~(g =< Len(pairs))
    <3>1. more[g] = <<i, j>>
      BY <1>3, <2>2
    <3> QED  BY <3>1
  <2> QED  BY <2>1, <2>2
<1>5. ASSUME NEW g \in 1..Len(more), NEW h \in 1..Len(more), g < h
      PROVE  more[g][1] < more[h][1] /\ more[g][2] < more[h][2]
  <2>1. g \in 1..Len(pairs) /\ more[g] = pairs[g]
    BY <1>3, <1>5
  <2>2. CASE h =< Len(pairs)
    <3>1. h \in 1..Len(pairs) /\ more[h] = pairs[h]
      BY <1>3, <2>2
    <3> QED  BY <1>5, <2>1, <3>1 DEF PairsBelow
  <2>3. CASE ~(h =< Len(pairs))
    <3>1. more[h] = <<i, j>>
      BY <1>3, <2>3
    <3> QED  BY <1>2, <2>1, <3>1
  <2> QED  BY <2>2, <2>3
<1> QED  BY <1>3, <1>4, <1>5 DEF PairsBelow, T, more

\* What is in front of a place is in front of a later one.
LEMMA PairsBelowMore ==
  ASSUME NEW before, NEW after, Len(before) \in Nat, Len(after) \in Nat,
         NEW i \in Nat, NEW j \in Nat, NEW x \in Nat, NEW y \in Nat, i =< x, j =< y, NEW pairs,
         PairsBelow(before, after, i, j, pairs)
  PROVE  PairsBelow(before, after, x, y, pairs)
<1>1. ASSUME NEW g \in 1..Len(pairs)
      PROVE  pairs[g][1] < x /\ pairs[g][2] < y
  <2>1. pairs[g] \in (1..Len(before)) \X (1..Len(after))
    BY DEF PairsBelow
  <2>2. pairs[g][1] \in Nat /\ pairs[g][2] \in Nat
    BY <2>1
  <2>3. pairs[g][1] < i /\ pairs[g][2] < j
    BY DEF PairsBelow
  <2> QED  BY <2>2, <2>3, LessThanMore, Zenon
<1> QED  BY <1>1 DEF PairsBelow

\* A step of the walk finds a pair of equal entries, or none.
LEMMA WalkStep ==
  ASSUME NEW S, NEW before \in Seq(S), NEW after \in Seq(S), NEW lengths, NEW at,
         OnTheWay(before, after, at)
  PROVE  OnTheWay(before, after, Walked(before, after, lengths, at))
<1>1. at.i \in Nat /\ at.j \in Nat /\ Len(before) \in Nat /\ Len(after) \in Nat
  BY DEF OnTheWay
<1>2. CASE at.i > Len(before) \/ at.j > Len(after)
  BY <1>2 DEF Walked
<1>3. CASE ~(at.i > Len(before) \/ at.j > Len(after))
  <2>1. at.i \in 1..Len(before) /\ at.j \in 1..Len(after)
    BY <1>1, <1>3 DEF OnTheWay
  <2>2. CASE before[at.i] = after[at.j]
    <3>1. PairsBelow(before, after, at.i + 1, at.j + 1, Append(at.pairs, <<at.i, at.j>>))
      BY <2>1, <2>2, PairAppended DEF OnTheWay
    <3>2. Walked(before, after, lengths, at)
            = [i |-> at.i + 1, j |-> at.j + 1, pairs |-> Append(at.pairs, <<at.i, at.j>>)]
      BY <1>3, <2>2 DEF Walked
    <3> QED  BY <1>1, <2>1, <3>1, <3>2 DEF OnTheWay
  <2>3. ASSUME NEW i, NEW j, i \in {at.i, at.i + 1}, j \in {at.j, at.j + 1}
        PROVE  OnTheWay(before, after, [i |-> i, j |-> j, pairs |-> at.pairs])
    <3>1. i \in 1..Len(before) + 1 /\ j \in 1..Len(after) + 1 /\ at.i =< i /\ at.j =< j
      BY <1>1, <2>1, <2>3
    <3>2. PairsBelow(before, after, i, j, at.pairs)
      BY <1>1, <3>1, PairsBelowMore DEF OnTheWay
    <3> QED  BY <3>1, <3>2 DEF OnTheWay
  <2>4. CASE before[at.i] # after[at.j]
    <3>1. Walked(before, after, lengths, at)
            \in {[i |-> at.i + 1, j |-> at.j, pairs |-> at.pairs],
                [i |-> at.i, j |-> at.j + 1, pairs |-> at.pairs]}
      BY <1>3, <2>4 DEF Walked
    <3>2. OnTheWay(before, after, [i |-> at.i + 1, j |-> at.j, pairs |-> at.pairs])
      BY <2>3
    <3>3. OnTheWay(before, after, [i |-> at.i, j |-> at.j + 1, pairs |-> at.pairs])
      BY <2>3
    <3> QED  BY <3>1, <3>2, <3>3
  <2> QED  BY <2>2, <2>4
<1> QED  BY <1>2, <1>3

\* What UnchangedPairs finds are pairs of equal entries, in order in both lists.
LEMMA PairsUnchanged ==
  ASSUME NEW S, NEW before \in Seq(S), NEW after \in Seq(S)
  PROVE  PairsBelow(before, after, Len(before) + 1, Len(after) + 1, UnchangedPairs(before, after))
<1> DEFINE N == Len(before) + Len(after)
           walk == CHOOSE f : Walks(f, before, after, N)
<1>1. N \in Nat /\ Len(before) \in Nat /\ Len(after) \in Nat
  OBVIOUS
<1>2. UnchangedPairs(before, after) = walk[N].pairs
  BY DEF UnchangedPairs, Walks
<1>3. Walks(walk, before, after, N)
  <2> HIDE DEF N
  <2>1. \E f : Walks(f, before, after, N)
    BY <1>1, WalkExists, Zenon
  <2> QED  BY <2>1
<1> HIDE DEF N, walk
<1> DEFINE P == {n \in 0..N : OnTheWay(before, after, walk[n])}
<1>4. 0 \in P
  <2>1. walk[0] = [i |-> 1, j |-> 1, pairs |-> <<>>]
    BY <1>1, <1>3 DEF Walks
  <2>2. PairsBelow(before, after, 1, 1, <<>>)
    BY DEF PairsBelow
  <2> QED  BY <1>1, <2>1, <2>2 DEF OnTheWay
<1>5. ASSUME NEW n \in 0..N, n \in P, n < N  PROVE n + 1 \in P
  <2>1. walk[n + 1] = Walked(before, after, CommonLengths(before, after), walk[n]) /\ n + 1 \in 0..N
    BY <1>1, <1>3, <1>5 DEF Walks
  <2> QED  BY <1>5, <2>1, WalkStep
<1> HIDE DEF P
<1>6. \A n \in 0..N : n \in P
  BY <1>1, <1>4, <1>5, UpTo
<1>7. OnTheWay(before, after, walk[N])
  BY <1>1, <1>6 DEF P
<1>8. PairsBelow(before, after, walk[N].i, walk[N].j, walk[N].pairs)
  BY <1>7 DEF OnTheWay
<1>9. ASSUME NEW g \in 1..Len(walk[N].pairs)
      PROVE  walk[N].pairs[g][1] < Len(before) + 1 /\ walk[N].pairs[g][2] < Len(after) + 1
  <2>1. walk[N].pairs[g] \in (1..Len(before)) \X (1..Len(after))
    BY <1>8 DEF PairsBelow
  <2>2. walk[N].pairs[g][1] \in 1..Len(before) /\ walk[N].pairs[g][2] \in 1..Len(after)
    BY <2>1
  <2> QED  BY <1>1, <2>2, Within, Zenon
<1> QED  BY <1>2, <1>8, <1>9 DEF PairsBelow

-----------------------------------------------------------------------------
(* The operations of one section, on what the section holds.                *)

\* What a function makes of a finite set is finite.
LEMMA ImageFinite ==
  ASSUME NEW A, IsFiniteSet(A), NEW f, DOMAIN f = A, f = [x \in A |-> f[x]]
  PROVE  IsFiniteSet({f[x] : x \in A})
<1>1. f \in Surjection(A, {f[x] : x \in A})
  BY Zenon DEF Surjection
<1> QED  BY <1>1, FS_Surjection

\* SetToSeq lists each member once.
LEMMA Listing ==
  ASSUME NEW S, IsFiniteSet(S)
  PROVE  /\ SetToSeq(S) \in Seq(S) /\ Len(SetToSeq(S)) = Cardinality(S) /\ Cardinality(S) \in Nat
         /\ \A m \in 1..Cardinality(S), n \in 1..Cardinality(S) :
              SetToSeq(S)[m] = SetToSeq(S)[n] => m = n
         /\ \A x \in S : \E n \in 1..Cardinality(S) : SetToSeq(S)[n] = x
<1> DEFINE f == SetToSeq(S)
           N == Cardinality(S)
<1>1. N \in Nat /\ ExistsBijection(1..N, S)
  BY FS_CardinalityType
<1>2. \E g \in [1..N -> S] : IsInjective(g)
  BY <1>1 DEF ExistsBijection, Bijection, Injection
<1>3. f \in [1..N -> S] /\ IsInjective(f)
  BY <1>2, Zenon DEF SetToSeq
<1>4. IsFiniteSet(1..N) /\ Cardinality(1..N) = N
  BY <1>1, FS_Interval
<1> HIDE DEF f, N
<1>5. f \in Injection(1..N, S)
  BY <1>3 DEF Injection
<1>6. f \in Surjection(1..N, S)
  BY <1>4, <1>5, FS_Injection DEF N
<1>7. f \in Seq(S) /\ Len(f) = N
  BY <1>1, <1>3
<1>8. \A m \in 1..N, n \in 1..N : f[m] = f[n] => m = n
  BY <1>3 DEF IsInjective
<1>9. \A x \in S : \E n \in 1..N : f[n] = x
  BY <1>6 DEF Surjection
<1> QED  BY <1>1, <1>7, <1>8, <1>9 DEF f, N

\* c holds what the operations up to each one make of what the section held.
SectionTrace(c, s, content, ops) ==
  /\ c[0] = content
  /\ \A n \in 1..Len(ops) : /\ ops[n].section = s /\ ~ops[n].whole
                            /\ ops[n].op = "add" \/ ops[n].at \in DOMAIN c[n - 1]
                            /\ c[n] = EditedSection(c[n - 1], ops[n])

\* They all apply, and nothing else changes.
LEMMA SectionStages ==
  ASSUME NEW q, IsDocument(q), NEW s \in DOMAIN q, NEW O, NEW ops \in Seq(O), NEW c,
         SectionTrace(c, s, q[s], ops)
  PROVE  FitInTurn(q, ops) /\ Projected(q, ops) = With(q, s, c[Len(ops)])
<1>1. ASSUME NEW f, Makes("page", f, q, ops, Len(ops))
      PROVE  \A n \in 0..Len(ops) : f[n] = With(q, s, c[n])
  <2> DEFINE P == {n \in 0..Len(ops) : f[n] = With(q, s, c[n])}
  <2>1. 0 \in P
    <3>1. f[0] = q /\ c[0] = q[s]
      BY <1>1 DEF Makes, SectionTrace
    <3>2. With(q, s, q[s]) = q
      BY DEF IsDocument, With
    <3> QED  BY <3>1, <3>2
  <2>2. ASSUME NEW n \in 0..Len(ops), n \in P, n < Len(ops)  PROVE n + 1 \in P
    <3> DEFINE o == ops[n + 1]
    <3>0. n + 1 \in 1..Len(ops) /\ (n + 1) - 1 = n
      BY <2>2
    <3>1. f[n + 1] = Displayed(f[n], o)
      BY <1>1, <2>2 DEF Makes, Step
    <3>2. /\ o.section = s /\ ~o.whole /\ (o.op = "add" \/ o.at \in DOMAIN c[n])
          /\ c[n + 1] = EditedSection(c[n], o)
      BY <3>0 DEF SectionTrace
    <3> HIDE DEF o
    <3>3. f[n] = With(q, s, c[n]) /\ s \in DOMAIN f[n] /\ f[n][s] = c[n]
      BY <2>2 DEF With
    <3>4. Applies(f[n], o)
      BY <3>2, <3>3 DEF Applies
    <3>5. f[n + 1] = With(f[n], s, c[n + 1])
      BY <3>1, <3>2, <3>3, <3>4 DEF Displayed, After
    <3>6. f[n + 1] = With(q, s, c[n + 1])
      BY <3>3, <3>5 DEF With
    <3> QED  BY <3>0, <3>6
  <2> HIDE DEF P
  <2>3. \A n \in 0..Len(ops) : n \in P
    <3>1. Len(ops) \in Nat
      OBVIOUS
    <3>2. \A n \in 0..Len(ops) : n \in P /\ n < Len(ops) => n + 1 \in P
      BY <2>2, Zenon
    <3> QED  BY <2>1, <3>1, <3>2, UpTo, Zenon
  <2> QED  BY <2>3 DEF P
<1>2. ASSUME NEW f, Makes("page", f, q, ops, Len(ops)), NEW n \in 1..Len(ops)
      PROVE  Fits(f[n - 1], ops[n])
  <2>1. n - 1 \in 0..Len(ops)
    OBVIOUS
  <2>2. f[n - 1] = With(q, s, c[n - 1])
    BY <1>1, <1>2, <2>1
  <2>3. s \in DOMAIN f[n - 1] /\ f[n - 1][s] = c[n - 1]
    BY <2>2 DEF With
  <2> QED  BY <2>3 DEF Fits, Applies, SectionTrace
<1>3. FitInTurn(q, ops)
  BY <1>2 DEF FitInTurn
<1>4. PICK f : Makes("page", f, q, ops, Len(ops)) /\ Projected(q, ops) = f[Len(ops)]
  BY Stages
<1>5. f[Len(ops)] = With(q, s, c[Len(ops)])
  <2>1. Len(ops) \in 0..Len(ops)
    OBVIOUS
  <2> QED  BY <1>1, <1>4, <2>1
<1> QED  BY <1>3, <1>4, <1>5

\* Operations on one section that lead from what it holds to something else.
Leads(s, from, to, ops) ==
  ops \in Seq(Operation) /\ \E c : SectionTrace(c, s, from, ops) /\ c[Len(ops)] = to

\* In a document they fit, and change nothing but the section.
LEMMA LeadsThere ==
  ASSUME NEW q, IsDocument(q), NEW s \in DOMAIN q, NEW to, NEW ops, Leads(s, q[s], to, ops)
  PROVE  FitInTurn(q, ops) /\ Projected(q, ops) = With(q, s, to) /\ ops \in Seq(Operation)
<1>1. PICK c : SectionTrace(c, s, q[s], ops) /\ c[Len(ops)] = to
  BY DEF Leads
<1>2. ops \in Seq(Operation)
  BY DEF Leads
<1> QED  BY <1>1, <1>2, SectionStages

\* The operations that the page queues are operations.
LEMMA RemoveOperation ==
  ASSUME NEW s \in Section, NEW k \in Place
  PROVE  RemoveOp(s, k) \in Operation
BY DEF RemoveOp, Operation, WellFormed

\* So are those on a name of a map, ...
LEMMA MapOperation ==
  ASSUME NEW s \in MapSection, NEW k \in Key[s], NEW v \in SUBSET Name
  PROVE  ReplaceOp(s, k, v) \in Operation /\ Add(s, k, v) \in Operation
<1>1. s \in Section /\ s \notin ListSection /\ k \in Place
  BY Sections DEF Place
<1> QED  BY <1>1 DEF ReplaceOp, Add, Operation, WellFormed

\* ... those on an index of a list, ...
LEMMA ListOperation ==
  ASSUME NEW s \in ListSection, NEW k \in Nat \union {End}, NEW e \in Entry
  PROVE  ReplaceOp(s, k, e) \in Operation /\ Add(s, k, e) \in Operation
<1>1. s \in Section /\ k \in Place
  BY Sections DEF Place
<1> QED  BY <1>1 DEF ReplaceOp, Add, Operation, WellFormed

\* ... and those that bring a section.
LEMMA WholeOperation ==
  ASSUME NEW s \in Section, NEW c, IsContent(s, c)
  PROVE  Whole(s, c) \in Operation
<1>1. c \in Contents /\ End \in Place
  BY ContentInContents DEF Place
<1> QED  BY <1>1 DEF Whole, Operation, WellFormed

\* A cascade leads from one map to a smaller one.
LEMMA MapOpsMake ==
  ASSUME NEW s \in MapSection, NEW before, NEW after, IsMap(s, before), IsMap(s, after),
         DOMAIN after \subseteq DOMAIN before
  PROVE  Leads(s, before, after, MapOps(s, before, after))
<1> DEFINE gone == DOMAIN before \ DOMAIN after
           changed == {x \in DOMAIN before \intersect DOMAIN after : before[x] # after[x]}
           removes == {RemoveOp(s, k) : k \in gone}
           replaces == {ReplaceOp(s, k, after[k]) : k \in changed}
           S == removes \union replaces
           ops == SetToSeq(S)
           N == Len(ops)
           done(n) == {ops[m].at : m \in 1..n}
           c == [n \in 0..N |-> [k \in DOMAIN before \ (gone \intersect done(n)) |->
                                   IF k \in done(n) THEN after[k] ELSE before[k]]]
<1>0. s \in Section /\ s \notin ListSection
  BY Sections
<1>1. IsFiniteSet(gone) /\ IsFiniteSet(changed) /\ gone \intersect changed = {}
  <2>1. IsFiniteSet(DOMAIN before) /\ gone \subseteq DOMAIN before /\ changed \subseteq DOMAIN before
    BY DEF IsMap
  <2> QED  BY <2>1, FS_Subset
<1>2. IsFiniteSet(S)
  <2>1. IsFiniteSet(removes)
    <3> DEFINE f == [k \in gone |-> RemoveOp(s, k)]
    <3>1. IsFiniteSet({f[k] : k \in gone})
      <4>1. DOMAIN f = gone /\ f = [k \in gone |-> f[k]]
        OBVIOUS
      <4> HIDE DEF f, gone
      <4> QED  BY <1>1, <4>1, ImageFinite
    <3>2. {f[k] : k \in gone} = removes
      OBVIOUS
    <3> QED  BY <3>1, <3>2
  <2>2. IsFiniteSet(replaces)
    <3> DEFINE f == [k \in changed |-> ReplaceOp(s, k, after[k])]
    <3>1. IsFiniteSet({f[k] : k \in changed})
      <4>1. DOMAIN f = changed /\ f = [k \in changed |-> f[k]]
        OBVIOUS
      <4> HIDE DEF f, changed
      <4> QED  BY <1>1, <4>1, ImageFinite
    <3>2. {f[k] : k \in changed} = replaces
      OBVIOUS
    <3> QED  BY <3>1, <3>2
  <2> HIDE DEF removes, replaces
  <2> QED  BY <2>1, <2>2, FS_Union
<1>3. MapOps(s, before, after) = ops
  BY DEF MapOps
<1>4. \A o \in S : /\ o.section = s /\ ~o.whole /\ o \in Operation
                   /\ \/ o.at \in gone /\ o = RemoveOp(s, o.at)
                      \/ o.at \in changed /\ o = ReplaceOp(s, o.at, after[o.at])
  <2>1. ASSUME NEW k \in gone  PROVE RemoveOp(s, k) \in Operation
    <3>1. k \in Place
      BY Sections DEF Place, IsMap
    <3> QED  BY <1>0, <3>1, RemoveOperation
  <2>2. ASSUME NEW k \in changed  PROVE ReplaceOp(s, k, after[k]) \in Operation
    <3>1. k \in Key[s] /\ after[k] \in SUBSET Name
      BY DEF IsMap
    <3> QED  BY <3>1, MapOperation
  <2> QED  BY <2>1, <2>2 DEF RemoveOp, ReplaceOp
<1>5. /\ ops \in Seq(S) /\ N \in Nat
      /\ \A m \in 1..N, n \in 1..N : ops[m] = ops[n] => m = n
      /\ \A x \in S : \E n \in 1..N : ops[n] = x
  <2> HIDE DEF S
  <2> QED  BY <1>2, Listing
<1>6. ops \in Seq(Operation)
  <2> HIDE DEF S, ops
  <2> QED  BY <1>4, <1>5
<1>7. \A m \in 1..N, n \in 1..N : ops[m].at = ops[n].at => m = n
  <2> HIDE DEF S, ops, gone, changed
  <2>1. \A m \in 1..N : ops[m] \in S
    BY <1>5
  <2>2. \A k : ~(k \in gone /\ k \in changed)
    BY <1>1
  <2>3. ASSUME NEW a \in S, NEW b \in S, a.at = b.at  PROVE a = b
    BY <1>4, <2>2, <2>3, Zenon
  <2> QED  BY <1>5, <2>1, <2>3
<1> HIDE DEF ops, S, N
<1>8. c[0] = before
  <2>1. done(0) = {}
    BY <1>5
  <2>2. 0 \in 0..N
    BY <1>5
  <2>3. before = [k \in DOMAIN before |-> before[k]]
    BY DEF IsMap
  <2> QED  BY <2>1, <2>2, <2>3
<1>9. ASSUME NEW n \in 1..N
      PROVE  /\ ops[n].section = s /\ ~ops[n].whole
             /\ ops[n].op = "add" \/ ops[n].at \in DOMAIN c[n - 1]
             /\ c[n] = EditedSection(c[n - 1], ops[n])
  <2> DEFINE o == ops[n]
             k == o.at
  <2>1. o \in S /\ n \in 0..N /\ n - 1 \in 0..N
    <3>1. n \in 0..N /\ n - 1 \in 0..N
      BY <1>5
    <3>2. ops[n] \in S
      BY <1>5 DEF N
    <3> QED  BY <3>1, <3>2
  <2>2. done(n) = done(n - 1) \union {k}
    <3>1. n \in Nat /\ n >= 1
      BY <1>5
    <3>2. 1..n = (1..n - 1) \union {n}
      BY <3>1
    <3> QED  BY <3>2
  <2>3. k \notin done(n - 1)
    <3>1. \A m \in 1..n - 1 : m \in 1..N /\ m # n
      BY <1>5
    <3> QED  BY <1>7, <3>1
  <2>4. /\ c[n] = [x \in DOMAIN before \ (gone \intersect done(n)) |->
                     IF x \in done(n) THEN after[x] ELSE before[x]]
        /\ c[n - 1] = [x \in DOMAIN before \ (gone \intersect done(n - 1)) |->
                         IF x \in done(n - 1) THEN after[x] ELSE before[x]]
    BY <2>1
  <2>5. /\ o.section = s /\ ~o.whole
        /\ \/ k \in gone /\ o = RemoveOp(s, k)
           \/ k \in changed /\ o = ReplaceOp(s, k, after[k])
    BY <1>4, <2>1
  <2> HIDE DEF o, k, done, c
  <2>6. k \in DOMAIN c[n - 1]
    BY <2>3, <2>4, <2>5
  <2>7. CASE k \in gone /\ o = RemoveOp(s, k)
    <3>1. o.op = "remove" /\ o.section = s /\ o.at = k
      BY <2>7 DEF RemoveOp
    <3>2. EditedSection(c[n - 1], o) = Without(c[n - 1], {k})
      BY <1>0, <3>1 DEF EditedSection
    <3>3. c[n] = Without(c[n - 1], {k})
      BY <2>2, <2>4, <2>7 DEF Without, Restrict
    <3> QED  BY <2>5, <2>6, <3>2, <3>3 DEF o, k
  <2>8. CASE k \in changed /\ o = ReplaceOp(s, k, after[k])
    <3>1. o.op = "replace" /\ o.section = s /\ o.at = k /\ o.value = after[k]
      BY <2>8 DEF ReplaceOp
    <3>2. EditedSection(c[n - 1], o) = [c[n - 1] EXCEPT ![k] = after[k]]
      BY <3>1 DEF EditedSection
    <3>3. c[n] = [c[n - 1] EXCEPT ![k] = after[k]]
      <4>1. k \notin gone
        BY <1>1, <2>8
      <4>2. DOMAIN c[n] = DOMAIN c[n - 1]
        BY <2>2, <2>4, <4>1
      <4>3. \A x \in DOMAIN c[n] : c[n][x] = IF x = k THEN after[k] ELSE c[n - 1][x]
        BY <2>2, <2>4, <4>2
      <4>4. c[n] = [x \in DOMAIN c[n] |-> c[n][x]]
        BY <2>4
      <4> HIDE DEF gone, changed
      <4> QED  BY <4>2, <4>3, <4>4
    <3> QED  BY <2>5, <2>6, <3>2, <3>3 DEF o, k
  <2> QED  BY <2>5, <2>7, <2>8
<1>10. c[N] = after
  <2>1. N \in 0..N
    BY <1>5
  <2>2. gone \subseteq done(N) /\ changed \subseteq done(N)
    <3>1. ASSUME NEW k \in gone  PROVE k \in done(N)
      <4>1. RemoveOp(s, k) \in S
        BY DEF S
      <4>2. PICK n \in 1..N : ops[n] = RemoveOp(s, k)
        BY <1>5, <4>1
      <4> QED  BY <4>2 DEF RemoveOp
    <3>2. ASSUME NEW k \in changed  PROVE k \in done(N)
      <4>1. ReplaceOp(s, k, after[k]) \in S
        BY DEF S
      <4>2. PICK n \in 1..N : ops[n] = ReplaceOp(s, k, after[k])
        BY <1>5, <4>1
      <4> QED  BY <4>2 DEF ReplaceOp
    <3> QED  BY <3>1, <3>2
  <2>3. c[N] = [k \in DOMAIN before \ (gone \intersect done(N)) |->
                  IF k \in done(N) THEN after[k] ELSE before[k]]
    BY <2>1
  <2>4. after = [k \in DOMAIN after |-> after[k]]
    BY DEF IsMap
  <2>5. DOMAIN before \ (gone \intersect done(N)) = DOMAIN after
    BY <2>2
  <2>6. \A k \in DOMAIN after : (IF k \in done(N) THEN after[k] ELSE before[k]) = after[k]
    BY <2>2
  <2> HIDE DEF c, done
  <2> QED  BY <2>3, <2>4, <2>5, <2>6
<1>11. SectionTrace(c, s, before, ops)
  <2> HIDE DEF c
  <2> QED  BY <1>8, <1>9 DEF SectionTrace, N
<1> HIDE DEF c
<1> QED  BY <1>3, <1>6, <1>10, <1>11 DEF N, Leads

-----------------------------------------------------------------------------
(* The operations on a list: what stands between the unchanged entries.     *)

\* Pairs that grow on both sides, from the front of two lists to behind them.
Fence(P, m, n) ==
  /\ P \in Seq(Nat \X Nat) /\ Len(P) \in Nat /\ Len(P) >= 2
  /\ P[1] = <<0, 0>> /\ P[Len(P)] = <<m + 1, n + 1>>
  /\ \A g \in 1..Len(P), h \in 1..Len(P) :
       g < h => P[g][1] < P[h][1] /\ P[g][2] < P[h][2]

\* The pairs of UnchangedPairs are such pairs, with the two ends.
LEMMA AnchorsAreFence ==
  ASSUME NEW S, NEW before \in Seq(S), NEW after \in Seq(S)
  PROVE  /\ Fence(Anchors(before, after), Len(before), Len(after))
         /\ \A g \in 2..Len(Anchors(before, after)) - 1 :
              before[Anchors(before, after)[g][1]] = after[Anchors(before, after)[g][2]]
<1> DEFINE m == Len(before)
           n == Len(after)
           U == UnchangedPairs(before, after)
           L == Len(U)
           P == Anchors(before, after)
           T == Nat \X Nat
<1>1. m \in Nat /\ n \in Nat
  OBVIOUS
<1>2. PairsBelow(before, after, m + 1, n + 1, U)
  BY PairsUnchanged
<1>3. U \in Seq((1..m) \X (1..n))
  BY <1>2 DEF PairsBelow
<1>4. \A g \in 1..L : /\ U[g] \in T /\ U[g][1] \in 1..m /\ U[g][2] \in 1..n
                      /\ before[U[g][1]] = after[U[g][2]]
  <2>1. ASSUME NEW g \in 1..L
        PROVE  U[g] \in T /\ U[g][1] \in 1..m /\ U[g][2] \in 1..n
    <3>1. U[g] \in (1..m) \X (1..n)
      BY <1>3
    <3> HIDE DEF U, L, m, n
    <3> QED  BY <3>1
  <2>2. \A g \in 1..L : before[U[g][1]] = after[U[g][2]]
    BY <1>2, Zenon DEF PairsBelow
  <2> QED  BY <2>1, <2>2, Zenon
<1>5. \A g \in 1..L, h \in 1..L : g < h => U[g][1] < U[h][1] /\ U[g][2] < U[h][2]
  BY <1>2 DEF PairsBelow
<1>6. U \in Seq(T) /\ L \in Nat
  <2>1. (1..m) \X (1..n) \subseteq T
    OBVIOUS
  <2> HIDE DEF U, T, m, n
  <2> QED  BY <1>3, <2>1
<1>7. P = <<<<0, 0>>>> \o U \o <<<<m + 1, n + 1>>>>
  BY DEF Anchors
<1> DEFINE a == <<0, 0>>
           z == <<m + 1, n + 1>>
<1>8. a \in T /\ z \in T /\ a[1] = 0 /\ a[2] = 0 /\ z[1] = m + 1 /\ z[2] = n + 1
  BY <1>1
<1>9. P = <<a>> \o U \o <<z>>
  BY <1>7
<1> HIDE DEF U, L, P, T, a, z, m, n
<1>10. /\ P \in Seq(T) /\ Len(P) = L + 2
       /\ \A g \in 1..L + 2 : P[g] = IF g = 1 THEN a ELSE IF g = L + 2 THEN z ELSE U[g - 1]
  <2>1. <<a>> \in Seq(T) /\ <<z>> \in Seq(T) /\ Len(<<a>>) = 1 /\ Len(<<z>>) = 1
        /\ <<a>>[1] = a /\ <<z>>[1] = z
    BY <1>8
  <2> DEFINE front == <<a>> \o U
  <2>2. /\ front \in Seq(T) /\ Len(front) = L + 1
        /\ \A g \in 1..L + 1 : front[g] = IF g = 1 THEN a ELSE U[g - 1]
    BY <1>6, <2>1 DEF L
  <2> HIDE DEF front
  <2>3. P = front \o <<z>>
    BY <1>9 DEF front
  <2>4. P \in Seq(T) /\ Len(P) = L + 2
    BY <1>6, <2>1, <2>2, <2>3
  <2>5. ASSUME NEW g \in 1..L + 2
        PROVE  P[g] = IF g = 1 THEN a ELSE IF g = L + 2 THEN z ELSE U[g - 1]
    <3>1. CASE g = L + 2
      <4>1. P[g] = <<z>>[g - (L + 1)] /\ g - (L + 1) = 1 /\ g # 1
        BY <1>6, <2>1, <2>2, <2>3, <3>1
      <4> QED  BY <2>1, <3>1, <4>1
    <3>2. CASE g # L + 2
      <4>1. g \in 1..L + 1
        BY <1>6, <3>2
      <4>2. P[g] = front[g]
        BY <1>6, <2>1, <2>2, <2>3, <4>1
      <4> QED  BY <2>2, <3>2, <4>1, <4>2
    <3> QED  BY <3>1, <3>2
  <2> QED  BY <2>4, <2>5
<1>11. ASSUME NEW g \in 1..L + 2, NEW h \in 1..L + 2, g < h
       PROVE  P[g][1] < P[h][1] /\ P[g][2] < P[h][2]
  <2>1. h # 1 /\ g # L + 2
    BY <1>6, <1>11
  <2>2. CASE g = 1 /\ h = L + 2
    <3>1. P[g] = a /\ P[h] = z
      BY <1>10, <2>1, <2>2
    <3> QED  BY <1>1, <1>8, <3>1
  <2>3. CASE g = 1 /\ h # L + 2
    <3>1. P[g] = a /\ P[h] = U[h - 1] /\ h - 1 \in 1..L
      BY <1>6, <1>10, <2>1, <2>3
    <3>2. PICK k : k = U[h - 1] /\ k[1] \in 1..m /\ k[2] \in 1..n
      BY <1>4, <3>1, Zenon
    <3>3. 0 < k[1] /\ 0 < k[2]
      BY <1>1, <3>2, Within, Zenon
    <3> QED  BY <1>8, <3>1, <3>2, <3>3, Zenon
  <2>4. CASE g # 1 /\ h = L + 2
    <3>1. P[h] = z /\ P[g] = U[g - 1] /\ g - 1 \in 1..L
      BY <1>6, <1>10, <2>1, <2>4
    <3>2. PICK k : k = U[g - 1] /\ k[1] \in 1..m /\ k[2] \in 1..n
      BY <1>4, <3>1, Zenon
    <3>3. k[1] < m + 1 /\ k[2] < n + 1
      BY <1>1, <3>2, Within, Zenon
    <3> QED  BY <1>8, <3>1, <3>2, <3>3, Zenon
  <2>5. CASE g # 1 /\ h # L + 2
    <3>1. P[h] = U[h - 1] /\ P[g] = U[g - 1] /\ g - 1 \in 1..L /\ h - 1 \in 1..L /\ g - 1 < h - 1
      BY <1>6, <1>10, <1>11, <2>1, <2>5
    <3> QED  BY <1>5, <3>1
  <2> QED  BY <2>2, <2>3, <2>4, <2>5
<1>12. P[1] = a /\ P[L + 2] = z /\ Len(P) >= 2
  BY <1>6, <1>10
<1>13. Fence(P, m, n)
  BY <1>6, <1>10, <1>11, <1>12 DEF Fence, a, z, T
<1>14. ASSUME NEW g \in 2..Len(P) - 1  PROVE before[P[g][1]] = after[P[g][2]]
  <2>1. g \in 1..L + 2 /\ g # 1 /\ g # L + 2 /\ g - 1 \in 1..L
    BY <1>6, <1>10
  <2>2. P[g] = U[g - 1]
    BY <1>10, <2>1
  <2> QED  BY <1>4, <2>1, <2>2
<1> QED  BY <1>13, <1>14 DEF P, m, n

\* Each side of it, and what stands between two pairs.
LEMMA FenceSides ==
  ASSUME NEW m \in Nat, NEW n \in Nat, NEW P, Fence(P, m, n), NEW x \in {1, 2}
  PROVE  /\ \A g \in 1..Len(P) : P[g][x] \in Nat
         /\ \A g \in 1..Len(P), h \in 1..Len(P) : g < h => P[g][x] < P[h][x]
         /\ P[1][x] = 0
         /\ P[Len(P)][x] = (IF x = 1 THEN m ELSE n) + 1
         /\ Len(P) \in Nat /\ Len(P) >= 2
<1>1. \A g \in 1..Len(P) : P[g] \in Nat \X Nat
  BY DEF Fence
<1>2. \A t \in Nat \X Nat : t[1] \in Nat /\ t[2] \in Nat
  OBVIOUS
<1>3. \A g \in 1..Len(P) : P[g][1] \in Nat /\ P[g][2] \in Nat
  BY <1>1, <1>2
<1>4. /\ P[1] = <<0, 0>> /\ P[Len(P)] = <<m + 1, n + 1>> /\ Len(P) \in Nat /\ Len(P) >= 2
      /\ \A g \in 1..Len(P), h \in 1..Len(P) :
           g < h => P[g][1] < P[h][1] /\ P[g][2] < P[h][2]
  BY DEF Fence
<1>5. P[1][1] = 0 /\ P[1][2] = 0 /\ P[Len(P)][1] = m + 1 /\ P[Len(P)][2] = n + 1
  BY <1>4
<1>6. CASE x = 1
  BY <1>3, <1>4, <1>5, <1>6
<1>7. CASE x = 2
  BY <1>3, <1>4, <1>5, <1>7
<1> QED  BY <1>6, <1>7

\* Where each side of it begins and ends.
LEMMA FenceEnds ==
  ASSUME NEW m \in Nat, NEW n \in Nat, NEW P, Fence(P, m, n), NEW x \in {1, 2}
  PROVE  /\ P[1][x] = 0
         /\ P[Len(P)][x] = (IF x = 1 THEN m ELSE n) + 1
         /\ Len(P) \in Nat /\ Len(P) >= 2
<1>1. P[1] = <<0, 0>> /\ P[Len(P)] = <<m + 1, n + 1>> /\ Len(P) \in Nat /\ Len(P) >= 2
  BY DEF Fence
<1> QED  BY <1>1

\* What two gaps share is not more than either holds.
LEMMA SharedIsLess ==
  ASSUME NEW m \in Nat, NEW n \in Nat, NEW P, Fence(P, m, n), NEW g \in 1..Len(P) - 1
  PROVE  /\ Shared(P, g) \in Nat
         /\ \A x \in {1, 2} : Between(P, g, x) \in Nat /\ Shared(P, g) =< Between(P, g, x)
         /\ \A x \in {1, 2} : P[g][x] + Between(P, g, x) + 1 = P[g + 1][x]
<1>1. ASSUME NEW x \in {1, 2}
      PROVE  Between(P, g, x) \in Nat /\ P[g][x] + Between(P, g, x) + 1 = P[g + 1][x]
  <2>1. Len(P) \in Nat
    BY DEF Fence
  <2>2. g \in 1..Len(P) /\ g + 1 \in 1..Len(P) /\ g < g + 1
    BY <2>1
  <2>3. P[g][x] \in Nat /\ P[g + 1][x] \in Nat /\ P[g][x] < P[g + 1][x]
    BY <2>2, FenceSides
  <2> QED  BY <2>3 DEF Between
<1> DEFINE S == {Between(P, g, 1), Between(P, g, 2)}
<1>2. S \in SUBSET Nat /\ S # {}
  BY <1>1
<1>3. \E k \in S : \A y \in S : k =< y
  <2> HIDE DEF S
  <2> QED  BY <1>2, LeastOf
<1>4. Shared(P, g) \in S /\ \A y \in S : Shared(P, g) =< y
  <2> HIDE DEF S
  <2>1. Min(S) \in S /\ \A y \in S : Min(S) =< y
    BY <1>3 DEF Min
  <2> QED  BY <2>1 DEF Shared, S
<1> QED  BY <1>1, <1>2, <1>4

\* A gap ends where the next pair stands.
LEMMA GapEnds ==
  ASSUME NEW m \in Nat, NEW n \in Nat, NEW P, Fence(P, m, n), NEW x \in {1, 2},
         NEW g \in 1..Len(P) - 1
  PROVE  P[g][x] + Between(P, g, x) + 1 = P[g + 1][x]
BY SharedIsLess

\* Between which pairs a position stands.
InGap(P, x, i, g) == g \in 1..Len(P) - 1 /\ P[g][x] =< i /\ i < P[g + 1][x]

\* A position stands in one gap only.
LEMMA OneGap ==
  ASSUME NEW m \in Nat, NEW n \in Nat, NEW P, Fence(P, m, n), NEW x \in {1, 2}, NEW i \in Nat,
         NEW g, NEW h, InGap(P, x, i, g), InGap(P, x, i, h)
  PROVE  g = h
<1>1. Len(P) \in Nat
  BY DEF Fence
<1>2. g \in 1..Len(P) - 1 /\ h \in 1..Len(P) - 1
  BY DEF InGap
<1>3. g \in 1..Len(P) /\ h \in 1..Len(P) /\ g + 1 \in 1..Len(P) /\ h + 1 \in 1..Len(P)
  BY <1>1, <1>2
<1>4. /\ P[g][x] \in Nat /\ P[h][x] \in Nat /\ P[g + 1][x] \in Nat /\ P[h + 1][x] \in Nat
      /\ g + 1 < h => P[g + 1][x] < P[h][x]
      /\ h + 1 < g => P[h + 1][x] < P[g][x]
  BY <1>3, FenceSides
<1>5. P[g][x] =< i /\ i < P[g + 1][x] /\ P[h][x] =< i /\ i < P[h + 1][x]
  BY DEF InGap
<1>6. CASE g < h
  <2>1. g + 1 = h \/ g + 1 < h
    BY <1>3, <1>6
  <2>2. P[g + 1][x] =< P[h][x]
    BY <1>4, <2>1
  <2> QED  BY <1>4, <1>5, <2>2
<1>7. CASE h < g
  <2>1. h + 1 = g \/ h + 1 < g
    BY <1>3, <1>7
  <2>2. P[h + 1][x] =< P[g][x]
    BY <1>4, <2>1
  <2> QED  BY <1>4, <1>5, <2>2
<1> QED  BY <1>3, <1>6, <1>7

\* Every position stands in some gap.
LEMMA SomeGap ==
  ASSUME NEW m \in Nat, NEW n \in Nat, NEW P, Fence(P, m, n), NEW x \in {1, 2}, NEW i \in Nat,
         i < P[Len(P)][x]
  PROVE  \E g : InGap(P, x, i, g)
<1>0. /\ \A g \in 1..Len(P) : P[g][x] \in Nat
      /\ P[1][x] = 0 /\ Len(P) \in Nat /\ Len(P) >= 2
  BY FenceSides
<1> DEFINE S == {g \in 1..Len(P) : i < P[g][x]}
<1>1. S \in SUBSET Nat /\ S # {}
  <2>1. Len(P) \in 1..Len(P)
    BY <1>0
  <2> QED  BY <1>0, <2>1
<1>2. PICK h \in S : \A k \in S : h =< k
  <2> HIDE DEF S
  <2> QED  BY <1>1, LeastOf
<1>3. h \in 1..Len(P) /\ i < P[h][x] /\ h # 1
  BY <1>0, <1>2
<1>4. h - 1 \in 1..Len(P) - 1 /\ h - 1 \in 1..Len(P) /\ (h - 1) + 1 = h /\ h - 1 < h
  BY <1>0, <1>3
<1>5. ~(i < P[h - 1][x])
  BY <1>2, <1>4
<1>6. P[h - 1][x] =< i
  <2>1. P[h - 1][x] \in Nat
    BY <1>0, <1>4, Zenon
  <2> QED  BY <1>5, <2>1, NotLess, Zenon
<1> QED  BY <1>3, <1>4, <1>6 DEF InGap

\* d entries behind the g-th pair, on both sides.
Pair(P, g, d) == <<P[g][1] + d, P[g][2] + d>>

\* The pairs of entries that stay in place of each other: unchanged, or replaced.
Partners(P) ==
  (UNION {{Pair(P, g, d) : d \in 0..Shared(P, g)} : g \in 1..Len(P) - 1}) \ {<<0, 0>>}

\* The d-th position behind a pair stands in the gap behind it.
LEMMA PairInGap ==
  ASSUME NEW m \in Nat, NEW n \in Nat, NEW P, Fence(P, m, n), NEW x \in {1, 2},
         NEW g \in 1..Len(P) - 1, NEW d \in 0..Between(P, g, x)
  PROVE  /\ Pair(P, g, d)[x] = P[g][x] + d
         /\ InGap(P, x, P[g][x] + d, g)
         /\ P[g][x] \in Nat /\ d \in Nat /\ P[g][x] + d \in 0..IF x = 1 THEN m ELSE n
         /\ P[g][x] + d = 0 => g = 1 /\ d = 0
<1>1. Pair(P, g, d)[x] = P[g][x] + d
  BY DEF Pair
<1>2. Between(P, g, x) \in Nat /\ P[g][x] + Between(P, g, x) + 1 = P[g + 1][x]
  BY SharedIsLess
<1> DEFINE N == IF x = 1 THEN m ELSE n
<1>3. /\ \A h \in 1..Len(P) : P[h][x] \in Nat
      /\ \A h \in 1..Len(P), k \in 1..Len(P) : h < k => P[h][x] < P[k][x]
      /\ P[1][x] = 0 /\ P[Len(P)][x] = N + 1 /\ Len(P) \in Nat
  <2>1. /\ \A h \in 1..Len(P) : P[h][x] \in Nat
        /\ \A h \in 1..Len(P), k \in 1..Len(P) : h < k => P[h][x] < P[k][x]
    BY FenceSides, Zenon
  <2>2. P[1][x] = 0 /\ P[Len(P)][x] = N + 1 /\ Len(P) \in Nat
    BY FenceEnds
  <2> QED  BY <2>1, <2>2, Zenon
<1>4. g \in 1..Len(P) /\ g + 1 \in 1..Len(P) /\ Len(P) \in 1..Len(P) /\ 1 \in 1..Len(P)
  BY <1>3
<1>50. d \in Nat /\ d =< Between(P, g, x)
  BY <1>2
<1>5. P[g][x] \in Nat /\ P[g + 1][x] \in Nat /\ d \in Nat /\ d =< Between(P, g, x)
  BY <1>3, <1>4, <1>50, Zenon
<1>60. PICK a \in Nat, e \in Nat, w \in Nat :
         a = P[g][x] /\ e = P[g + 1][x] /\ w = Between(P, g, x)
  BY <1>2, <1>5, Zenon
<1>61. d \in Nat /\ d =< w /\ a + w + 1 = e
  BY <1>2, <1>5, <1>60, Zenon
<1>62. a =< a + d /\ a + d < e
  BY <1>61
<1>6. P[g][x] =< P[g][x] + d /\ P[g][x] + d < P[g + 1][x]
  BY <1>60, <1>62, Zenon
<1>7. P[g + 1][x] =< N + 1
  <2>1. CASE g + 1 < Len(P)
    <3>1. P[g + 1][x] < N + 1
      BY <1>3, <1>4, <2>1, Zenon
    <3> QED  BY <1>5, <3>1
  <2>2. CASE g + 1 = Len(P)
    BY <1>3, <1>5, <2>2
  <2> QED  BY <1>3, <2>1, <2>2
<1>8. g # 1 => 0 < P[g][x]
  <2>1. g # 1 => 1 < g
    BY <1>4
  <2> QED  BY <1>3, <1>4, <2>1
<1>9. N \in Nat
  OBVIOUS
<1> HIDE DEF N
<1>10. P[g][x] + d \in 0..N
  <2>1. e =< N + 1
    BY <1>7, <1>60, Zenon
  <2>2. a + d \in 0..N
    BY <1>9, <1>61, <1>62, <2>1
  <2> QED  BY <1>60, <2>2, Zenon
<1>11. P[g][x] + d = 0 => g = 1 /\ d = 0
  <2>1. g # 1 => 0 < a
    BY <1>8, <1>60, Zenon
  <2>2. a + d = 0 => g = 1 /\ d = 0
    BY <1>61, <2>1
  <2> QED  BY <1>60, <2>2, Zenon
<1>12. InGap(P, x, P[g][x] + d, g)
  BY <1>6, Zenon DEF InGap
<1> QED  BY <1>1, <1>5, <1>10, <1>11, <1>12, Zenon DEF N

\* Partners, in terms of gaps.
LEMMA PartnersAre ==
  ASSUME NEW P, NEW b
  PROVE  b \in Partners(P) <=>
           b # <<0, 0>> /\ \E g \in 1..Len(P) - 1 : \E d \in 0..Shared(P, g) : b = Pair(P, g, d)
<1> DEFINE Gaps == 1..Len(P) - 1
           all == UNION {{Pair(P, g, d) : d \in 0..Shared(P, g)} : g \in Gaps}
           front == <<0, 0>>
<1>1. Partners(P) = all \ {front}
  BY DEF Partners
<1>2. b \in all <=> \E g \in Gaps : b \in {Pair(P, g, d) : d \in 0..Shared(P, g)}
  <2> HIDE DEF Gaps
  <2> QED  BY Zenon
<1>3. \A g : b \in {Pair(P, g, d) : d \in 0..Shared(P, g)} <=> \E d \in 0..Shared(P, g) : b = Pair(P, g, d)
  OBVIOUS
<1> HIDE DEF all, front, Gaps
<1>4. b \in Partners(P) <=> b # front /\ b \in all
  BY <1>1
<1>5. b \in all <=> \E g \in Gaps : \E d \in 0..Shared(P, g) : b = Pair(P, g, d)
  BY <1>2, <1>3, Zenon
<1> QED  BY <1>4, <1>5, Zenon DEF Gaps, front

\* On either side each position has one partner, or is to be removed or added.
LEMMA PartnersOnBothSides ==
  ASSUME NEW m \in Nat, NEW n \in Nat, NEW P, Fence(P, m, n), NEW x \in {1, 2},
         NEW N, N = IF x = 1 THEN m ELSE n
  PROVE  /\ Rest(P, x) \subseteq 1..N
         /\ \A b \in Partners(P) : b[x] \in (1..N) \ Rest(P, x)
         /\ \A i \in (1..N) \ Rest(P, x) : \E b \in Partners(P) : b[x] = i
         /\ \A b \in Partners(P), c \in Partners(P) : b[x] = c[x] => b = c
<1>0. N \in Nat
  OBVIOUS
<1>1. \A g \in 1..Len(P) - 1 : /\ Shared(P, g) \in Nat /\ Between(P, g, x) \in Nat
                               /\ Shared(P, g) =< Between(P, g, x)
  BY SharedIsLess
<1>8. \A g \in 1..Len(P) - 1 : P[g][x] + Between(P, g, x) + 1 = P[g + 1][x]
  <2>1. ASSUME NEW g \in 1..Len(P) - 1  PROVE P[g][x] + Between(P, g, x) + 1 = P[g + 1][x]
    BY GapEnds
  <2> QED  BY <2>1, Zenon
<1>7. \A i \in Nat : \A g, h : InGap(P, x, i, g) /\ InGap(P, x, i, h) => g = h
  BY OneGap
<1>2. ASSUME NEW i \in Rest(P, x)
      PROVE  \E g \in 1..Len(P) - 1 : \E d \in Shared(P, g) + 1..Between(P, g, x) :
               i = P[g][x] + d /\ InGap(P, x, i, g) /\ i \in 1..N
  <2>1. PICK g \in 1..Len(P) - 1 : \E d \in Shared(P, g) + 1..Between(P, g, x) : i = P[g][x] + d
    BY DEF Rest
  <2>10. PICK d \in Shared(P, g) + 1..Between(P, g, x) : i = P[g][x] + d
    BY <2>1
  <2>2. d \in 0..Between(P, g, x) /\ d # 0
    BY <1>1
  <2>3. InGap(P, x, P[g][x] + d, g) /\ P[g][x] + d \in 0..N /\ (P[g][x] + d = 0 => d = 0)
    BY <2>2, PairInGap
  <2>4. InGap(P, x, i, g) /\ i \in 0..N /\ i # 0
    BY <2>10, <2>2, <2>3, Zenon
  <2>5. i \in 1..N
    BY <1>0, <2>4, NotFirst, Zenon
  <2> QED  BY <2>10, <2>4, <2>5, Zenon
<1>3. ASSUME NEW b \in Partners(P)
      PROVE  \E g \in 1..Len(P) - 1 : \E d \in 0..Shared(P, g) :
               /\ b = Pair(P, g, d) /\ b[x] = P[g][x] + d /\ InGap(P, x, b[x], g)
               /\ b[x] \in 1..N /\ P[g][x] \in Nat
  <2>1. PICK g \in 1..Len(P) - 1 : \E d \in 0..Shared(P, g) : b = Pair(P, g, d) /\ b # <<0, 0>>
    BY PartnersAre
  <2>10. PICK d \in 0..Shared(P, g) : b = Pair(P, g, d) /\ b # <<0, 0>>
    BY <2>1
  <2>2. d \in 0..Between(P, g, x)
    BY <1>1
  <2>3. /\ Pair(P, g, d)[x] = P[g][x] + d /\ InGap(P, x, P[g][x] + d, g) /\ P[g][x] + d \in 0..N
        /\ P[g][x] \in Nat /\ (P[g][x] + d = 0 => g = 1 /\ d = 0)
    BY <2>2, PairInGap
  <2>4. ASSUME g = 1, d = 0  PROVE FALSE
    <3>1. P[1] = <<0, 0>>
      BY DEF Fence
    <3> QED  BY <2>10, <2>4, <3>1 DEF Pair
  <2>5. P[g][x] + d \in 1..N
    BY <1>0, <2>3, <2>4, NotFirst, Zenon
  <2> QED  BY <2>10, <2>3, <2>5, Zenon
<1>4. ASSUME NEW b \in Partners(P), b[x] \in Rest(P, x)  PROVE FALSE
  <2>1. PICK g \in 1..Len(P) - 1 : \E d \in 0..Shared(P, g) :
          b[x] = P[g][x] + d /\ InGap(P, x, b[x], g) /\ b[x] \in 1..N /\ P[g][x] \in Nat
    BY <1>3
  <2>10. PICK d \in 0..Shared(P, g) :
          b[x] = P[g][x] + d /\ InGap(P, x, b[x], g) /\ b[x] \in 1..N /\ P[g][x] \in Nat
    BY <2>1
  <2>2. PICK h \in 1..Len(P) - 1 : \E e \in Shared(P, h) + 1..Between(P, h, x) :
          b[x] = P[h][x] + e /\ InGap(P, x, b[x], h)
    BY <1>2, <1>4
  <2>20. PICK e \in Shared(P, h) + 1..Between(P, h, x) :
          b[x] = P[h][x] + e /\ InGap(P, x, b[x], h)
    BY <2>2
  <2>3. g = h
    <3>1. b[x] \in Nat
      BY <1>0, <2>10, Within, Zenon
    <3>2. InGap(P, x, b[x], g) /\ InGap(P, x, b[x], h)
      BY <2>10, <2>20
    <3> QED  BY <1>7, <3>1, <3>2, Zenon
  <2>4. PICK a \in Nat, w \in Nat : a = P[g][x] /\ w = Shared(P, g)
    BY <1>1, <2>10, Zenon
  <2>5. e \in w + 1..Between(P, g, x) /\ Between(P, g, x) \in Nat /\ d \in 0..w
    BY <1>1, <2>3, <2>4, Zenon
  <2>6. a + d = a + e
    BY <2>10, <2>20, <2>3, <2>4, Zenon
  <2> QED  BY <2>5, <2>6
<1>5. ASSUME NEW i \in (1..N) \ Rest(P, x)  PROVE \E b \in Partners(P) : b[x] = i
  <2>1. i \in Nat /\ i # 0 /\ i < P[Len(P)][x]
    <3>1. P[Len(P)][x] = N + 1
      BY FenceSides
    <3> QED  BY <1>0, <3>1
  <2>2. PICK g : InGap(P, x, i, g)
    BY <2>1, SomeGap
  <2>3. g \in 1..Len(P) - 1 /\ P[g][x] =< i /\ i < P[g + 1][x]
    BY <2>2 DEF InGap
  <2>4. P[g][x] \in Nat /\ P[g][x] + Between(P, g, x) + 1 = P[g + 1][x]
    <3>1. g \in 1..Len(P)
      <4>1. Len(P) \in Nat
        BY DEF Fence
      <4> QED  BY <2>3, <4>1
    <3>2. P[g][x] \in Nat
      BY <3>1, FenceSides
    <3>3. P[g][x] + Between(P, g, x) + 1 = P[g + 1][x]
      BY <1>8, <2>3, Zenon
    <3> QED  BY <3>2, <3>3, Zenon
  <2> DEFINE d == i - P[g][x]
  <2>5. d \in 0..Between(P, g, x) /\ P[g][x] + d = i
    <3> DEFINE a == P[g][x]
               e == P[g + 1][x]
               w == Between(P, g, x)
    <3>1. w \in Nat
      BY <1>1, <2>3
    <3>2. i \in Nat /\ a \in Nat /\ a =< i /\ i < e /\ a + w + 1 = e
      BY <2>1, <2>3, <2>4, Zenon
    <3> HIDE DEF a, e, w
    <3>3. i - a \in 0..w /\ a + (i - a) = i
      BY <3>1, <3>2
    <3> QED  BY <3>3 DEF a, w
  <2>6. d \in 0..Shared(P, g)
    <3>1. CASE d > Shared(P, g)
      <4>1. d \in Shared(P, g) + 1..Between(P, g, x)
        <5> HIDE DEF d
        <5> QED  BY <1>1, <2>3, <2>5, <3>1
      <4>2. i \in Rest(P, x)
        <5> HIDE DEF d
        <5> QED  BY <2>3, <2>5, <4>1 DEF Rest
      <4> QED  BY <4>2
    <3> HIDE DEF d
    <3> QED  BY <1>1, <2>3, <2>5, <3>1
  <2> HIDE DEF d
  <2>7. Pair(P, g, d)[x] = i
    <3>1. Pair(P, g, d)[x] = P[g][x] + d
      BY DEF Pair
    <3> QED  BY <2>5, <3>1, Zenon
  <2>8. Pair(P, g, d) # <<0, 0>>
    <3>1. CASE x = 1
      BY <2>1, <2>7, <3>1
    <3>2. CASE x = 2
      BY <2>1, <2>7, <3>2
    <3> QED  BY <3>1, <3>2
  <2>9. Pair(P, g, d) \in Partners(P)
    BY <2>3, <2>6, <2>8, PartnersAre
  <2> QED  BY <2>7, <2>9
<1>6. ASSUME NEW b \in Partners(P), NEW c \in Partners(P), b[x] = c[x]  PROVE b = c
  <2>1. PICK g \in 1..Len(P) - 1 : \E d \in 0..Shared(P, g) :
          /\ b = Pair(P, g, d) /\ b[x] = P[g][x] + d /\ InGap(P, x, b[x], g)
          /\ b[x] \in 1..N /\ P[g][x] \in Nat
    BY <1>3
  <2>10. PICK d \in 0..Shared(P, g) :
          /\ b = Pair(P, g, d) /\ b[x] = P[g][x] + d /\ InGap(P, x, b[x], g)
          /\ b[x] \in 1..N /\ P[g][x] \in Nat
    BY <2>1
  <2>2. PICK h \in 1..Len(P) - 1 : \E e \in 0..Shared(P, h) :
          /\ c = Pair(P, h, e) /\ c[x] = P[h][x] + e /\ InGap(P, x, c[x], h)
    BY <1>3
  <2>20. PICK e \in 0..Shared(P, h) :
          /\ c = Pair(P, h, e) /\ c[x] = P[h][x] + e /\ InGap(P, x, c[x], h)
    BY <2>2
  <2>3. g = h
    <3>1. b[x] \in Nat
      BY <1>0, <2>10, Within, Zenon
    <3>2. InGap(P, x, b[x], g) /\ InGap(P, x, b[x], h)
      BY <1>6, <2>10, <2>20
    <3> QED  BY <1>7, <3>1, <3>2, Zenon
  <2>4. d = e
    <3>1. d \in Nat /\ e \in Nat
      BY <1>1
    <3>2. PICK a \in Nat : a = P[g][x]
      BY <2>10, Zenon
    <3>3. a + d = a + e
      BY <1>6, <2>10, <2>20, <2>3, <3>2, Zenon
    <3> QED  BY <3>1, <3>3
  <2> QED  BY <2>10, <2>20, <2>3, <2>4
<1> QED  BY <1>2, <1>3, <1>4, <1>5, <1>6

\* The same of the first list.
LEMMA PartnersInFront ==
  ASSUME NEW m \in Nat, NEW n \in Nat, NEW P, Fence(P, m, n)
  PROVE  /\ Rest(P, 1) \subseteq 1..m
         /\ \A b \in Partners(P) : b[1] \in (1..m) \ Rest(P, 1)
         /\ \A i \in (1..m) \ Rest(P, 1) : \E b \in Partners(P) : b[1] = i
         /\ \A b \in Partners(P), c \in Partners(P) : b[1] = c[1] => b = c
<1>1. 1 \in {1, 2} /\ m = IF 1 = 1 THEN m ELSE n
  OBVIOUS
<1> QED  BY <1>1, PartnersOnBothSides

\* The same of the second list.
LEMMA PartnersBehind ==
  ASSUME NEW m \in Nat, NEW n \in Nat, NEW P, Fence(P, m, n)
  PROVE  /\ Rest(P, 2) \subseteq 1..n
         /\ \A b \in Partners(P) : b[2] \in (1..n) \ Rest(P, 2)
         /\ \A i \in (1..n) \ Rest(P, 2) : \E b \in Partners(P) : b[2] = i
         /\ \A b \in Partners(P), c \in Partners(P) : b[2] = c[2] => b = c
<1>1. 2 \in {1, 2} /\ n = IF 2 = 1 THEN m ELSE n
  OBVIOUS
<1> QED  BY <1>1, PartnersOnBothSides

\* Those that are not replaced are unchanged.
LEMMA ReplacedAreOthers ==
  ASSUME NEW m \in Nat, NEW n \in Nat, NEW P, Fence(P, m, n)
  PROVE  /\ Replaced(P) \subseteq Partners(P)
         /\ Partners(P) \subseteq (1..m) \X (1..n)
         /\ \A b \in Partners(P) \ Replaced(P) : \E g \in 2..Len(P) - 1 : b = <<P[g][1], P[g][2]>>
<1>0. \A g \in 1..Len(P) - 1 : Shared(P, g) \in Nat
  BY SharedIsLess
<1>1. Len(P) \in Nat /\ \A g \in 1..Len(P) - 1 : P[g][1] \in Nat /\ P[g][2] \in Nat
  <2>1. Len(P) \in Nat
    BY DEF Fence
  <2>2. \A g \in 1..Len(P) - 1 : g \in 1..Len(P)
    BY <2>1
  <2> QED  BY <2>1, <2>2, FenceSides
<1>2. ASSUME NEW p \in Replaced(P)  PROVE p \in Partners(P)
  <2>1. PICK g \in 1..Len(P) - 1 : \E d \in 1..Shared(P, g) : p = Pair(P, g, d)
    BY DEF Replaced, Pair
  <2>10. PICK d \in 1..Shared(P, g) : p = Pair(P, g, d)
    BY <2>1
  <2>2. d \in 0..Shared(P, g) /\ d \in Nat /\ d # 0
    BY <1>0
  <2>3. P[g][1] + d # 0
    BY <1>1, <2>2
  <2>4. p # <<0, 0>>
    BY <2>10, <2>3 DEF Pair
  <2> QED  BY <2>10, <2>2, <2>4, PartnersAre
<1>3. ASSUME NEW b \in Partners(P)  PROVE b \in (1..m) \X (1..n)
  <2>1. b[1] \in 1..m
    BY PartnersOnBothSides
  <2>2. b[2] \in 1..n
    BY PartnersOnBothSides
  <2>3. \E k, l : b = <<k, l>>
    BY DEF Partners, Pair
  <2> QED  BY <2>1, <2>2, <2>3
<1>4. ASSUME NEW b \in Partners(P) \ Replaced(P)
      PROVE  \E g \in 2..Len(P) - 1 : b = <<P[g][1], P[g][2]>>
  <2>1. PICK g \in 1..Len(P) - 1 : \E d \in 0..Shared(P, g) : b = Pair(P, g, d) /\ b # <<0, 0>>
    BY PartnersAre
  <2>10. PICK d \in 0..Shared(P, g) : b = Pair(P, g, d) /\ b # <<0, 0>>
    BY <2>1
  <2>2. d = 0
    <3>1. ASSUME d # 0  PROVE FALSE
      <4>1. d \in 1..Shared(P, g)
        BY <1>0, <3>1
      <4> QED  BY <2>10, <4>1 DEF Replaced, Pair
    <3> QED  BY <3>1
  <2>3. b = <<P[g][1], P[g][2]>>
    BY <1>1, <2>10, <2>2 DEF Pair
  <2>4. g # 1
    <3>1. P[1] = <<0, 0>>
      BY DEF Fence
    <3> QED  BY <2>10, <2>3, <3>1
  <2>5. g \in 2..Len(P) - 1
    BY <1>1, <2>4
  <2> QED  BY <2>3, <2>5
<1> QED  BY <1>2, <1>3, <1>4

Replacements(s, new, at) == SetToSeq({ReplaceOp(s, i, new[i]) : i \in at})
Removals(s, at) == [n \in 1..Cardinality(at) |-> RemoveOp(s, Nth(at, Cardinality(at) + 1 - n))]
Additions(s, new) == [n \in 1..Len(new) |-> Add(s, End, new[n])]

\* Replacing some entries, one after the other and in any order.
LEMMA Replacing ==
  ASSUME NEW s \in ListSection, NEW old \in Seq(Entry), NEW new \in Seq(Entry), Len(new) = Len(old),
         NEW at, at \subseteq 1..Len(old), \A i \in (1..Len(old)) \ at : new[i] = old[i],
         NEW ops, ops = Replacements(s, new, at)
  PROVE  Leads(s, old, new, ops)
<1> DEFINE m == Len(old)
           S == {ReplaceOp(s, i, new[i]) : i \in at}
           N == Len(ops)
           done(n) == {ops[k].at : k \in 1..n}
           c == [n \in 0..N |-> [i \in 1..m |-> IF i \in done(n) THEN new[i] ELSE old[i]]]
<1>1. m \in Nat /\ old = [i \in 1..m |-> old[i]] /\ new = [i \in 1..m |-> new[i]]
  OBVIOUS
<1>2. IsFiniteSet(S)
  <2>1. IsFiniteSet(at)
    <3>1. 1 \in Int /\ m \in Int
      BY <1>1
    <3> QED  BY <3>1, FS_Interval, FS_Subset
  <2> DEFINE f == [i \in at |-> ReplaceOp(s, i, new[i])]
  <2>2. DOMAIN f = at /\ f = [i \in at |-> f[i]] /\ {f[i] : i \in at} = S
    OBVIOUS
  <2> HIDE DEF f, S
  <2> QED  BY <2>1, <2>2, ImageFinite
<1>3. \A o \in S : /\ o.section = s /\ ~o.whole /\ o.op = "replace" /\ o \in Operation
                   /\ o.at \in at /\ o.value = new[o.at] /\ o = ReplaceOp(s, o.at, new[o.at])
  <2>1. ASSUME NEW i \in at  PROVE ReplaceOp(s, i, new[i]) \in Operation
    <3>1. i \in Nat \union {End} /\ new[i] \in Entry
      BY <1>1
    <3> QED  BY <3>1, ListOperation
  <2> QED  BY <2>1 DEF ReplaceOp
<1>4. /\ ops \in Seq(S) /\ N \in Nat
      /\ \A k \in 1..N, n \in 1..N : ops[k] = ops[n] => k = n
      /\ \A x \in S : \E n \in 1..N : ops[n] = x
  <2>1. ops = SetToSeq(S)
    BY DEF Replacements
  <2> HIDE DEF S
  <2> QED  BY <1>2, <2>1, Listing
<1>5. \A n \in 1..N : ops[n] \in S
  <2> HIDE DEF S
  <2> QED  BY <1>4
<1>6. ops \in Seq(Operation)
  <2> HIDE DEF S
  <2> QED  BY <1>3, <1>4
<1> HIDE DEF S, N
<1>7. \A k \in 1..N, n \in 1..N : ops[k].at = ops[n].at => k = n
  <2>1. ASSUME NEW a \in S, NEW b \in S, a.at = b.at  PROVE a = b
    BY <1>3, <2>1, Zenon
  <2> QED  BY <1>4, <1>5, <2>1
<1>8. c[0] = old
  <2>1. done(0) = {} /\ 0 \in 0..N
    BY <1>4
  <2>2. c[0] = [i \in 1..m |-> IF i \in done(0) THEN new[i] ELSE old[i]]
    BY <2>1
  <2>3. \A i \in 1..m : (IF i \in done(0) THEN new[i] ELSE old[i]) = old[i]
    BY <2>1
  <2> HIDE DEF c, done, m
  <2> QED  BY <1>1, <2>2, <2>3
<1>9. ASSUME NEW n \in 1..N
      PROVE  /\ ops[n].section = s /\ ~ops[n].whole
             /\ ops[n].op = "add" \/ ops[n].at \in DOMAIN c[n - 1]
             /\ c[n] = EditedSection(c[n - 1], ops[n])
  <2> DEFINE o == ops[n]
             k == o.at
  <2>1. n \in 0..N /\ n - 1 \in 0..N /\ n \in Nat /\ n >= 1
    BY <1>4
  <2>2. done(n) = done(n - 1) \union {k}
    <3>1. 1..n = (1..n - 1) \union {n}
      BY <2>1
    <3> QED  BY <3>1
  <2>3. /\ c[n] = [i \in 1..m |-> IF i \in done(n) THEN new[i] ELSE old[i]]
        /\ c[n - 1] = [i \in 1..m |-> IF i \in done(n - 1) THEN new[i] ELSE old[i]]
    BY <2>1
  <2>4. /\ o.section = s /\ ~o.whole /\ o.op = "replace" /\ k \in at /\ o.value = new[k]
    BY <1>3, <1>5
  <2>5. EditedSection(c[n - 1], o) = [c[n - 1] EXCEPT ![k] = new[k]]
    BY <2>4 DEF EditedSection
  <2> HIDE DEF o, k, done, c, m
  <2>6. k \in 1..m
    BY <2>4 DEF m
  <2>7. c[n] = [c[n - 1] EXCEPT ![k] = new[k]]
    <3>1. \A i \in 1..m : c[n][i] = IF i = k THEN new[k] ELSE c[n - 1][i]
      BY <2>2, <2>3
    <3>2. DOMAIN c[n] = 1..m /\ DOMAIN c[n - 1] = 1..m /\ c[n] = [i \in 1..m |-> c[n][i]]
      BY <2>3
    <3> QED  BY <3>1, <3>2
  <2> QED  BY <2>3, <2>4, <2>5, <2>6, <2>7 DEF o, k
<1>10. c[N] = new
  <2>1. N \in 0..N
    BY <1>4
  <2>2. ASSUME NEW i \in at  PROVE i \in done(N)
    <3>1. ReplaceOp(s, i, new[i]) \in S
      BY DEF S
    <3>2. PICK n \in 1..N : ops[n] = ReplaceOp(s, i, new[i])
      BY <1>4, <3>1
    <3> QED  BY <3>2 DEF ReplaceOp
  <2>3. c[N] = [i \in 1..m |-> IF i \in done(N) THEN new[i] ELSE old[i]]
    BY <2>1
  <2>4. \A i \in 1..m : (IF i \in done(N) THEN new[i] ELSE old[i]) = new[i]
    BY <2>2
  <2> HIDE DEF c, done, m
  <2> QED  BY <1>1, <2>3, <2>4
<1>11. SectionTrace(c, s, old, ops)
  <2> HIDE DEF c
  <2> QED  BY <1>8, <1>9 DEF SectionTrace, N
<1> HIDE DEF c
<1> QED  BY <1>6, <1>10, <1>11 DEF N, Leads

\* The first i of some positions that begin without a gap.
LEMMA NthOfFirst ==
  ASSUME NEW at \in SUBSET Nat, IsFiniteSet(at), 0 \notin at, NEW i \in at, \A k \in 1..i : k \in at
  PROVE  Nth(at, i) = i /\ i \in 1..Cardinality(at)
<1>0. i \in Nat /\ \A k \in at : k \in Nat /\ k # 0
  OBVIOUS
<1>1. Upto(at, i) = 1..i
  <2>1. \A k : k \in Upto(at, i) <=> k \in at /\ k =< i
    BY DEF Upto
  <2>2. \A k : k \in 1..i <=> k \in Nat /\ k # 0 /\ k =< i
    BY <1>0
  <2>3. \A k : k \in Upto(at, i) <=> k \in 1..i
    BY <1>0, <2>1, <2>2, Zenon
  <2> QED  BY <2>3
<1>2. Cardinality(1..i) = i
  <2>1. 1 \in Int /\ i \in Int
    BY <1>0
  <2>2. Cardinality(1..i) = IF 1 > i THEN 0 ELSE i - 1 + 1
    BY <2>1, FS_Interval
  <2> QED  BY <1>0, <2>2
<1> QED  BY <1>1, <1>2, NthOf

\* All positions pick the list.
LEMMA PickedAll ==
  ASSUME NEW S, NEW list \in Seq(S)
  PROVE  Picked(list, 1..Len(list)) = list
<1> DEFINE m == Len(list)
<1>1. m \in Nat /\ list = [i \in 1..m |-> list[i]]
  OBVIOUS
<1> HIDE DEF m
<1>2. IsFiniteSet(1..m) /\ Cardinality(1..m) = m
  <2>1. 1 \in Int /\ m \in Int
    BY <1>1
  <2>2. IsFiniteSet(1..m) /\ Cardinality(1..m) = IF 1 > m THEN 0 ELSE m - 1 + 1
    BY <2>1, FS_Interval
  <2> QED  BY <1>1, <2>2
<1>3. ASSUME NEW i \in 1..m  PROVE Nth(1..m, i) = i
  <2>1. 1..m \in SUBSET Nat /\ 0 \notin 1..m /\ \A k \in 1..i : k \in 1..m
    BY <1>1
  <2> QED  BY <1>2, <2>1, NthOfFirst
<1>4. Picked(list, 1..m) = [i \in 1..m |-> list[i]]
  BY <1>2, <1>3 DEF Picked
<1> QED  BY <1>1, <1>4 DEF m

\* Removing entries from the end picks the others.
LEMMA Removing ==
  ASSUME NEW s \in ListSection, NEW list \in Seq(Entry), NEW at, at \subseteq 1..Len(list),
         NEW ops, ops = Removals(s, at)
  PROVE  Leads(s, list, Picked(list, (1..Len(list)) \ at), ops)
<1> DEFINE m == Len(list)
           K == Cardinality(at)
           last(n) == {Nth(at, r) : r \in K + 1 - n..K}
           rest(n) == (1..m) \ last(n)
           c == [n \in 0..K |-> Picked(list, rest(n))]
<1>1. m \in Nat /\ IsFiniteSet(1..m) /\ \A i \in 1..m : i \in Nat /\ i # 0 /\ list[i] \in Entry
  <2>1. m \in Nat /\ \A i \in 1..m : i \in Nat /\ i # 0 /\ list[i] \in Entry
    OBVIOUS
  <2> HIDE DEF m
  <2> QED  BY <2>1, FS_Interval
<1>2. IsFiniteSet(at) /\ at \in SUBSET Nat /\ K \in Nat
  BY <1>1, FS_Subset, FS_CardinalityType
<1>3. \A r \in 1..K : Nth(at, r) \in at /\ Nth(at, r) \in 1..m
  BY <1>2, NthExists
<1>4. \A r \in 1..K, t \in 1..K : r < t => Nth(at, r) < Nth(at, t)
  BY <1>2, NthOrdered
<1>5. /\ Len(ops) = K /\ ops = [n \in 1..K |-> ops[n]]
      /\ \A n \in 1..K : K + 1 - n \in 1..K /\ ops[n] = RemoveOp(s, Nth(at, K + 1 - n))
  <2>1. ops = [n \in 1..K |-> RemoveOp(s, Nth(at, K + 1 - n))]
    BY DEF Removals
  <2> HIDE DEF K
  <2> QED  BY <1>2, <2>1
<1>6. ops \in Seq(Operation)
  <2>1. ASSUME NEW n \in 1..K  PROVE ops[n] \in Operation
    <3>1. Nth(at, K + 1 - n) \in Place
      BY <1>1, <1>3, <1>5 DEF Place
    <3> QED  BY <1>5, <3>1, Sections, RemoveOperation
  <2> HIDE DEF K
  <2>2. ops \in [1..K -> Operation]
    BY <1>5, <2>1
  <2> QED  BY <1>2, <2>2, SeqDef, Zenon
<1> HIDE DEF K, m
<1>7. c[0] = list
  <2>1. 0 \in 0..K /\ K + 1 - 0..K = {}
    BY <1>2
  <2>2. last(0) = {}
    BY <2>1
  <2>3. c[0] = Picked(list, 1..m)
    BY <2>1, <2>2
  <2> HIDE DEF c
  <2> QED  BY <2>3, PickedAll DEF m
<1>8. ASSUME NEW n \in 1..K
      PROVE  /\ ops[n].section = s /\ ~ops[n].whole
             /\ ops[n].op = "add" \/ ops[n].at \in DOMAIN c[n - 1]
             /\ c[n] = EditedSection(c[n - 1], ops[n])
  <2> DEFINE r == K + 1 - n
             i == Nth(at, r)
             now == rest(n - 1)
  <2>1. r \in 1..K /\ n \in 0..K /\ n - 1 \in 0..K /\ r \in Nat /\ K + 1 - (n - 1) = r + 1
    BY <1>2
  <2>2. i \in 1..m /\ i \in Nat
    BY <1>1, <1>3, <2>1
  <2>3. last(n) = last(n - 1) \union {i}
    <3>1. r..K = (r + 1..K) \union {r}
      BY <1>2, <2>1
    <3>2. last(n) = {Nth(at, t) : t \in r..K} /\ last(n - 1) = {Nth(at, t) : t \in r + 1..K}
      BY <2>1
    <3>3. i = Nth(at, r)
      OBVIOUS
    <3> HIDE DEF last, rest, c, r, i, K
    <3> QED  BY <3>1, <3>2, <3>3
  <2>4. \A k \in 1..i : k \notin last(n - 1)
    <3>1. last(n - 1) = {Nth(at, t) : t \in r + 1..K}
      BY <2>1
    <3>2. ASSUME NEW t \in r + 1..K  PROVE Nth(at, t) \in Nat /\ i < Nth(at, t)
      <4>1. t \in 1..K /\ r < t
        BY <1>2, <2>1
      <4> QED  BY <1>1, <1>3, <1>4, <2>1, <4>1
    <3>3. \A k \in last(n - 1) : k \in Nat /\ i < k
      BY <3>1, <3>2
    <3> QED  BY <2>2, <3>3
  <2>5. now \in SUBSET Nat /\ IsFiniteSet(now) /\ 0 \notin now /\ \A k \in now : list[k] \in Entry
    <3>1. now \in SUBSET (1..m)
      OBVIOUS
    <3> HIDE DEF now
    <3> QED  BY <1>1, <3>1, FS_Subset
  <2>6. i \in now /\ \A k \in 1..i : k \in now
    <3>1. \A k \in 1..i : k \in 1..m
      BY <1>1, <2>2
    <3>2. i \in 1..i
      BY <1>1, <2>2
    <3> QED  BY <2>4, <3>1, <3>2
  <2>7. Nth(now, i) = i /\ i \in 1..Cardinality(now)
    <3> HIDE DEF now, i
    <3> QED  BY <2>5, <2>6, NthOfFirst
  <2>8. c[n] = Picked(list, now \ {i}) /\ c[n - 1] = Picked(list, now)
    <3>1. rest(n) = now \ {i}
      BY <2>3
    <3> QED  BY <2>1, <3>1
  <2>9. RemoveAt(Picked(list, now), i) = Picked(list, now \ {i})
    <3> HIDE DEF now, i
    <3>1. RemoveAt(Picked(list, now), i) = Picked(list, now \ {Nth(now, i)})
      BY <2>5, <2>7, PickedRemoves
    <3> QED  BY <2>7, <3>1
  <2>10. ops[n] = RemoveOp(s, i)
    BY <1>5
  <2>11. /\ ops[n].section = s /\ ~ops[n].whole /\ ops[n].op = "remove" /\ ops[n].at = i
    BY <2>10 DEF RemoveOp
  <2> HIDE DEF now, i, c
  <2>12. EditedSection(c[n - 1], ops[n]) = RemoveAt(c[n - 1], i)
    BY <2>11 DEF EditedSection, ListSection, MapSection
  <2>13. i \in DOMAIN c[n - 1]
    BY <2>7, <2>8 DEF Picked
  <2> QED  BY <2>8, <2>9, <2>11, <2>12, <2>13
<1>9. c[K] = Picked(list, (1..m) \ at)
  <2>1. K \in 0..K /\ K + 1 - K = 1
    BY <1>2
  <2>2. last(K) = at
    <3>1. last(K) = {Nth(at, r) : r \in 1..K}
      BY <2>1
    <3>2. ASSUME NEW i \in at  PROVE \E r \in 1..K : Nth(at, r) = i
      BY <1>2, NthOf DEF K
    <3> QED  BY <1>3, <3>1, <3>2
  <2> QED  BY <2>1, <2>2
<1>10. SectionTrace(c, s, list, ops)
  <2> HIDE DEF c
  <2> QED  BY <1>5, <1>7, <1>8 DEF SectionTrace
<1> HIDE DEF c
<1> QED  BY <1>5, <1>6, <1>9, <1>10 DEF m, Leads

\* Adding entries behind the last one.
LEMMA Adding ==
  ASSUME NEW s \in ListSection, NEW list \in Seq(Entry), NEW new \in Seq(Entry),
         NEW ops, ops = Additions(s, new)
  PROVE  Leads(s, list, list \o new, ops)
<1> DEFINE K == Len(new)
           c == [n \in 0..K |-> list \o SubSeq(new, 1, n)]
<1>1. K \in Nat /\ \A n \in 1..K : new[n] \in Entry
  OBVIOUS
<1>2. Len(ops) = K /\ ops = [n \in 1..K |-> ops[n]] /\ \A n \in 1..K : ops[n] = Add(s, End, new[n])
  BY <1>1 DEF Additions
<1>3. ops \in Seq(Operation)
  <2>1. ASSUME NEW n \in 1..K  PROVE ops[n] \in Operation
    BY <1>1, <1>2, ListOperation
  <2> HIDE DEF K
  <2> QED  BY <1>1, <1>2, <2>1
<1>4. c[0] = list
  <2>1. c[0] = list \o SubSeq(new, 1, 0)
    BY <1>1
  <2>2. SubSeq(new, 1, 0) = <<>>
    OBVIOUS
  <2>3. list \o <<>> = list
    OBVIOUS
  <2> QED  BY <2>1, <2>2, <2>3
<1>5. ASSUME NEW n \in 1..K
      PROVE  /\ ops[n].section = s /\ ~ops[n].whole
             /\ ops[n].op = "add" \/ ops[n].at \in DOMAIN c[n - 1]
             /\ c[n] = EditedSection(c[n - 1], ops[n])
  <2>1. /\ ops[n].section = s /\ ~ops[n].whole /\ ops[n].op = "add" /\ ops[n].value = new[n]
    <3>1. ops[n] = Add(s, End, new[n])
      BY <1>2
    <3> QED  BY <3>1 DEF Add
  <2> DEFINE a == SubSeq(new, 1, n - 1)
             b == SubSeq(new, 1, n)
             e == new[n]
  <2>2. a \in Seq(Entry) /\ b \in Seq(Entry) /\ e \in Entry /\ b = Append(a, e)
    <3>1. a \in Seq(Entry) /\ Len(a) = n - 1 /\ \A k \in 1..n - 1 : a[k] = new[k]
      BY <1>1
    <3>2. b \in Seq(Entry) /\ Len(b) = n /\ \A k \in 1..n : b[k] = new[k]
      BY <1>1
    <3>3. e \in Entry /\ n \in Nat /\ n >= 1
      BY <1>1
    <3> HIDE DEF a, b, e, K
    <3>4. /\ Append(a, e) \in Seq(Entry) /\ Len(Append(a, e)) = n
          /\ \A k \in 1..n : Append(a, e)[k] = IF k = n THEN e ELSE a[k]
      BY <3>1, <3>3
    <3>5. \A k \in 1..n : Append(a, e)[k] = b[k]
      <4>1. \A k \in 1..n : k # n => k \in 1..n - 1
        BY <3>3
      <4> QED  BY <3>1, <3>2, <3>4, <4>1 DEF e
    <3>6. \A q \in Seq(Entry) : q = [k \in 1..Len(q) |-> q[k]]
      OBVIOUS
    <3>7. b = [k \in 1..n |-> b[k]] /\ Append(a, e) = [k \in 1..n |-> Append(a, e)[k]]
      BY <3>2, <3>4, <3>6
    <3> QED  BY <3>1, <3>2, <3>3, <3>5, <3>7
  <2>3. c[n - 1] = list \o a /\ c[n] = list \o b
    BY <1>1
  <2> HIDE DEF a, b, e, c
  <2>4. list \o Append(a, e) = Append(list \o a, e)
    BY <2>2
  <2>5. EditedSection(c[n - 1], ops[n]) = Append(c[n - 1], e)
    BY <2>1, Sections DEF EditedSection, e
  <2> QED  BY <2>1, <2>2, <2>3, <2>4, <2>5
<1>6. c[K] = list \o new
  <2>1. K \in 0..K /\ SubSeq(new, 1, K) = new
    BY <1>1
  <2>2. c[K] = list \o SubSeq(new, 1, K)
    BY <2>1
  <2> QED  BY <2>1, <2>2
<1>7. SectionTrace(c, s, list, ops)
  <2> HIDE DEF c
  <2> QED  BY <1>2, <1>4, <1>5 DEF SectionTrace
<1> HIDE DEF c
<1> QED  BY <1>2, <1>3, <1>6, <1>7 DEF Leads

\* The same entries as another list, as often, in some order.
Rearranged(made, after) ==
  /\ made \in Seq(Entry)
  /\ \A k \in DOMAIN made : \E j \in DOMAIN after : made[k] = after[j]
  /\ \E f \in Injection(DOMAIN after, DOMAIN made) : \A j \in DOMAIN after : made[f[j]] = after[j]


\* A list that begins with the kept entries of one, and ends with the added ones of another.
BeginsAndEnds(made, new, kept, after, added) ==
  /\ IsFiniteSet(kept) /\ IsFiniteSet(added)
  /\ Cardinality(kept) \in Nat /\ Cardinality(added) \in Nat
  /\ made \in Seq(Entry) /\ DOMAIN made = 1..Cardinality(kept) + Cardinality(added)
  /\ \A k \in 1..Cardinality(kept) : made[k] = new[Nth(kept, k)] /\ Nth(kept, k) \in kept
  /\ \A k \in 1..Cardinality(added) : /\ made[Cardinality(kept) + k] = after[Nth(added, k)]
                                      /\ Nth(added, k) \in added

\* What two lists of entries, picked one behind the other, hold.
LEMMA PickedBoth ==
  ASSUME NEW new \in Seq(Entry), NEW after \in Seq(Entry), NEW kept, NEW added,
         kept \subseteq 1..Len(new), added \subseteq 1..Len(after),
         NEW made, made = Picked(new, kept) \o Picked(after, added)
  PROVE  BeginsAndEnds(made, new, kept, after, added)
<1>1. IsFiniteSet(kept) /\ IsFiniteSet(added) /\ Cardinality(kept) \in Nat /\ Cardinality(added) \in Nat
  <2>1. 1 \in Int /\ Len(new) \in Int /\ Len(after) \in Int
    OBVIOUS
  <2> QED  BY <2>1, FS_Interval, FS_Subset, FS_CardinalityType
<1>2. kept \in SUBSET Nat /\ added \in SUBSET Nat
  OBVIOUS
<1> DEFINE a == Picked(new, kept)
           b == Picked(after, added)
           K == Cardinality(kept)
           L == Cardinality(added)
<1>3. a \in Seq(Entry) /\ Len(a) = K
  <2>1. \A i \in kept : new[i] \in Entry
    OBVIOUS
  <2> QED  BY <1>1, <1>2, <2>1, PickedType
<1>4. b \in Seq(Entry) /\ Len(b) = L
  <2>1. \A i \in added : after[i] \in Entry
    OBVIOUS
  <2> QED  BY <1>1, <1>2, <2>1, PickedType
<1>5. \A k \in 1..K : a[k] = new[Nth(kept, k)] /\ Nth(kept, k) \in kept
  BY <1>1, <1>2, NthExists DEF Picked
<1>6. \A k \in 1..L : b[k] = after[Nth(added, k)] /\ Nth(added, k) \in added
  BY <1>1, <1>2, NthExists DEF Picked
<1>7. K \in Nat /\ L \in Nat /\ made = a \o b
  BY <1>1
<1> HIDE DEF a, b, K, L
<1>8. a \o b \in Seq(Entry) /\ Len(a \o b) = K + L
  BY <1>3, <1>4, ConcatProperties
<1>14. \A k \in 1..Len(a) + Len(b) : (a \o b)[k] = IF k =< Len(a) THEN a[k] ELSE b[k - Len(a)]
  BY <1>3, <1>4, ConcatProperties
<1>9. ASSUME NEW k \in 1..K  PROVE (a \o b)[k] = a[k]
  <2>1. k \in 1..K + L /\ k =< K
    BY <1>7
  <2> QED  BY <1>3, <1>4, <1>14, <2>1
<1>10. ASSUME NEW k \in 1..L  PROVE (a \o b)[K + k] = b[k]
  <2>1. K + k \in 1..K + L /\ ~(K + k =< K) /\ (K + k) - K = k
    BY <1>7
  <2> QED  BY <1>3, <1>4, <1>14, <2>1
<1>11. made \in Seq(Entry) /\ DOMAIN made = 1..K + L
  BY <1>7, <1>8
<1>12. \A k \in 1..K : made[k] = new[Nth(kept, k)]
  BY <1>5, <1>7, <1>9
<1>13. \A k \in 1..L : made[K + k] = after[Nth(added, k)]
  BY <1>6, <1>7, <1>10
<1> QED  BY <1>1, <1>5, <1>6, <1>11, <1>12, <1>13 DEF BeginsAndEnds, K, L

\* Whatever pairs the kept entries with those that are not added.
PairUp(B, new, kept, after, rest) ==
  /\ \A b \in B : b[1] \in kept /\ b[2] \in rest /\ new[b[1]] = after[b[2]]
  /\ \A i \in kept : \E b \in B : b[1] = i
  /\ \A j \in rest : \E b \in B : b[2] = j
  /\ \A b \in B, c \in B : b[1] = c[1] => b = c

\* Then the kept entries with the added ones behind are the new list, in some order.
LEMMA SplicedIsRearranged ==
  ASSUME NEW new \in Seq(Entry), NEW after \in Seq(Entry), NEW kept, NEW added,
         kept \subseteq 1..Len(new), added \subseteq 1..Len(after),
         NEW made, made = Picked(new, kept) \o Picked(after, added),
         NEW B, PairUp(B, new, kept, after, (1..Len(after)) \ added)
  PROVE  Rearranged(made, after)
<1> DEFINE n == Len(after)
           K == Cardinality(kept)
           L == Cardinality(added)
           partner(j) == CHOOSE b \in B : b[2] = j
           f == [j \in 1..n |-> IF j \in added THEN K + Cardinality(Upto(added, j))
                                ELSE Cardinality(Upto(kept, partner(j)[1]))]
<1>01. BeginsAndEnds(made, new, kept, after, added)
  BY PickedBoth, Zenon
<1>1. /\ IsFiniteSet(kept) /\ IsFiniteSet(added) /\ K \in Nat /\ L \in Nat
      /\ made \in Seq(Entry) /\ DOMAIN made = 1..K + L
      /\ \A k \in 1..K : made[k] = new[Nth(kept, k)] /\ Nth(kept, k) \in kept
      /\ \A k \in 1..L : made[K + k] = after[Nth(added, k)] /\ Nth(added, k) \in added
  BY <1>01, Zenon DEF BeginsAndEnds
<1>2. kept \in SUBSET Nat /\ added \in SUBSET Nat /\ DOMAIN after = 1..n
  OBVIOUS
<1>3. \A i \in kept : Cardinality(Upto(kept, i)) \in 1..K /\ Nth(kept, Cardinality(Upto(kept, i))) = i
  BY <1>1, <1>2, NthOf
<1>4. \A j \in added : Cardinality(Upto(added, j)) \in 1..L /\ Nth(added, Cardinality(Upto(added, j))) = j
  BY <1>1, <1>2, NthOf
<1>5. \A j \in (1..n) \ added : /\ partner(j) \in B /\ partner(j)[2] = j /\ partner(j)[1] \in kept
                                /\ new[partner(j)[1]] = after[j]
  BY DEF PairUp
<1>55. /\ \A b \in B : b[1] \in kept /\ b[2] \in (1..n) \ added /\ new[b[1]] = after[b[2]]
       /\ \A i \in kept : \E b \in B : b[1] = i
       /\ \A b \in B, c \in B : b[1] = c[1] => b = c
  BY DEF PairUp
<1> HIDE DEF K, L, partner, n
<1>6. ASSUME NEW k \in DOMAIN made  PROVE \E j \in DOMAIN after : made[k] = after[j]
  <2>1. CASE k \in 1..K
    <3>1. made[k] = new[Nth(kept, k)] /\ Nth(kept, k) \in kept
      BY <1>1, <2>1
    <3>2. PICK b \in B : b[1] = Nth(kept, k)
      BY <1>55, <3>1
    <3> QED  BY <1>2, <1>55, <3>1, <3>2
  <2>2. CASE k \notin 1..K
    <3>1. k - K \in 1..L /\ K + (k - K) = k
      BY <1>1, <2>2
    <3>2. made[k] = after[Nth(added, k - K)] /\ Nth(added, k - K) \in 1..n
      BY <1>1, <3>1 DEF n
    <3> QED  BY <1>2, <3>2
  <2> QED  BY <2>1, <2>2
<1>7. ASSUME NEW j \in added
      PROVE  /\ f[j] = K + Cardinality(Upto(added, j)) /\ f[j] \in DOMAIN made /\ f[j] > K
             /\ made[f[j]] = after[j]
  <2>1. f[j] = K + Cardinality(Upto(added, j))
    BY DEF n
  <2> DEFINE k == Cardinality(Upto(added, j))
  <2>2. k \in 1..L /\ Nth(added, k) = j /\ f[j] = K + k
    BY <1>4, <2>1
  <2> HIDE DEF f, k
  <2>30. made[K + k] = after[j]
    <3>1. made[K + k] = after[Nth(added, k)]
      BY <1>1, <2>2
    <3> QED  BY <2>2, <3>1
  <2>31. K + k \in 1..K + L /\ K + k > K
    <3>1. K \in Nat /\ L \in Nat /\ k \in 1..L
      BY <1>1, <2>2
    <3> QED  BY <3>1
  <2>3. made[K + k] = after[j] /\ K + k \in 1..K + L /\ K + k > K
    BY <2>30, <2>31
  <2> QED  BY <1>1, <2>1, <2>2, <2>3
<1>8. ASSUME NEW j \in (1..n) \ added
      PROVE  /\ f[j] = Cardinality(Upto(kept, partner(j)[1])) /\ f[j] \in DOMAIN made /\ f[j] =< K
             /\ f[j] \in Nat /\ made[f[j]] = after[j]
  <2>1. f[j] = Cardinality(Upto(kept, partner(j)[1]))
    OBVIOUS
  <2>2. f[j] \in 1..K /\ Nth(kept, f[j]) = partner(j)[1]
    BY <1>3, <1>5, <2>1
  <2> HIDE DEF f
  <2>3. made[f[j]] = after[j]
    <3>1. made[f[j]] = new[Nth(kept, f[j])]
      BY <1>1, <2>2
    <3> QED  BY <1>5, <2>2, <3>1
  <2>4. f[j] \in 1..K + L /\ f[j] =< K /\ f[j] \in Nat
    BY <1>1, <2>2
  <2> QED  BY <1>1, <2>1, <2>3, <2>4
<1>9. ASSUME NEW i \in 1..n, NEW j \in 1..n, f[i] = f[j]  PROVE i = j
  <2>1. CASE i \in added /\ j \in added
    <3>1. K + Cardinality(Upto(added, i)) = K + Cardinality(Upto(added, j))
      BY <1>7, <1>9, <2>1
    <3>2. Cardinality(Upto(added, i)) \in Nat /\ Cardinality(Upto(added, j)) \in Nat
      BY <1>1, <1>4, <2>1
    <3>3. Cardinality(Upto(added, i)) = Cardinality(Upto(added, j))
      BY <1>1, <3>1, <3>2
    <3> QED  BY <1>4, <2>1, <3>3
  <2>2. CASE i \notin added /\ j \notin added
    <3>1. Cardinality(Upto(kept, partner(i)[1])) = Cardinality(Upto(kept, partner(j)[1]))
      BY <1>8, <1>9, <2>2
    <3>2. partner(i)[1] = partner(j)[1]
      <4>1. partner(i)[1] \in kept /\ partner(j)[1] \in kept
        BY <1>5, <2>2
      <4>2. /\ Nth(kept, Cardinality(Upto(kept, partner(i)[1]))) = partner(i)[1]
            /\ Nth(kept, Cardinality(Upto(kept, partner(j)[1]))) = partner(j)[1]
        BY <1>3, <4>1
      <4> QED  BY <3>1, <4>2
    <3> QED  BY <1>5, <1>55, <2>2, <3>2
  <2>3. CASE i \in added /\ j \notin added
    <3>1. f[i] > K /\ f[j] =< K /\ f[j] \in Nat
      BY <1>7, <1>8, <2>3
    <3> QED  BY <1>1, <1>9, <3>1
  <2>4. CASE i \notin added /\ j \in added
    <3>1. f[j] > K /\ f[i] =< K /\ f[i] \in Nat
      BY <1>7, <1>8, <2>4
    <3> QED  BY <1>1, <1>9, <3>1
  <2> QED  BY <2>1, <2>2, <2>3, <2>4
<1>10. f \in Injection(DOMAIN after, DOMAIN made) /\ \A j \in DOMAIN after : made[f[j]] = after[j]
  <2>1. DOMAIN f = 1..n /\ f = [j \in 1..n |-> f[j]]
    OBVIOUS
  <2>2. \A j \in 1..n : f[j] \in DOMAIN made /\ made[f[j]] = after[j]
    BY <1>7, <1>8
  <2> HIDE DEF f
  <2>3. f \in [DOMAIN after -> DOMAIN made] /\ IsInjective(f)
    BY <1>2, <1>9, <2>1, <2>2 DEF IsInjective
  <2> QED  BY <1>2, <2>2, <2>3 DEF Injection
<1> HIDE DEF f
<1> QED  BY <1>1, <1>6, <1>10 DEF Rearranged

\* The operations of a list lead from one list to the other, in some order.
LEMMA ListOpsMake ==
  ASSUME NEW q, IsDocument(q), NEW s \in ListSection, s \in DOMAIN q,
         NEW before, before = q[s], NEW after \in Seq(Entry)
  PROVE  /\ ListOps(s, before, after) \in Seq(Operation)
         /\ FitInTurn(q, ListOps(s, before, after))
         /\ \E made : /\ Rearranged(made, after)
                      /\ Projected(q, ListOps(s, before, after)) = With(q, s, made)
<1> DEFINE P == Anchors(before, after)
           m == Len(before)
           n == Len(after)
           R == Replaced(P)
           at == {p[1] : p \in R}
           new == [i \in 1..m |-> IF \E p \in R : p[1] = i
                                  THEN after[(CHOOSE p \in R : p[1] = i)[2]] ELSE before[i]]
           kept == (1..m) \ Rest(P, 1)
           added == Rest(P, 2)
           list == Picked(new, kept)
           more == Picked(after, added)
           made == list \o more
           a == Replacements(s, new, at)
           b == Removals(s, Rest(P, 1))
           c == Additions(s, more)
<1>1. before \in Seq(Entry) /\ m \in Nat /\ n \in Nat /\ s \in Section
  BY Sections DEF IsDocument, IsContent
<1>2. Fence(P, m, n) /\ \A g \in 2..Len(P) - 1 : before[P[g][1]] = after[P[g][2]]
  BY <1>1, AnchorsAreFence
<1> HIDE DEF P
<1>3. /\ R \subseteq Partners(P) /\ Partners(P) \subseteq (1..m) \X (1..n)
      /\ \A p \in Partners(P) \ R : \E g \in 2..Len(P) - 1 : p = <<P[g][1], P[g][2]>>
  BY <1>1, <1>2, ReplacedAreOthers
<1>4. /\ Rest(P, 1) \subseteq 1..m
      /\ \A p \in Partners(P) : p[1] \in kept
      /\ \A i \in kept : \E p \in Partners(P) : p[1] = i
      /\ \A p, r \in Partners(P) : p[1] = r[1] => p = r
  <2> HIDE DEF m, n
  <2> QED  BY <1>1, <1>2, PartnersInFront, Zenon
<1>5. /\ added \subseteq 1..n
      /\ \A p \in Partners(P) : p[2] \in (1..n) \ added
      /\ \A j \in (1..n) \ added : \E p \in Partners(P) : p[2] = j
  <2> HIDE DEF m, n, added
  <2>1. /\ Rest(P, 2) \subseteq 1..n
        /\ \A p \in Partners(P) : p[2] \in (1..n) \ Rest(P, 2)
        /\ \A j \in (1..n) \ Rest(P, 2) : \E p \in Partners(P) : p[2] = j
    BY <1>1, <1>2, PartnersBehind
  <2> QED  BY <2>1 DEF added
<1> HIDE DEF m, n, R, kept, added
<1>6. \A p \in Partners(P) : p[1] \in 1..m /\ p[2] \in 1..n
  BY <1>3
<1>7. ASSUME NEW p \in R  PROVE p[1] \in 1..m /\ new[p[1]] = after[p[2]]
  <2>1. p[1] \in 1..m
    BY <1>3, <1>6
  <2>2. \A r \in R : r[1] = p[1] => r = p
    BY <1>3, <1>4
  <2>3. (CHOOSE r \in R : r[1] = p[1]) = p
    BY <2>2
  <2> QED  BY <2>1, <2>3
<1>8. ASSUME NEW i \in 1..m, i \notin at  PROVE new[i] = before[i]
  BY <1>8
<1>9. new \in Seq(Entry) /\ Len(new) = m
  <2>1. ASSUME NEW i \in 1..m  PROVE new[i] \in Entry
    <3>1. CASE i \in at
      <4>1. PICK p \in R : p[1] = i
        BY <3>1
      <4>2. p[2] \in 1..n /\ new[i] = after[p[2]]
        BY <1>3, <1>6, <1>7, <4>1
      <4> QED  BY <4>2 DEF n
    <3>2. CASE i \notin at
      <4>1. new[i] = before[i]
        BY <1>8, <3>2
      <4> QED  BY <1>1, <4>1 DEF m
    <3> QED  BY <3>1, <3>2
  <2>2. new = [i \in 1..m |-> new[i]]
    OBVIOUS
  <2> HIDE DEF new
  <2> QED  BY <1>1, <2>1, <2>2
<1>10. \A p \in Partners(P) : new[p[1]] = after[p[2]]
  <2>1. ASSUME NEW p \in Partners(P), p \notin R  PROVE new[p[1]] = after[p[2]]
    <3>1. PICK g \in 2..Len(P) - 1 : p = <<P[g][1], P[g][2]>>
      BY <1>3, <2>1
    <3>2. before[p[1]] = after[p[2]]
      BY <1>2, <3>1
    <3>3. p[1] \notin at
      <4>1. \A r \in R : r[1] # p[1]
        BY <1>3, <1>4, <2>1
      <4> QED  BY <4>1
    <3>4. new[p[1]] = before[p[1]]
      BY <1>6, <1>8, <3>3
    <3> QED  BY <3>2, <3>4
  <2> QED  BY <1>7, <2>1
<1>11. at \in SUBSET (1..m)
  BY <1>3, <1>6
<1>12. ListOps(s, before, after) = a \o b \o c
  <2>1. SetToSeq({ReplaceOp(s, p[1], after[p[2]]) : p \in R}) = a
    <3>1. {ReplaceOp(s, p[1], after[p[2]]) : p \in R} = {ReplaceOp(s, i, new[i]) : i \in at}
      <4>1. \A p \in R : ReplaceOp(s, p[1], after[p[2]]) = ReplaceOp(s, p[1], new[p[1]])
        BY <1>7
      <4> HIDE DEF new
      <4> QED  BY <4>1
    <3> QED  BY <3>1 DEF Replacements
  <2>2. [k \in 1..Cardinality(added) |-> Add(s, End, after[Nth(added, k)])] = c
    <3>1. \A i \in added : after[i] \in Entry
      BY <1>5 DEF n
    <3>2. IsFiniteSet(added) /\ added \in SUBSET Nat
      <4>1. 1 \in Int /\ n \in Int /\ 1..n \subseteq Nat
        BY <1>1
      <4> QED  BY <1>5, <4>1, FS_Interval, FS_Subset
    <3>3. Len(more) = Cardinality(added)
      BY <3>1, <3>2, PickedType
    <3>4. \A k \in 1..Cardinality(added) : more[k] = after[Nth(added, k)]
      BY DEF Picked
    <3> HIDE DEF more
    <3> QED  BY <3>3, <3>4 DEF Additions
  <2> QED  BY <2>1, <2>2 DEF ListOps, Removals, R, added, P
<1> HIDE DEF new, at
<1>13. Leads(s, before, new, a)
  <2>1. Len(new) = Len(before) /\ at \subseteq 1..Len(before)
        /\ \A i \in (1..Len(before)) \ at : new[i] = before[i]
    BY <1>8, <1>9, <1>11 DEF m
  <2> QED  BY <1>1, <1>9, <2>1, Replacing, Zenon
<1>15. Leads(s, new, list, b)
  <2>1. Rest(P, 1) \subseteq 1..Len(new) /\ kept = (1..Len(new)) \ Rest(P, 1)
    BY <1>4, <1>9 DEF kept
  <2>2. Leads(s, new, Picked(new, (1..Len(new)) \ Rest(P, 1)), b)
    BY <1>9, <2>1, Removing, Zenon
  <2> QED  BY <2>1, <2>2
<1>16. list \in Seq(Entry) /\ more \in Seq(Entry)
  <2>1. kept \subseteq 1..m
    BY DEF kept
  <2>2. /\ kept \in SUBSET Nat /\ IsFiniteSet(kept) /\ \A i \in kept : new[i] \in Entry
        /\ added \in SUBSET Nat /\ IsFiniteSet(added) /\ \A i \in added : after[i] \in Entry
    <3>1. 1 \in Int /\ n \in Int /\ m \in Int /\ 1..n \subseteq Nat /\ 1..m \subseteq Nat
      BY <1>1
    <3>2. \A i \in 1..m : new[i] \in Entry
      BY <1>9
    <3>3. \A i \in 1..n : after[i] \in Entry
      BY DEF n
    <3> QED  BY <1>5, <2>1, <3>1, <3>2, <3>3, FS_Interval, FS_Subset
  <2> QED  BY <2>2, PickedType
<1>17. Leads(s, list, made, c)
  <2> HIDE DEF list, more
  <2> QED  BY <1>16, Adding
<1> HIDE DEF a, b, c, list, more
<1>14. a \in Seq(Operation) /\ b \in Seq(Operation) /\ c \in Seq(Operation)
  BY <1>13, <1>15, <1>17 DEF Leads
<1>18. FitInTurn(q, a) /\ Projected(q, a) = With(q, s, new)
  BY <1>13, LeadsThere
<1>19. \A x \in Seq(Entry) : /\ IsDocument(With(q, s, x)) /\ s \in DOMAIN With(q, s, x)
                             /\ With(q, s, x)[s] = x
                             /\ \A y : With(With(q, s, x), s, y) = With(q, s, y)
  <2>1. ASSUME NEW x \in Seq(Entry)  PROVE IsDocument(With(q, s, x))
    BY <1>1, WithDocument DEF IsContent
  <2>2. ASSUME NEW x
        PROVE  /\ s \in DOMAIN With(q, s, x) /\ With(q, s, x)[s] = x
               /\ \A y : With(With(q, s, x), s, y) = With(q, s, y)
    BY DEF With
  <2> QED  BY <2>1, <2>2
<1>20. FitInTurn(q, a \o b) /\ Projected(q, a \o b) = With(q, s, list)
  <2> DEFINE r == With(q, s, new)
  <2>1. IsDocument(r) /\ s \in DOMAIN r /\ r[s] = new /\ With(r, s, list) = With(q, s, list)
    BY <1>9, <1>19
  <2> HIDE DEF r
  <2>2. FitInTurn(r, b) /\ Projected(r, b) = With(r, s, list)
    BY <1>15, <2>1, LeadsThere
  <2>3. FitInTurn(q, a \o b)
    BY <1>14, <1>18, <2>2, FitBoth DEF r
  <2>4. Projected(q, a \o b) = Projected(Projected(q, a), b)
    BY <1>14, ProjectedInTurn
  <2> QED  BY <1>18, <2>1, <2>2, <2>3, <2>4 DEF r
<1>21. FitInTurn(q, (a \o b) \o c) /\ Projected(q, (a \o b) \o c) = With(q, s, made)
  <2> DEFINE r == With(q, s, list)
  <2>1. IsDocument(r) /\ s \in DOMAIN r /\ r[s] = list /\ With(r, s, made) = With(q, s, made)
    BY <1>16, <1>19
  <2> HIDE DEF r, made
  <2>2. FitInTurn(r, c) /\ Projected(r, c) = With(r, s, made)
    BY <1>17, <2>1, LeadsThere
  <2>0. a \o b \in Seq(Operation)
    BY <1>14
  <2>3. FitInTurn(q, (a \o b) \o c)
    BY <1>14, <1>20, <2>0, <2>2, FitBoth DEF r
  <2>4. Projected(q, (a \o b) \o c) = Projected(Projected(q, a \o b), c)
    BY <1>14, <2>0, ProjectedInTurn
  <2> QED  BY <1>20, <2>1, <2>2, <2>3, <2>4 DEF r
<1>22. (a \o b) \o c \in Seq(Operation)
  BY <1>14
<1>23. Rearranged(made, after)
  <2>1. kept \subseteq 1..Len(new) /\ added \subseteq 1..Len(after)
    BY <1>5, <1>9 DEF kept, n
  <2>2. made = Picked(new, kept) \o Picked(after, added)
    BY DEF list, more
  <2>3. PairUp(Partners(P), new, kept, after, (1..Len(after)) \ added)
    BY <1>4, <1>5, <1>10 DEF PairUp, n
  <2> HIDE DEF made
  <2> QED  BY <1>9, <2>1, <2>2, <2>3, SplicedIsRearranged, Zenon
<1> HIDE DEF made
<1> QED  BY <1>12, <1>21, <1>22, <1>23

-----------------------------------------------------------------------------
(* Cascades. *)

\* What a section is to hold: the same, or the same entries in some order.
Becomes(s, made, after) == IF s \in ListSection THEN Rearranged(made, after) ELSE made = after

\* Documents with the same sections, the second with nothing new in its maps.
Shrinks(before, after) ==
  /\ IsDocument(before) /\ IsDocument(after) /\ DOMAIN after = DOMAIN before
  /\ \A s \in DOMAIN before \intersect MapSection : DOMAIN after[s] \subseteq DOMAIN before[s]

\* On the way from one to the other, with some sections done.
Halfway(q, done, before, after) ==
  /\ IsDocument(q) /\ DOMAIN q = DOMAIN before
  /\ \A s \in DOMAIN before : IF s \in done THEN Becomes(s, q[s], after[s]) ELSE q[s] = before[s]

\* The operations of a section fit and change nothing but the section.
LEMMA SectionOpsMake ==
  ASSUME NEW before, NEW after, Shrinks(before, after), NEW done, NEW s \in Section, s \notin done,
         NEW q, Halfway(q, done, before, after), NEW ops, ops = SectionOps(s, before, after)
  PROVE  /\ ops \in Seq(Operation) /\ FitInTurn(q, ops)
         /\ Halfway(Projected(q, ops), done \union {s}, before, after)
<1>1. IsDocument(q) /\ DOMAIN q = DOMAIN before
  BY DEF Halfway
<1>2. ASSUME s \in DOMAIN before, NEW made, Projected(q, ops) = With(q, s, made),
             Becomes(s, made, after[s]), ops \in Seq(Operation)
      PROVE  Halfway(Projected(q, ops), done \union {s}, before, after)
  <2> DEFINE r == Projected(q, ops)
  <2>1. IsDocument(r)
    BY <1>1, <1>2, ProjectedDocument
  <2>2. DOMAIN r = DOMAIN before /\ r[s] = made /\ \A t \in DOMAIN before \ {s} : r[t] = q[t]
    BY <1>1, <1>2 DEF With
  <2> HIDE DEF r
  <2>3. \A t \in DOMAIN before :
          IF t \in done \union {s} THEN Becomes(t, r[t], after[t]) ELSE r[t] = before[t]
    BY <1>2, <2>2 DEF Halfway
  <2> QED  BY <2>1, <2>2, <2>3 DEF Halfway, r
<1>3. CASE s \notin DOMAIN before
  <2>1. ops = <<>>
    BY <1>3 DEF SectionOps
  <2>2. ops \in Seq(Operation) /\ FitInTurn(q, ops)
    BY <2>1 DEF FitInTurn
  <2>3. Projected(q, ops) = q
    BY <2>1, NothingProjected
  <2>4. Halfway(q, done \union {s}, before, after)
    BY <1>3 DEF Halfway
  <2> QED  BY <2>2, <2>3, <2>4
<1>4. CASE s \in DOMAIN before /\ s \in ListSection
  <2>1. q[s] = before[s] /\ after[s] \in Seq(Entry) /\ s \in DOMAIN q
    BY <1>4 DEF Halfway, Shrinks, IsDocument, IsContent
  <2>2. ops = ListOps(s, before[s], after[s])
    BY <1>4 DEF SectionOps
  <2>3. /\ ops \in Seq(Operation) /\ FitInTurn(q, ops)
        /\ \E made : Rearranged(made, after[s]) /\ Projected(q, ops) = With(q, s, made)
    BY <1>1, <1>4, <2>1, <2>2, ListOpsMake
  <2> QED  BY <1>2, <1>4, <2>3 DEF Becomes
<1>5. CASE s \in DOMAIN before /\ s \notin ListSection
  <2>1. q[s] = before[s] /\ s \in DOMAIN q
    BY <1>5 DEF Halfway
  <2>2. s \in MapSection /\ IsMap(s, before[s]) /\ IsMap(s, after[s]) /\ DOMAIN after[s] \subseteq DOMAIN before[s]
    BY <1>5, Sections DEF Shrinks, IsDocument, IsContent
  <2>3. ops = MapOps(s, before[s], after[s])
    BY <1>5 DEF SectionOps
  <2>4. Leads(s, q[s], after[s], ops)
    BY <2>1, <2>2, <2>3, MapOpsMake
  <2>5. ops \in Seq(Operation) /\ FitInTurn(q, ops) /\ Projected(q, ops) = With(q, s, after[s])
    BY <1>1, <2>1, <2>4, LeadsThere
  <2> QED  BY <1>2, <1>5, <2>5 DEF Becomes
<1> QED  BY <1>3, <1>4, <1>5

\* Operations that fit and lead there for some sections.
Treats(ops, done, before, after) ==
  /\ ops \in Seq(Operation) /\ FitInTurn(before, ops)
  /\ Halfway(Projected(before, ops), done, before, after)

\* One section more.
LEMMA NextSection ==
  ASSUME NEW before, NEW after, Shrinks(before, after), NEW done, NEW s \in Section, s \notin done,
         NEW a, Treats(a, done, before, after)
  PROVE  Treats(a \o SectionOps(s, before, after), done \union {s}, before, after)
<1> DEFINE b == SectionOps(s, before, after)
           q == Projected(before, a)
<1>1. a \in Seq(Operation) /\ FitInTurn(before, a) /\ Halfway(q, done, before, after)
  BY DEF Treats
<1> HIDE DEF q
<1>2. b \in Seq(Operation) /\ FitInTurn(q, b) /\ Halfway(Projected(q, b), done \union {s}, before, after)
  BY <1>1, SectionOpsMake
<1> HIDE DEF b
<1>3. a \o b \in Seq(Operation)
  BY <1>1, <1>2
<1>4. FitInTurn(before, a \o b)
  BY <1>1, <1>2, FitBoth DEF q
<1>5. Projected(before, a \o b) = Projected(q, b)
  BY <1>1, <1>2, ProjectedInTurn DEF q
<1> QED  BY <1>2, <1>3, <1>4, <1>5 DEF Treats, b

\* A cascade leads from one document to a smaller one, but for the order of entries.
LEMMA CascadeOpsMake ==
  ASSUME NEW before, NEW after, Shrinks(before, after)
  PROVE  Treats(CascadeOps(before, after), Section, before, after)
<1> DEFINE Ops(s) == SectionOps(s, before, after)
           a == Ops("groups")
           b == a \o Ops("tagOwners")
           c == b \o Ops("acls")
           d == c \o Ops("grants")
           e == d \o Ops("ssh")
           f == e \o Ops("routes")
           g == f \o Ops("tests")
           h == g \o Ops("sshTests")
<1> DEFINE A == {"groups"}
           B == A \union {"tagOwners"}
           C == B \union {"acls"}
           D == C \union {"grants"}
           E == D \union {"ssh"}
           F == E \union {"routes"}
           G == F \union {"tests"}
           H == G \union {"sshTests"}
<1>0. Halfway(before, {}, before, after)
  BY DEF Halfway, Shrinks
<1>1. Treats(a, A, before, after)
  <2>1. "groups" \in Section /\ "groups" \notin {}
    BY DEF Section, MapSection
  <2>2. a \in Seq(Operation) /\ FitInTurn(before, a) /\ Halfway(Projected(before, a), {} \union A, before, after)
    BY <1>0, <2>1, SectionOpsMake, Zenon
  <2> QED  BY <2>2 DEF Treats
<1> HIDE DEF a, b, c, d, e, f, g, h
<1>2. Treats(b, B, before, after)
  <2>1. "tagOwners" \in Section /\ "tagOwners" \notin A
    BY DEF Section, MapSection
  <2> QED  BY <1>1, <2>1, NextSection DEF b
<1>3. Treats(c, C, before, after)
  <2>1. "acls" \in Section /\ "acls" \notin B
    BY DEF Section, ListSection
  <2> QED  BY <1>2, <2>1, NextSection DEF c
<1>4. Treats(d, D, before, after)
  <2>1. "grants" \in Section /\ "grants" \notin C
    BY DEF Section, ListSection
  <2> QED  BY <1>3, <2>1, NextSection DEF d
<1>5. Treats(e, E, before, after)
  <2>1. "ssh" \in Section /\ "ssh" \notin D
    BY DEF Section, ListSection
  <2> QED  BY <1>4, <2>1, NextSection DEF e
<1>6. Treats(f, F, before, after)
  <2>1. "routes" \in Section /\ "routes" \notin E
    BY DEF Section, MapSection
  <2> QED  BY <1>5, <2>1, NextSection DEF f
<1>7. Treats(g, G, before, after)
  <2>1. "tests" \in Section /\ "tests" \notin F
    BY DEF Section, ListSection
  <2> QED  BY <1>6, <2>1, NextSection DEF g
<1>8. Treats(h, H, before, after)
  <2>1. "sshTests" \in Section /\ "sshTests" \notin G
    BY DEF Section, ListSection
  <2> QED  BY <1>7, <2>1, NextSection DEF h
<1>9. H = Section
  BY DEF Section, MapSection, ListSection
<1>10. h = CascadeOps(before, after)
  BY DEF CascadeOps, a, b, c, d, e, f, g, h
<1> QED  BY <1>8, <1>9, <1>10

\* What is left of a list: an entry of it each, cut, and every one that stays.
CleanedFrom(clean, s, list, gone) ==
  /\ clean \in Seq(Entry)
  /\ \A j \in DOMAIN clean : \E i \in DOMAIN list :
       Stays(s, list[i], gone) /\ clean[j] = Cut(list[i], gone)
  /\ \E f : /\ \A i \in DOMAIN list : Stays(s, list[i], gone) =>
                 f[i] \in DOMAIN clean /\ clean[f[i]] = Cut(list[i], gone)
            /\ \A i \in DOMAIN list, k \in DOMAIN list :
                 Stays(s, list[i], gone) /\ Stays(s, list[k], gone) /\ f[i] = f[k] => i = k

\* Cleaning a list cuts its entries and drops those that do not stay.
LEMMA CleanedListIs ==
  ASSUME NEW s, NEW list \in Seq(Entry), NEW gone
  PROVE  CleanedFrom(CleanedList(s, list, gone), s, list, gone)
<1> DEFINE m == Len(list)
           at == {i \in DOMAIN list : Stays(s, list[i], gone)}
           K == Cardinality(at)
           clean == CleanedList(s, list, gone)
           f == [i \in at |-> Cardinality(Upto(at, i))]
<1>1. m \in Nat /\ DOMAIN list = 1..m /\ \A i \in 1..m : list[i] \in Entry
  OBVIOUS
<1>2. at \subseteq 1..m /\ at \in SUBSET Nat
  BY <1>1
<1>3. IsFiniteSet(at) /\ K \in Nat
  <2>1. 1 \in Int /\ m \in Int
    BY <1>1
  <2> HIDE DEF at, m
  <2> QED  BY <1>2, <2>1, FS_Interval, FS_Subset, FS_CardinalityType
<1>4. clean = [n \in 1..K |-> Cut(list[Nth(at, n)], gone)]
  BY DEF CleanedList
<1>5. \A i \in at : i \in DOMAIN list /\ Stays(s, list[i], gone) /\ list[i] \in Entry
  BY <1>1
<1>6. \A i \in DOMAIN list : Stays(s, list[i], gone) => i \in at
  OBVIOUS
<1> HIDE DEF at, m, clean, K
<1>7. \A n \in 1..K : Nth(at, n) \in at
  BY <1>2, <1>3, NthExists DEF K
<1>8. \A i \in at : Cardinality(Upto(at, i)) \in 1..K /\ Nth(at, Cardinality(Upto(at, i))) = i
  BY <1>2, <1>3, NthOf DEF K
<1>9. ASSUME NEW e \in Entry  PROVE Cut(e, gone) \in Entry
  BY DEF Cut, Entry
<1>10. clean \in Seq(Entry) /\ DOMAIN clean = 1..K
  <2>1. \A n \in 1..K : Cut(list[Nth(at, n)], gone) \in Entry
    BY <1>5, <1>7, <1>9
  <2> QED  BY <1>3, <1>4, <2>1
<1>11. \A j \in 1..K : clean[j] = Cut(list[Nth(at, j)], gone)
  BY <1>4
<1>12. \A i \in at : f[i] \in DOMAIN clean /\ clean[f[i]] = Cut(list[i], gone)
  <2>1. \A i \in at : f[i] \in 1..K /\ Nth(at, f[i]) = i
    BY <1>8
  <2> HIDE DEF f
  <2> QED  BY <1>10, <1>11, <2>1
<1>13. \A i \in at, k \in at : f[i] = f[k] => i = k
  <2>1. \A i \in at : Nth(at, f[i]) = i
    BY <1>8
  <2> HIDE DEF f
  <2> QED  BY <2>1
<1> HIDE DEF f
<1>14. \A j \in DOMAIN clean : \E i \in DOMAIN list :
         Stays(s, list[i], gone) /\ clean[j] = Cut(list[i], gone)
  BY <1>5, <1>7, <1>10, <1>11
<1>15. /\ \A i \in DOMAIN list : Stays(s, list[i], gone) =>
            f[i] \in DOMAIN clean /\ clean[f[i]] = Cut(list[i], gone)
       /\ \A i \in DOMAIN list, k \in DOMAIN list :
            Stays(s, list[i], gone) /\ Stays(s, list[k], gone) /\ f[i] = f[k] => i = k
  BY <1>6, <1>12, <1>13
<1> QED  BY <1>10, <1>14, <1>15 DEF CleanedFrom, clean

\* Cleaning a map adds no name and nobody.
LEMMA CleanedMapIs ==
  ASSUME NEW s \in MapSection, NEW map, IsMap(s, map), NEW gone
  PROVE  /\ IsMap(s, CleanedMap(s, map, gone))
         /\ DOMAIN CleanedMap(s, map, gone) \subseteq DOMAIN map
<1>1. DOMAIN map \subseteq Key[s] /\ IsFiniteSet(DOMAIN map) /\ \A k \in DOMAIN map : map[k] \subseteq Name
  BY DEF IsMap
<1>2. \A K : K \subseteq DOMAIN map => IsFiniteSet(K)
  BY <1>1, FS_Subset
<1>3. ASSUME NEW K, K \subseteq DOMAIN map, NEW f, f = [k \in K |-> f[k]], \A k \in K : f[k] \subseteq map[k]
      PROVE  IsMap(s, f) /\ DOMAIN f \subseteq DOMAIN map
  <2>1. DOMAIN f = K
    BY <1>3
  <2>2. IsFiniteSet(K) /\ K \subseteq Key[s]
    BY <1>1, <1>2, <1>3
  <2>3. \A k \in K : f[k] \subseteq Name
    BY <1>1, <1>3
  <2> QED  BY <1>3, <2>1, <2>2, <2>3 DEF IsMap
<1> DEFINE f == CleanedMap(s, map, gone)
<1>4. CASE s = "groups"
  <2>1. f = [k \in DOMAIN map \ gone |-> map[k]]
    BY <1>4 DEF CleanedMap, Without, Restrict
  <2>2. DOMAIN map \ gone \subseteq DOMAIN map /\ \A k \in DOMAIN map \ gone : f[k] \subseteq map[k]
    BY <2>1
  <2> HIDE DEF f
  <2>3. f = [k \in DOMAIN map \ gone |-> f[k]]
    BY <2>1
  <2> QED  BY <1>3, <2>2, <2>3 DEF f
<1>5. CASE s = "tagOwners"
  <2>1. f = [k \in DOMAIN map \ gone |-> map[k] \ (gone \intersect Group)]
    BY <1>5 DEF CleanedMap
  <2>2. DOMAIN map \ gone \subseteq DOMAIN map /\ \A k \in DOMAIN map \ gone : f[k] \subseteq map[k]
    BY <2>1
  <2> HIDE DEF f
  <2>3. f = [k \in DOMAIN map \ gone |-> f[k]]
    BY <2>1
  <2> QED  BY <1>3, <2>2, <2>3 DEF f
<1>6. CASE s = "routes"
  <2> DEFINE cut == References(gone)
             K == {r \in DOMAIN map : map[r] \intersect cut = {} \/ map[r] \ cut # {}}
  <2>1. f = [k \in K |-> map[k] \ cut]
    BY <1>6 DEF CleanedMap
  <2>2. K \subseteq DOMAIN map /\ \A k \in K : f[k] \subseteq map[k]
    BY <2>1
  <2> HIDE DEF f, K, cut
  <2>3. f = [k \in K |-> f[k]]
    BY <2>1
  <2> QED  BY <1>3, <2>2, <2>3 DEF f
<1> QED  BY <1>4, <1>5, <1>6 DEF MapSection

\* What is left of a document is a smaller document.
LEMMA CleanedShrinks ==
  ASSUME NEW doc, IsDocument(doc), NEW gone
  PROVE  Shrinks(doc, Cleaned(doc, gone))
<1> DEFINE clean == Cleaned(doc, gone)
<1>1. /\ clean = [s \in DOMAIN clean |-> clean[s]] /\ DOMAIN clean = DOMAIN doc /\ DOMAIN doc \subseteq Section
      /\ \A s \in DOMAIN doc : clean[s] = IF s \in ListSection THEN CleanedList(s, doc[s], gone)
                                                              ELSE CleanedMap(s, doc[s], gone)
  BY DEF Cleaned, IsDocument
<1> HIDE DEF clean
<1>2. ASSUME NEW s \in DOMAIN doc
      PROVE  IsContent(s, clean[s]) /\ (s \in MapSection => DOMAIN clean[s] \subseteq DOMAIN doc[s])
  <2>1. IsContent(s, doc[s]) /\ s \in Section
    BY DEF IsDocument
  <2>2. CASE s \in ListSection
    <3>1. doc[s] \in Seq(Entry) /\ clean[s] = CleanedList(s, doc[s], gone)
      BY <1>1, <2>1, <2>2 DEF IsContent
    <3>2. clean[s] \in Seq(Entry)
      BY <3>1, CleanedListIs DEF CleanedFrom
    <3> QED  BY <2>1, <2>2, <3>2, Sections DEF IsContent
  <2>3. CASE s \notin ListSection
    <3>1. s \in MapSection /\ IsMap(s, doc[s]) /\ clean[s] = CleanedMap(s, doc[s], gone)
      BY <1>1, <2>1, <2>3, Sections DEF IsContent
    <3>2. IsMap(s, clean[s]) /\ DOMAIN clean[s] \subseteq DOMAIN doc[s]
      BY <3>1, CleanedMapIs
    <3> QED  BY <2>3, <3>2 DEF IsContent
  <2> QED  BY <2>2, <2>3
<1>3. IsDocument(clean)
  BY <1>1, <1>2 DEF IsDocument
<1> QED  BY <1>1, <1>2, <1>3 DEF Shrinks, clean

\* Deleting a group or a tag: the operations fit what is shown, and leave what the
\* deletion leaves, but for the order of entries.
LEMMA DeletionTreats ==
  ASSUME NEW shown, IsDocument(shown), NEW name
  PROVE  Treats(CascadeDeletion(shown, name), Section, shown, Cleaned(shown, Goes(shown, name)))
BY CleanedShrinks, CascadeOpsMake DEF CascadeDeletion

\* One operation is made in one step.
LEMMA OneOperation ==
  ASSUME NEW doc, NEW o
  PROVE  /\ Projected(doc, <<o>>) = Displayed(doc, o)
         /\ Fits(doc, o) => FitInTurn(doc, <<o>>)
<1>1. PICK f : Makes("page", f, doc, <<o>>, 1)
  BY MakesExists
<1>2. Len(<<o>>) = 1 /\ 1 \in Nat /\ 0..1 = {0, 1} /\ 1..1 = {1} /\ <<o>>[1] = o /\ 1 - 1 = 0
  OBVIOUS
<1>3. ASSUME NEW g, Makes("page", g, doc, <<o>>, 1)  PROVE g[0] = doc /\ g[1] = Displayed(doc, o)
  <2>1. \A n \in 0..1 : g[n] = IF n = 0 THEN doc ELSE Step("page", g[n - 1], <<o>>[n])
    BY <1>3 DEF Makes
  <2>2. g[0] = doc
    BY <1>2, <2>1
  <2>3. g[1] = Step("page", g[0], o)
    BY <1>2, <2>1
  <2> QED  BY <2>2, <2>3 DEF Step
<1>4. Result("page", doc, <<o>>) = f[1]
  BY <1>1, <1>2, ResultIsMade
<1>5. Projected(doc, <<o>>) = Displayed(doc, o)
  BY <1>1, <1>3, <1>4 DEF Result
<1>6. ASSUME Fits(doc, o)  PROVE FitInTurn(doc, <<o>>)
  BY <1>2, <1>3, <1>6 DEF FitInTurn
<1> QED  BY <1>5, <1>6
=============================================================================
