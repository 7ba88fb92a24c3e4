------------------------------ MODULE PolicyDoc ------------------------------
(***************************************************************************)
(* The policy document as the editor sees it: patches as the server applies *)
(* them (internal/acl/patch.go), as the page projects them on what it shows, *)
(* and the patches that delete a group or a tag together with everything   *)
(* that mentions it (ui/src/lib/policyDraft.ts).                            *)
(*                                                                         *)
(* A document maps the sections it has to what they hold: a function from  *)
(* names, or a list of entries.  Names in an entry are a set of words: a    *)
(* name alone or with a port; no property tells the order of the words or   *)
(* one port from another.  The routes of autoApprovers are a section of     *)
(* their own; nodeAttrs, which the page neither shows nor cleans, is none.  *)
(***************************************************************************)
EXTENDS SequencesExt

CONSTANTS
  Group, Tag, Person,   \* what an entry can mention
  Route,                \* what a route approval is for
  Refused,              \* a document that no patch makes
  End                   \* the path of an item to come ("/grants/-")

\* The names of groups and of tags begin differently ("group:", "tag:").
ASSUME NameAssumption == Group \intersect Tag = {}

Name == Group \union Tag \union Person

Ported(name) == <<name, "port">>
Word == Name \union {Ported(name) : name \in Name}

MapSection  == {"groups", "tagOwners", "routes"}
ListSection == {"acls", "grants", "ssh", "tests", "sshTests"}
Section     == MapSection \union ListSection

Key == [groups |-> Group, tagOwners |-> Tag, routes |-> Route]

\* A rule or a grant; of a test src is one name, dst what it accepts.
\* "also" is what a grant goes through, or what a test denies.
Entry == [src : SUBSET Word, dst : SUBSET Word, also : SUBSET Word]

\* Some of the names that can stand there, each with what it is for.
IsMap(s, content) ==
  /\ content = [k \in DOMAIN content |-> content[k]]
  /\ DOMAIN content \subseteq Key[s] /\ IsFiniteSet(DOMAIN content)
  /\ \A k \in DOMAIN content : content[k] \subseteq Name

IsContent(s, content) == IF s \in ListSection THEN content \in Seq(Entry) ELSE IsMap(s, content)

IsDocument(doc) ==
  /\ doc = [s \in DOMAIN doc |-> doc[s]]
  /\ DOMAIN doc \subseteq Section
  /\ \A s \in DOMAIN doc : IsContent(s, doc[s])

\* What a section of any name can hold; a document is a function to that.
Contents == Seq(Entry) \union UNION {[K -> SUBSET Name] : K \in SUBSET (Group \union Tag \union Route)}

ASSUME RefusedAssumption == \A S \in SUBSET Section : Refused \notin [S -> Contents]

With(f, k, v) == [x \in DOMAIN f \union {k} |-> IF x = k THEN v ELSE f[x]]
Without(f, ks) == Restrict(f, DOMAIN f \ ks)

\* What the server decodes for the page: empty sections are left out.
Decoded(doc) == Restrict(doc, {s \in DOMAIN doc : DOMAIN doc[s] # {}})

-----------------------------------------------------------------------------
(* Patches: an operation on a whole section, or at a key or an index of one. *)

Whole(s, content)   == [op |-> "add", section |-> s, whole |-> TRUE, at |-> End, value |-> content]
Add_Unnamed(s, k, v) == [op |-> "add", section |-> s, whole |-> FALSE, at |-> End, value |-> v]

Add(s, k, v)        == [op |-> "add", section |-> s, whole |-> FALSE, at |-> k, value |-> v]
ReplaceOp(s, k, v)  == [op |-> "replace", section |-> s, whole |-> FALSE, at |-> k, value |-> v]
RemoveOp(s, k)      == [op |-> "remove", section |-> s, whole |-> FALSE, at |-> k, value |-> {}]

\* RFC 6902: what an operation goes through must be there.
Applies(doc, o) ==
  \/ o.whole
  \/ /\ o.section \in DOMAIN doc
     /\ o.op = "add" \/ o.at \in DOMAIN doc[o.section]

EditedSection(content, o) ==
  CASE o.op = "add" /\ o.section \in ListSection    -> Append(content, o.value)
    [] o.op = "add" /\ o.section \in MapSection     -> With(content, o.at, o.value)
    [] o.op = "replace"                             -> [content EXCEPT ![o.at] = o.value]
    [] o.op = "remove" /\ o.section \in ListSection -> RemoveAt(content, o.at)
    [] o.op = "remove" /\ o.section \in MapSection  -> Without(content, {o.at})

After(doc, o) ==
  With(doc, o.section, IF o.whole THEN o.value ELSE EditedSection(doc[o.section], o))

\* The server: every operation applies, or none does.
Served(doc, o) == IF doc # Refused /\ Applies(doc, o) THEN After(doc, o) ELSE Refused

Patched(doc, ops) ==
  LET made[n \in 0..Len(ops)] == IF n = 0 THEN doc ELSE Served(made[n - 1], ops[n])
  IN made[Len(ops)]

\* The page: what is missing is made up for an addition, and skipped otherwise.
Displayed(doc, o) ==
  CASE Applies(doc, o)                  -> After(doc, o)
    [] ~Applies(doc, o) /\ o.op = "add" -> After(With(doc, o.section, <<>>), o)
    [] ~Applies(doc, o) /\ o.op # "add" -> doc

Projected(doc, ops) ==
  LET made[n \in 0..Len(ops)] == IF n = 0 THEN doc ELSE Displayed(made[n - 1], ops[n])
  IN made[Len(ops)]

\* The first entry of a section comes with the section.
EntryOp_Bare(shown, s, k, v) == Add(s, k, v)

EntryOp(shown, s, k, v) ==
  IF s \in DOMAIN shown THEN Add(s, k, v) ELSE Whole(s, [x \in {k} |-> v])

-----------------------------------------------------------------------------
(* Deleting a group or a tag. *)

\* With a group go the tags that nobody else owns.
Goes(doc, name) ==
  {name} \union IF name \in Group /\ "tagOwners" \in DOMAIN doc
                THEN {t \in DOMAIN doc.tagOwners : doc.tagOwners[t] = {name}} ELSE {}

References_Bare(gone) == gone

\* The words that are taken for a name that goes: a tag with a port, too, a
\* group only as it is.
References(gone) == gone \union {Ported(tag) : tag \in gone \intersect Tag}

Cut(entry, gone) ==
  LET cut == References(gone) IN
    [src |-> entry.src \ cut, dst |-> entry.dst \ cut, also |-> entry.also \ cut]

Stays_ViaIgnored(s, entry, gone) ==
  LET left == Cut(entry, gone) IN
    CASE s = "tests"    -> left.src = entry.src /\ (left = entry \/ left.dst \union left.also # {})
      [] s = "sshTests" -> left.src = entry.src /\ left.dst # {}
      [] OTHER          -> left = entry \/ (left.src # {} /\ left.dst # {})

\* An entry that would name nobody, or lose what it goes through, goes as a whole.
Stays(s, entry, gone) ==
  LET left == Cut(entry, gone) IN
    CASE s = "tests"    -> left.src = entry.src /\ (left = entry \/ left.dst \union left.also # {})
      [] s = "sshTests" -> left.src = entry.src /\ left.dst # {}
      [] OTHER          -> left = entry \/ (left.also = entry.also /\ left.src # {} /\ left.dst # {})

\* The n-th of some positions.
Nth(at, n) == CHOOSE i \in at : Cardinality({k \in at : k <= i}) = n

CleanedList(s, list, gone) ==
  LET staying == {i \in DOMAIN list : Stays(s, list[i], gone)} IN
    [n \in 1..Cardinality(staying) |-> Cut(list[Nth(staying, n)], gone)]

\* An approval that would approve for nobody goes; owners lose groups only.
CleanedMap(s, map, gone) ==
  LET cut == References(gone) IN
    CASE s = "groups"    -> Without(map, gone)
      [] s = "tagOwners" -> [k \in DOMAIN map \ gone |-> map[k] \ (gone \intersect Group)]
      [] s = "routes"    -> [k \in {r \in DOMAIN map : map[r] \intersect cut = {} \/ map[r] \ cut # {}} |->
                               map[k] \ cut]

Cleaned(doc, gone) ==
  [s \in DOMAIN doc |-> IF s \in ListSection THEN CleanedList(s, doc[s], gone)
                                             ELSE CleanedMap(s, doc[s], gone)]

MapOps(s, before, after) ==
  SetToSeq({RemoveOp(s, k) : k \in DOMAIN before \ DOMAIN after} \union
           {ReplaceOp(s, k, after[k]) : k \in {x \in DOMAIN before \intersect DOMAIN after :
                                                 before[x] # after[x]}})

\* How many entries two lists have in common from i and j on, in one order.
CommonLengths(before, after) ==
  LET m == Len(before)
      n == Len(after)
      lengths[i \in 1..m + 1, j \in 1..n + 1] ==
        IF i > m \/ j > n THEN 0
        ELSE IF before[i] = after[j] THEN lengths[i + 1, j + 1] + 1
        ELSE Max({lengths[i + 1, j], lengths[i, j + 1]})
  IN lengths

Walked(before, after, lengths, at) ==
  IF at.i > Len(before) \/ at.j > Len(after) THEN at
  ELSE IF before[at.i] = after[at.j]
       THEN [i |-> at.i + 1, j |-> at.j + 1, pairs |-> Append(at.pairs, <<at.i, at.j>>)]
  ELSE IF lengths[at.i + 1, at.j] >= lengths[at.i, at.j + 1]
       THEN [i |-> at.i + 1, j |-> at.j, pairs |-> at.pairs]
       ELSE [i |-> at.i, j |-> at.j + 1, pairs |-> at.pairs]

\* Which entries are the same before and after: a longest common subsequence.
UnchangedPairs(before, after) ==
  LET lengths == CommonLengths(before, after)
      walk[k \in 0..Len(before) + Len(after)] ==
        IF k = 0 THEN [i |-> 1, j |-> 1, pairs |-> <<>>]
                 ELSE Walked(before, after, lengths, walk[k - 1])
  IN walk[Len(before) + Len(after)].pairs

\* They, and what is in front of both lists and behind them.
Anchors(before, after) ==
  <<<<0, 0>>>> \o UnchangedPairs(before, after) \o <<<<Len(before) + 1, Len(after) + 1>>>>

\* Between two of them, before (x = 1) and after (x = 2).
Between(pairs, g, x) == pairs[g + 1][x] - pairs[g][x] - 1
Shared(pairs, g) == Min({Between(pairs, g, 1), Between(pairs, g, 2)})

\* Entries that new ones replace, and the rest: to be removed, or added.
Replaced(pairs) ==
  UNION {{<<pairs[g][1] + d, pairs[g][2] + d>> : d \in 1..Shared(pairs, g)} : g \in 1..Len(pairs) - 1}
Rest(pairs, x) ==
  UNION {{pairs[g][x] + d : d \in Shared(pairs, g) + 1..Between(pairs, g, x)} : g \in 1..Len(pairs) - 1}

ListOps(s, before, after) ==
  LET pairs   == Anchors(before, after)
      removed == Rest(pairs, 1)
      added   == Rest(pairs, 2)
  IN SetToSeq({ReplaceOp(s, p[1], after[p[2]]) : p \in Replaced(pairs)})
     \* from the end, so that no removal moves the next one's entry
     \o [n \in 1..Cardinality(removed) |-> RemoveOp(s, Nth(removed, Cardinality(removed) + 1 - n))]
     \o [n \in 1..Cardinality(added) |-> Add(s, End, after[Nth(added, n)])]

SectionOps(s, before, after) ==
  IF s \notin DOMAIN before THEN <<>>
  ELSE IF s \in ListSection THEN ListOps(s, before[s], after[s])
  ELSE MapOps(s, before[s], after[s])

\* The operations that lead from one document to the other.
CascadeOps(before, after) ==
  LET Ops(s) == SectionOps(s, before, after) IN
    Ops("groups") \o Ops("tagOwners") \o Ops("acls") \o Ops("grants") \o Ops("ssh")
      \o Ops("routes") \o Ops("tests") \o Ops("sshTests")

CascadeDeletion(shown, name) == CascadeOps(shown, Cleaned(shown, Goes(shown, name)))
=============================================================================
