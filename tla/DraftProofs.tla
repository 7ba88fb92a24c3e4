----------------------------- MODULE DraftProofs -----------------------------
(***************************************************************************)
(* For any policies, names and order of events: a save that finds the      *)
(* policy that was previewed makes of it the document that was shown; what *)
(* is queued on one document is submitted as it is shown; and a deletion   *)
(* confirmed on what it was asked for leaves no reference to what is gone,  *)
(* and keeps the rest.                                                     *)
(***************************************************************************)
EXTENDS PolicyDraft, DocProofs

\* A preview of operations is dropped by whatever changes what is queued.
PreviewIsOfTheDraft ==
  preview.pc # "none" /\ preview.body.raw = NoDraft =>
    raw = NoDraft /\ preview.body.ops = pending

Shows(p) == p.new = Made(p.old, p.body)

PreviewShows == preview.pc = "shown" => Shows(preview)

\* What a save on its way sends is what was seen, unless the text was taken
\* back or typed between.
SaveIsOfThePreview ==
  save.pc = "sent" =>
    /\ Shows(save.seen)
    /\ save.seen.body.raw = NoDraft /\ save.body.raw = NoDraft => save.seen.body.ops = save.body.ops

Shaped ==
  /\ preview = [pc |-> preview.pc, body |-> preview.body, old |-> preview.old, new |-> preview.new]
  /\ save = [pc |-> save.pc, body |-> save.body, seen |-> save.seen, made |-> save.made]

DraftInv ==
  /\ Shaped
  /\ PreviewIsOfTheDraft
  /\ PreviewShows
  /\ SaveIsOfThePreview

-----------------------------------------------------------------------------
\* A page that has just been opened previews and saves nothing.
LEMMA OpenedPage == ASSUME DraftInit PROVE DraftInv
  BY DEF DraftInit, DraftFrom, DraftInv, Shaped, PreviewIsOfTheDraft, PreviewShows,
         SaveIsOfThePreview, NoPreview, NoSave, NoBody

\* Queued, EditRaw and Discard: the preview is gone, the save is not touched.
LEMMA NothingShown ==
  ASSUME DraftInv, preview' = NoPreview, save' = save
  PROVE  DraftInv'
  <1>1. Shaped' /\ PreviewIsOfTheDraft' /\ PreviewShows'
    BY DEF DraftInv, Shaped, PreviewIsOfTheDraft, PreviewShows, NoPreview
  <1>2. SaveIsOfThePreview'
    BY DEF DraftInv, SaveIsOfThePreview, Shows, Made
  <1>3. QED
    BY <1>1, <1>2 DEF DraftInv

\* Refetch, SomebodySaves, RevertRaw and a deletion not confirmed: a preview of operations is still one.
LEMMA SameDraft ==
  ASSUME DraftInv, preview' = preview, save' = save, pending' = pending,
         raw' \in {raw, NoDraft}
  PROVE  DraftInv'
  <1>1. Shaped' /\ PreviewShows' /\ SaveIsOfThePreview'
    BY DEF DraftInv, Shaped, PreviewShows, SaveIsOfThePreview, Shows, Made
  <1>2. PreviewIsOfTheDraft'
    BY DEF DraftInv, PreviewIsOfTheDraft
  <1>3. QED
    BY <1>1, <1>2 DEF DraftInv

\* The save ends, and the draft stays as it was.
LEMMA SaveEnds ==
  ASSUME DraftInv, UNCHANGED <<pending, raw, preview>>,
         save' = NoSave \/ (\E made : save' = [save EXCEPT !.pc = "saved", !.made = made])
  PROVE  DraftInv'
  <1>1. Shaped' /\ save'.pc # "sent"
    <2>1. CASE save' = NoSave
      BY <2>1 DEF DraftInv, Shaped, NoSave
    <2>2. CASE \E made : save' = [save EXCEPT !.pc = "saved", !.made = made]
      <3>1. PICK made : save' = [save EXCEPT !.pc = "saved", !.made = made]
        BY <2>2
      <3>2. save' = [pc |-> "saved", body |-> save.body, seen |-> save.seen, made |-> made]
        BY <3>1 DEF DraftInv, Shaped
      <3>3. QED
        BY <3>2 DEF DraftInv, Shaped
    <2>3. QED
      BY <2>1, <2>2
  <1>2. PreviewIsOfTheDraft' /\ PreviewShows'
    BY DEF DraftInv, PreviewIsOfTheDraft, PreviewShows, Shows, Made
  <1>3. QED
    BY <1>1, <1>2 DEF DraftInv, SaveIsOfThePreview

\* Each request and answer of the preview and of the save.
LEMMA TrafficKeepsInv ==
  ASSUME DraftInv, SaveTraffic \/ ServeUnanswered
  PROVE  DraftInv'
  <1>1. CASE AskPreview
    <2>1. preview' = [pc |-> "asked", body |-> Body, old |-> Refused, new |-> Refused]
      BY <1>1 DEF AskPreview, NoPreview
    <2>2. Shaped' /\ PreviewShows' /\ preview'.body = Body
      BY <1>1, <2>1 DEF AskPreview, DraftInv, Shaped, PreviewShows
    <2>3. PreviewIsOfTheDraft'
      <3>1. Body.raw = raw /\ (raw = NoDraft => Body.ops = pending)
        BY DEF Body
      <3>2. QED
        BY <1>1, <2>2, <3>1 DEF AskPreview, PreviewIsOfTheDraft
    <2>4. SaveIsOfThePreview'
      BY <1>1 DEF AskPreview, DraftInv, SaveIsOfThePreview, Shows, Made
    <2>5. QED
      BY <2>2, <2>3, <2>4 DEF DraftInv
  <1>2. CASE PreviewAnswered
    <2>1. preview' = [pc |-> "shown", body |-> preview.body, old |-> stored,
                      new |-> Outcome(stored, preview.body)]
      BY <1>2 DEF PreviewAnswered, DraftInv, Shaped
    <2>2. PreviewShows'
      BY <1>2, <2>1 DEF PreviewAnswered, Alters, Outcome, PreviewShows, Shows, Made
    <2>3. Shaped' /\ PreviewIsOfTheDraft'
      BY <1>2, <2>1 DEF PreviewAnswered, DraftInv, Shaped, PreviewIsOfTheDraft
    <2>4. SaveIsOfThePreview'
      BY <1>2 DEF PreviewAnswered, DraftInv, SaveIsOfThePreview, Shows, Made
    <2>5. QED
      BY <2>2, <2>3, <2>4 DEF DraftInv
  <1>3. CASE PreviewFails
    BY <1>3, NothingShown DEF PreviewFails
  <1>4. CASE Save
    <2>1. save' = [pc |-> "sent", body |-> Body, seen |-> preview, made |-> Refused]
      BY <1>4 DEF Save, NoSave
    <2>2. Shaped' /\ PreviewIsOfTheDraft' /\ PreviewShows'
      BY <1>4, <2>1 DEF Save, DraftInv, Shaped, PreviewIsOfTheDraft, PreviewShows, Shows, Made
    <2>3. Shows(preview)'
      BY <1>4 DEF Save, DraftInv, PreviewShows, Shows, Made
    <2>4. preview.body.raw = NoDraft => preview.body.ops = Body.ops
      BY <1>4 DEF Save, DraftInv, PreviewIsOfTheDraft, Body
    <2>5. SaveIsOfThePreview'
      BY <1>4, <2>1, <2>3, <2>4 DEF Save, SaveIsOfThePreview, Shows, Made
    <2>6. QED
      BY <2>2, <2>5 DEF DraftInv
  <1>5. CASE Serve
    BY <1>5, SaveEnds DEF Serve
  <1>6. CASE ServeRefuses \/ ServeUnanswered
    BY <1>6, SaveEnds DEF ServeRefuses, ServeUnanswered
  <1>7. CASE SaveAnswered
    <2>1. preview' = NoPreview /\ save' = NoSave
      BY <1>7 DEF SaveAnswered
    <2>2. QED
      BY <2>1 DEF DraftInv, Shaped, PreviewIsOfTheDraft, PreviewShows, SaveIsOfThePreview,
                  NoPreview, NoSave
  <1>8. QED
    BY <1>1, <1>2, <1>3, <1>4, <1>5, <1>6, <1>7 DEF SaveTraffic

\* Every form queues operations and drops the preview.
LEMMA FormsQueue ==
  ASSUME FormStep
  PROVE  \E ops : Queue(ops)
  BY DEF FormStep, AddEntry, StageEntry, RemoveRoute, AddGrant, AddSshRule, AddTest,
         StageItem, RemoveListItem

\* Every step keeps the invariant.
LEMMA StepKeepsInv ==
  ASSUME DraftInv, [DraftNext]_draftVars
  PROVE  DraftInv'
  <1>1. CASE FormStep
    BY <1>1, FormsQueue, NothingShown DEF Queue, Queued
  <1>2. CASE \E doc \in Stored : EditRaw(doc)
    BY <1>2, NothingShown DEF EditRaw
  <1>3. CASE Discard
    BY <1>3, NothingShown DEF Discard
  <1>4. CASE RevertRaw
    BY <1>4, SameDraft DEF RevertRaw
  <1>5. CASE Refetch
    BY <1>5, SameDraft DEF Refetch
  <1>6. CASE \E doc \in Stored : SomebodySaves(doc)
    BY <1>6, SameDraft DEF SomebodySaves, page
  <1>7. CASE SaveTraffic \/ ServeUnanswered
    BY <1>7, TrafficKeepsInv
  <1>8. CASE UNCHANGED draftVars
    BY <1>8, SameDraft DEF draftVars, page
  <1>9. CASE (\E s \in {"groups", "tagOwners"} : \E k \in Under(s) : AskDelete(s, k)) \/ CancelDelete
    BY <1>9, SameDraft DEF AskDelete, CancelDelete
  <1>10. CASE ConfirmDelete
    BY <1>10, NothingShown DEF ConfirmDelete, Queued
  <1>11. QED
    BY <1>1, <1>2, <1>3, <1>4, <1>5, <1>6, <1>7, <1>8, <1>9, <1>10 DEF DraftNext, TextStep, DeleteStep

-----------------------------------------------------------------------------
\* The server saves only what a page has sent with the hash of its policy.
LEMMA SavesAreServed ==
  ASSUME [DraftNext]_draftVars, Saves
  PROVE  stored' = Made(stored, save.body)
  <1>1. CASE Serve \/ ServeUnanswered
    BY <1>1 DEF Serve, ServeUnanswered, Alters, Outcome
  <1>2. CASE FormStep
    BY <1>2, FormsQueue DEF Queue, Queued, Saves
  <1>3. CASE ~(Serve \/ ServeUnanswered \/ FormStep)
    BY <1>3 DEF DraftNext, DeleteStep, AskDelete, CancelDelete, ConfirmDelete, Queued, TextStep, SaveTraffic, EditRaw, RevertRaw, Discard, AskPreview,
                PreviewAnswered, PreviewFails, Save, ServeRefuses, SaveAnswered, Refetch,
                SomebodySaves, Saves, draftVars, page
  <1>4. QED
    BY <1>1, <1>2, <1>3

\* SavedAsPreviewed for any policies and any operations: what savePolicy
\* stores is what previewPolicy showed, if the policy and the text are the
\* ones that were previewed.
THEOREM SavesPreviewed == DraftSpec => SavedAsPreviewed
  <1>1. DraftInit => DraftInv
    BY OpenedPage
  <1>2. DraftInv /\ [DraftNext]_draftVars => DraftInv'
    BY StepKeepsInv
  <1>3. ASSUME DraftInv, [DraftNext]_draftVars, Saves, save.seen.old = stored,
               save.seen.body.raw = save.body.raw
        PROVE  stored' = save.seen.new
    <2>1. stored' = Made(stored, save.body)
      BY <1>3, SavesAreServed
    <2>2. save.pc = "sent"
      BY <1>3 DEF Saves
    <2>3. save.seen.new = Made(stored, save.seen.body)
      BY <1>3, <2>2 DEF DraftInv, SaveIsOfThePreview, Shows
    <2>4. Made(stored, save.seen.body) = Made(stored, save.body)
      BY <1>3, <2>2 DEF DraftInv, SaveIsOfThePreview, Made
    <2>5. QED
      BY <2>1, <2>3, <2>4
  <1>4. DraftInv /\ [DraftNext]_draftVars
        => (Saves /\ save.seen.old = stored /\ save.seen.body.raw = save.body.raw =>
              stored' = save.seen.new)
    BY <1>3
  <1>5. QED
    BY <1>1, <1>2, <1>4, PTL DEF DraftSpec, SavedAsPreviewed

-----------------------------------------------------------------------------
(* The documents, and what is queued on them. *)

BodyTyped(body) == body.ops \in Seq(Operation) /\ (body.raw # NoDraft => IsDocument(body.raw))

\* What a dialog is about to queue is the deletion of a name of what it was asked for on.
DialogTyped ==
  Free \/ /\ IsDocument(dialog.shown)
          /\ \E k \in Defined(dialog.shown) : dialog.ops = CascadeDeletion(dialog.shown, k)

\* The documents are documents, and what is queued or sent are operations.
DraftTyped ==
  /\ IsDocument(stored) /\ IsDocument(policy)
  /\ pending \in Seq(Operation)
  /\ raw # NoDraft => IsDocument(raw)
  /\ preview.pc \in {"none", "asked", "shown"} /\ BodyTyped(preview.body)
  /\ preview.pc = "shown" => IsDocument(preview.new) /\ IsDocument(preview.old)
  /\ save.pc \in {"idle", "sent", "saved"} /\ BodyTyped(save.body)
  /\ save.pc = "saved" => IsDocument(save.made)

\* What was queued on one document fits that document as the page shows it.
QueueFits ==
  /\ basis = {} => pending = <<>>
  /\ \A doc : IsDocument(doc) /\ basis = {doc} => FitInTurn(Decoded(doc), pending)

QueueInv == Shaped /\ DraftTyped /\ DialogTyped /\ QueueFits

\* What the server makes of a request that alters its policy is a document.
LEMMA MadeDocument ==
  ASSUME NEW doc, IsDocument(doc), NEW body, BodyTyped(body), Alters(doc, body)
  PROVE  IsDocument(Outcome(doc, body))
<1>1. Outcome(doc, body) = Made(doc, body) /\ Made(doc, body) # Refused
  BY DEF Alters, Outcome
<1>2. IsDocument(Made(doc, body))
  BY <1>1, PatchedDocument DEF Made, BodyTyped
<1> QED  BY <1>1, <1>2

\* The page shows a document.
LEMMA ShownDocument ==
  ASSUME DraftTyped
  PROVE  IsDocument(Shown)
BY DecodedDocument, ProjectedDocument DEF Shown, DraftTyped

\* A page that has just been opened has nothing queued.
LEMMA OpenedQueue ==
  ASSUME DraftInit
  PROVE  QueueInv
<1>1. IsDocument(stored) /\ IsDocument(policy)
  BY StoredAssumption DEF DraftInit, DraftFrom
<1>2. <<>> \in Seq(Operation)
  OBVIOUS
<1>3. DraftTyped /\ Shaped
  BY <1>1, <1>2 DEF DraftInit, DraftFrom, DraftTyped, Shaped, BodyTyped, NoPreview, NoSave, NoBody
<1>4. QueueFits /\ DialogTyped
  BY DEF DraftInit, DraftFrom, QueueFits, DialogTyped, Free
<1> QED  BY <1>3, <1>4 DEF QueueInv

\* No name goes with an operation that removes none and brings no section that is there.
KeepsNames(doc, o) ==
  o.section \in {"groups", "tagOwners"} => o.op # "remove" /\ (o.whole => o.section \notin DOMAIN doc)

\* One operation of a form.
FormOperation(o) == o \in Operation /\ Fits(Shown, o) /\ KeepsNames(Shown, o)

\* A form queues one operation that fits what is shown.
LEMMA FormsFit ==
  ASSUME DraftTyped, FormStep
  PROVE  \E o : FormOperation(o) /\ Queue(<<o>>)
<1>0. IsDocument(Shown)
  BY ShownDocument
<1>1. \A s \in ListSection : \A i : i \in Under(s) => s \in DOMAIN Shown /\ i \in DOMAIN Shown[s] /\ i \in Nat
  BY <1>0 DEF Under, IsDocument, IsContent
<1>2. \A s \in MapSection : \A k : k \in Under(s) => s \in DOMAIN Shown /\ k \in DOMAIN Shown[s] /\ k \in Key[s]
  BY <1>0, Sections DEF Under, IsDocument, IsContent, IsMap
<1>3. Blank \in Entry
  BY DEF Blank, Entry
<1>4. CASE \E s \in MapSection : \E k \in Key[s] : AddEntry(s, k)
  <2>1. PICK s \in MapSection : \E k \in Key[s] : AddEntry(s, k)
    BY <1>4
  <2>2. PICK k \in Key[s] : AddEntry(s, k)
    BY <2>1
  <2> DEFINE o == EntryOp(Shown, s, k, {})
  <2>3. CASE s \in DOMAIN Shown
    <3>1. o = Add(s, k, {})
      BY <2>3 DEF EntryOp
    <3>2. Add(s, k, {}) \in Operation
      BY MapOperation
    <3>3. FormOperation(Add(s, k, {}))
      BY <2>3, <3>2 DEF FormOperation, Fits, Applies, KeepsNames, Add
    <3> QED  BY <2>2, <3>1, <3>3 DEF AddEntry
  <2>4. CASE s \notin DOMAIN Shown
    <3> DEFINE c == [x \in {k} |-> {}]
    <3>1. o = Whole(s, c)
      BY <2>4 DEF EntryOp
    <3>2. IsContent(s, c)
      <4>1. IsFiniteSet({k})
        BY FS_Singleton
      <4>2. IsMap(s, c)
        BY <4>1 DEF IsMap
      <4> QED  BY <4>2, Sections DEF IsContent, MapSection, ListSection
    <3> HIDE DEF c
    <3>3. Whole(s, c) \in Operation
      BY <3>2, Sections, WholeOperation
    <3>4. FormOperation(Whole(s, c))
      BY <2>4, <3>3 DEF FormOperation, Fits, Applies, KeepsNames, Whole
    <3> QED  BY <2>2, <3>1, <3>4 DEF AddEntry
  <2> QED  BY <2>3, <2>4
<1>5. CASE \E s \in MapSection : \E k \in Key[s] : \E v \in Listed[s] : StageEntry(s, k, v)
  <2>1. PICK s \in MapSection : \E k \in Key[s] : \E v \in Listed[s] : StageEntry(s, k, v)
    BY <1>5
  <2>2. PICK k \in Key[s] : \E v \in Listed[s] : StageEntry(s, k, v)
    BY <2>1
  <2>3. PICK v \in Listed[s] : StageEntry(s, k, v)
    BY <2>2
  <2>4. v \in SUBSET Name
    BY OfferedAssumption
  <2>5. k \in Under(s) /\ Queue(<<ReplaceOp(s, k, v)>>)
    BY <2>3 DEF StageEntry
  <2>6. ReplaceOp(s, k, v) \in Operation
    BY <2>4, MapOperation
  <2>7. FormOperation(ReplaceOp(s, k, v))
    BY <1>2, <2>5, <2>6 DEF FormOperation, Fits, Applies, KeepsNames, ReplaceOp
  <2> QED  BY <2>5, <2>7
<1>6. CASE \E k \in Route : RemoveRoute(k)
  <2>1. PICK k \in Route : RemoveRoute(k)
    BY <1>6
  <2>2. k \in Under("routes") /\ Queue(<<RemoveOp("routes", k)>>)
    BY <2>1 DEF RemoveRoute
  <2>3. RemoveOp("routes", k) \in Operation
    BY RemoveOperation DEF Section, MapSection, Place
  <2>4. FormOperation(RemoveOp("routes", k))
    BY <1>2, <2>2, <2>3 DEF FormOperation, Fits, Applies, KeepsNames, RemoveOp, MapSection
  <2> QED  BY <2>2, <2>4
<1>8. CASE AddGrant
  <2>1. "grants" \in ListSection /\ "grants" \in Section /\ "grants" \notin {"groups", "tagOwners"}
    BY DEF ListSection, Section
  <2>2. CASE "grants" \in DOMAIN Shown
    <3>1. Add("grants", End, Blank) \in Operation
      BY <1>3, <2>1, ListOperation
    <3>2. FormOperation(Add("grants", End, Blank))
      BY <2>1, <2>2, <3>1 DEF FormOperation, Fits, Applies, KeepsNames, Add
    <3> QED  BY <1>8, <2>2, <3>2 DEF AddGrant
  <2>3. CASE "grants" \notin DOMAIN Shown
    <3>1. IsContent("grants", <<Blank>>)
      BY <1>3, <2>1 DEF IsContent
    <3>2. Whole("grants", <<Blank>>) \in Operation
      BY <2>1, <3>1, WholeOperation
    <3>3. FormOperation(Whole("grants", <<Blank>>))
      BY <2>1, <3>2 DEF FormOperation, Fits, Applies, KeepsNames, Whole
    <3> QED  BY <1>8, <2>3, <3>3 DEF AddGrant
  <2> QED  BY <2>2, <2>3
<1>9. ASSUME NEW s \in {"ssh", "tests"}, NEW e \in Entry  PROVE FormOperation(Add(s, End, e))
  <2>1. s \in ListSection /\ s \notin {"groups", "tagOwners"}
    BY DEF ListSection
  <2>2. Add(s, End, e) \in Operation
    BY <2>1, ListOperation
  <2> QED  BY <2>1, <2>2 DEF FormOperation, Fits, KeepsNames, Add
<1>10. CASE AddSshRule
  BY <1>3, <1>9, <1>10 DEF AddSshRule
<1>11. CASE \E e \in Offered : AddTest(e)
  BY <1>9, <1>11, OfferedAssumption DEF AddTest
<1>12. CASE \E e \in Offered : \E s \in {"grants", "ssh"} : \E i \in Under(s) : StageItem(s, i, e)
  <2>1. PICK e \in Offered : \E s \in {"grants", "ssh"} : \E i \in Under(s) : StageItem(s, i, e)
    BY <1>12
  <2>2. PICK s \in {"grants", "ssh"} : \E i \in Under(s) : StageItem(s, i, e)
    BY <2>1
  <2>3. PICK i \in Under(s) : StageItem(s, i, e)
    BY <2>2
  <2>4. s \in ListSection /\ s \notin {"groups", "tagOwners"} /\ e \in Entry
    BY OfferedAssumption DEF ListSection
  <2>5. s \in DOMAIN Shown /\ i \in DOMAIN Shown[s] /\ i \in Nat
    BY <1>1, <2>4
  <2>6. ReplaceOp(s, i, e) \in Operation
    BY <2>4, <2>5, ListOperation
  <2>7. FormOperation(ReplaceOp(s, i, e))
    BY <2>4, <2>5, <2>6 DEF FormOperation, Fits, Applies, KeepsNames, ReplaceOp
  <2> QED  BY <2>3, <2>7 DEF StageItem
<1>13. CASE \E s \in {"grants", "ssh", "tests"} : \E i \in Under(s) : RemoveListItem(s, i)
  <2>1. PICK s \in {"grants", "ssh", "tests"} : \E i \in Under(s) : RemoveListItem(s, i)
    BY <1>13
  <2>2. PICK i \in Under(s) : RemoveListItem(s, i)
    BY <2>1
  <2>3. s \in ListSection /\ s \in Section /\ s \notin {"groups", "tagOwners"}
    BY DEF ListSection, Section
  <2>4. s \in DOMAIN Shown /\ i \in DOMAIN Shown[s] /\ i \in Nat
    BY <1>1, <2>3
  <2>5. RemoveOp(s, i) \in Operation
    BY <2>3, <2>4, RemoveOperation DEF Place
  <2>6. FormOperation(RemoveOp(s, i))
    BY <2>3, <2>4, <2>5 DEF FormOperation, Fits, Applies, KeepsNames, RemoveOp
  <2> QED  BY <2>2, <2>6 DEF RemoveListItem
<1> QED
  BY <1>4, <1>5, <1>6, <1>8, <1>10, <1>11, <1>12, <1>13 DEF FormStep

\* What a form queues are operations that fit what is shown.
LEMMA FormsQueueFitting ==
  ASSUME DraftTyped, FormStep
  PROVE  \E ops \in Seq(Operation) : Queue(ops) /\ FitInTurn(Shown, ops)
<1>1. ASSUME NEW o, FormOperation(o), Queue(<<o>>)
      PROVE  <<o>> \in Seq(Operation) /\ FitInTurn(Shown, <<o>>)
  BY <1>1, OneOperation DEF FormOperation
<1> QED  BY <1>1, FormsFit

\* So are those of a deletion that is confirmed on what it was asked for.
LEMMA DeletionFits ==
  ASSUME QueueInv, ~Free
  PROVE  /\ dialog.ops \in Seq(Operation)
         /\ Timely => FitInTurn(Shown, dialog.ops)
<1>1. PICK k : IsDocument(dialog.shown) /\ dialog.ops = CascadeDeletion(dialog.shown, k)
  BY DEF QueueInv, DialogTyped
<1>2. Treats(dialog.ops, Section, dialog.shown, Cleaned(dialog.shown, Goes(dialog.shown, k)))
  BY <1>1, DeletionTreats
<1> QED  BY <1>2 DEF Treats, Timely

\* What is queued on what is shown fits what was queued before; what is queued on
\* something else is not said to fit.
LEMMA QueueKeeps ==
  ASSUME QueueInv, NEW ops \in Seq(Operation), NEW on, Queued(ops, on),
         (on = policy /\ FitInTurn(Shown, ops)) \/ on = Refused, dialog' \in {dialog, NoDialog}
  PROVE  QueueInv'
<1>1. pending \in Seq(Operation) /\ pending' = pending \o ops /\ basis' = basis \union {on}
  BY DEF QueueInv, DraftTyped, Queued
<1>2. DraftTyped' /\ Shaped' /\ DialogTyped'
  <2>1. pending' \in Seq(Operation)
    BY <1>1
  <2>2. BodyTyped(NoBody)
    BY DEF BodyTyped, NoBody
  <2>3. DialogTyped'
    BY DEF QueueInv, DialogTyped, Free
  <2> QED
    BY <2>1, <2>2, <2>3 DEF QueueInv, DraftTyped, Shaped, Queued, NoPreview, BodyTyped
<1>3. ASSUME NEW doc, IsDocument(doc), basis' = {doc}  PROVE FitInTurn(Decoded(doc), pending')
  <2>1. policy = doc /\ basis \subseteq {doc} /\ FitInTurn(Shown, ops)
    BY <1>1, <1>3, DocumentIsNotRefused
  <2>2. Shown = Projected(Decoded(doc), pending)
    BY <2>1 DEF Shown
  <2>3. FitInTurn(Decoded(doc), pending)
    <3>1. CASE basis = {}
      BY <3>1 DEF QueueInv, QueueFits, FitInTurn
    <3>2. CASE basis = {doc}
      BY <1>3, <3>2 DEF QueueInv, QueueFits
    <3> QED  BY <2>1, <3>1, <3>2
  <2> QED  BY <1>1, <2>1, <2>2, <2>3, FitBoth
<1>4. basis' # {}
  BY <1>1
<1> QED  BY <1>2, <1>3, <1>4 DEF QueueInv, QueueFits

\* Whatever drops the queue drops what it was queued on.
LEMMA EmptyQueue ==
  ASSUME pending' = <<>>, basis' = {}
  PROVE  QueueFits' /\ pending' \in Seq(Operation)
BY DEF QueueFits

\* Steps of one page and of others that queue nothing.
LEMMA RestKeepsQueue ==
  ASSUME QueueInv, [DraftNext]_draftVars, ~FormStep, ~DeleteStep
  PROVE  QueueInv'
<1>0. /\ BodyTyped(NoBody) /\ BodyTyped(Body)
      /\ IsDocument(stored) /\ IsDocument(policy)
  <2>1. <<>> \in Seq(Operation)
    OBVIOUS
  <2> QED  BY <2>1 DEF QueueInv, DraftTyped, BodyTyped, NoBody, Body
<1>1. ASSUME UNCHANGED <<pending, basis>>  PROVE QueueFits' /\ pending' \in Seq(Operation)
  BY <1>1 DEF QueueInv, DraftTyped, QueueFits
<1> SUFFICES Shaped' /\ DraftTyped' /\ QueueFits'
  <2>1. dialog' = dialog
    BY DEF DraftNext, TextStep, SaveTraffic, EditRaw, RevertRaw, Discard, AskPreview, PreviewAnswered,
           PreviewFails, Save, Serve, ServeUnanswered, ServeRefuses, SaveAnswered, Refetch,
           SomebodySaves, draftVars, page
  <2>2. DialogTyped'
    BY <2>1 DEF QueueInv, DialogTyped, Free
  <2> QED  BY <2>2 DEF QueueInv
<1>2. CASE \E doc \in Stored : EditRaw(doc)
  BY <1>0, <1>2, EmptyQueue, StoredAssumption
     DEF EditRaw, QueueInv, DraftTyped, Shaped, NoPreview, BodyTyped
<1>3. CASE RevertRaw
  BY <1>1, <1>3 DEF RevertRaw, QueueInv, DraftTyped, Shaped, BodyTyped
<1>4. CASE Discard
  BY <1>0, <1>4, EmptyQueue DEF Discard, QueueInv, DraftTyped, Shaped, NoPreview, BodyTyped
<1>5. CASE AskPreview
  <2>1. preview' = [pc |-> "asked", body |-> Body, old |-> Refused, new |-> Refused]
    BY <1>5 DEF AskPreview, NoPreview
  <2> QED
    BY <1>0, <1>1, <1>5, <2>1 DEF AskPreview, QueueInv, DraftTyped, Shaped, BodyTyped
<1>6. CASE PreviewAnswered
  <2>1. preview' = [pc |-> "shown", body |-> preview.body, old |-> stored,
                    new |-> Outcome(stored, preview.body)]
    BY <1>6 DEF PreviewAnswered, QueueInv, Shaped
  <2>2. IsDocument(Outcome(stored, preview.body))
    BY <1>0, <1>6, MadeDocument DEF PreviewAnswered, QueueInv, DraftTyped
  <2> QED
    BY <1>0, <1>1, <1>6, <2>1, <2>2 DEF PreviewAnswered, QueueInv, DraftTyped, Shaped, BodyTyped
<1>7. CASE PreviewFails
  BY <1>0, <1>1, <1>7 DEF PreviewFails, QueueInv, DraftTyped, Shaped, NoPreview, BodyTyped
<1>8. CASE Save
  <2>1. save' = [pc |-> "sent", body |-> Body, seen |-> preview, made |-> Refused]
    BY <1>8 DEF Save, NoSave
  <2> QED
    BY <1>0, <1>1, <1>8, <2>1 DEF Save, QueueInv, DraftTyped, Shaped, BodyTyped
<1>9. CASE Serve \/ ServeUnanswered
  <2>1. IsDocument(stored')
    BY <1>0, <1>9, MadeDocument DEF Serve, ServeUnanswered, QueueInv, DraftTyped
  <2>2. CASE Serve
    <3>1. save' = [pc |-> "saved", body |-> save.body, seen |-> save.seen, made |-> stored']
      BY <2>2 DEF Serve, QueueInv, Shaped
    <3> QED
      BY <1>0, <1>1, <2>1, <2>2, <3>1 DEF Serve, QueueInv, DraftTyped, Shaped, BodyTyped
  <2>3. CASE ServeUnanswered
    BY <1>0, <1>1, <2>1, <2>3 DEF ServeUnanswered, QueueInv, DraftTyped, Shaped, NoSave, BodyTyped
  <2> QED  BY <1>9, <2>2, <2>3
<1>10. CASE ServeRefuses
  BY <1>0, <1>1, <1>10 DEF ServeRefuses, QueueInv, DraftTyped, Shaped, NoSave, BodyTyped
<1>11. CASE SaveAnswered
  BY <1>0, <1>11, EmptyQueue
     DEF SaveAnswered, QueueInv, DraftTyped, Shaped, NoPreview, NoSave, BodyTyped
<1>12. CASE Refetch
  BY <1>1, <1>12 DEF Refetch, QueueInv, DraftTyped, Shaped, BodyTyped
<1>13. CASE \E doc \in Stored : SomebodySaves(doc)
  BY <1>1, <1>13, StoredAssumption DEF SomebodySaves, page, QueueInv, DraftTyped, Shaped, BodyTyped
<1>14. CASE UNCHANGED draftVars
  BY <1>1, <1>14 DEF draftVars, page, QueueInv, DraftTyped, Shaped, BodyTyped
<1> QED
  BY <1>2, <1>3, <1>4, <1>5, <1>6, <1>7, <1>8, <1>9, <1>10, <1>11, <1>12, <1>13, <1>14
     DEF DraftNext, TextStep, SaveTraffic

\* Every step keeps the documents, and what is queued fits them.
LEMMA StepKeepsQueue ==
  ASSUME QueueInv, [DraftNext]_draftVars
  PROVE  QueueInv'
<1>1. CASE FormStep
  <2>1. PICK ops \in Seq(Operation) : Queue(ops) /\ FitInTurn(Shown, ops)
    BY <1>1, FormsQueueFitting DEF QueueInv
  <2> QED  BY <2>1, QueueKeeps DEF Queue
<1>2. CASE \E s \in {"groups", "tagOwners"} : \E k \in Under(s) : AskDelete(s, k)
  <2>1. PICK s \in {"groups", "tagOwners"} : \E k \in Under(s) : AskDelete(s, k)
    BY <1>2
  <2>2. PICK k \in Under(s) : AskDelete(s, k)
    BY <2>1
  <2>3. k \in Defined(Shown) /\ IsDocument(Shown)
    BY ShownDocument DEF QueueInv, Under, Defined
  <2>4. dialog'.shown = Shown /\ dialog'.ops = CascadeDeletion(Shown, k)
    BY <2>2 DEF AskDelete
  <2>5. DialogTyped'
    BY <2>3, <2>4 DEF DialogTyped
  <2> QED  BY <2>2, <2>5 DEF AskDelete, QueueInv, DraftTyped, Shaped, QueueFits, BodyTyped
<1>3. CASE CancelDelete
  <2>1. DialogTyped'
    BY <1>3 DEF CancelDelete, DialogTyped, Free
  <2> QED  BY <1>3, <2>1 DEF CancelDelete, QueueInv, DraftTyped, Shaped, QueueFits, BodyTyped
<1>4. CASE ConfirmDelete
  <2>1. /\ ~Free /\ dialog' = NoDialog
        /\ (Queued(dialog.ops, policy) /\ Timely) \/ Queued(dialog.ops, Refused)
    BY <1>4 DEF ConfirmDelete
  <2> QED  BY <2>1, DeletionFits, QueueKeeps
<1> QED  BY <1>1, <1>2, <1>3, <1>4, RestKeepsQueue DEF DeleteStep

\* They hold all the time.
LEMMA QueueAlways == DraftSpec => []QueueInv
<1>1. DraftInit => QueueInv
  BY OpenedQueue
<1>2. QueueInv /\ [DraftNext]_draftVars => QueueInv'
  BY StepKeepsQueue
<1> QED  BY <1>1, <1>2, PTL DEF DraftSpec

(* DraftTypeOK for any policies, any names and any order of events: what    *)
(* the page shows, previews and saves (schemaWithPendingChanges, Doc.Patch) *)
(* is a document, whatever was queued, and on whichever policy.             *)
THEOREM DraftsAreTyped == DraftSpec => []DraftTypeOK
<1>1. QueueInv => DraftTypeOK
  <2> SUFFICES ASSUME QueueInv  PROVE DraftTypeOK
    OBVIOUS
  <2>1. IsDocument(Projected(Decoded(policy), pending))
    BY ShownDocument DEF QueueInv, Shown
  <2>2. dialog # NoDialog => IsDocument(dialog.shown)
    BY DEF QueueInv, DialogTyped, Free
  <2> QED  BY <2>1, <2>2 DEF QueueInv, DraftTyped, DraftTypeOK
<1> QED  BY <1>1, QueueAlways, PTL

(* ShownIsSubmitted for any policies, any names and any order of events:    *)
(* the operations of every form, and of every deletion confirmed on what it *)
(* was asked for, apply to the stored document in turn, and give what       *)
(* schemaWithPendingChanges shows.                                          *)
THEOREM ShownIsWhatIsSubmitted == DraftSpec => []ShownIsSubmitted
<1>1. QueueInv => ShownIsSubmitted
  <2> SUFFICES ASSUME QueueInv, OnOneDocument, {"ssh", "tests"} \subseteq DOMAIN policy
               PROVE  Patched(policy, pending) # Refused /\ Decoded(Patched(policy, pending)) = Decoded(Shown)
    BY DEF ShownIsSubmitted
  <2>1. basis = {policy}
    BY DEF QueueInv, QueueFits, OnOneDocument
  <2>2. FitInTurn(Decoded(policy), pending)
    BY <2>1 DEF QueueInv, QueueFits, DraftTyped
  <2>3. Agree(policy, Decoded(policy))
    BY DecodedAgrees DEF QueueInv, DraftTyped
  <2>4. Agree(Patched(policy, pending), Shown)
    BY <2>2, <2>3, ResultsAgree DEF QueueInv, DraftTyped, Shown
  <2> QED  BY <2>4, AgreeingIsSame
<1> QED  BY <1>1, QueueAlways, PTL

-----------------------------------------------------------------------------
(* What a cascade leaves. *)

\* A form that deletes nothing leaves every group and tag.
LEMMA FormsKeepNames ==
  ASSUME NEW doc, IsDocument(doc), NEW o \in Operation, KeepsNames(doc, o)
  PROVE  Defined(doc) \subseteq Defined(Displayed(doc, o))
<1> DEFINE s == o.section
           named == {"groups", "tagOwners"}
<1>1. ASSUME NEW new, DOMAIN doc \subseteq DOMAIN new,
             \A t \in DOMAIN doc \intersect named : DOMAIN doc[t] \subseteq DOMAIN new[t]
      PROVE  Defined(doc) \subseteq Defined(new)
  BY <1>1 DEF Defined
<1>2. ASSUME NEW c, s \in DOMAIN doc \intersect named => DOMAIN doc[s] \subseteq DOMAIN c
      PROVE  Defined(doc) \subseteq Defined(With(doc, s, c))
  <2> DEFINE new == With(doc, s, c)
  <2>1. /\ DOMAIN new = DOMAIN doc \union {s} /\ new[s] = c
        /\ \A t \in DOMAIN doc \ {s} : new[t] = doc[t]
    BY DEF With
  <2> HIDE DEF new, s
  <2>2. \A t \in DOMAIN doc \intersect named : DOMAIN doc[t] \subseteq DOMAIN new[t]
    BY <1>2, <2>1
  <2> QED  BY <1>1, <2>1, <2>2 DEF new
<1>3. CASE Applies(doc, o)
  <2> DEFINE c == IF o.whole THEN o.value ELSE EditedSection(doc[s], o)
  <2>1. Displayed(doc, o) = With(doc, s, c)
    BY <1>3 DEF Displayed, After
  <2>2. ASSUME s \in DOMAIN doc \intersect named  PROVE DOMAIN doc[s] \subseteq DOMAIN c
    <3>1. ~o.whole /\ o.op # "remove" /\ o.op \in {"add", "replace", "remove"}
      BY <2>2 DEF KeepsNames, Operation
    <3>2. s \in MapSection /\ s \notin ListSection
      BY <2>2 DEF MapSection, ListSection
    <3>3. IsMap(s, doc[s])
      BY <2>2, <3>2 DEF IsDocument, IsContent
    <3>4. CASE o.op = "add"
      <4>1. c = With(doc[s], o.at, o.value)
        BY <3>1, <3>2, <3>4 DEF EditedSection
      <4> QED  BY <4>1 DEF With
    <3>5. CASE o.op = "replace"
      <4>1. c = [doc[s] EXCEPT ![o.at] = o.value]
        BY <3>1, <3>5 DEF EditedSection
      <4> QED  BY <4>1
    <3> QED  BY <3>1, <3>4, <3>5
  <2> HIDE DEF c, s
  <2> QED  BY <1>2, <2>1, <2>2
<1>4. CASE ~Applies(doc, o) /\ o.op = "add"
  <2> DEFINE mid == With(doc, s, <<>>)
             c == IF o.whole THEN o.value ELSE EditedSection(mid[s], o)
  <2>1. s \notin DOMAIN doc
    BY <1>4 DEF Applies
  <2>2. Displayed(doc, o) = With(mid, s, c)
    BY <1>4 DEF Displayed, After
  <2>3. With(mid, s, c) = With(doc, s, c)
    <3> HIDE DEF c
    <3> QED  BY DEF With
  <2> HIDE DEF c, s
  <2> QED  BY <1>2, <2>1, <2>2, <2>3
<1>5. CASE ~Applies(doc, o) /\ o.op # "add"
  BY <1>5 DEF Displayed
<1> QED  BY <1>3, <1>4, <1>5

\* An entry that mentions nothing deleted stays.
LEMMA UntouchedStays ==
  ASSUME NEW s, NEW list, NEW i, NEW gone, Untouched(s, list, i, gone)
  PROVE  Stays(s, list[i], gone) /\ Cut(list[i], gone) = list[i]
BY DEF Untouched, Stays

\* What stays of a list, in any order, is what should be kept.
LEMMA RearrangedKeeps ==
  ASSUME NEW s, NEW old \in Seq(Entry), NEW gone, NEW clean, CleanedFrom(clean, s, old, gone),
         NEW new, Rearranged(new, clean)
  PROVE  TheRestIsKept(s, old, new, gone)
<1>1. PICK f : /\ \A i \in DOMAIN old : Stays(s, old[i], gone) =>
                       f[i] \in DOMAIN clean /\ clean[f[i]] = Cut(old[i], gone)
               /\ \A i \in DOMAIN old, k \in DOMAIN old :
                       Stays(s, old[i], gone) /\ Stays(s, old[k], gone) /\ f[i] = f[k] => i = k
  BY DEF CleanedFrom
<1>2. PICK h \in Injection(DOMAIN clean, DOMAIN new) : \A j \in DOMAIN clean : new[h[j]] = clean[j]
  BY DEF Rearranged
<1>3. /\ \A j \in DOMAIN clean : h[j] \in DOMAIN new
      /\ \A j \in DOMAIN clean, k \in DOMAIN clean : h[j] = h[k] => j = k
  BY DEF Injection, IsInjective
<1>4. \A q \in Seq(Entry) : IsFiniteSet(DOMAIN q)
  <2>1. ASSUME NEW q \in Seq(Entry)  PROVE IsFiniteSet(DOMAIN q)
    <3>1. 1 \in Int /\ Len(q) \in Int /\ DOMAIN q = 1..Len(q)
      OBVIOUS
    <3> QED  BY <3>1, FS_Interval
  <2> QED  BY <2>1
<1>5. ASSUME NEW i \in DOMAIN old, Untouched(s, old, i, gone)
      PROVE  Occurs(old[i], new) >= Occurs(old[i], old)
  <2> DEFINE e == old[i]
             A == {j \in DOMAIN old : old[j] = e}
             B == {j \in DOMAIN new : new[j] = e}
             g == [j \in A |-> h[f[j]]]
  <2>1. Stays(s, e, gone) /\ Cut(e, gone) = e
    BY <1>5, UntouchedStays
  <2> HIDE DEF e
  <2>2. \A j \in A : j \in DOMAIN old /\ Stays(s, old[j], gone) /\ Cut(old[j], gone) = e
    BY <2>1
  <2>3. \A j \in A : f[j] \in DOMAIN clean /\ clean[f[j]] = e
    BY <1>1, <2>2
  <2>4. \A j \in A : g[j] \in DOMAIN new /\ new[g[j]] = e
    BY <1>2, <1>3, <2>3
  <2>5. ASSUME NEW j \in A, NEW k \in A, g[j] = g[k]  PROVE j = k
    <3>1. h[f[j]] = h[f[k]]
      BY <2>5
    <3>2. f[j] = f[k]
      BY <1>3, <2>3, <3>1
    <3> QED  BY <1>1, <2>2, <3>2
  <2>6. g \in [A -> B]
    BY <2>4
  <2> HIDE DEF g
  <2>7. g \in Injection(A, B)
    BY <2>5, <2>6 DEF Injection, IsInjective
  <2>8. IsFiniteSet(A) /\ IsFiniteSet(B)
    <3>1. IsFiniteSet(DOMAIN old) /\ IsFiniteSet(DOMAIN new)
      BY <1>4 DEF Rearranged
    <3>2. A \subseteq DOMAIN old /\ B \subseteq DOMAIN new
      OBVIOUS
    <3> QED  BY <3>1, <3>2, FS_Subset
  <2> HIDE DEF A, B
  <2>9. Cardinality(A) =< Cardinality(B) /\ Cardinality(A) \in Nat /\ Cardinality(B) \in Nat
    BY <2>7, <2>8, FS_Injection, FS_CardinalityType
  <2>10. Occurs(e, old) = Cardinality(A) /\ Occurs(e, new) = Cardinality(B)
    BY DEF Occurs, A, B
  <2> QED  BY <2>9, <2>10 DEF e
<1>6. ASSUME NEW j \in DOMAIN new  PROVE \E i \in DOMAIN old : LeftOf(s, old[i], new[j], gone)
  <2>1. PICK k \in DOMAIN clean : new[j] = clean[k]
    BY DEF Rearranged
  <2>2. PICK i \in DOMAIN old : Stays(s, old[i], gone) /\ clean[k] = Cut(old[i], gone)
    BY DEF CleanedFrom
  <2>3. LeftOf(s, old[i], new[j], gone)
    BY <2>1, <2>2 DEF Stays, LeftOf
  <2> QED  BY <2>3
<1> QED  BY <1>5, <1>6 DEF TheRestIsKept

\* A document in which a cascade has done every section.
Deleted(new, old, gone) == Halfway(new, Section, old, Cleaned(old, gone))

\* Section by section.
LEMMA DeletedSections ==
  ASSUME NEW old, IsDocument(old), NEW gone, NEW new, Deleted(new, old, gone)
  PROVE  /\ IsDocument(new) /\ DOMAIN new = DOMAIN old
         /\ \A s \in DOMAIN old \intersect MapSection : new[s] = CleanedMap(s, old[s], gone)
         /\ \A s \in DOMAIN old \intersect ListSection :
              old[s] \in Seq(Entry) /\ Rearranged(new[s], CleanedList(s, old[s], gone))
<1>1. \A s \in DOMAIN old : s \in Section /\ Becomes(s, new[s], Cleaned(old, gone)[s])
  BY DEF Deleted, Halfway, IsDocument
<1>2. \A s \in DOMAIN old : Cleaned(old, gone)[s] = IF s \in ListSection THEN CleanedList(s, old[s], gone)
                                                    ELSE CleanedMap(s, old[s], gone)
  BY DEF Cleaned
<1>3. \A s \in MapSection : s \notin ListSection
  BY DEF MapSection, ListSection
<1>4. \A s \in DOMAIN old \intersect ListSection : old[s] \in Seq(Entry)
  BY DEF IsDocument, IsContent
<1> QED  BY <1>1, <1>2, <1>3, <1>4 DEF Becomes, Deleted, Halfway

\* What is gone is what was to be deleted.
LEMMA GoneIsDeleted ==
  ASSUME NEW old, IsDocument(old), NEW k \in Defined(old),
         NEW gone, gone = Goes(old, k), NEW new, Deleted(new, old, gone)
  PROVE  Gone(old, new) = gone
<1>1. \A s \in DOMAIN old \intersect {"groups", "tagOwners"} : DOMAIN new[s] = DOMAIN old[s] \ gone
  <2>1. ASSUME NEW s \in DOMAIN old \intersect {"groups", "tagOwners"}
        PROVE  DOMAIN new[s] = DOMAIN old[s] \ gone
    <3>1. new[s] = CleanedMap(s, old[s], gone)
      BY DeletedSections DEF MapSection
    <3>2. CASE s = "groups"
      <4>1. new[s] = Without(old[s], gone)
        BY <3>1, <3>2 DEF CleanedMap
      <4> QED  BY <4>1 DEF Without, Restrict
    <3>3. CASE s = "tagOwners"
      <4>1. new[s] = [x \in DOMAIN old[s] \ gone |-> old[s][x] \ (gone \intersect Group)]
        BY <3>1, <3>3 DEF CleanedMap
      <4> QED  BY <4>1
    <3> QED  BY <3>2, <3>3
  <2> QED  BY <2>1
<1>2. DOMAIN new = DOMAIN old
  BY DeletedSections
<1>3. Defined(new) = Defined(old) \ gone
  BY <1>1, <1>2 DEF Defined
<1>4. gone \subseteq Defined(old)
  BY DEF Goes, Defined
<1> QED  BY <1>3, <1>4 DEF Gone

\* Nothing mentions it.
LEMMA NothingMentionsDeleted ==
  ASSUME NEW old, IsDocument(old), NEW k \in Defined(old),
         NEW gone, gone = Goes(old, k), NEW new, Deleted(new, old, gone)
  PROVE  NothingMentionsWhatIsGone(old, new, gone)
<1>1. DOMAIN new = DOMAIN old
  BY DeletedSections
<1>2. ASSUME NEW s \in DOMAIN new \intersect ListSection, NEW j \in DOMAIN new[s]
      PROVE  (new[s][j].src \union new[s][j].dst \union new[s][j].also) \intersect References(gone) = {}
  <2>1. Rearranged(new[s], CleanedList(s, old[s], gone)) /\ old[s] \in Seq(Entry)
    BY <1>1, DeletedSections
  <2>2. PICK i \in DOMAIN CleanedList(s, old[s], gone) : new[s][j] = CleanedList(s, old[s], gone)[i]
    BY <2>1 DEF Rearranged
  <2>20. CleanedFrom(CleanedList(s, old[s], gone), s, old[s], gone)
    BY <2>1, CleanedListIs
  <2>3. \E e : new[s][j] = Cut(e, gone)
    BY <2>2, <2>20 DEF CleanedFrom
  <2> QED  BY <2>3 DEF Cut
<1>3. ASSUME "routes" \in DOMAIN new, NEW r \in DOMAIN new["routes"]
      PROVE  new["routes"][r] \intersect References(gone) = {}
  <2>1. new["routes"] = CleanedMap("routes", old["routes"], gone)
    BY <1>1, <1>3, DeletedSections DEF MapSection
  <2> QED  BY <1>3, <2>1 DEF CleanedMap
<1>4. ASSUME "tagOwners" \in DOMAIN new
      PROVE  new["tagOwners"] = [t \in DOMAIN old["tagOwners"] \ gone |->
                                   old["tagOwners"][t] \ (gone \intersect Group)]
  <2>1. new["tagOwners"] = CleanedMap("tagOwners", old["tagOwners"], gone)
    BY <1>1, <1>4, DeletedSections DEF MapSection
  <2> QED  BY <2>1 DEF CleanedMap
<1>5. ASSUME "tagOwners" \in DOMAIN new, NEW t \in DOMAIN new["tagOwners"]
      PROVE  (new["tagOwners"][t] \intersect Group) \intersect gone = {}
  BY <1>4, <1>5
<1>6. ASSUME NEW word \in References(gone)  PROVE Mentioning(new, word) \subseteq {"tagOwners"}
  BY <1>2, <1>3 DEF Mentioning
<1>8. ASSUME NEW group \in gone \intersect Group  PROVE Mentioning(new, group) = {}
  <2>1. group \in References(gone)
    BY DEF References
  <2>2. "tagOwners" \notin Mentioning(new, group)
    BY <1>5 DEF Mentioning, ListSection
  <2> QED  BY <1>6, <2>1, <2>2
<1>9. ASSUME NEW tag \in gone \intersect Tag
       PROVE  Mentioning(new, tag) \union Mentioning(new, Ported(tag)) \subseteq {"tagOwners"}
  <2>1. tag \in References(gone) /\ Ported(tag) \in References(gone)
    BY DEF References
  <2> QED  BY <1>6, <2>1
<1>7. ASSUME "tagOwners" \in DOMAIN new, NEW t \in DOMAIN new["tagOwners"], new["tagOwners"][t] = {}
      PROVE  old["tagOwners"][t] = {}
  <2>1. t \in DOMAIN old["tagOwners"] /\ t \notin gone /\ old["tagOwners"][t] \subseteq gone \intersect Group
    BY <1>4, <1>7
  <2>2. IsMap("tagOwners", old["tagOwners"])
    BY <1>1, <1>7 DEF IsDocument, IsContent, ListSection
  <2>3. DOMAIN old["tagOwners"] \subseteq Tag
    BY <2>2 DEF IsMap, Key
  <2>4. gone \intersect Group \subseteq {k}
    BY <1>1, <1>7, <2>3, NameAssumption DEF Goes
  <2>5. CASE k \in Group
    <3>1. old["tagOwners"][t] # {k}
      BY <1>1, <1>7, <2>1, <2>5 DEF Goes
    <3> QED  BY <2>1, <2>4, <3>1
  <2>6. CASE k \notin Group
    BY <2>1, <2>4, <2>6
  <2> QED  BY <2>5, <2>6
<1> QED  BY <1>8, <1>9, <1>7 DEF NothingMentionsWhatIsGone

\* The rest is kept.
LEMMA RestOfDeleted ==
  ASSUME NEW old, IsDocument(old), NEW gone, NEW new, Deleted(new, old, gone)
  PROVE  EntriesAreKept(old, new, gone)
<1> SUFFICES \A s \in DOMAIN old \intersect ListSection : TheRestIsKept(s, old[s], new[s], gone)
  BY DeletedSections DEF EntriesAreKept
<1> TAKE s \in DOMAIN old \intersect ListSection
<1>1. old[s] \in Seq(Entry) /\ Rearranged(new[s], CleanedList(s, old[s], gone))
  BY DeletedSections
<1>2. CleanedFrom(CleanedList(s, old[s], gone), s, old[s], gone)
  BY <1>1, CleanedListIs
<1> QED  BY <1>1, <1>2, RearrangedKeeps

\* Only forms and deletions make the queue longer.
LEMMA LongerQueue ==
  ASSUME QueueInv, [DraftNext]_draftVars, Len(pending') > Len(pending)
  PROVE  FormStep \/ ConfirmDelete
<1>1. Len(pending) \in Nat
  BY DEF QueueInv, DraftTyped
<1>2. ASSUME pending' = pending \/ pending' = <<>>  PROVE FALSE
  BY <1>1, <1>2
<1> QED
  BY <1>2 DEF DraftNext, DeleteStep, AskDelete, CancelDelete, TextStep, SaveTraffic, EditRaw, RevertRaw,
              Discard, AskPreview,
              PreviewAnswered, PreviewFails, Save, Serve, ServeUnanswered, ServeRefuses,
              SaveAnswered, Refetch, SomebodySaves, draftVars, page

\* The page shows what the operations make of what it showed.
LEMMA QueueShows ==
  ASSUME QueueInv, NEW ops \in Seq(Operation), NEW on, Queued(ops, on)
  PROVE  Projected(Decoded(policy'), pending') = Projected(Shown, ops)
<1>1. pending \in Seq(Operation) /\ pending' = pending \o ops /\ policy' = policy
  BY DEF QueueInv, DraftTyped, Queued
<1> QED  BY <1>1, ProjectedInTurn DEF Shown

\* A step that makes names go is the deletion of a name.
LEMMA CascadesDelete ==
  ASSUME QueueInv, [DraftNext]_draftVars, Timely, Len(pending') > Len(pending),
         NEW old, old = Shown, NEW new, new = Projected(Decoded(policy'), pending'), Gone(old, new) # {}
  PROVE  /\ IsDocument(old)
         /\ \E k \in Defined(old) : Deleted(new, old, Goes(old, k)) /\ Gone(old, new) = Goes(old, k)
<1>1. (FormStep \/ ConfirmDelete) /\ IsDocument(old)
  BY LongerQueue, ShownDocument DEF QueueInv
<1>2. ASSUME NEW o, FormOperation(o), Queue(<<o>>)  PROVE FALSE
  <2>1. o \in Operation /\ KeepsNames(old, o)
    BY <1>2 DEF FormOperation
  <2>2. new = Displayed(old, o)
    <3>1. <<o>> \in Seq(Operation)
      BY <2>1
    <3>2. new = Projected(old, <<o>>)
      BY <1>2, <3>1, QueueShows DEF Queue
    <3> QED  BY <3>2, OneOperation
  <2>3. Defined(old) \subseteq Defined(new)
    BY <1>1, <2>1, <2>2, FormsKeepNames
  <2> QED  BY <2>3 DEF Gone
<1>3. PICK k \in Defined(old) : Queued(CascadeDeletion(old, k), policy)
  <2>1. ConfirmDelete
    BY <1>1, <1>2, FormsFit DEF QueueInv
  <2> QED  BY <2>1 DEF ConfirmDelete, Timely, QueueInv, DialogTyped
<1>4. Treats(CascadeDeletion(old, k), Section, old, Cleaned(old, Goes(old, k)))
  BY <1>1, DeletionTreats
<1>5. new = Projected(old, CascadeDeletion(old, k))
  BY <1>3, <1>4, QueueShows DEF Treats
<1>6. Deleted(new, old, Goes(old, k))
  BY <1>4, <1>5 DEF Treats, Deleted
<1>7. Gone(old, new) = Goes(old, k)
  BY <1>1, <1>6, GoneIsDeleted
<1> QED  BY <1>1, <1>6, <1>7

(* CascadeLeavesNothingBehind for any policies and any names: whatever was  *)
(* queued before, the operations of cascadePolicyDeletion, confirmed while  *)
(* the page shows what they were made for, leave no group that is gone      *)
(* mentioned as it is, no tag that is gone mentioned with or without a port *)
(* except as an owner, and no tag without the owners it had.                *)
THEOREM CascadesLeaveNothing == DraftSpec => CascadeLeavesNothingBehind
<1>1. ASSUME QueueInv, [DraftNext]_draftVars, Timely  PROVE Cascades(NothingMentionsWhatIsGone)
  <2>1. ASSUME Len(pending') > Len(pending), NEW old, old = Shown,
               NEW new, new = Projected(Decoded(policy'), pending'), Gone(old, new) # {}
        PROVE  NothingMentionsWhatIsGone(old, new, Gone(old, new))
    <3>1. IsDocument(old)
      BY <1>1, <2>1, CascadesDelete
    <3>2. PICK k \in Defined(old) : Deleted(new, old, Goes(old, k)) /\ Gone(old, new) = Goes(old, k)
      BY <1>1, <2>1, CascadesDelete
    <3> QED  BY <3>1, <3>2, NothingMentionsDeleted
  <2> QED  BY <2>1 DEF Cascades
<1>2. QueueInv /\ [DraftNext]_draftVars => (Timely => Cascades(NothingMentionsWhatIsGone))
  BY <1>1
<1> QED  BY <1>2, QueueAlways, PTL DEF DraftSpec, CascadeLeavesNothingBehind

(* CascadeKeepsTheRest for any policies and any names: cascadePolicyDeletion *)
(* drops no entry that mentions nothing deleted, and what it leaves of any  *)
(* other grants nothing that the entry did not, when it is confirmed while  *)
(* the page shows what it was made for.                                     *)
THEOREM CascadesKeepTheRest == DraftSpec => CascadeKeepsTheRest
<1>1. ASSUME QueueInv, [DraftNext]_draftVars, Timely  PROVE Cascades(EntriesAreKept)
  <2>1. ASSUME Len(pending') > Len(pending), NEW old, old = Shown,
               NEW new, new = Projected(Decoded(policy'), pending'), Gone(old, new) # {}
        PROVE  EntriesAreKept(old, new, Gone(old, new))
    <3>1. IsDocument(old)
      BY <1>1, <2>1, CascadesDelete
    <3>2. PICK k \in Defined(old) : Deleted(new, old, Goes(old, k)) /\ Gone(old, new) = Goes(old, k)
      BY <1>1, <2>1, CascadesDelete
    <3> QED  BY <3>1, <3>2, RestOfDeleted
  <2> QED  BY <2>1 DEF Cascades
<1>2. QueueInv /\ [DraftNext]_draftVars => (Timely => Cascades(EntriesAreKept))
  BY <1>1
<1> QED  BY <1>2, QueueAlways, PTL DEF DraftSpec, CascadeKeepsTheRest
=============================================================================
