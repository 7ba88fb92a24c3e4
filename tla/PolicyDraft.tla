----------------------------- MODULE PolicyDraft -----------------------------
(***************************************************************************)
(* An admin's page on the access policy (ui/src/routes/Acl.tsx): edits of  *)
(* the forms queue up as patch operations on the document the page holds,  *)
(* edits of the text replace it; a preview shows what the server would     *)
(* save, and a save sends what is queued with the hash of what is held.    *)
(* The server compares that hash with the policy it has                    *)
(* (internal/api/policy.go).  A document stands for its hash.              *)
(***************************************************************************)
EXTENDS PolicyDoc

CONSTANTS
  Stored,     \* policies that are there at first, or that somebody else saves
  Offered,    \* what the forms offer to put into a list
  Listed,     \* what they offer to put under a name of a section
  NoDraft     \* no text is being edited

\* The server checks that what is saved parses into the sections it knows
\* (Parse), and the forms offer nothing else.
ASSUME StoredAssumption == \A doc \in Stored : IsDocument(doc)
ASSUME OfferedAssumption ==
  /\ Offered \subseteq Entry
  /\ \A s \in MapSection : Listed[s] \subseteq SUBSET Name

VARIABLES
  stored,     \* the policy Headscale holds
  policy,     \* the document the page holds
  pending,    \* the operations queued
  dialog,     \* the deletion to be confirmed: its operations, and what they were made for
  raw,        \* the text being edited
  preview,    \* what was sent to be previewed, and what came back
  save,       \* the save on its way, and what the admin saw when clicking
  basis       \* history: the documents the page held when operations were made and queued

page == <<policy, pending, dialog, raw, preview, save, basis>>
draftVars == <<stored, page>>

Body == [sha |-> policy, raw |-> raw, ops |-> IF raw = NoDraft THEN pending ELSE <<>>]

NoBody    == [sha |-> Refused, raw |-> NoDraft, ops |-> <<>>]
NoPreview == [pc |-> "none", body |-> NoBody, old |-> Refused, new |-> Refused]
NoDialog  == [ops |-> <<>>, shown |-> Refused]
NoSave    == [pc |-> "idle", body |-> NoBody, seen |-> NoPreview, made |-> Refused]

(* What patches make of a document is a document again, with lists that     *)
(* have no holes (Doc.Patch), and a save is answered with one.              *)
DraftTypeOK ==
  /\ IsDocument(stored) /\ IsDocument(policy)
  /\ IsDocument(Projected(Decoded(policy), pending))
  /\ dialog # NoDialog => IsDocument(dialog.shown)
  /\ raw # NoDraft => IsDocument(raw)
  /\ preview.pc \in {"none", "asked", "shown"}
  /\ preview.pc = "shown" => IsDocument(preview.new) /\ IsDocument(preview.old)
  /\ save.pc \in {"idle", "sent", "saved"}
  /\ save.pc = "saved" => IsDocument(save.made)

\* A page that has just been opened.
DraftFrom(doc) ==
  /\ policy = doc
  /\ pending = <<>>
  /\ dialog = NoDialog
  /\ raw = NoDraft
  /\ preview = NoPreview
  /\ save = NoSave
  /\ basis = {}

DraftInit == stored \in Stored /\ DraftFrom(stored)

\* What every tab shows.
Shown == Projected(Decoded(policy), pending)

Under(s) == IF s \in DOMAIN Shown THEN DOMAIN Shown[s] ELSE {}

-----------------------------------------------------------------------------
(* The forms. *)

Queued_PreviewKept(ops, doc) ==
  /\ pending' = pending \o ops
  /\ basis' = basis \union {doc}
  /\ UNCHANGED <<stored, policy, raw, preview, save>>

\* Whatever was previewed is not what would be saved now.
Queued(ops, doc) ==
  /\ pending' = pending \o ops
  /\ preview' = NoPreview
  /\ basis' = basis \union {doc}
  /\ UNCHANGED <<stored, policy, raw, save>>

\* Nothing else on the page can be clicked while the dialog is open.
Free == dialog = NoDialog

Queue(ops) == Free /\ Queued(ops, policy) /\ UNCHANGED dialog

AddEntry(s, k) == Queue(<<EntryOp(Shown, s, k, {})>>)

StageEntry(s, k, v) == k \in Under(s) /\ Queue(<<ReplaceOp(s, k, v)>>)

RemoveRoute(k) == k \in Under("routes") /\ Queue(<<RemoveOp("routes", k)>>)

\* A group or a tag is to go with everything that mentions it, as the page
\* shows it at the click ...
AskDelete(s, k) ==
  /\ Free /\ k \in Under(s)
  /\ dialog' = [ops |-> CascadeDeletion(Shown, k), shown |-> Shown]
  /\ UNCHANGED <<stored, policy, pending, raw, preview, save, basis>>

CancelDelete ==
  /\ ~Free
  /\ dialog' = NoDialog
  /\ UNCHANGED <<stored, policy, pending, raw, preview, save, basis>>

\* The operations are those for what is shown now.
Timely == dialog.shown = Shown

\* ... and is queued when that is confirmed, whatever the page shows by then.
ConfirmDelete ==
  /\ ~Free
  /\ Queued(dialog.ops, IF Timely THEN policy ELSE Refused)
  /\ dialog' = NoDialog

Blank == [src |-> {}, dst |-> {}, also |-> {}]

AddGrant ==
  Queue(<<IF "grants" \in DOMAIN Shown THEN Add("grants", End, Blank) ELSE Whole("grants", <<Blank>>)>>)

AddSshRule == Queue(<<Add("ssh", End, Blank)>>)

AddTest(test) == Queue(<<Add("tests", End, test)>>)

StageItem(s, i, e) == i \in Under(s) /\ Queue(<<ReplaceOp(s, i, e)>>)

RemoveListItem(s, i) == i \in Under(s) /\ Queue(<<RemoveOp(s, i)>>)

-----------------------------------------------------------------------------
(* The text, the preview and the save. *)

EditRaw(doc) ==
  /\ Free
  /\ raw' = doc
  /\ pending' = <<>> /\ basis' = {}
  /\ preview' = NoPreview
  /\ UNCHANGED <<stored, policy, dialog, save>>

\* Back to what the forms have queued meanwhile, with the preview still open.
RevertRaw ==
  /\ Free /\ raw # NoDraft
  /\ raw' = NoDraft
  /\ UNCHANGED <<stored, policy, pending, dialog, preview, save, basis>>

Staged == raw # NoDraft \/ pending # <<>>

Discard ==
  /\ Free /\ Staged
  /\ pending' = <<>> /\ basis' = {}
  /\ raw' = NoDraft
  /\ preview' = NoPreview
  /\ UNCHANGED <<stored, policy, dialog, save>>

AskPreview ==
  /\ Free /\ Staged /\ preview.pc # "asked"
  /\ preview' = [NoPreview EXCEPT !.pc = "asked", !.body = Body]
  /\ UNCHANGED <<stored, policy, pending, dialog, raw, save, basis>>

Made(doc, body) == IF body.raw # NoDraft THEN body.raw ELSE Patched(doc, body.ops)

\* What the server makes of a request: the hash must be that of its policy.
Outcome(doc, body) == IF body.sha = doc THEN Made(doc, body) ELSE Refused

Alters(doc, body) == Outcome(doc, body) \notin {Refused, doc}

\* The diff; without one there is no button to save with.
PreviewAnswered ==
  /\ preview.pc = "asked"
  /\ Alters(stored, preview.body)
  /\ preview' = [preview EXCEPT !.pc = "shown", !.old = stored,
                                !.new = Outcome(stored, preview.body)]
  /\ UNCHANGED <<stored, policy, pending, dialog, raw, save, basis>>

\* A conflict, a patch that does not apply, a policy that Headscale rejects,
\* or a lost request.
PreviewFails ==
  /\ preview.pc = "asked"
  /\ preview' = NoPreview
  /\ UNCHANGED <<stored, policy, pending, dialog, raw, save, basis>>

Save ==
  /\ Free /\ Staged /\ preview.pc = "shown" /\ save.pc = "idle"
  /\ save' = [NoSave EXCEPT !.pc = "sent", !.body = Body, !.seen = preview]
  /\ UNCHANGED <<stored, policy, pending, dialog, raw, preview, basis>>

Serve ==
  /\ save.pc = "sent" /\ Alters(stored, save.body)
  /\ stored' = Outcome(stored, save.body)
  /\ save' = [save EXCEPT !.pc = "saved", !.made = stored']
  /\ UNCHANGED <<policy, pending, dialog, raw, preview, basis>>

\* Saved, and the page is told that it failed.
ServeUnanswered ==
  /\ save.pc = "sent" /\ Alters(stored, save.body)
  /\ stored' = Outcome(stored, save.body)
  /\ save' = NoSave
  /\ UNCHANGED <<policy, pending, dialog, raw, preview, basis>>

\* As a preview fails: the draft stays.
ServeRefuses ==
  /\ save.pc = "sent"
  /\ save' = NoSave
  /\ UNCHANGED <<stored, policy, pending, dialog, raw, preview, basis>>

SaveAnswered ==
  /\ save.pc = "saved"
  /\ policy' = save.made
  /\ pending' = <<>> /\ basis' = {}
  /\ raw' = NoDraft
  /\ preview' = NoPreview
  /\ save' = NoSave
  /\ UNCHANGED <<stored, dialog>>

\* The window is focused again, or the network is back: the page reads the
\* policy again and keeps the draft.
Refetch ==
  /\ policy' = stored
  /\ UNCHANGED <<stored, pending, dialog, raw, preview, save, basis>>

SomebodySaves(doc) ==
  /\ stored' = doc
  /\ UNCHANGED page

-----------------------------------------------------------------------------
FormStep ==
  \/ \E s \in MapSection : \E k \in Key[s] : AddEntry(s, k) \/ \E v \in Listed[s] : StageEntry(s, k, v)
  \/ \E k \in Route : RemoveRoute(k)
  \/ AddGrant \/ AddSshRule
  \/ \E e \in Offered :
       AddTest(e) \/ \E s \in {"grants", "ssh"} : \E i \in Under(s) : StageItem(s, i, e)
  \/ \E s \in {"grants", "ssh", "tests"} : \E i \in Under(s) : RemoveListItem(s, i)

DeleteStep ==
  (\E s \in {"groups", "tagOwners"} : \E k \in Under(s) : AskDelete(s, k)) \/ CancelDelete \/ ConfirmDelete

TextStep == (\E doc \in Stored : EditRaw(doc)) \/ RevertRaw

SaveTraffic ==
  \/ AskPreview \/ PreviewAnswered \/ PreviewFails
  \/ Save \/ Serve \/ ServeRefuses \/ SaveAnswered

DraftNext ==
  \/ FormStep \/ DeleteStep \/ TextStep \/ Discard \/ SaveTraffic
  \/ ServeUnanswered \/ Refetch \/ \E doc \in Stored : SomebodySaves(doc)

DraftSpec == DraftInit /\ [][DraftNext]_draftVars

-----------------------------------------------------------------------------
\* Operations queued on the document the page still holds.
OnOneDocument == raw = NoDraft /\ pending # <<>> /\ basis \subseteq {policy}

(* "every tab sees the same document that Preview and Save submit"          *)
(* (schemaWithPendingChanges): however edits, cascades and the creation of  *)
(* sections follow each other, the server's strict patch makes of the       *)
(* stored document what the page's lenient projection shows, as long as the *)
(* document has the lists to which SSH rules and tests are appended: the    *)
(* page makes them up, and the server refuses the first entry of either.    *)
ShownIsSubmitted ==
  OnOneDocument /\ {"ssh", "tests"} \subseteq DOMAIN policy =>
    LET submitted == Patched(policy, pending) IN
      submitted # Refused /\ Decoded(submitted) = Decoded(Shown)

\* The sections that mention a name, alone or with a port.
Mentioning(doc, word) ==
  {s \in DOMAIN doc \intersect ListSection : \E i \in DOMAIN doc[s] :
     word \in doc[s][i].src \union doc[s][i].dst \union doc[s][i].also}
  \union {s \in DOMAIN doc \intersect {"routes", "tagOwners"} : \E k \in DOMAIN doc[s] : word \in doc[s][k]}

Defined(doc) == UNION {DOMAIN doc[s] : s \in DOMAIN doc \intersect {"groups", "tagOwners"}}

Gone(old, new) == Defined(old) \ Defined(new)

Occurs(e, list) == Cardinality({i \in DOMAIN list : list[i] = e})

\* A group as it is, and a tag also with a port, except as the owner of a tag.
NothingMentionsWhatIsGone(old, new, gone) ==
  /\ \A group \in gone \intersect Group : Mentioning(new, group) = {}
  /\ \A tag \in gone \intersect Tag :
       Mentioning(new, tag) \union Mentioning(new, Ported(tag)) \subseteq {"tagOwners"}
  /\ "tagOwners" \in DOMAIN new =>
       \A t \in DOMAIN new.tagOwners : new.tagOwners[t] = {} => old.tagOwners[t] = {}

\* An entry that names nobody deleted stays; a test of SSH access without a
\* destination tests nothing.
Untouched(s, list, i, gone) ==
  Cut(list[i], gone) = list[i] /\ (s = "sshTests" => list[i].dst # {})

\* What is left of an entry grants nothing that the entry did not.
LeftOf(s, entry, left, gone) ==
  /\ left = Cut(entry, gone)
  /\ s \notin {"tests", "sshTests"} /\ left # entry =>
       left.src # {} /\ left.dst # {} /\ left.also = entry.also

TheRestIsKept(s, old, new, gone) ==
  /\ \A i \in DOMAIN old : Untouched(s, old, i, gone) => Occurs(old[i], new) >= Occurs(old[i], old)
  /\ \A j \in DOMAIN new : \E i \in DOMAIN old : LeftOf(s, old[i], new[j], gone)

EntriesAreKept(old, new, gone) ==
  \A s \in DOMAIN old \intersect ListSection :
    s \in DOMAIN new /\ TheRestIsKept(s, old[s], new[s], gone)

\* A step that deletes names by queueing operations.
Cascades(Keeps(_, _, _)) ==
  Len(pending') > Len(pending) =>
    \A old \in {Shown} : \A new \in {Projected(Decoded(policy'), pending')} :
      LET gone == Gone(old, new) IN gone # {} => Keeps(old, new, gone)

(* cascadePolicyDeletion removes a group or tag "together with the policy   *)
(* references that would otherwise make the document invalid": when it is   *)
(* confirmed while the page shows what it was asked for on, nothing the     *)
(* page takes for a reference to what is gone is left, and no tag that had  *)
(* an owner has none.                                                       *)
CascadeLeavesNothingBehind == [][Timely => Cascades(NothingMentionsWhatIsGone)]_draftVars

(* "without dropping surviving access" (policyDraft.test.ts), and without   *)
(* granting any: every entry that mentions nothing deleted stays as often   *)
(* as it was, and every other one left is one that was there, less the      *)
(* names deleted, still naming somebody on both sides and, for a grant, all *)
(* it went through; as long as the page shows at the confirmation what it   *)
(* showed at the click.                                                     *)
CascadeKeepsTheRest == [][Timely => Cascades(EntriesAreKept)]_draftVars

(* The same of every deletion that is confirmed: violated.  The operations  *)
(* address entries by their index in the document of the click, and are     *)
(* queued on the one that the page has read by the confirmation, where the  *)
(* index is another entry's.                                                *)
DeletionsKeepTheRest == [][Cascades(EntriesAreKept)]_draftVars

(* "together with the policy references that would otherwise make the       *)
(* document invalid", in whatever form the document has them: violated.  A  *)
(* group with a port, as a rule's destination has it, is not taken for a    *)
(* reference to the group.                                                  *)
CascadeLeavesNoReference ==
  [][Timely => Cascades(LAMBDA old, new, gone : \A name \in gone :
       Mentioning(new, name) \union Mentioning(new, Ported(name)) = {})]_draftVars

\* The server carries out a save.
Saves == save.pc = "sent" /\ save' # save /\ stored' # stored

(* "The confirm has to show what is actually about to change"               *)
(* (PreviewPanel): what is saved is the document the diff on screen led to, *)
(* whatever was queued, discarded, refused or lost in between, as long as   *)
(* the policy is the one that was previewed and no text was taken back.     *)
SavedAsPreviewed ==
  [][Saves /\ save.seen.old = stored /\ save.seen.body.raw = save.body.raw =>
       stored' = save.seen.new]_draftVars

(* "Nothing is saved without showing the real diff first" (PreviewPanel):   *)
(* violated.  A page that reads the policy again keeps the preview and the  *)
(* operations of the document before, and sends them with the new hash; and *)
(* taking the text back uncovers operations that were not previewed.        *)
SavesWhatWasShown == [][Saves => stored = save.seen.old /\ stored' = save.seen.new]_draftVars
=============================================================================
