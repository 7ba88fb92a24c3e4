----------------------------- MODULE PolicyEdit -----------------------------
(***************************************************************************)
(* Admins editing the access policy (internal/api/policy.go) over the      *)
(* watcher: a save is guarded by the hash of the text the admin read,      *)
(* compared with the snapshot, then checked, written to Headscale, kept in *)
(* the history, and answered after a refresh.  A text is known by its      *)
(* version, so equal hashes are equal versions.                            *)
(***************************************************************************)
EXTENDS TailnetWatcher

VARIABLES
  editor,     \* what each admin has open, and how far a save has come
  history     \* policy_revisions

editVars == <<editor, history>>
allVars  == <<vars, editVars>>

(* An editor's hash is always that of a text Headscale has held, and the    *)
(* history holds nothing else (loadPolicy, SavePolicyRevision).             *)
EditTypeOK ==
  /\ editor \in [Writer -> [pc : {"away", "editing", "checked", "set", "saved"},
                            base : Nat, doc : Nat]]
  /\ history \subseteq Nat
  /\ \A v \in history \union {editor[w].base : w \in Writer} : v <= truth.policy

Away == [pc |-> "away", base |-> 0, doc |-> 0]

EditInit ==
  /\ Init
  /\ editor = [w \in Writer |-> Away]
  /\ history = {}

Editing(w, new) == editor' = [editor EXCEPT ![w] = new] /\ UNCHANGED history

-----------------------------------------------------------------------------
\* The text and its hash, from the snapshot.
LoadPolicy(w) ==
  /\ editor[w].pc \in {"away", "editing"}
  /\ snap # NoSnap
  /\ Editing(w, [pc |-> "editing", base |-> snap.parts.policy, doc |-> 0])
  /\ UNCHANGED vars

Unchanged_Always(w) == TRUE

Unchanged_Numbered(w) == editor[w].base + 1 = snap.rev

\* The hash sent back is the hash of the snapshot's text.
Unchanged(w) == editor[w].base = snap.parts.policy

Check_Recorded(w) ==
  /\ editor[w].pc = "editing"
  /\ Ready(w)
  /\ Unchanged(w)
  /\ editor' = [editor EXCEPT ![w].pc = "checked"]
  /\ history' = history \union {truth.policy + 1}
  /\ UNCHANGED vars

\* applyChange and CheckPolicy let the save through.
Check(w) ==
  /\ editor[w].pc = "editing"
  /\ Ready(w)
  /\ Unchanged(w)
  /\ Editing(w, [editor[w] EXCEPT !.pc = "checked"])
  /\ UNCHANGED vars

\* 409: reload and reapply your edit.
Refuse(w) ==
  /\ editor[w].pc = "editing"
  /\ Ready(w)
  /\ ~Unchanged(w)
  /\ Editing(w, [editor[w] EXCEPT !.pc = "away"])
  /\ UNCHANGED vars

\* Headscale refuses the text.
Reject(w) ==
  /\ editor[w].pc = "checked"
  /\ Editing(w, [editor[w] EXCEPT !.pc = "editing"])
  /\ UNCHANGED vars

SetPolicy(w) ==
  /\ editor[w].pc = "checked"
  /\ truth' = [truth EXCEPT !.policy = @ + 1]
  /\ Editing(w, [editor[w] EXCEPT !.pc = "set", !.doc = truth.policy + 1])
  /\ UNCHANGED <<watcherVars, request, tab>>

\* Headscale took the text and its answer was lost: no revision, no refresh.
SetPolicyUnanswered(w) ==
  /\ editor[w].pc = "checked"
  /\ truth' = [truth EXCEPT !.policy = @ + 1]
  /\ Editing(w, [editor[w] EXCEPT !.pc = "editing"])
  /\ UNCHANGED <<watcherVars, request, tab>>

\* A revision that cannot be stored is logged, and the save goes on.
SavePolicyRevision(w) ==
  /\ editor[w].pc = "set"
  /\ editor' = [editor EXCEPT ![w].pc = "saved"]
  /\ history' \in {history, history \union {editor[w].doc}}
  /\ request' = [request EXCEPT ![w] = [part |-> "policy", version |-> editor[w].doc]]
  /\ poll' = Refreshing(w)
  /\ UNCHANGED <<truth, snap, failed, holder, nudged, tab>>

\* The answer carries the text just written, and asks for another poll.
Answer(w) ==
  /\ editor[w].pc = "saved"
  /\ poll[w].pc = "idle"
  /\ Editing(w, [pc |-> "editing", base |-> editor[w].doc, doc |-> 0])
  /\ nudged' = TRUE
  /\ UNCHANGED <<truth, snap, failed, holder, poll, request, tab>>

\* The admin keeps the draft; the save in progress is gone.
RestartUnderEdits ==
  /\ Restart
  /\ editor' = [w \in Writer |-> IF editor[w].pc \in {"checked", "set", "saved"}
                                 THEN [editor[w] EXCEPT !.pc = "editing"] ELSE editor[w]]
  /\ UNCHANGED history

-----------------------------------------------------------------------------
SaveStep(w) ==
  SetPolicy(w) \/ SetPolicyUnanswered(w) \/ SavePolicyRevision(w) \/ Answer(w)

AdminStep(w) == LoadPolicy(w) \/ Check(w) \/ Refuse(w) \/ Reject(w)

EditNext ==
  \/ \E w \in Writer : AdminStep(w) \/ SaveStep(w)
  \/ RestartUnderEdits
  \/ /\ \/ WakeUp
        \/ \E p \in Poller : PollStep(p) \/ ReadFails(p)
        \/ \E field \in Field : Drift(field)
     /\ UNCHANGED editVars

EditSpec == EditInit /\ [][EditNext]_allVars

-----------------------------------------------------------------------------
(* "the server refuses if the document changed underneath" (PolicyBody): a  *)
(* save that is let through was made from a text at least as new as every   *)
(* save that has been answered, as long as polls succeed.                   *)
GuardSeesAnsweredSaves ==
  [][\A w, f \in Writer :
       /\ editor[w].pc = "editing" /\ editor'[w].pc = "checked"
       /\ Answered(f) /\ ~failed
       => editor[w].base >= request[f].version]_allVars

(* A save is refused only when the policy really changed: the answer to a   *)
(* save carries the text just written, and the snapshot has caught up with  *)
(* it (policyOutputFor, finish).                                            *)
NoFalseConflict ==
  [][\A w \in Writer :
       editor[w].pc = "editing" /\ editor'[w].pc = "away" /\ ~failed
       => truth.policy # editor[w].base]_allVars

(* "A mismatch means someone else saved in the meantime and the write is    *)
(* refused" (savePolicy), so that two admins never silently clobber each    *)
(* other: violated, because the guard reads the snapshot and the write goes *)
(* to Headscale.                                                            *)
NobodyIsClobbered ==
  [][\A w, f \in Writer :
       /\ editor[w].pc = "checked" /\ editor'[w].pc = "set"
       /\ f # w
       /\ \/ editor[f].pc \in {"set", "saved"} /\ editor[f].doc = truth.policy
          \/ request[f] # NoWrite /\ request[f].version = truth.policy
       => editor[w].base = truth.policy]_allVars
=============================================================================
