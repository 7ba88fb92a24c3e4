------------------------------ MODULE MCPolicy ------------------------------
(***************************************************************************)
(* Small instances of PolicyEdit and PolicyDraft.  In a behaviour either    *)
(* admins' saves move, over the watcher and with no tab open, or one page   *)
(* does, over a server that answers at once.  Budget counts saves, changes *)
(* from elsewhere, failures and edits.                                      *)
(***************************************************************************)
EXTENDS PolicyEdit, PolicyDraft

CONSTANTS
  Scenario,   \* which behaviours the run has
  g1, t1, t2, ali, r1   \* names of the document

VARIABLES
  plan,       \* the scenario of this behaviour
  budget      \* how much may still happen

mcvars == <<allVars, draftVars, plan, budget>>

SaveScenarios   == {[of |-> "saves", budget |-> 3]}
ClobberScenario == {[of |-> "saves", budget |-> 2]}
CascadeScenario == {[of |-> "cascade", budget |-> 1]}
DraftScenario   == {[of |-> "deletions", budget |-> 2]}
EditScenarios   ==
  SaveScenarios \union {[of |-> "draft", budget |-> 3], [of |-> "deletions", budget |-> 2], [of |-> "cascade", budget |-> 2]}

-----------------------------------------------------------------------------
E(src, dst, also) == [src |-> src, dst |-> dst, also |-> also]

Owners    == With(With(<<>>, t1, {g1}), t2, {g1, ali})

FullPolicy ==
  [groups    |-> [x \in {g1} |-> {ali}],
   tagOwners |-> Owners,
   grants    |-> <<E({g1}, {t1}, {}), E({ali}, {t2}, {})>>,
   ssh       |-> <<>>,
   tests     |-> <<E({ali}, {t1}, {})>>]

EmptyPolicy == [s \in {} |-> {}]

OfferedEntries == {E({g1}, {t1, t2}, {})}
ListedNames    == [groups |-> {{}}, tagOwners |-> {{g1}}, routes |-> {{g1}}]
SomePolicies   == {FullPolicy, EmptyPolicy}

\* The same grants in another order: who reads it again has other indices.
Reordered == [FullPolicy EXCEPT !.grants = Reverse(@)]
TwoOrders == {FullPolicy, Reordered}

\* Policies that mention a group and a tag in every way, in one list and one route.
EntriesOf(s) ==
  CASE s = "acls"     -> {E({g1}, {ali}, {}), E({g1, ali}, {Ported(t1)}, {}),
                         E({ali}, {Ported(t1), Ported(t2)}, {}), E({ali}, {Ported(g1)}, {})}
    [] s = "ssh"      -> {E({g1}, {ali}, {}), E({g1, ali}, {t1}, {}), E({ali}, {t1, t2}, {}), E({ali}, {t2}, {})}
    [] s = "grants"   -> {E({g1, ali}, {t2}, {}), E({ali}, {t1, t2}, {}), E({ali}, {t2}, {t1}), E({ali}, {t2}, {})}
    [] s = "tests"    -> {E({g1}, {Ported(t2)}, {}), E({ali}, {Ported(t1)}, {}),
                         E({ali}, {Ported(t1)}, {Ported(t2)}), E({ali}, {}, {Ported(g1), Ported(t2)})}
    [] s = "sshTests" -> {E({g1}, {t2}, {}), E({ali}, {t1}, {}), E({ali}, {t1, t2}, {}), E({ali}, {}, {})}

Policies ==
  UNION {{[x \in {"groups", "tagOwners", "routes", s} |->
             CASE x = "groups"    -> [y \in {g1} |-> {ali}]
               [] x = "tagOwners" -> Owners
               [] x = "routes"    -> [y \in {r1} |-> approvers]
               [] x = s           -> list] : list \in SeqOf(EntriesOf(s), 3), approvers \in {{t1}, {g1, t2}}}
         : s \in ListSection}

-----------------------------------------------------------------------------
MCInit ==
  /\ plan \in Scenario
  /\ budget = plan.budget
  /\ EditInit
  /\ CASE plan.of \in {"draft", "deletions"} -> DraftInit
       [] plan.of = "cascade"                -> stored \in Policies /\ DraftFrom(stored)
       [] plan.of = "saves"                  -> stored = EmptyPolicy /\ DraftFrom(stored)

Saving ==
  \/ \E w \in Writer : LoadPolicy(w) \/ Refuse(w) \/ Reject(w) \/ SaveStep(w)
  \/ /\ WakeUp \/ \E p \in Poller : PollStep(p)
     /\ UNCHANGED editVars

Disturbed ==
  \/ \E w \in Writer : Check(w)
  \/ RestartUnderEdits
  \/ /\ \/ \E p \in Poller : ReadFails(p)
        \/ \E part \in {"nodes", "policy"} : Drift(part)
     /\ UNCHANGED editVars

Browsing == RevertRaw \/ Discard \/ SaveTraffic \/ Refetch

Deleting == \E s \in {"groups", "tagOwners"} : \E k \in Under(s) : AskDelete(s, k)

Edited == FormStep \/ ServeUnanswered \/ \E doc \in Stored : EditRaw(doc) \/ SomebodySaves(doc)

MCNext ==
  /\ UNCHANGED plan
  /\ \/ /\ plan.of = "saves" /\ UNCHANGED draftVars
        /\ \/ Saving /\ UNCHANGED budget
           \/ budget > 0 /\ Disturbed /\ budget' = budget - 1
     \/ /\ plan.of = "draft" /\ UNCHANGED allVars
        /\ \/ Browsing /\ UNCHANGED budget
           \/ budget > 0 /\ Edited /\ budget' = budget - 1
     \/ /\ plan.of = "deletions" /\ UNCHANGED allVars
        /\ \/ (Browsing \/ CancelDelete \/ ConfirmDelete) /\ UNCHANGED budget
           \/ budget > 0 /\ (Edited \/ Deleting) /\ budget' = budget - 1
     \/ /\ plan.of = "cascade" /\ UNCHANGED allVars
        /\ \/ (ConfirmDelete \/ Refetch) /\ UNCHANGED budget
           \/ budget > 0 /\ Deleting /\ budget' = budget - 1

MCSpec == MCInit /\ [][MCNext]_mcvars
=============================================================================
