------------------------------ MODULE MCTailnet ------------------------------
(***************************************************************************)
(* Small instances of TailnetWatcher: Budget changes and failures, while   *)
(* polls and tabs run freely.                                              *)
(***************************************************************************)
EXTENDS TailnetWatcher

CONSTANT Budget   \* how many writes and faults a behaviour may contain

VARIABLE budget

mcvars == <<vars, budget>>

MCInit == Init /\ budget = Budget

Free ==
  \/ WakeUp
  \/ \E p \in Poller : PollStep(p)
  \/ \E t \in Tab : TabStep(t)

\* The nodes and their addresses change by themselves, and everything that is
\* compared changes through handlers; an answer may be lost.
SomeWrite ==
  \/ \E field \in {"nodes", "addresses"} : Drift(field)
  \/ \E w \in Writer, part \in Part : Mutate(w, part)
  \/ \E w \in Writer : MutateUnanswered(w, "nodes")

MCNext ==
  \/ Free /\ UNCHANGED budget
  \/ budget > 0 /\ (SomeWrite \/ Fault) /\ budget' = budget - 1

MCSpec == MCInit /\ [][MCNext]_mcvars

\* Watcher.Run ticks for ever, a poll ends (its context has a timeout), and a
\* browser reconnects, reads its stream and fetches what it was told is stale.
MCFairSpec ==
  /\ MCSpec
  /\ WF_mcvars(WakeUp /\ UNCHANGED budget)
  /\ \A p \in Poller : WF_mcvars(PollStep(p) /\ UNCHANGED budget)
  /\ \A t \in Tab : WF_mcvars(TabStep(t) /\ UNCHANGED budget)
=============================================================================
