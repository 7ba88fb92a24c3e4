---------------------------- MODULE TailnetMirror ----------------------------
(***************************************************************************)
(* What the watcher promises, without its polls, locks and channels: the   *)
(* handlers see a mirror of Headscale that lags behind, never goes back    *)
(* while the process lives, and holds what a handler wrote by the time the *)
(* handler answers, unless Headscale could not be read.                    *)
(***************************************************************************)
EXTENDS Naturals

CONSTANTS
  Part,       \* what Headscale holds
  Writer,     \* requests that change it
  NoMirror,   \* before the first successful read
  NoWrite     \* a request that has changed nothing yet

VARIABLES
  truth,      \* how often each part of Headscale changed
  mirror,     \* what the handlers are shown
  failed,     \* the last attempt to read Headscale failed
  request,    \* what each handler has changed
  waiting     \* the handlers that changed something and have not answered

mirrorVars == <<truth, mirror, failed, request, waiting>>

Init ==
  /\ truth = [part \in Part |-> 0]
  /\ mirror = NoMirror
  /\ failed = FALSE
  /\ request = [w \in Writer |-> NoWrite]
  /\ waiting = [w \in Writer |-> FALSE]

Changes(part) == truth' = [truth EXCEPT ![part] = @ + 1]

\* Headscale changes by itself.
Drift(part) ==
  /\ Changes(part)
  /\ UNCHANGED <<mirror, failed, request, waiting>>

Ready(w) == mirror # NoMirror /\ ~waiting[w]

Mutate(w, part) ==
  /\ Ready(w)
  /\ Changes(part)
  /\ request' = [request EXCEPT ![w] = [part |-> part, version |-> truth[part] + 1]]
  /\ waiting' = [waiting EXCEPT ![w] = TRUE]
  /\ UNCHANGED <<mirror, failed>>

MutateUnanswered(w, part) ==
  /\ Ready(w)
  /\ Changes(part)
  /\ request' = [request EXCEPT ![w] = NoWrite]
  /\ UNCHANGED <<mirror, failed, waiting>>

\* A mirror between the one before and Headscale as it is.
Between(m) ==
  /\ m \in [Part -> Nat]
  /\ \A part \in Part : /\ m[part] <= truth[part]
                        /\ mirror # NoMirror => mirror[part] <= m[part]

Holds(m, w) == request[w] # NoWrite => m[request[w].part] >= request[w].version

\* A poll succeeds: what handlers have answered is in it, whatever failed before.
Refresh ==
  /\ Between(mirror')
  /\ failed' = FALSE
  /\ \E done \in SUBSET Writer :
       /\ waiting' = [w \in Writer |-> waiting[w] /\ w \notin done]
       /\ \A w \in Writer : ~waiting'[w] => Holds(mirror', w)
  /\ UNCHANGED <<truth, request>>

\* A handler whose write is in the mirror answers.
Answer(w) ==
  /\ mirror # NoMirror /\ Holds(mirror, w)
  /\ waiting' = [waiting EXCEPT ![w] = FALSE]
  /\ UNCHANGED <<truth, mirror, failed, request>>

\* A poll fails, and a handler that waited for it answers all the same.
Fail ==
  /\ failed' = TRUE
  /\ \E done \in SUBSET Writer : waiting' = [w \in Writer |-> waiting[w] /\ w \notin done]
  /\ UNCHANGED <<truth, mirror, request>>

Restart ==
  /\ mirror' = NoMirror
  /\ failed' = FALSE
  /\ request' = [w \in Writer |-> NoWrite]
  /\ waiting' = [w \in Writer |-> FALSE]
  /\ UNCHANGED truth

Next ==
  \/ \E part \in Part : Drift(part) \/ \E w \in Writer : Mutate(w, part) \/ MutateUnanswered(w, part)
  \/ \E w \in Writer : Answer(w)
  \/ Refresh \/ Fail \/ Restart

Spec == Init /\ [][Next]_mirrorVars
=============================================================================
