--------------------------- MODULE TailnetWatcher ---------------------------
(***************************************************************************)
(* The watcher that mirrors Headscale (internal/tailnet), the handlers that *)
(* change Headscale and refresh the mirror before they answer (finish,     *)
(* internal/api), and the browsers that are told over server-sent events   *)
(* that something changed and then read the mirror (internal/api/events.go, *)
(* ui/src/App.tsx).                                                        *)
(*                                                                         *)
(* What Headscale holds is three parts, each known by how often it changed, *)
(* and the addresses of the nodes: they come with the nodes, a page shows   *)
(* them and the rules depend on them (toDevice, policy.New), but no poll    *)
(* compares them.                                                           *)
(***************************************************************************)
EXTENDS Naturals

CONSTANTS
  Writer,     \* requests that change Headscale
  Tab,        \* browser tabs
  NoSnap,     \* before the first successful poll
  NoWrite,    \* a request that has changed nothing yet
  Loop,       \* the goroutine of Watcher.Run
  NoOne       \* nobody holds pollMu

ASSUME PollersAreDistinct == Loop \notin Writer /\ NoOne \notin Writer \union {Loop}

VARIABLES
  truth,      \* Headscale: the version of each part
  snap,       \* Watcher.snap
  failed,     \* Watcher.err # nil
  holder,     \* who holds pollMu
  poll,       \* what each poller is doing
  nudged,     \* Watcher.refresh, a channel of one
  request,    \* what each handler has changed
  tab         \* each tab: its stream, its channel and what it shows

watcherVars == <<snap, failed, holder, poll, nudged>>
vars == <<truth, watcherVars, request, tab>>

-----------------------------------------------------------------------------
Part == {"nodes", "users", "policy"}      \* read one after the other, and compared
Field == Part \union {"addresses"}
Version == [Field -> Nat]
Poller == Writer \union {Loop}

\* rules: what the policy engine of the snapshot was compiled from.
Snapshot == [rev : Nat \ {0}, parts : Version, rules : Version]

ASSUME SnapshotsExist == NoSnap \notin Snapshot \union Version

ASSUME WritesExist == NoWrite \notin [part : Part, version : Nat]

(* Snapshots are numbered from 1 (applyLocked), which is what lets a tab's  *)
(* empty channel be 0; a handler's write, a poll under way and what a tab   *)
(* shows stay well formed through restarts and failed polls.                *)
TypeOK ==
  /\ truth \in Version
  /\ snap \in Snapshot \union {NoSnap}
  /\ failed \in BOOLEAN
  /\ holder \in Poller \union {NoOne}
  /\ poll \in [Poller -> [pc : Part \union {"idle", "locking", "install", "broadcast"},
                          got : Version]]
  /\ nudged \in BOOLEAN
  /\ request \in [Writer -> [part : Part, version : Nat] \union {NoWrite}]
  /\ tab \in [Tab -> [pc : {"closed", "subscribed", "streaming"},
                      chan : Nat,                        \* 0: empty
                      stale : BOOLEAN,
                      fetched : Version \union {NoSnap},
                      view : Version \union {NoSnap}]]

-----------------------------------------------------------------------------
Nothing == [field \in Field |-> 0]
Resting == [pc |-> "idle", got |-> Nothing]
Closed(view) == [pc |-> "closed", chan |-> 0, stale |-> FALSE, fetched |-> NoSnap, view |-> view]

Init ==
  /\ truth = Nothing
  /\ snap = NoSnap
  /\ failed = FALSE
  /\ holder = NoOne
  /\ poll = [p \in Poller |-> Resting]
  /\ nudged = FALSE
  /\ request = [w \in Writer |-> NoWrite]
  /\ tab = [t \in Tab |-> Closed(NoSnap)]

-----------------------------------------------------------------------------
(* A poll: three reads of Headscale under pollMu, the installation under   *)
(* mu, and the broadcast of what changed, still under pollMu.              *)

\* A tick, or the nudge taken out of its channel.
WakeUp ==
  /\ poll[Loop].pc = "idle"
  /\ poll' = [poll EXCEPT ![Loop].pc = "locking"]
  /\ nudged' \in {nudged, FALSE}
  /\ UNCHANGED <<truth, snap, failed, holder, request, tab>>

Lock_Free(p) ==
  /\ poll[p].pc = "locking"
  /\ holder' = p
  /\ poll' = [poll EXCEPT ![p].pc = "nodes"]
  /\ UNCHANGED <<truth, snap, failed, nudged, request, tab>>

Lock(p) ==
  /\ poll[p].pc = "locking"
  /\ holder = NoOne
  /\ holder' = p
  /\ poll' = [poll EXCEPT ![p].pc = "nodes"]
  /\ UNCHANGED <<truth, snap, failed, nudged, request, tab>>

\* ListNodes, ListUsers, Policy.
ThenRead == [nodes |-> "users", users |-> "policy", policy |-> "install"]

\* The nodes come with their addresses.
Brings(part) == IF part = "nodes" THEN {"nodes", "addresses"} ELSE {part}

Reading(got, part) == [field \in Field |-> IF field \in Brings(part) THEN truth[field] ELSE got[field]]

Read(p) ==
  /\ poll[p].pc \in Part
  /\ LET part == poll[p].pc IN
       poll' = [poll EXCEPT ![p] = [pc |-> ThenRead[part], got |-> Reading(@.got, part)]]
  /\ UNCHANGED <<truth, snap, failed, holder, nudged, request, tab>>

ReadFails_Unreported(p) ==
  /\ poll[p].pc \in Part
  /\ holder' = NoOne
  /\ poll' = [poll EXCEPT ![p] = Resting]
  /\ UNCHANGED <<truth, snap, failed, nudged, request, tab>>

\* An error or the timeout: the previous snapshot keeps being served.
ReadFails(p) ==
  /\ poll[p].pc \in Part
  /\ failed' = TRUE
  /\ holder' = NoOne
  /\ poll' = [poll EXCEPT ![p] = Resting]
  /\ UNCHANGED <<truth, snap, nudged, request, tab>>

\* applyLocked: the names, tags, routes, people and text, but no address.
SameParts(one, other) == \A part \in Part : one[part] = other[part]

Changed(p) == snap = NoSnap \/ ~SameParts(snap.parts, poll[p].got)

\* What changed is told while the lock is held; otherwise the poll is over.
ThenTell(p, told) ==
  IF told
  THEN holder' = holder /\ poll' = [poll EXCEPT ![p].pc = "broadcast"]
  ELSE holder' = NoOne /\ poll' = [poll EXCEPT ![p] = Resting]

Install_Unnumbered(p) ==
  /\ poll[p].pc = "install"
  /\ snap' = [rev   |-> IF snap = NoSnap THEN 0 ELSE IF Changed(p) THEN snap.rev + 1 ELSE snap.rev,
              parts |-> poll[p].got,
              rules |-> IF Changed(p) THEN poll[p].got ELSE snap.rules]
  /\ failed' = FALSE
  /\ ThenTell(p, Changed(p))
  /\ UNCHANGED <<truth, nudged, request, tab>>

Install_Uncompiled(p) ==
  /\ poll[p].pc = "install"
  /\ snap' = [rev   |-> IF snap = NoSnap THEN 1 ELSE IF Changed(p) THEN snap.rev + 1 ELSE snap.rev,
              parts |-> poll[p].got,
              rules |-> IF snap = NoSnap \/ snap.parts.policy # poll[p].got.policy
                        THEN poll[p].got ELSE snap.rules]
  /\ failed' = FALSE
  /\ ThenTell(p, Changed(p))
  /\ UNCHANGED <<truth, nudged, request, tab>>

\* The engine of the snapshot before is kept when nothing compared changed.
Install(p) ==
  /\ poll[p].pc = "install"
  /\ snap' = [rev   |-> IF snap = NoSnap THEN 1 ELSE IF Changed(p) THEN snap.rev + 1 ELSE snap.rev,
              parts |-> poll[p].got,
              rules |-> IF Changed(p) THEN poll[p].got ELSE snap.rules]
  /\ failed' = FALSE
  /\ ThenTell(p, Changed(p))
  /\ UNCHANGED <<truth, nudged, request, tab>>

Listening(t) == tab[t].pc # "closed"

\* A full channel is left alone: nobody waits for a slow reader.
Broadcast(p) ==
  /\ poll[p].pc = "broadcast"
  /\ tab' = [t \in Tab |-> IF Listening(t) /\ tab[t].chan = 0
                           THEN [tab[t] EXCEPT !.chan = snap.rev] ELSE tab[t]]
  /\ holder' = NoOne
  /\ poll' = [poll EXCEPT ![p] = Resting]
  /\ UNCHANGED <<truth, snap, failed, nudged, request>>

-----------------------------------------------------------------------------
(* Headscale changes. *)

\* By itself, or by somebody else.
Drift(field) ==
  /\ truth' = [truth EXCEPT ![field] = @ + 1]
  /\ UNCHANGED <<watcherVars, request, tab>>

\* finish: polls now, and returns once that poll is over.
Refreshing_Skipped(w) ==
  [poll EXCEPT ![w].pc = IF holder = NoOne THEN "locking" ELSE "idle"]

Refreshing(w) == [poll EXCEPT ![w].pc = "locking"]

\* A handler that may start: it needs a snapshot to decide anything.
Ready(w) == snap # NoSnap /\ poll[w].pc = "idle"

Mutate(w, part) ==
  /\ Ready(w)
  /\ truth' = [truth EXCEPT ![part] = @ + 1]
  /\ request' = [request EXCEPT ![w] = [part |-> part, version |-> truth[part] + 1]]
  /\ poll' = Refreshing(w)
  /\ UNCHANGED <<snap, failed, holder, nudged, tab>>

\* Headscale did it and its answer was lost: no refresh.
MutateUnanswered(w, part) ==
  /\ Ready(w)
  /\ truth' = [truth EXCEPT ![part] = @ + 1]
  /\ request' = [request EXCEPT ![w] = NoWrite]
  /\ UNCHANGED <<watcherVars, tab>>

-----------------------------------------------------------------------------
(* Tabs. *)

OnTab(t, new) == tab' = [tab EXCEPT ![t] = new] /\ UNCHANGED <<truth, watcherVars, request>>

\* EventSource connects, and connects again when it loses its stream.
Connect(t) ==
  /\ tab[t].pc = "closed"
  /\ OnTab(t, [tab[t] EXCEPT !.pc = "subscribed", !.chan = 0])

\* An event makes what the tab shows stale, and a fetch on its way is dropped.
Told(t) == [tab[t] EXCEPT !.stale = TRUE, !.fetched = NoSnap]


\* The current state comes first, if there is one.
SendCurrent(t) ==
  /\ tab[t].pc = "subscribed"
  /\ OnTab(t, [IF snap = NoSnap THEN tab[t] ELSE Told(t) EXCEPT !.pc = "streaming"])

SendNext(t) ==
  /\ tab[t].pc = "streaming"
  /\ tab[t].chan # 0
  /\ OnTab(t, [Told(t) EXCEPT !.chan = 0])

Disconnect(t) ==
  /\ tab[t].pc # "closed"
  /\ OnTab(t, [tab[t] EXCEPT !.pc = "closed", !.chan = 0])

\* The query runs on the server ...
Fetch(t) ==
  /\ tab[t].stale
  /\ snap # NoSnap
  /\ OnTab(t, [tab[t] EXCEPT !.stale = FALSE, !.fetched = snap.parts])

\* ... or is refused, because nothing has been polled since the start ...
FetchRefused(t) ==
  /\ tab[t].stale
  /\ snap = NoSnap
  /\ OnTab(t, [tab[t] EXCEPT !.stale = FALSE])

\* ... and its answer reaches the screen.
Show(t) ==
  /\ tab[t].fetched # NoSnap
  /\ OnTab(t, [tab[t] EXCEPT !.view = tab[t].fetched, !.fetched = NoSnap])

\* Headboard restarts: requests and streams die, tabs keep what they show.
Restart ==
  /\ snap' = NoSnap
  /\ failed' = FALSE
  /\ holder' = NoOne
  /\ poll' = [p \in Poller |-> Resting]
  /\ nudged' = FALSE
  /\ request' = [w \in Writer |-> NoWrite]
  /\ tab' = [t \in Tab |-> [tab[t] EXCEPT !.pc = "closed", !.chan = 0]]
  /\ UNCHANGED truth

-----------------------------------------------------------------------------
PollStep(p) == Lock(p) \/ Read(p) \/ Install(p) \/ Broadcast(p)

TabStep(t) ==
  \/ Connect(t) \/ SendCurrent(t) \/ SendNext(t)
  \/ Fetch(t) \/ FetchRefused(t) \/ Show(t)

Fault ==
  \/ \E p \in Poller : ReadFails(p)
  \/ \E t \in Tab : Disconnect(t)
  \/ Restart

Write ==
  \/ \E field \in Field : Drift(field)
  \/ \E w \in Writer, part \in Part : Mutate(w, part) \/ MutateUnanswered(w, part)

Next ==
  \/ WakeUp
  \/ \E p \in Poller : PollStep(p)
  \/ \E t \in Tab : TabStep(t)
  \/ Write
  \/ Fault

Spec == Init /\ [][Next]_vars

-----------------------------------------------------------------------------
\* A handler that has answered, after a refresh.
Answered(w) == request[w] # NoWrite /\ poll[w].pc = "idle"

(* "so a write followed straight away by a read sees its own change"        *)
(* (Watcher.Refresh): once a handler has answered, the snapshot holds what  *)
(* it wrote, however its refresh interleaved with other polls, unless the   *)
(* last poll failed, which the connection status then says.                 *)
ReadsOwnWrite ==
  \A w \in Writer : Answered(w) /\ ~failed =>
    snap.parts[request[w].part] >= request[w].version

(* pollMu: "the background loop and a write's Refresh must not install      *)
(* snapshots out of order".  Within a process nothing in the snapshot goes  *)
(* back, and its number says exactly whether anything that is compared      *)
(* changed.                                                                 *)
SnapshotsMoveForward ==
  [][snap # NoSnap /\ snap' # NoSnap =>
       /\ \A field \in Field : snap'.parts[field] >= snap.parts[field]
       /\ snap'.rev = IF SameParts(snap'.parts, snap.parts) THEN snap.rev ELSE snap.rev + 1]_vars

(* The engine kept by "Reuse the compiled policy engine when nothing it     *)
(* reads changed" answers for the devices, people and text of the snapshot  *)
(* it is kept in, over any number of polls that keep it, whatever failed or *)
(* restarted in between (applyLocked).                                      *)
RulesFitTheSnapshot == snap # NoSnap => SameParts(snap.rules, snap.parts)

(* "a device list and the rules shown next to it always describe the same   *)
(* instant" (package tailnet): violated, because the engine is kept when an *)
(* address, which the list shows and the rules read, is all that changed.   *)
RulesOfTheInstant == snap # NoSnap => snap.rules = snap.parts


(* "sameNodes compares the fields a browser renders", so that a tab ends up *)
(* showing all that Headscale holds: violated, because a browser renders    *)
(* the addresses and sameNodes does not compare them.                       *)
EveryTabShowsAddresses == <>[](\A t \in Tab : tab[t].view = truth)

-----------------------------------------------------------------------------
Promise == INSTANCE TailnetMirror WITH
  Part     <- Field,
  mirror   <- IF snap = NoSnap THEN NoSnap ELSE snap.parts,
  waiting  <- [w \in Writer |-> poll[w].pc # "idle"],
  NoMirror <- NoSnap

(* "Refresh polls now and returns once the result is installed, so a write  *)
(* followed straight away by a read sees its own change", and "Current      *)
(* returns the latest snapshot, or the reason there is none" (Watcher):     *)
(* what the handlers see of the polls, the lock, the nudges and the         *)
(* failures is TailnetMirror, step by step.                                 *)
MirrorIsKept == Promise!Spec
=============================================================================
