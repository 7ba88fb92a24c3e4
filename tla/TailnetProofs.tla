---------------------------- MODULE TailnetProofs ----------------------------
(***************************************************************************)
(* For any number of handlers and tabs: a handler that has answered finds  *)
(* its write in the snapshot, and snapshots move forward only.  Then, for  *)
(* any number of admins over the watcher: the guard of a save sees every   *)
(* answered save, and refuses a save only when the policy changed.         *)
(***************************************************************************)
EXTENDS PolicyEdit, TLAPS

\* The poller is between its lock and its unlock.
Holding(p) == poll[p].pc \in Part \union {"install", "broadcast"}

AlreadyRead(pc) ==
  IF pc = "users" THEN {"nodes", "addresses"}
  ELSE IF pc = "policy" THEN {"nodes", "addresses", "users"}
  ELSE IF pc \in {"install", "broadcast"} THEN Field ELSE {}

\* pollMu, and only what is installed is broadcast.
Locked ==
  \A p \in Poller : /\ Holding(p) => holder = p
                    /\ poll[p].pc = "broadcast" => snap # NoSnap

\* The snapshot and what is on its way to it come from Headscale.
SnapIsPast == snap # NoSnap => \A field \in Field : snap.parts[field] <= truth[field]

WritesArePast ==
  \A w \in Writer : request[w] # NoWrite => request[w].version <= truth[request[w].part]

\* What a poll has read is not older than the snapshot it will replace, ...
ReadsAreNewer ==
  \A p \in Poller : \A field \in AlreadyRead(poll[p].pc) :
    /\ poll[p].got[field] <= truth[field]
    /\ snap # NoSnap => snap.parts[field] <= poll[p].got[field]

\* ... nor than any write answered so far, nor than the write it refreshes.
ReadsSeeWrites ==
  \A p \in Poller, w \in Writer :
    /\ request[w] # NoWrite
    /\ w = p \/ poll[w].pc = "idle"
    /\ request[w].part \in AlreadyRead(poll[p].pc)
    => request[w].version <= poll[p].got[request[w].part]

WritesAreSeen ==
  \A w \in Writer :
    /\ request[w] # NoWrite
    /\ poll[w].pc = "broadcast" \/ (poll[w].pc = "idle" /\ ~failed)
    => snap # NoSnap /\ snap.parts[request[w].part] >= request[w].version

IInv ==
  /\ TypeOK
  /\ RulesFitTheSnapshot
  /\ Locked
  /\ SnapIsPast
  /\ WritesArePast
  /\ ReadsAreNewer
  /\ ReadsSeeWrites
  /\ WritesAreSeen

Step(p) == PollStep(p) \/ ReadFails(p)

-----------------------------------------------------------------------------
\* Nothing has been polled or written at first.
LEMMA InitHolds == ASSUME Init PROVE IInv
<1>1. TypeOK
  BY DEF Init, TypeOK, Version, Poller, Resting, Nothing, Closed, Part
<1>2. /\ RulesFitTheSnapshot
      /\ Locked /\ SnapIsPast /\ WritesArePast
      /\ ReadsAreNewer /\ ReadsSeeWrites /\ WritesAreSeen
  BY DEF Init, RulesFitTheSnapshot, Locked, SnapIsPast, WritesArePast, ReadsAreNewer, ReadsSeeWrites,
         WritesAreSeen, Holding, AlreadyRead, Resting, Part
<1> QED
  BY <1>1, <1>2 DEF IInv

\* What is installed is a snapshot.
LEMMA InstallType ==
  ASSUME TypeOK, NEW p \in Poller, Install(p)
  PROVE  snap' \in Snapshot
<1> DEFINE rev == IF snap = NoSnap THEN 1 ELSE IF Changed(p) THEN snap.rev + 1 ELSE snap.rev
           rules == IF Changed(p) THEN poll[p].got ELSE snap.rules
<1>1. snap # NoSnap => snap.rev \in Nat \ {0} /\ snap.rules \in Version
  BY DEF TypeOK, Snapshot
<1>2. rev \in Nat \ {0}
  BY <1>1
<1>3. poll[p].got \in Version /\ rules \in Version
  BY <1>1 DEF TypeOK, Changed
<1>4. snap' = [rev |-> rev, parts |-> poll[p].got, rules |-> rules]
  BY DEF Install
<1> HIDE DEF rev, rules
<1> QED
  BY <1>2, <1>3, <1>4 DEF Snapshot

\* What one poller does keeps the types.
LEMMA PollType ==
  ASSUME TypeOK, Locked, NEW p \in Poller, Step(p)
  PROVE  TypeOK'
<1> DEFINE Polling == [pc : Part \union {"idle", "locking", "install", "broadcast"}, got : Version]
<1>1. ASSUME Lock(p) PROVE TypeOK'
  BY <1>1 DEF Lock, TypeOK, Part
<1>2. ASSUME Read(p) PROVE TypeOK'
  <2> DEFINE c == ThenRead[poll[p].pc]
             g == Reading(poll[p].got, poll[p].pc)
  <2>1. c \in Part \union {"install"}
    BY <1>2 DEF Read, ThenRead, Part
  <2>2. g \in Version
    BY <1>2 DEF Read, Reading, TypeOK, Version
  <2>3. poll' = [poll EXCEPT ![p] = [pc |-> c, got |-> g]]
    BY <1>2 DEF Read, TypeOK
  <2> HIDE DEF c, g
  <2>4. [pc |-> c, got |-> g] \in Polling
    BY <2>1, <2>2
  <2>5. poll' \in [Poller -> Polling]
    BY <2>3, <2>4 DEF TypeOK
  <2> QED
    BY <1>2, <2>5 DEF Read, TypeOK
<1>3. ASSUME ReadFails(p) PROVE TypeOK'
  BY <1>3 DEF ReadFails, TypeOK, Resting, Nothing, Version
<1>4. ASSUME Install(p) PROVE TypeOK'
  <2>1. snap' \in Snapshot
    BY <1>4, InstallType
  <2>2. poll \in [Poller -> Polling] /\ Resting \in Polling
    BY DEF TypeOK, Resting, Nothing, Version
  <2>3. poll' \in [Poller -> Polling]
    BY <1>4, <2>2 DEF Install, ThenTell
  <2> QED
    BY <1>4, <2>1, <2>3 DEF Install, ThenTell, TypeOK
<1>5. ASSUME Broadcast(p) PROVE TypeOK'
  <2>1. snap.rev \in Nat
    BY <1>5 DEF Broadcast, Locked, TypeOK, Snapshot
  <2>2. tab' \in [Tab -> [pc : {"closed", "subscribed", "streaming"}, chan : Nat,
                          stale : BOOLEAN, fetched : Version \union {NoSnap},
                          view : Version \union {NoSnap}]]
    <3> DEFINE ATab == [pc : {"closed", "subscribed", "streaming"}, chan : Nat, stale : BOOLEAN,
                        fetched : Version \union {NoSnap}, view : Version \union {NoSnap}]
    <3>1. tab \in [Tab -> ATab] /\ \A q \in ATab : [q EXCEPT !.chan = snap.rev] \in ATab
      BY <2>1 DEF TypeOK
    <3> HIDE DEF ATab
    <3>2. tab' \in [Tab -> ATab]
      BY <1>5, <3>1 DEF Broadcast
    <3> QED BY <3>2 DEF ATab
  <2>3. poll \in [Poller -> Polling] /\ Resting \in Polling
    BY DEF TypeOK, Resting, Nothing, Version
  <2>4. /\ truth' = truth /\ snap' = snap /\ failed' = failed /\ holder' = NoOne
        /\ nudged' = nudged /\ request' = request
    BY <1>5 DEF Broadcast
  <2> HIDE DEF Polling
  <2>5. poll' \in [Poller -> Polling]
    BY <1>5, <2>3 DEF Broadcast
  <2> QED
    BY <2>2, <2>4, <2>5 DEF TypeOK, Polling
<1> QED
  BY <1>1, <1>2, <1>3, <1>4, <1>5 DEF Step, PollStep

\* Headscale's changes keep the types.
LEMMA WriteType ==
  ASSUME TypeOK, Write
  PROVE  TypeOK'
<1>1. ASSUME NEW field \in Field, Drift(field) PROVE TypeOK'
  BY <1>1 DEF Drift, TypeOK, Version, watcherVars
<1>2. ASSUME NEW w \in Writer, NEW part \in Part, Mutate(w, part) PROVE TypeOK'
  <2>1. truth' \in Version /\ truth[part] + 1 \in Nat
    BY <1>2 DEF Mutate, TypeOK, Version, Field
  <2>2. request' \in [Writer -> [part : Part, version : Nat] \union {NoWrite}]
    BY <1>2, <2>1 DEF Mutate, TypeOK
  <2> QED
    BY <1>2, <2>1, <2>2 DEF Mutate, Refreshing, TypeOK, Poller
<1>3. ASSUME NEW w \in Writer, NEW part \in Part, MutateUnanswered(w, part) PROVE TypeOK'
  <2>1. truth' \in Version
    BY <1>3 DEF MutateUnanswered, TypeOK, Version, Field
  <2>2. request' \in [Writer -> [part : Part, version : Nat] \union {NoWrite}]
    BY <1>3 DEF MutateUnanswered, TypeOK
  <2> QED
    BY <1>3, <2>1, <2>2 DEF MutateUnanswered, TypeOK, watcherVars
<1> QED
  BY <1>1, <1>2, <1>3 DEF Write

\* Tabs and restarts keep the types.
LEMMA OtherType ==
  ASSUME TypeOK,
         WakeUp \/ Restart \/ \E t \in Tab : TabStep(t) \/ Disconnect(t)
  PROVE  TypeOK'
<1> DEFINE ATab == [pc : {"closed", "subscribed", "streaming"}, chan : Nat, stale : BOOLEAN,
                    fetched : Version \union {NoSnap}, view : Version \union {NoSnap}]
<1> DEFINE APoll == [pc : Part \union {"idle", "locking", "install", "broadcast"}, got : Version]
<1>0. /\ Loop \in Poller
      /\ \A q \in APoll : [q EXCEPT !.pc = "locking"] \in APoll
  BY DEF Poller
<1>1. CASE WakeUp
  <2>1. poll \in [Poller -> APoll] /\ poll' = [poll EXCEPT ![Loop].pc = "locking"]
    BY <1>1 DEF WakeUp, TypeOK
  <2>2. poll[Loop] \in APoll /\ poll' = [poll EXCEPT ![Loop] = [poll[Loop] EXCEPT !.pc = "locking"]]
    BY <1>0, <2>1
  <2> HIDE DEF APoll
  <2>3. poll' \in [Poller -> APoll]
    BY <1>0, <2>1, <2>2
  <2>4. nudged' \in BOOLEAN
    BY <1>1 DEF WakeUp, TypeOK
  <2>5. UNCHANGED <<truth, snap, failed, holder, request, tab>>
    BY <1>1 DEF WakeUp
  <2> QED BY <2>3, <2>4, <2>5 DEF TypeOK, APoll
<1>2. CASE Restart
  <2>1. poll' \in [Poller -> APoll]
    BY <1>2 DEF Restart, Resting, Nothing, Version
  <2>2. tab' \in [Tab -> ATab]
    <3>1. ASSUME NEW t \in Tab PROVE [tab[t] EXCEPT !.pc = "closed", !.chan = 0] \in ATab
      BY DEF TypeOK
    <3> HIDE DEF ATab
    <3> QED BY <1>2, <3>1 DEF Restart
  <2>3. /\ request' \in [Writer -> [part : Part, version : Nat] \union {NoWrite}]
        /\ snap' = NoSnap /\ failed' = FALSE /\ holder' = NoOne /\ nudged' = FALSE /\ truth' = truth
    BY <1>2 DEF Restart
  <2> QED BY <2>1, <2>2, <2>3 DEF TypeOK
<1>3. ASSUME NEW t \in Tab, NEW new \in ATab, OnTab(t, new) PROVE TypeOK'
  BY <1>3 DEF OnTab, TypeOK, watcherVars
<1>4. ASSUME NEW t \in Tab, TabStep(t) \/ Disconnect(t)
      PROVE  \E new \in ATab : OnTab(t, new)
  <2>1. tab[t] \in ATab /\ Told(t) \in ATab
    BY DEF Told, TypeOK
  <2>2. snap # NoSnap => snap.parts \in Version
    BY DEF TypeOK, Snapshot
  <2> QED
    BY <1>4, <2>1, <2>2 DEF TabStep, Connect, SendCurrent, SendNext, Disconnect, Fetch,
                          FetchRefused, Show
<1> QED
  BY <1>1, <1>2, <1>3, <1>4

-----------------------------------------------------------------------------
(* The lock, the snapshot and what is read keep their order.               *)

Order == Locked /\ SnapIsPast /\ WritesArePast /\ ReadsAreNewer /\ ReadsSeeWrites /\ WritesAreSeen

\* A poller takes the lock with nothing read.
LEMMA LockKeeps ==
  ASSUME IInv, NEW p \in Poller, Lock(p)
  PROVE  Order'
<1>1. /\ poll[p].pc = "locking" /\ poll'[p].pc = "nodes" /\ holder = NoOne /\ holder' = p
      /\ \A q \in Poller : q # p => poll'[q] = poll[q]
      /\ UNCHANGED <<truth, snap, failed, request>>
  BY DEF Lock, IInv, TypeOK
<1>2. \A q \in Poller : ~Holding(q)
  BY <1>1, PollersAreDistinct DEF IInv, Locked, Poller
<1>3. Locked'
  BY <1>1, <1>2 DEF IInv, Locked, Holding
<1>4. SnapIsPast' /\ WritesArePast'
  BY <1>1 DEF IInv, SnapIsPast, WritesArePast
<1>5. \A q \in Poller : AlreadyRead(poll'[q].pc) = {}
  BY <1>1, <1>2 DEF AlreadyRead, Holding, Part
<1>6. ReadsAreNewer' /\ ReadsSeeWrites'
  BY <1>5 DEF ReadsAreNewer, ReadsSeeWrites
<1>7. WritesAreSeen'
  BY <1>1 DEF IInv, WritesAreSeen, Poller
<1> QED
  BY <1>3, <1>4, <1>6, <1>7 DEF Order

\* A read is as new as anything written so far.
LEMMA ReadKeeps ==
  ASSUME IInv, NEW p \in Poller, Read(p)
  PROVE  Order'
<1> DEFINE part == poll[p].pc
<1>1. /\ part \in Part
      /\ poll'[p].pc = ThenRead[part]
      /\ poll'[p].got = Reading(poll[p].got, part)
      /\ \A q \in Poller : q # p => poll'[q] = poll[q]
      /\ UNCHANGED <<truth, snap, failed, holder, request>>
  BY DEF Read, IInv, TypeOK
<1>2. \A q \in Poller : q # p => ~Holding(q)
  BY <1>1 DEF IInv, Locked, Holding
<1>3. Locked'
  BY <1>1, <1>2 DEF IInv, Locked, Holding, ThenRead, Part
<1>4. SnapIsPast' /\ WritesArePast'
  BY <1>1 DEF IInv, SnapIsPast, WritesArePast
<1>5. /\ AlreadyRead(poll'[p].pc) = AlreadyRead(part) \union Brings(part)
      /\ \A r \in AlreadyRead(part) : r \in Field /\ r \notin Brings(part)
      /\ Brings(part) \subseteq Field
  BY <1>1 DEF AlreadyRead, ThenRead, Part, Field, Brings
<1>6. /\ \A r \in Brings(part) : poll'[p].got[r] = truth[r]
      /\ \A r \in AlreadyRead(part) : poll'[p].got[r] = poll[p].got[r]
  BY <1>1, <1>5 DEF Reading
<1>7. \A q \in Poller : q # p => AlreadyRead(poll'[q].pc) = {}
  BY <1>1, <1>2 DEF AlreadyRead, Holding, Part
<1>8. ReadsAreNewer'
  <2> SUFFICES ASSUME NEW r \in AlreadyRead(poll'[p].pc)
               PROVE  /\ poll'[p].got[r] <= truth[r]
                      /\ snap # NoSnap => snap.parts[r] <= poll'[p].got[r]
    BY <1>1, <1>7 DEF ReadsAreNewer
  <2>1. CASE r \in Brings(part)
    BY <2>1, <1>1, <1>5, <1>6 DEF IInv, TypeOK, SnapIsPast, Version
  <2>2. CASE r \in AlreadyRead(part)
    BY <2>2, <1>1, <1>6 DEF IInv, ReadsAreNewer
  <2> QED
    BY <1>5, <2>1, <2>2
<1>9. ReadsSeeWrites'
  <2> SUFFICES ASSUME NEW w \in Writer, request[w] # NoWrite,
                      w = p \/ poll'[w].pc = "idle",
                      request[w].part \in AlreadyRead(poll'[p].pc)
               PROVE  request[w].version <= poll'[p].got[request[w].part]
    BY <1>1, <1>7 DEF ReadsSeeWrites
  <2>1. CASE request[w].part \in Brings(part)
    BY <2>1, <1>6 DEF IInv, WritesArePast
  <2>2. CASE request[w].part \in AlreadyRead(part)
    <3>1. w = p \/ poll[w].pc = "idle"
      BY <1>1 DEF Poller
    <3> QED
      BY <2>2, <3>1, <1>6 DEF IInv, ReadsSeeWrites
  <2> QED
    BY <1>5, <2>1, <2>2
<1>10. WritesAreSeen'
  <2>1. poll'[p].pc \notin {"idle", "broadcast"}
    BY <1>1 DEF ThenRead, Part
  <2> QED
    BY <1>1, <2>1 DEF IInv, WritesAreSeen, Poller
<1> QED
  BY <1>3, <1>4, <1>8, <1>9, <1>10 DEF Order

\* A poll that fails leaves the snapshot, and says so.
LEMMA ReadFailsKeeps ==
  ASSUME IInv, NEW p \in Poller, ReadFails(p)
  PROVE  Order'
<1>1. /\ Holding(p)
      /\ poll'[p] = Resting
      /\ failed'
      /\ \A q \in Poller : q # p => poll'[q] = poll[q]
      /\ UNCHANGED <<truth, snap, request>>
  BY DEF ReadFails, Holding, IInv, TypeOK
<1>2. \A q \in Poller : ~Holding(q)' /\ AlreadyRead(poll'[q].pc) = {}
  BY <1>1 DEF IInv, Locked, Holding, Resting, AlreadyRead, Part
<1>3. Locked' /\ ReadsAreNewer' /\ ReadsSeeWrites'
  BY <1>2 DEF Locked, ReadsAreNewer, ReadsSeeWrites, Holding
<1>4. SnapIsPast' /\ WritesArePast'
  BY <1>1 DEF IInv, SnapIsPast, WritesArePast
<1>5. WritesAreSeen'
  BY <1>1, <1>2 DEF WritesAreSeen, Holding, Poller
<1> QED
  BY <1>3, <1>4, <1>5 DEF Order

\* What is installed is what was read: not older than the snapshot it
\* replaces, and not older than any write that has been answered.
LEMMA InstallKeeps ==
  ASSUME IInv, NEW p \in Poller, Install(p)
  PROVE  Order'
<1>1. /\ poll[p].pc = "install"
      /\ snap' # NoSnap /\ snap'.parts = poll[p].got
      /\ \/ poll'[p].pc = "broadcast" /\ poll'[p].got = poll[p].got /\ holder' = holder
         \/ poll'[p] = Resting
      /\ \A q \in Poller : q # p => poll'[q] = poll[q]
      /\ UNCHANGED <<truth, request>>
  <2>1. snap' # NoSnap
    <3>1. snap' \in Snapshot
      BY InstallType DEF IInv
    <3> QED
      BY <3>1, SnapshotsExist
  <2> QED
    BY <2>1 DEF Install, ThenTell, IInv, TypeOK
<1>2. \A q \in Poller : q # p => ~Holding(q)
  BY <1>1 DEF IInv, Locked, Holding
<1>3. Locked'
  BY <1>1, <1>2 DEF IInv, Locked, Holding, Resting, Part
<1>4. AlreadyRead("install") = Field /\ AlreadyRead("broadcast") = Field
  BY DEF AlreadyRead
<1>5. SnapIsPast' /\ WritesArePast'
  BY <1>1, <1>4 DEF IInv, SnapIsPast, WritesArePast, ReadsAreNewer
<1>6. \A q \in Poller : q # p \/ poll'[p] = Resting => AlreadyRead(poll'[q].pc) = {} \/ q = p
  BY <1>1, <1>2 DEF AlreadyRead, Holding, Part
<1>7. poll'[p] = Resting => AlreadyRead(poll'[p].pc) = {}
  BY DEF AlreadyRead, Resting, Part
<1>8. ReadsAreNewer'
  <2> SUFFICES ASSUME NEW r \in AlreadyRead(poll'[p].pc), poll'[p].got = poll[p].got
               PROVE  /\ poll[p].got[r] <= truth[r]
                      /\ snap'.parts[r] <= poll[p].got[r]
    BY <1>1, <1>6, <1>7 DEF ReadsAreNewer
  <2>1. r \in Field
    BY DEF AlreadyRead, Field, Part
  <2> QED
    BY <1>1, <1>4, <2>1 DEF IInv, ReadsAreNewer, TypeOK, Version
<1>9. \A w \in Writer : request[w] # NoWrite => request[w].part \in Field
  BY DEF IInv, TypeOK, Field
<1>10. ReadsSeeWrites'
  <2> SUFFICES ASSUME NEW w \in Writer, request[w] # NoWrite,
                      w = p \/ poll'[w].pc = "idle",
                      poll'[p].pc = "broadcast", poll'[p].got = poll[p].got
               PROVE  request[w].version <= poll[p].got[request[w].part]
    BY <1>1, <1>6, <1>7 DEF ReadsSeeWrites
  <2>1. w = p \/ poll[w].pc = "idle"
    BY <1>1 DEF Poller
  <2> QED
    BY <1>1, <1>4, <1>9, <2>1 DEF IInv, ReadsSeeWrites
<1>11. WritesAreSeen'
  <2> SUFFICES ASSUME NEW w \in Writer, request[w] # NoWrite,
                      poll'[w].pc \in {"idle", "broadcast"}
               PROVE  request[w].version <= poll[p].got[request[w].part]
    BY <1>1, <1>9 DEF WritesAreSeen, IInv, TypeOK, Version
  <2>1. w = p \/ poll[w].pc = "idle"
    BY <1>1, <1>2 DEF Poller, Holding
  <2> QED
    BY <1>1, <1>4, <1>9, <2>1 DEF IInv, ReadsSeeWrites
<1> QED
  BY <1>3, <1>5, <1>8, <1>10, <1>11 DEF Order

\* The broadcast ends the poll, and what it refreshed is in the snapshot.
LEMMA BroadcastKeeps ==
  ASSUME IInv, NEW p \in Poller, Broadcast(p)
  PROVE  Order'
<1>1. /\ poll[p].pc = "broadcast"
      /\ poll'[p] = Resting
      /\ \A q \in Poller : q # p => poll'[q] = poll[q]
      /\ UNCHANGED <<truth, snap, failed, request>>
  BY DEF Broadcast, IInv, TypeOK
<1>2. \A q \in Poller : ~Holding(q)' /\ AlreadyRead(poll'[q].pc) = {}
  BY <1>1 DEF IInv, Locked, Holding, Resting, AlreadyRead, Part
<1>3. Locked' /\ ReadsAreNewer' /\ ReadsSeeWrites'
  BY <1>2 DEF Locked, ReadsAreNewer, ReadsSeeWrites, Holding
<1>4. SnapIsPast' /\ WritesArePast'
  BY <1>1 DEF IInv, SnapIsPast, WritesArePast
<1>5. WritesAreSeen'
  BY <1>1 DEF IInv, WritesAreSeen, Resting, Poller
<1> QED
  BY <1>3, <1>4, <1>5 DEF Order

\* A step that leaves the watcher alone, while Headscale moves forward and
\* handlers forget what they wrote, keeps the order.
LEMMA Forward ==
  ASSUME IInv,
         \A r \in Field : truth[r] <= truth'[r] /\ truth'[r] \in Nat,
         \A v \in Writer : request'[v] # NoWrite => request'[v] = request[v],
         UNCHANGED <<snap, failed, holder, poll>>
  PROVE  Order'
<1>1. Locked'
  BY DEF IInv, Locked, Holding
<1>2. SnapIsPast' /\ WritesArePast'
  BY DEF IInv, SnapIsPast, WritesArePast, TypeOK, Snapshot, Version, Field
<1>3. ReadsAreNewer'
  <2> SUFFICES ASSUME NEW q \in Poller, NEW r \in AlreadyRead(poll[q].pc)
               PROVE  /\ poll[q].got[r] <= truth'[r]
                      /\ snap # NoSnap => snap.parts[r] <= poll[q].got[r]
    BY DEF ReadsAreNewer
  <2>1. r \in Field
    BY DEF AlreadyRead, Field, Part
  <2> QED
    BY <2>1 DEF IInv, ReadsAreNewer, TypeOK, Version
<1>4. ReadsSeeWrites' /\ WritesAreSeen'
  BY DEF IInv, ReadsSeeWrites, WritesAreSeen
<1> QED
  BY <1>1, <1>2, <1>3, <1>4 DEF Order

\* A step that leaves all of it alone keeps the order.
LEMMA Unmoved ==
  ASSUME IInv, UNCHANGED <<truth, snap, failed, holder, poll, request>>
  PROVE  Order'
<1>1. \A r \in Field : truth[r] <= truth'[r] /\ truth'[r] \in Nat
  BY DEF IInv, TypeOK, Version
<1> QED
  BY <1>1, Forward

\* Headscale only moves forward, and the handler that moved it has yet to poll.
LEMMA WriteKeeps ==
  ASSUME IInv, Write
  PROVE  Order'
<1>1. ASSUME NEW field \in Field, Drift(field) PROVE Order'
  <2>1. /\ \A r \in Field : truth[r] <= truth'[r] /\ truth'[r] \in Nat
        /\ UNCHANGED <<snap, failed, holder, poll, request>>
    BY <1>1 DEF Drift, watcherVars, IInv, TypeOK, Version
  <2> QED
    BY <2>1, Forward
<1>2. ASSUME NEW w \in Writer, NEW part \in Part, Mutate(w, part) PROVE Order'
  <2>1. /\ poll[w].pc = "idle" /\ poll'[w].pc = "locking"
        /\ \A q \in Poller : q # w => poll'[q] = poll[q]
        /\ request'[w] = [part |-> part, version |-> truth'[part]]
        /\ \A v \in Writer : v # w => request'[v] = request[v]
        /\ \A r \in Field : truth[r] <= truth'[r] /\ truth'[r] \in Nat
        /\ UNCHANGED <<snap, failed, holder>>
    BY <1>2 DEF Mutate, Ready, Refreshing, IInv, TypeOK, Version, Field, Poller
  <2>2. \A q \in Poller : AlreadyRead(poll'[q].pc) # {} => q # w
    BY <2>1 DEF AlreadyRead, Part
  <2>3. Locked' /\ SnapIsPast'
    BY <2>1 DEF IInv, Locked, Holding, Part, SnapIsPast, TypeOK, Snapshot, Version
  <2>4. WritesArePast'
    BY <2>1 DEF IInv, WritesArePast, TypeOK, Version, Field
  <2>5. ReadsAreNewer'
    <3> SUFFICES ASSUME NEW q \in Poller, NEW r \in AlreadyRead(poll'[q].pc)
                 PROVE  /\ poll'[q].got[r] <= truth'[r]
                        /\ snap # NoSnap => snap.parts[r] <= poll'[q].got[r]
      BY <2>1 DEF ReadsAreNewer
    <3>1. r \in Field /\ poll'[q] = poll[q]
      BY <2>1, <2>2 DEF AlreadyRead, Field, Part
    <3> QED
      BY <2>1, <3>1 DEF IInv, ReadsAreNewer, TypeOK, Version
  <2>6. ReadsSeeWrites'
    BY <2>1, <2>2 DEF IInv, ReadsSeeWrites, Poller
  <2>7. WritesAreSeen'
    BY <2>1 DEF IInv, WritesAreSeen, Poller
  <2> QED
    BY <2>3, <2>4, <2>5, <2>6, <2>7 DEF Order
<1>3. ASSUME NEW w \in Writer, NEW part \in Part, MutateUnanswered(w, part) PROVE Order'
  <2>1. /\ \A r \in Field : truth[r] <= truth'[r] /\ truth'[r] \in Nat
        /\ \A v \in Writer : request'[v] # NoWrite => request'[v] = request[v]
        /\ UNCHANGED <<snap, failed, holder, poll>>
    BY <1>3 DEF MutateUnanswered, watcherVars, IInv, TypeOK, Version
  <2> QED
    BY <2>1, Forward
<1> QED
  BY <1>1, <1>2, <1>3 DEF Write

\* A tick, a tab or a restart moves nothing the order speaks of.
LEMMA OtherKeeps ==
  ASSUME IInv, WakeUp \/ Restart \/ \E t \in Tab : TabStep(t) \/ Disconnect(t)
  PROVE  Order'
<1>1. CASE WakeUp
  <2>1. /\ poll[Loop].pc = "idle" /\ poll'[Loop].pc = "locking"
        /\ \A q \in Poller : q # Loop => poll'[q] = poll[q]
        /\ UNCHANGED <<truth, snap, failed, holder, request>>
    BY <1>1 DEF WakeUp, IInv, TypeOK, Poller
  <2>2. AlreadyRead("locking") = {}
    BY DEF AlreadyRead, Part
  <2>3. Locked'
    BY <2>1 DEF IInv, Locked, Holding, Part
  <2>4. SnapIsPast' /\ WritesArePast'
    BY <2>1 DEF IInv, SnapIsPast, WritesArePast
  <2>5. ReadsAreNewer'
    BY <2>1, <2>2 DEF IInv, ReadsAreNewer
  <2>6. ReadsSeeWrites'
    BY <2>1, <2>2, PollersAreDistinct DEF IInv, ReadsSeeWrites, Poller
  <2>7. WritesAreSeen'
    BY <2>1, PollersAreDistinct DEF IInv, WritesAreSeen, Poller
  <2> QED
    BY <2>3, <2>4, <2>5, <2>6, <2>7 DEF Order
<1>2. CASE Restart
  BY <1>2 DEF Restart, Order, Locked, SnapIsPast, WritesArePast, ReadsAreNewer, ReadsSeeWrites,
              WritesAreSeen, Holding, AlreadyRead, Resting, Part
<1>3. ASSUME NEW t \in Tab, TabStep(t) \/ Disconnect(t) PROVE Order'
  <2>1. UNCHANGED <<truth, snap, failed, holder, poll, request>>
    BY <1>3 DEF TabStep, Connect, SendCurrent, SendNext, Fetch, FetchRefused, Show, Disconnect, OnTab,
                watcherVars
  <2> QED
    BY <2>1, Unmoved
<1> QED
  BY <1>1, <1>2, <1>3

-----------------------------------------------------------------------------
\* The engine is compiled again whenever something that is compared changed.
LEMMA RulesFit ==
  ASSUME IInv, \/ \E p \in Poller : Step(p)
               \/ Write \/ WakeUp \/ Restart
               \/ \E t \in Tab : TabStep(t) \/ Disconnect(t)
               \/ UNCHANGED vars
  PROVE  RulesFitTheSnapshot'
<1>1. ASSUME NEW p \in Poller, Install(p) PROVE RulesFitTheSnapshot'
  <2>1. snap'.parts = poll[p].got /\ snap'.rules = IF Changed(p) THEN poll[p].got ELSE snap.rules
    BY <1>1 DEF Install
  <2>2. ~Changed(p) => SameParts(snap.rules, snap.parts) /\ SameParts(snap.parts, poll[p].got)
    BY DEF Changed, IInv, RulesFitTheSnapshot
  <2> QED
    BY <2>1, <2>2 DEF RulesFitTheSnapshot, SameParts
<1>2. CASE snap' = snap \/ snap' = NoSnap
  BY <1>2 DEF IInv, RulesFitTheSnapshot
<1> QED
  BY <1>1, <1>2 DEF Step, WakeUp, PollStep, Lock, Read, ReadFails, Broadcast, TabStep, Connect,
         SendCurrent, SendNext, Fetch, FetchRefused, Show, Disconnect, OnTab, Write, Drift, Mutate,
         MutateUnanswered, Restart, vars, watcherVars

\* Every step keeps the types, the lock and the order of reads and writes.
LEMMA StepKeeps ==
  ASSUME IInv, [Next]_vars
  PROVE  IInv'
<1>1. CASE \E p \in Poller : Step(p)
  <2>1. PICK p \in Poller : Step(p)
    BY <1>1
  <2>2. TypeOK'
    BY <2>1, PollType DEF IInv
  <2>3. Order'
    BY <2>1, LockKeeps, ReadKeeps, ReadFailsKeeps, InstallKeeps, BroadcastKeeps
       DEF Step, PollStep
  <2>4. RulesFitTheSnapshot'
    BY <2>1, RulesFit
  <2> QED
    BY <2>2, <2>3, <2>4 DEF IInv, Order
<1>2. CASE Write
  BY <1>2, WriteType, WriteKeeps, RulesFit DEF IInv, Order
<1>3. CASE WakeUp \/ Restart \/ \E t \in Tab : TabStep(t) \/ Disconnect(t)
  BY <1>3, OtherType, OtherKeeps, RulesFit DEF IInv, Order
<1>4. CASE UNCHANGED vars
  <2>1. UNCHANGED <<truth, snap, failed, holder, poll, request>> /\ UNCHANGED <<nudged, tab>>
    BY <1>4 DEF vars, watcherVars
  <2>2. TypeOK'
    BY <2>1 DEF IInv, TypeOK
  <2> QED
    BY <1>4, <2>1, <2>2, Unmoved, RulesFit DEF IInv, Order
<1> QED
  BY <1>1, <1>2, <1>3, <1>4 DEF Next, Step, Fault

(* The types, the lock and the order of reads and writes hold in every     *)
(* behaviour of any size.                                                  *)
THEOREM Invariance == Spec => []IInv
<1>1. Init => IInv
  BY InitHolds
<1>2. IInv /\ [Next]_vars => IInv'
  BY StepKeeps
<1> QED
  BY <1>1, <1>2, PTL DEF Spec

(* A handler that has answered finds its write in the snapshot, unless the *)
(* last poll failed (finish, Watcher.Refresh).                             *)
THEOREM WritesAreRead == Spec => []ReadsOwnWrite
<1>1. IInv => ReadsOwnWrite
  BY DEF IInv, WritesAreSeen, ReadsOwnWrite, Answered, TypeOK, Snapshot, Version
<1> QED
  BY <1>1, Invariance, PTL

(* The engine of the snapshot was compiled from the devices, people and    *)
(* text the snapshot shows, through any number of polls that kept it        *)
(* (applyLocked).                                                           *)
THEOREM RulesAreCurrent == Spec => []RulesFitTheSnapshot
<1>1. IInv => RulesFitTheSnapshot
  BY DEF IInv
<1> QED
  BY <1>1, Invariance, PTL

(* Within a process nothing in the snapshot goes back, and its number counts *)
(* the changes of what is compared (pollMu, applyLocked).                   *)
THEOREM Forwards == Spec => SnapshotsMoveForward
<1> DEFINE Moves ==
      snap # NoSnap /\ snap' # NoSnap =>
        /\ \A field \in Field : snap'.parts[field] >= snap.parts[field]
        /\ snap'.rev = IF SameParts(snap'.parts, snap.parts) THEN snap.rev ELSE snap.rev + 1
<1>1. IInv /\ [Next]_vars => Moves
  <2> SUFFICES ASSUME IInv, [Next]_vars, snap # NoSnap, snap' # NoSnap PROVE Moves
    OBVIOUS
  <2>1. snap \in Snapshot
    BY DEF IInv, TypeOK
  <2>2. CASE snap' = snap
    BY <2>1, <2>2 DEF Snapshot, Version, SameParts
  <2>3. ASSUME NEW p \in Poller, Install(p) PROVE Moves
    <3>1. AlreadyRead(poll[p].pc) = Field
      BY <2>3 DEF Install, AlreadyRead
    <3>2. \A field \in Field : snap.parts[field] <= poll[p].got[field]
      BY <3>1 DEF IInv, ReadsAreNewer
    <3>3. /\ snap'.parts = poll[p].got
          /\ snap'.rev = IF SameParts(snap.parts, poll[p].got) THEN snap.rev ELSE snap.rev + 1
      BY <2>3 DEF Install, Changed
    <3>4. SameParts(snap.parts, poll[p].got) <=> SameParts(snap'.parts, snap.parts)
      BY <3>3 DEF SameParts
    <3> QED
      BY <2>1, <3>2, <3>3, <3>4 DEF IInv, TypeOK, Snapshot, Version
  <2>4. snap' = snap \/ \E p \in Poller : Install(p)
    BY DEF Next, WakeUp, PollStep, Lock, Read, ReadFails, Broadcast, TabStep, Connect,
           SendCurrent, SendNext, Fetch, FetchRefused, Show, Disconnect, OnTab, Write, Drift, Mutate,
           MutateUnanswered, Fault, Restart, vars, watcherVars
  <2> QED
    BY <2>2, <2>3, <2>4
<1>2. IInv /\ [Next]_vars => [Moves]_vars
  BY <1>1
<1> QED
  BY <1>2, Invariance, PTL DEF Spec, SnapshotsMoveForward

-----------------------------------------------------------------------------
(* The watcher implements TailnetMirror.                                    *)

\* What the mirror shows, and who has not answered.
Shown == IF snap = NoSnap THEN NoSnap ELSE snap.parts
Waiting == [w \in Writer |-> poll[w].pc # "idle"]

\* A step that changes neither is a stutter.
LEMMA Stutters ==
  ASSUME UNCHANGED <<truth, snap, failed, request>>,
         \A w \in Writer : (poll[w].pc = "idle") <=> (poll'[w].pc = "idle")
  PROVE  UNCHANGED Promise!mirrorVars
<1>1. Waiting' = Waiting
  BY DEF Waiting
<1> QED
  BY <1>1 DEF Promise!mirrorVars, Waiting

\* What a poll that ends does to those who wait: its own handler answers.
LEMMA Finishes ==
  ASSUME NEW p \in Poller, TypeOK, poll' = [poll EXCEPT ![p] = Resting]
  PROVE  \E done \in SUBSET Writer :
           Waiting' = [w \in Writer |-> Waiting[w] /\ w \notin done]
<1>1. \A w \in Writer : Waiting'[w] = (Waiting[w] /\ w \notin {p} \cap Writer)
  BY DEF Waiting, Resting, TypeOK, Poller
<1>2. Waiting' = [w \in Writer |-> Waiting[w] /\ w \notin {p} \cap Writer]
  BY <1>1 DEF Waiting
<1> QED
  BY <1>2

\* An installed snapshot is a refreshed mirror.
LEMMA InstallRefreshes ==
  ASSUME IInv, IInv', NEW p \in Poller, Install(p)
  PROVE  Promise!Refresh
<1>1. /\ snap' # NoSnap /\ snap'.parts = poll[p].got
      /\ failed' = FALSE
      /\ UNCHANGED <<truth, request>>
  <2>1. snap' \in Snapshot
    BY InstallType DEF IInv
  <2>2. snap' # NoSnap
    BY <2>1, SnapshotsExist
  <2> QED
    BY <2>2 DEF Install
<1>2. \A field \in Field : /\ poll[p].got[field] <= truth[field]
                           /\ snap # NoSnap => snap.parts[field] <= poll[p].got[field]
  <2>1. AlreadyRead(poll[p].pc) = Field
    BY DEF Install, AlreadyRead
  <2> QED
    BY <2>1 DEF IInv, ReadsAreNewer
<1>3. Shown' = poll[p].got /\ Shown' \in [Field -> Nat]
  BY <1>1 DEF Shown, IInv, TypeOK, Version
<1>4. Promise!Between(Shown')
  BY <1>2, <1>3, SnapshotsExist DEF Promise!Between, Shown, IInv, TypeOK, Snapshot
<1>5. \E done \in SUBSET Writer : Waiting' = [w \in Writer |-> Waiting[w] /\ w \notin done]
  <2>1. CASE poll' = [poll EXCEPT ![p] = Resting]
    BY <2>1, Finishes DEF IInv
  <2>2. CASE poll' = [poll EXCEPT ![p].pc = "broadcast"]
    <3>1. \A w \in Writer : poll'[w].pc # "idle" <=> poll[w].pc # "idle"
      BY <2>2 DEF Install, IInv, TypeOK, Poller
    <3>2. \A w \in Writer : Waiting'[w] = (Waiting[w] /\ w \notin {})
      BY <3>1 DEF Waiting
    <3>3. Waiting' = [w \in Writer |-> Waiting[w] /\ w \notin {}]
      BY <3>2 DEF Waiting
    <3>4. {} \in SUBSET Writer
      OBVIOUS
    <3> QED
      BY <3>3, <3>4
  <2> QED
    BY <2>1, <2>2 DEF Install, ThenTell
<1>6. ASSUME NEW w \in Writer, ~Waiting'[w] PROVE Promise!Holds(Shown', w)
  BY <1>1, <1>3, <1>6 DEF IInv, WritesAreSeen, Waiting, Promise!Holds
<1>7. \E done \in SUBSET Writer :
        /\ Waiting' = [w \in Writer |-> Waiting[w] /\ w \notin done]
        /\ \A w \in Writer : ~Waiting'[w] => Promise!Holds(Shown', w)
  BY <1>5, <1>6
<1> QED
  BY <1>1, <1>4, <1>7 DEF Promise!Refresh, Shown, Waiting

\* A failed poll is a failure the mirror reports.
LEMMA ReadFailsFails ==
  ASSUME IInv, NEW p \in Poller, ReadFails(p)
  PROVE  Promise!Fail
<1>1. \E done \in SUBSET Writer : Waiting' = [w \in Writer |-> Waiting[w] /\ w \notin done]
  BY Finishes DEF ReadFails, IInv
<1>2. failed' = TRUE /\ UNCHANGED <<truth, snap, request>>
  BY DEF ReadFails
<1> QED
  BY <1>1, <1>2 DEF Promise!Fail, Waiting

\* A broadcast ends a poll: the handler whose poll it was answers.
LEMMA BroadcastAnswers ==
  ASSUME IInv, NEW p \in Poller, Broadcast(p)
  PROVE  [Promise!Next]_Promise!mirrorVars
<1>1. /\ poll[p].pc = "broadcast" /\ snap # NoSnap
      /\ poll' = [poll EXCEPT ![p] = Resting]
      /\ UNCHANGED <<truth, snap, failed, request>>
  BY DEF Broadcast, IInv, Locked
<1>2. CASE p \in Writer
  <2>1. \A w \in Writer : Waiting'[w] = IF w = p THEN FALSE ELSE Waiting[w]
    BY <1>1, <1>2 DEF Waiting, Resting, IInv, TypeOK, Poller
  <2>2. Waiting' = [Waiting EXCEPT ![p] = FALSE]
    BY <2>1 DEF Waiting
  <2>3. Shown # NoSnap /\ Promise!Holds(Shown, p)
    <3>1. snap \in Snapshot
      BY <1>1 DEF IInv, TypeOK
    <3>2. Shown = snap.parts /\ Shown # NoSnap
      BY <1>1, <3>1, SnapshotsExist DEF Shown, Snapshot
    <3> QED
      BY <1>1, <1>2, <3>2 DEF IInv, WritesAreSeen, Promise!Holds
  <2>4. Promise!Answer(p)
    BY <1>1, <2>2, <2>3 DEF Promise!Answer, Shown, Waiting
  <2> QED
    BY <1>2, <2>4 DEF Promise!Next
<1>3. CASE p \notin Writer
  <2>1. \A w \in Writer : poll'[w] = poll[w]
    BY <1>1, <1>3 DEF IInv, TypeOK, Poller
  <2> QED
    BY <1>1, <2>1, Stutters
<1> QED
  BY <1>2, <1>3

\* Headscale's changes are the mirror's.
LEMMA WriteIsWrite ==
  ASSUME IInv, Write
  PROVE  Promise!Next
<1>1. ASSUME NEW field \in Field, Drift(field) PROVE Promise!Drift(field)
  BY <1>1 DEF Drift, Promise!Drift, Promise!Changes, watcherVars
<1>2. snap # NoSnap => Shown # NoSnap
  BY SnapshotsExist DEF IInv, TypeOK, Snapshot, Shown
<1>3. ASSUME NEW w \in Writer, NEW part \in Part, Mutate(w, part) PROVE Promise!Mutate(w, part)
  <2>1. snap # NoSnap /\ ~Waiting[w]
    BY <1>3 DEF Mutate, Ready, Waiting
  <2>2. \A v \in Writer : Waiting'[v] = IF v = w THEN TRUE ELSE Waiting[v]
    BY <1>3 DEF Mutate, Refreshing, Waiting, IInv, TypeOK, Poller
  <2>3. Waiting' = [Waiting EXCEPT ![w] = TRUE]
    BY <2>2 DEF Waiting
  <2>4. /\ truth' = [truth EXCEPT ![part] = @ + 1]
        /\ request' = [request EXCEPT ![w] = [part |-> part, version |-> truth[part] + 1]]
        /\ UNCHANGED <<snap, failed>>
    BY <1>3 DEF Mutate
  <2> QED
    BY <1>2, <2>1, <2>3, <2>4 DEF Promise!Mutate, Promise!Ready, Promise!Changes, Shown, Waiting
<1>4. ASSUME NEW w \in Writer, NEW part \in Part, MutateUnanswered(w, part)
      PROVE  Promise!MutateUnanswered(w, part)
  <2>1. snap # NoSnap /\ ~Waiting[w]
    BY <1>4 DEF MutateUnanswered, Ready, Waiting
  <2> QED
    BY <1>2, <1>4, <2>1 DEF MutateUnanswered, watcherVars, Promise!MutateUnanswered, Promise!Ready,
                            Promise!Changes, Shown, Waiting
<1> QED
  BY <1>1, <1>3, <1>4 DEF Write, Field, Promise!Next

\* A restart forgets the mirror.
LEMMA RestartForgets ==
  ASSUME Restart
  PROVE  Promise!Restart
<1>1. \A w \in Writer : Waiting'[w] = FALSE
  BY DEF Restart, Waiting, Resting, Poller
<1>2. Waiting' = [w \in Writer |-> FALSE]
  BY <1>1 DEF Waiting
<1> QED
  BY <1>2 DEF Restart, Promise!Restart, Shown, Waiting

\* Every step of the watcher, its handlers and its tabs is one of the mirror.
LEMMA MirrorSteps ==
  ASSUME IInv, IInv', [Next]_vars
  PROVE  [Promise!Next]_Promise!mirrorVars
<1>1. ASSUME NEW p \in Poller, Lock(p) \/ Read(p) PROVE UNCHANGED Promise!mirrorVars
  <2>1. UNCHANGED <<truth, snap, failed, request>>
    BY <1>1 DEF Lock, Read
  <2>2. \A w \in Writer : (poll[w].pc = "idle") <=> (poll'[w].pc = "idle")
    BY <1>1 DEF Lock, Read, ThenRead, IInv, TypeOK, Poller, Part
  <2> QED
    BY <2>1, <2>2, Stutters
<1>2. ASSUME WakeUp PROVE UNCHANGED Promise!mirrorVars
  <2>1. \A w \in Writer : poll'[w] = poll[w]
    BY <1>2, PollersAreDistinct DEF WakeUp, IInv, TypeOK, Poller
  <2> QED
    BY <1>2, <2>1, Stutters DEF WakeUp
<1>3. ASSUME NEW t \in Tab, TabStep(t) \/ Disconnect(t) PROVE UNCHANGED Promise!mirrorVars
  <2>1. UNCHANGED <<truth, snap, failed, poll, request>>
    BY <1>3 DEF TabStep, Connect, SendCurrent, SendNext, Fetch, FetchRefused, Show, Disconnect, OnTab,
                watcherVars
  <2> QED
    BY <2>1, Stutters
<1>4. ASSUME UNCHANGED vars PROVE UNCHANGED Promise!mirrorVars
  BY <1>4, Stutters DEF vars, watcherVars
<1>5. ASSUME NEW p \in Poller, Install(p) \/ ReadFails(p) PROVE Promise!Next
  BY <1>5, InstallRefreshes, ReadFailsFails DEF Promise!Next
<1>6. Restart => Promise!Next
  BY RestartForgets DEF Promise!Next
<1> QED
  BY <1>1, <1>2, <1>3, <1>4, <1>5, <1>6, BroadcastAnswers, WriteIsWrite
     DEF Next, PollStep, Fault

(* The watcher with its polls, its lock, its nudges and its failures does   *)
(* what TailnetMirror says handlers may count on (Watcher.Refresh, Current). *)
THEOREM MirrorKept == Spec => MirrorIsKept
<1>1. Init => Promise!Init
  <2> SUFFICES ASSUME Init PROVE Promise!Init
    OBVIOUS
  <2>1. \A w \in Writer : Waiting[w] = FALSE
    BY DEF Init, Waiting, Resting, Poller
  <2>2. Waiting = [w \in Writer |-> FALSE]
    BY <2>1 DEF Waiting
  <2> QED
    BY <2>2 DEF Init, Promise!Init, Waiting, Nothing
<1>2. IInv /\ IInv' /\ [Next]_vars => [Promise!Next]_Promise!mirrorVars
  BY MirrorSteps
<1> QED
  BY <1>1, <1>2, Invariance, PTL DEF Spec, MirrorIsKept, Promise!Spec

(* A poll under way, a snapshot and a tab stay well formed through restarts, *)
(* failed polls and lost events (Watcher, EventsHandler).                    *)
THEOREM WellTyped == Spec => []TypeOK
<1>1. IInv => TypeOK
  BY DEF IInv
<1> QED
  BY <1>1, Invariance, PTL

-----------------------------------------------------------------------------
(* Admins.  The watcher's invariant holds under the policy handlers too;   *)
(* with it, no admin's hash is ahead of what the polls have read.          *)

\* The sets that the variables are in.
EditShape ==
  /\ editor \in [Writer -> [pc : {"away", "editing", "checked", "set", "saved"},
                            base : Nat, doc : Nat]]
  /\ history \subseteq Nat

PolicyRequests == \A w \in Writer : request[w] # NoWrite => request[w].part = "policy"

\* What is being saved is in Headscale, and what was saved is what is waited for.
DocsAreWritten ==
  \A w \in Writer :
    /\ editor[w].pc \in {"set", "saved"} => editor[w].doc <= truth.policy
    /\ editor[w].pc = "saved" => request[w] # NoWrite /\ request[w].version = editor[w].doc

\* A base that Headscale has, that polls under way see, and that the snapshot
\* has reached unless the last poll failed.
Reached(base) ==
  /\ base <= truth.policy
  /\ \A p \in Poller : "policy" \in AlreadyRead(poll[p].pc) => base <= poll[p].got.policy
  /\ snap # NoSnap /\ ~failed => base <= snap.parts.policy

BasesAreReached == \A w \in Writer : Reached(editor[w].base)

Edits == EditShape /\ PolicyRequests /\ DocsAreWritten /\ BasesAreReached

EditInv == IInv /\ Edits

-----------------------------------------------------------------------------
\* Nothing is edited and nothing polled at first.
LEMMA EditInitHolds ==
  ASSUME EditInit
  PROVE  EditInv
<1>1. IInv
  BY InitHolds DEF EditInit
<1>2. Edits
  BY DEF EditInit, Init, Nothing, Resting, Field, Part, Edits, EditShape, PolicyRequests, DocsAreWritten,
         BasesAreReached, Reached, AlreadyRead, Away
<1> QED
  BY <1>1, <1>2 DEF EditInv

\* The watcher's own steps, with no editor involved.
Watching ==
  \/ WakeUp
  \/ \E p \in Poller : Step(p)
  \/ \E field \in Field : Drift(field)

\* What the watcher keeps, it keeps under the policy handlers: Headscale
\* changes by SetPolicy as it does by itself.
LEMMA EditsKeepIInv ==
  ASSUME EditInv, [EditNext]_allVars
  PROVE  IInv'
<1>1. CASE Watching
  BY <1>1, StepKeeps DEF EditInv, Watching, Next, Step, Fault, Write
<1>2. CASE RestartUnderEdits
  BY <1>2, StepKeeps DEF EditInv, RestartUnderEdits, Next, Fault
<1>3. CASE \E w \in Writer : SetPolicy(w) \/ SetPolicyUnanswered(w)
  <2>1. Drift("policy")
    BY <1>3 DEF SetPolicy, SetPolicyUnanswered, Drift
  <2> QED
    BY <2>1, StepKeeps DEF EditInv, Next, Write, Field, Part
<1>4. CASE UNCHANGED vars
  BY <1>4, StepKeeps DEF EditInv
<1>5. ASSUME NEW w \in Writer, Answer(w) PROVE IInv'
  <2>1. TypeOK'
    BY <1>5 DEF Answer, EditInv, IInv, TypeOK
  <2> QED
    BY <1>5, <2>1, Unmoved DEF Answer, EditInv, IInv, Order, RulesFitTheSnapshot
<1>6. ASSUME NEW w \in Writer, SavePolicyRevision(w) PROVE IInv'
  <2>1. /\ poll'[w].pc = "locking"
        /\ \A q \in Poller : q # w => poll'[q] = poll[q]
        /\ request'[w] = [part |-> "policy", version |-> editor[w].doc]
        /\ \A v \in Writer : v # w => request'[v] = request[v]
        /\ editor[w].doc \in Nat /\ editor[w].doc <= truth.policy
        /\ UNCHANGED <<truth, snap, failed, holder>>
    BY <1>6 DEF SavePolicyRevision, Refreshing, EditInv, Edits, EditShape, DocsAreWritten, IInv,
                TypeOK, Poller
  <2>2. TypeOK'
    BY <1>6, <2>1 DEF SavePolicyRevision, Refreshing, EditInv, IInv, TypeOK, Part, Poller
  <2>3. \A q \in Poller : AlreadyRead(poll'[q].pc) # {} => q # w
    BY <2>1 DEF AlreadyRead, Part
  <2>4. Locked' /\ SnapIsPast'
    BY <2>1 DEF EditInv, IInv, Locked, Holding, Part, SnapIsPast
  <2>5. WritesArePast'
    BY <2>1 DEF EditInv, IInv, WritesArePast
  <2>6. ReadsAreNewer'
    BY <2>1, <2>3 DEF EditInv, IInv, ReadsAreNewer
  <2>7. ReadsSeeWrites'
    BY <2>1, <2>3 DEF EditInv, IInv, ReadsSeeWrites, Poller
  <2>8. WritesAreSeen'
    BY <2>1 DEF EditInv, IInv, WritesAreSeen, Poller
  <2> QED
    BY <2>1, <2>2, <2>4, <2>5, <2>6, <2>7, <2>8 DEF EditInv, IInv, RulesFitTheSnapshot
<1> QED
  BY <1>1, <1>2, <1>3, <1>4, <1>5, <1>6
     DEF EditNext, AdminStep, SaveStep, LoadPolicy, Check, Refuse, Reject, Watching, Step, allVars

-----------------------------------------------------------------------------
\* A poll step of any poller keeps what was reached.
LEMMA PollReaches ==
  ASSUME EditInv, NEW p \in Poller, Step(p), NEW base \in Nat, Reached(base)
  PROVE  Reached(base)'
<1> USE DEF EditInv, IInv
<1>1. \A q \in Poller : q # p => poll'[q] = poll[q]
  BY DEF Step, PollStep, Lock, Read, ReadFails, Install, ThenTell, Broadcast, TypeOK
<1>2. CASE Lock(p) \/ ReadFails(p) \/ Broadcast(p)
  <2>1. poll'[p].pc \in {"nodes", "idle"}
    BY <1>2 DEF Lock, ReadFails, Broadcast, TypeOK, Resting
  <2>2. AlreadyRead(poll'[p].pc) = {}
    BY <2>1 DEF AlreadyRead
  <2>3. truth' = truth /\ snap' = snap /\ (failed' = failed \/ failed')
    BY <1>2 DEF Lock, ReadFails, Broadcast
  <2> QED
    BY <1>1, <2>2, <2>3 DEF Reached
<1>3. CASE Read(p)
  <2>1. UNCHANGED <<truth, snap, failed>>
    BY <1>3 DEF Read
  <2>2. "policy" \in AlreadyRead(poll'[p].pc) => poll[p].pc = "policy" /\ poll'[p].got.policy = truth.policy
    BY <1>3 DEF Read, AlreadyRead, ThenRead, Reading, Brings, TypeOK, Version, Field, Part
  <2> QED
    BY <1>1, <2>1, <2>2 DEF Reached
<1>4. CASE Install(p)
  <2>1. UNCHANGED truth /\ snap'.parts = poll[p].got
    BY <1>4 DEF Install
  <2>2. base <= poll[p].got.policy
    BY <1>4 DEF Install, Reached, AlreadyRead, Field, Part
  <2>3. \/ poll'[p].pc = "broadcast" /\ poll'[p].got = poll[p].got
        \/ poll'[p].pc = "idle"
    BY <1>4 DEF Install, ThenTell, TypeOK, Resting
  <2>4. "policy" \in AlreadyRead(poll'[p].pc) => poll'[p].got = poll[p].got
    BY <2>3 DEF AlreadyRead
  <2> QED
    BY <1>1, <2>1, <2>2, <2>4 DEF Reached
<1> QED
  BY <1>2, <1>3, <1>4 DEF Step, PollStep

\* A change of Headscale, a tick and a restart keep it, too.
LEMMA OtherReaches ==
  ASSUME EditInv, NEW base \in Nat, Reached(base),
         truth'.policy >= truth.policy, truth'.policy \in Nat,
         UNCHANGED <<snap, failed>> \/ snap' = NoSnap,
         \A p \in Poller : poll'[p] = poll[p] \/ poll'[p].pc \in {"locking", "idle"}
  PROVE  Reached(base)'
<1>1. \A p \in Poller : "policy" \in AlreadyRead(poll'[p].pc) => poll'[p] = poll[p]
  BY DEF AlreadyRead
<1>2. truth.policy \in Nat
  BY DEF EditInv, IInv, TypeOK, Version, Field, Part
<1> QED
  BY <1>1, <1>2 DEF Reached

\* The snapshot's policy, read by whoever loads it, is reached.
LEMMA SnapIsReached ==
  ASSUME EditInv, snap # NoSnap
  PROVE  snap.parts.policy \in Nat /\ Reached(snap.parts.policy)
  BY DEF EditInv, IInv, TypeOK, Snapshot, Version, Field, Part, SnapIsPast, ReadsAreNewer, Reached, AlreadyRead

\* So is a save that is answered, because its handler's refresh is over.
LEMMA AnswerIsReached ==
  ASSUME EditInv, NEW w \in Writer, Answer(w)
  PROVE  editor[w].doc \in Nat /\ Reached(editor[w].doc)
<1>1. /\ editor[w].doc \in Nat /\ editor[w].doc <= truth.policy
      /\ request[w] # NoWrite /\ request[w].version = editor[w].doc
      /\ request[w].part = "policy" /\ poll[w].pc = "idle"
  BY DEF Answer, EditInv, Edits, EditShape, DocsAreWritten, PolicyRequests
<1>2. \A p \in Poller : "policy" \in AlreadyRead(poll[p].pc) => editor[w].doc <= poll[p].got.policy
  BY <1>1 DEF EditInv, IInv, ReadsSeeWrites
<1>3. snap # NoSnap /\ ~failed => editor[w].doc <= snap.parts.policy
  BY <1>1 DEF EditInv, IInv, WritesAreSeen, TypeOK, Snapshot, Version, Field, Part
<1> QED
  BY <1>1, <1>2, <1>3 DEF Reached

-----------------------------------------------------------------------------
\* The watcher's steps leave the editors alone.
LEMMA WatchingKeepsEdits ==
  ASSUME EditInv, Watching, UNCHANGED editVars
  PROVE  Edits'
<1>1. /\ UNCHANGED <<editor, history>>
      /\ UNCHANGED request
      /\ truth'.policy >= truth.policy /\ truth'.policy \in Nat
  <2>1. truth \in Version
    BY DEF EditInv, IInv, TypeOK
  <2>2. CASE \E field \in Field : Drift(field)
    BY <2>1, <2>2 DEF Drift, editVars, Version, Field, Part
  <2>3. CASE WakeUp \/ \E p \in Poller : Step(p)
    <3>1. UNCHANGED <<truth, request>>
      BY <2>3 DEF Step, PollStep, WakeUp, Lock, Read, ReadFails, Install, Broadcast
    <3> QED
      BY <2>1, <3>1 DEF editVars, Version, Field, Part
  <2> QED
    BY <2>2, <2>3 DEF Watching
<1>2. ASSUME NEW w \in Writer PROVE Reached(editor[w].base)'
  <2>1. editor[w].base \in Nat /\ Reached(editor[w].base)
    BY DEF EditInv, Edits, EditShape, BasesAreReached
  <2>2. \A base \in Nat : Reached(base) => Reached(base)'
    <3>1. CASE \E p \in Poller : Step(p)
      BY <3>1, PollReaches
    <3>2. CASE WakeUp \/ \E field \in Field : Drift(field)
      BY <1>1, <3>2, OtherReaches DEF WakeUp, Drift, watcherVars, EditInv, IInv, TypeOK
    <3> QED
      BY <3>1, <3>2 DEF Watching
  <2>3. Reached(editor[w].base)' <=> \A base \in {editor[w].base} : Reached(base)'
    BY <1>1 DEF Reached
  <2> QED
    BY <2>1, <2>2, <2>3
<1>3. EditShape' /\ PolicyRequests'
  BY <1>1 DEF EditInv, Edits, EditShape, PolicyRequests
<1>4. DocsAreWritten'
  BY <1>1 DEF EditInv, IInv, TypeOK, Version, Field, Part, Edits, EditShape, DocsAreWritten
<1> QED
  <2>1. BasesAreReached'
    BY <1>2 DEF BasesAreReached, Reached
  <2> QED
    BY <1>3, <1>4, <2>1 DEF Edits

\* A step of one handler touches its own editor only.
LEMMA AdminKeepsEdits ==
  ASSUME EditInv, NEW w \in Writer, AdminStep(w)
  PROVE  Edits'
<1>1. /\ UNCHANGED <<history, truth, snap, failed, poll, request>>
      /\ \A v \in Writer : v # w => editor'[v] = editor[v]
      /\ editor'[w].pc \in {"away", "editing", "checked"}
      /\ editor'[w].base \in Nat /\ editor'[w].doc \in Nat
      /\ DOMAIN editor' = Writer
      /\ editor' \in [Writer -> [pc : {"away", "editing", "checked", "set", "saved"},
                                base : Nat, doc : Nat]]
      /\ Reached(editor'[w].base)
  <2>1. editor[w].base \in Nat /\ Reached(editor[w].base)
    BY DEF EditInv, Edits, EditShape, BasesAreReached
  <2>2. CASE LoadPolicy(w)
    BY <2>2, SnapIsReached DEF LoadPolicy, Editing, vars, watcherVars, EditInv, Edits, EditShape
  <2>3. CASE Check(w) \/ Refuse(w) \/ Reject(w)
    BY <2>1, <2>3 DEF Check, Refuse, Reject, Editing, vars, watcherVars, EditInv, Edits, EditShape
  <2> QED
    BY <2>2, <2>3 DEF AdminStep
<1>2. EditShape' /\ PolicyRequests'
  BY <1>1 DEF EditInv, Edits, EditShape, PolicyRequests
<1>3. DocsAreWritten'
  BY <1>1 DEF EditInv, Edits, DocsAreWritten
<1>4. BasesAreReached'
  BY <1>1 DEF EditInv, Edits, BasesAreReached, Reached
<1> QED
  BY <1>2, <1>3, <1>4 DEF Edits

\* A handler's writes and its answer: a base that grows was answered.
LEMMA SaveKeepsEdits ==
  ASSUME EditInv, NEW w \in Writer, SaveStep(w)
  PROVE  Edits'
<1> USE DEF EditInv, Edits, EditShape
<1>1. truth.policy \in Nat
  BY DEF IInv, TypeOK, Version, Field, Part
<1>2. CASE SetPolicy(w) \/ SetPolicyUnanswered(w)
  <2>1. /\ UNCHANGED <<history, snap, failed, poll, request>>
        /\ truth'.policy = truth.policy + 1
        /\ \A v \in Writer : v # w => editor'[v] = editor[v]
        /\ editor'[w].pc # "saved" /\ (editor'[w].pc = "set" => editor'[w].doc = truth.policy + 1)
        /\ editor'[w].base = editor[w].base
    <3>1. truth'.policy = truth.policy + 1
      BY <1>2 DEF SetPolicy, SetPolicyUnanswered, IInv, TypeOK, Version, Field, Part
    <3> QED
      BY <1>2, <3>1 DEF SetPolicy, SetPolicyUnanswered, Editing, watcherVars
  <2>2. EditShape'
    <3> DEFINE E == [pc : {"away", "editing", "checked", "set", "saved"}, base : Nat, doc : Nat]
    <3>1. PICK new \in E : editor' = [editor EXCEPT ![w] = new]
      <4>1. editor[w] \in E
        OBVIOUS
      <4>2. CASE SetPolicy(w)
        <5>1. \A e \in E, n \in Nat : [e EXCEPT !.pc = "set", !.doc = n] \in E
          OBVIOUS
        <5>2. truth.policy + 1 \in Nat
          BY <1>1
        <5>3. [editor[w] EXCEPT !.pc = "set", !.doc = truth.policy + 1] \in E
          BY <4>1, <5>1, <5>2, Zenon
        <5> QED
          BY <4>2, <5>3 DEF SetPolicy, Editing
      <4>3. CASE SetPolicyUnanswered(w)
        <5>1. [editor[w] EXCEPT !.pc = "editing"] \in E
          BY <4>1
        <5> QED
          BY <4>3, <5>1 DEF SetPolicyUnanswered, Editing
      <4> QED
        BY <1>2, <4>2, <4>3
    <3>2. history' \subseteq Nat
      BY <2>1
    <3> QED
      BY <3>1, <3>2
  <2>3. PolicyRequests' /\ DocsAreWritten'
    BY <1>1, <2>1 DEF PolicyRequests, DocsAreWritten
  <2>4. BasesAreReached'
    BY <1>1, <2>1 DEF BasesAreReached, Reached
  <2> QED
    BY <2>2, <2>3, <2>4
<1>3. CASE SavePolicyRevision(w)
  <2>1. /\ UNCHANGED <<truth, snap, failed>>
        /\ \A v \in Writer : v # w => editor'[v] = editor[v] /\ request'[v] = request[v]
        /\ editor'[w].pc = "saved" /\ editor'[w].base = editor[w].base
        /\ editor'[w].doc = editor[w].doc /\ editor[w].doc <= truth.policy
        /\ request'[w] = [part |-> "policy", version |-> editor[w].doc]
        /\ editor[w].doc \in Nat
    BY <1>3 DEF SavePolicyRevision, IInv, TypeOK, DocsAreWritten
  <2>2. \A p \in Poller : poll'[p] = poll[p] \/ poll'[p].pc = "locking"
    BY <1>3 DEF SavePolicyRevision, Refreshing, IInv, TypeOK, Poller
  <2>3. EditShape'
    BY <1>3 DEF SavePolicyRevision
  <2>4. request'[w] # NoWrite
    BY <2>1, WritesExist DEF Part
  <2>5. PolicyRequests' /\ DocsAreWritten'
    BY <2>1, <2>4 DEF PolicyRequests, DocsAreWritten
  <2>6. \A p \in Poller : "policy" \in AlreadyRead(poll'[p].pc) => poll'[p] = poll[p]
    BY <2>2 DEF AlreadyRead
  <2>7. BasesAreReached'
    BY <2>1, <2>6 DEF BasesAreReached, Reached
  <2> QED
    BY <2>5, <2>7, <2>3
<1>4. CASE Answer(w)
  <2>1. /\ UNCHANGED <<history, truth, snap, failed, poll, request>>
        /\ \A v \in Writer : v # w => editor'[v] = editor[v]
        /\ editor'[w].pc = "editing" /\ editor'[w].base = editor[w].doc
        /\ EditShape'
    BY <1>4 DEF Answer, Editing
  <2>2. PolicyRequests' /\ DocsAreWritten'
    BY <2>1 DEF PolicyRequests, DocsAreWritten
  <2>3. BasesAreReached'
    BY <1>4, <2>1, AnswerIsReached DEF BasesAreReached, Reached
  <2> QED
    BY <2>1, <2>2, <2>3
<1> QED
  BY <1>2, <1>3, <1>4 DEF SaveStep

\* A restart forgets the saves in progress and what was waited for.
LEMMA RestartKeepsEdits ==
  ASSUME EditInv, RestartUnderEdits
  PROVE  Edits'
<1> USE DEF EditInv, Edits, EditShape
<1>1. /\ UNCHANGED <<history, truth>>
      /\ snap' = NoSnap
      /\ \A p \in Poller : AlreadyRead(poll'[p].pc) = {}
      /\ request' = [v \in Writer |-> NoWrite]
      /\ \A v \in Writer : editor'[v].base = editor[v].base /\ editor'[v].pc \notin {"set", "saved"}
      /\ EditShape'
  BY DEF RestartUnderEdits, Restart, Resting, AlreadyRead
<1>2. PolicyRequests' /\ DocsAreWritten'
  BY <1>1 DEF PolicyRequests, DocsAreWritten
<1>3. BasesAreReached'
  BY <1>1 DEF BasesAreReached, Reached
<1> QED
  BY <1>1, <1>2, <1>3

\* Every step keeps the invariant.
LEMMA EditStepKeeps ==
  ASSUME EditInv, [EditNext]_allVars
  PROVE  EditInv'
<1>1. CASE UNCHANGED allVars
  <2>1. UNCHANGED <<editor, history, truth, snap, failed, poll, request>>
    BY <1>1 DEF allVars, vars, watcherVars, editVars
  <2>2. EditShape' /\ PolicyRequests' /\ DocsAreWritten' /\ BasesAreReached'
    BY <2>1 DEF EditInv, Edits, EditShape, PolicyRequests, DocsAreWritten, BasesAreReached, Reached
  <2> QED
    BY <2>2, EditsKeepIInv DEF EditInv, Edits
<1>2. ASSUME EditNext PROVE Edits'
  <2>1. CASE \E w \in Writer : AdminStep(w) \/ SaveStep(w)
    BY <2>1, AdminKeepsEdits, SaveKeepsEdits
  <2>2. CASE RestartUnderEdits
    BY <2>2, RestartKeepsEdits
  <2>3. CASE Watching /\ UNCHANGED editVars
    BY <2>3, WatchingKeepsEdits
  <2> QED
    BY <1>2, <2>1, <2>2, <2>3 DEF EditNext, Watching, Step
<1> QED
  BY <1>1, <1>2, EditsKeepIInv DEF EditInv

\* The watcher's invariant and the editors' hold in every behaviour of the
\* policy handlers.
THEOREM EditInvariance == EditSpec => []EditInv
<1>1. EditInit => EditInv
  BY EditInitHolds
<1>2. EditInv /\ [EditNext]_allVars => EditInv'
  BY EditStepKeeps
<1> QED
  BY <1>1, <1>2, PTL DEF EditSpec

-----------------------------------------------------------------------------
\* The history has what Headscale has had.
HistoryIsHeld == \A v \in history : v <= truth.policy

\* A text is kept in the history after it was written.
LEMMA HistoryStaysHeld ==
  ASSUME EditInv, HistoryIsHeld, [EditNext]_allVars
  PROVE  HistoryIsHeld'
<1>1. truth \in Version /\ truth.policy \in Nat /\ history \subseteq Nat
  BY DEF EditInv, IInv, TypeOK, Version, Field, Part, Edits, EditShape
<1>2. truth'.policy \in Nat /\ truth'.policy >= truth.policy
  <2>1. CASE \E field \in Field : Drift(field)
    BY <1>1, <2>1 DEF Drift, Version, Field, Part
  <2>2. CASE \E w \in Writer : SetPolicy(w) \/ SetPolicyUnanswered(w)
    BY <1>1, <2>2 DEF SetPolicy, SetPolicyUnanswered, Version, Field, Part
  <2>3. CASE ~(\E field \in Field : Drift(field)) /\ ~(\E w \in Writer : SetPolicy(w) \/ SetPolicyUnanswered(w))
    <3>1. truth' = truth
      BY <2>3 DEF EditNext, AdminStep, SaveStep, LoadPolicy, Check, Refuse, Reject, SavePolicyRevision,
                  Answer, RestartUnderEdits, Restart, WakeUp, PollStep, Lock, Read, ReadFails, Install,
                  Broadcast, allVars, vars, watcherVars
    <3> QED  BY <1>1, <3>1
  <2> QED  BY <2>1, <2>2, <2>3
<1>3. \A v \in history' : v \in history \/ v <= truth.policy
  <2>1. CASE \E w \in Writer : SavePolicyRevision(w)
    <3>1. PICK w \in Writer : SavePolicyRevision(w)
      BY <2>1
    <3>2. editor[w].doc <= truth.policy
      BY <3>1 DEF SavePolicyRevision, EditInv, Edits, DocsAreWritten
    <3> QED  BY <3>1, <3>2 DEF SavePolicyRevision
  <2>2. CASE ~(\E w \in Writer : SavePolicyRevision(w))
    <3>1. history' = history
      BY <2>2 DEF EditNext, AdminStep, SaveStep, Editing, LoadPolicy, Check, Refuse, Reject, SetPolicy,
                  SetPolicyUnanswered, Answer, RestartUnderEdits, editVars, allVars
    <3> QED  BY <3>1
  <2> QED  BY <2>1, <2>2
<1>4. history' \subseteq Nat
  BY EditStepKeeps DEF EditInv, Edits, EditShape
<1> QED
  BY <1>1, <1>2, <1>3, <1>4 DEF HistoryIsHeld

(* EditTypeOK for any number of admins: an admin's hash, and what the       *)
(* history holds, is always that of a text Headscale has held, through      *)
(* refusals, lost answers and restarts.                                    *)
THEOREM EditTyped == EditSpec => []EditTypeOK
<1>1. EditInv /\ HistoryIsHeld => EditTypeOK
  BY DEF EditInv, Edits, EditShape, HistoryIsHeld, BasesAreReached, Reached, EditTypeOK
<1>2. EditInit => HistoryIsHeld
  BY DEF EditInit, HistoryIsHeld
<1>3. EditInv /\ HistoryIsHeld /\ [EditNext]_allVars => HistoryIsHeld'
  BY HistoryStaysHeld
<1> QED
  BY <1>1, <1>2, <1>3, EditInvariance, PTL DEF EditSpec

\* An editor whose save passes the guard or is refused by it is at Check or Refuse.
LEMMA GuardSteps ==
  ASSUME EditInv, [EditNext]_allVars, NEW w \in Writer, editor[w].pc = "editing"
  PROVE  /\ editor'[w].pc = "checked" => Check(w)
         /\ editor'[w].pc = "away" => Refuse(w)
<1> USE DEF EditInv, Edits, EditShape
<1>1. CASE UNCHANGED editor
  BY <1>1
<1>2. CASE RestartUnderEdits
  BY <1>2 DEF RestartUnderEdits
<1>3. ASSUME NEW v \in Writer, AdminStep(v) \/ SaveStep(v)
      PROVE  /\ editor'[w].pc = "checked" => Check(w)
             /\ editor'[w].pc = "away" => Refuse(w)
  BY <1>3 DEF AdminStep, SaveStep, LoadPolicy, Check, Refuse, Reject, SetPolicy, SetPolicyUnanswered,
              SavePolicyRevision, Answer, Editing
<1> QED
  BY <1>1, <1>2, <1>3 DEF EditNext, allVars, editVars

(* GuardSeesAnsweredSaves for any number of admins (applyChange).           *)
THEOREM GuardSees == EditSpec => GuardSeesAnsweredSaves
<1> DEFINE Sees == \A w, f \in Writer :
             /\ editor[w].pc = "editing" /\ editor'[w].pc = "checked"
             /\ Answered(f) /\ ~failed
             => editor[w].base >= request[f].version
<1>1. EditInv /\ [EditNext]_allVars => Sees
  <2> SUFFICES ASSUME EditInv, [EditNext]_allVars, NEW w \in Writer, NEW f \in Writer,
                      editor[w].pc = "editing", editor'[w].pc = "checked",
                      Answered(f), ~failed
               PROVE  editor[w].base >= request[f].version
    OBVIOUS
  <2>1. editor[w].base = snap.parts.policy /\ snap # NoSnap
    BY GuardSteps DEF Check, Ready, Unchanged
  <2>2. request[f].part = "policy"
    BY DEF Answered, EditInv, Edits, PolicyRequests
  <2> QED
    BY <2>1, <2>2 DEF Answered, EditInv, IInv, WritesAreSeen
<1> QED
  BY <1>1, EditInvariance, PTL DEF EditSpec, GuardSeesAnsweredSaves

(* NoFalseConflict for any number of admins (applyChange, savePolicy).      *)
THEOREM ConflictsAreReal == EditSpec => NoFalseConflict
<1> DEFINE Real == \A w \in Writer :
             editor[w].pc = "editing" /\ editor'[w].pc = "away" /\ ~failed
             => truth.policy # editor[w].base
<1>1. EditInv /\ [EditNext]_allVars => Real
  <2> SUFFICES ASSUME EditInv, [EditNext]_allVars, NEW w \in Writer,
                      editor[w].pc = "editing", editor'[w].pc = "away", ~failed
               PROVE  truth.policy # editor[w].base
    OBVIOUS
  <2>1. editor[w].base # snap.parts.policy /\ snap # NoSnap
    BY GuardSteps DEF Refuse, Ready, Unchanged
  <2>2. editor[w].base <= snap.parts.policy /\ snap.parts.policy <= truth.policy
    BY <2>1 DEF EditInv, Edits, BasesAreReached, Reached, IInv, SnapIsPast, Field, Part
  <2>3. editor[w].base \in Nat /\ snap.parts.policy \in Nat /\ truth.policy \in Nat
    BY <2>1 DEF EditInv, Edits, EditShape, IInv, TypeOK, Snapshot, Version, Field, Part
  <2> QED
    BY <2>1, <2>2, <2>3
<1> QED
  BY <1>1, EditInvariance, PTL DEF EditSpec, NoFalseConflict
=============================================================================
