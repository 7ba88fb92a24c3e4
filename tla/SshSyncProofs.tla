---------------------------- MODULE SshSyncProofs ----------------------------
(***************************************************************************)
(* For any number of agents, machines, hosts, people and requests: the     *)
(* types of SshSync hold, an order carried out under the current ETag is   *)
(* the current order, and under current orders an agent touches nothing    *)
(* behind a suspended binding.                                             *)
(*                                                                         *)
(* The argument: whoever captured the snapshot and the revision captured   *)
(* what they stood for then; a machine is bound to one host at most, so an *)
(* order says one thing of each account; and what is still to do is part   *)
(* of the order.                                                           *)
(***************************************************************************)
EXTENDS SshSync, TLAPS

(* What an agent discovers is an identity or nothing for every reference.  *)
LEMMA DiscoveryType ==
  ASSUME NEW a \in Agent, NEW unreadable \in SUBSET Ref, ident \in [Machine -> Ident]
  PROVE  Discovery(a, unreadable) \in Seen
<1>1. Unreadable \in Ident
  BY DEF Unreadable, Ident
<1>2. \A r \in Ref : Reaches(a, r) => ident[MachineOf[<<a, r>>]] \in Ident
  BY MachineOfType DEF Reaches
<1> QED
  BY <1>1, <1>2 DEF Discovery, Seen

(* An agent process between two cycles is well formed. *)
LEMMA BetweenType ==
  ASSUME NEW etag \in Tag \union {NoTag}, NEW due \in BOOLEAN
  PROVE  Between(etag, due) \in Loop
BY DEF Between, Loop, Unseen, Seen

\* A process that starts, or is off, is well formed.
LEMMA IdleTypes == Started \in Loop /\ Off \in Loop
<1>1. Started \in Loop
  BY BetweenType DEF Started
<1> QED
  BY <1>1 DEF Off, Loop

(* Everything the server sends is a target. *)
LEMMA DesiredType ==
  ASSUME NEW a \in Agent, NEW hosts \in HostMap, NEW people \in SUBSET Person,
         NEW tb \in Tables
  PROVE  Desired(a, hosts, people, tb) \in SUBSET Target
<1>1. \A b \in BindingsOf(a, tb) : ActiveTarget(b, people, tb) \in Target
  <2> SUFFICES ASSUME NEW b \in BindingsOf(a, tb)
               PROVE  ActiveTarget(b, people, tb) \in Target
    OBVIOUS
  <2>1. b \in Binding
    BY DEF BindingsOf, Tables
  <2>2. \A u \in UnixUser : RowLines(b.host, u, people, tb) \in SUBSET Line
    BY DEF RowLines, Tables
  <2>3. RowUsers(b.host, people, tb) \in SUBSET UnixUser
    BY DEF RowUsers
  <2>4. ManagedUsers(b.agent, b.ref, tb) \in SUBSET UnixUser
    BY DEF ManagedUsers
  <2>5. {[user |-> u, lines |-> RowLines(b.host, u, people, tb)] :
           u \in RowUsers(b.host, people, tb)} \in SUBSET [user : UnixUser, lines : SUBSET Line]
    BY <2>2, <2>3
  <2> QED
    BY <2>1, <2>4, <2>5 DEF ActiveTarget, Target, Binding
<1>2. \A r \in Ref : ClearTarget(a, r, tb) \in Target
  BY DEF ClearTarget, Target, ManagedUsers
<1> QED
  BY <1>1, <1>2 DEF Desired

(* Everything an order comes down to is a file operation. *)
LEMMA OpsType ==
  ASSUME NEW orders \in SUBSET Target, NEW seen \in Seen
  PROVE  Ops(orders, seen) \in SUBSET Op
<1>1. ASSUME NEW t \in Target
      PROVE  WriteOps(t) \in SUBSET Op /\ ClearOps(t) \in SUBSET Op
  <2>1. /\ t.ref \in Ref
        /\ t.writes \in SUBSET [user : UnixUser, lines : SUBSET Line]
        /\ t.clear \in SUBSET UnixUser
    BY DEF Target
  <2>2. WriteOps(t) \in SUBSET Op
    <3>1. ASSUME NEW w \in t.writes
          PROVE  [clear |-> FALSE, ref |-> t.ref, user |-> w.user, lines |-> w.lines] \in Op
      <4>1. w.user \in UnixUser /\ w.lines \in SUBSET Line
        BY <2>1
      <4> QED
        BY <2>1, <4>1, Zenon DEF Op
    <3> QED
      BY <3>1, Zenon DEF WriteOps
  <2>3. ClearOps(t) \in SUBSET Op
    <3>1. ASSUME NEW u \in t.clear
          PROVE  [clear |-> TRUE, ref |-> t.ref, user |-> u, lines |-> {}] \in Op
      BY <2>1, Zenon DEF Op
    <3> QED
      BY <3>1, Zenon DEF ClearOps
  <2> QED
    BY <2>2, <2>3
<1> QED
  BY <1>1 DEF Ops

(* A step of an agent process alone keeps the types. *)
LEMMA SteppingType ==
  ASSUME TypeOK, NEW a \in Agent, NEW l \in Loop, Stepping(a, l)
  PROVE  TypeOK'
BY DEF TypeOK, Stepping, Agenting, dbVars, serverVars, machineVars

\* A step of an agent process alone moves neither tables nor revision.
LEMMA SteppingMoves ==
  ASSUME TypeOK, NEW a \in Agent, NEW l, Stepping(a, l)
  PROVE  /\ loop'[a] = l
         /\ \A b \in Agent : b # a => loop'[b] = loop[b]
         /\ UNCHANGED <<tables, rev, boot, snap>>
BY DEF TypeOK, Stepping, Agenting, dbVars, serverVars

(* A committed transaction keeps the types of the tables. *)
LEMMA CommitType ==
  ASSUME TypeOK, NEW tb \in Tables, Commit(tb)
  PROVE  tables' \in Tables /\ rev' \in Nat
BY DEF TypeOK, Commit

-----------------------------------------------------------------------------
(* Types.  One lemma for each group of actions that share a frame. *)

\* Polls and restarts keep the types.
LEMMA WatcherType ==
  ASSUME TypeOK,
         (\E c \in Content, other \in BOOLEAN : Poll(c, other)) \/ PollFails \/ Restart
  PROVE  TypeOK'
<1>1. ASSUME NEW c \in Content, NEW other \in BOOLEAN, Poll(c, other)
      PROVE  TypeOK'
  <2>1. snap' \in Snapshot \union {NoSnap}
    BY <1>1 DEF Poll, TypeOK, Snapshot
  <2> QED
    BY <1>1, <2>1 DEF Poll, TypeOK, dbVars, machineVars
<1>2. CASE PollFails
  BY <1>2 DEF PollFails, TypeOK, dbVars, machineVars
<1>3. CASE Restart
  <2>1. loop' \in [Agent -> Loop]
    <3>1. \A a \in Agent : Between(loop[a].etag, loop[a].due) \in Loop
      BY BetweenType DEF TypeOK, Loop
    <3> QED
      BY <1>3, <3>1 DEF Restart, TypeOK
  <2>2. boot' \in Nat
    BY <1>3 DEF Restart, NewBoot, TypeOK
  <2>3. req' \in [Worker -> Request \union {None}]
    BY <1>3 DEF Restart
  <2> QED
    BY <1>3, <2>1, <2>2, <2>3 DEF Restart, TypeOK, dbVars, machineVars
<1> QED
  BY <1>1, <1>2, <1>3

\* A request parked after its check is well formed.
LEMMA ParkType ==
  ASSUME TypeOK, NEW w \in Worker, NEW r \in Request, Park(w, r)
  PROVE  TypeOK'
BY DEF Park, TypeOK, dbVars, machineVars

\* A key, row, orphan or revoke request as it was checked.
LEMMA CheckType ==
  ASSUME TypeOK, NEW w \in Worker,
         \/ \E l \in Line : CheckAddSSHKey(w, l)
         \/ \E h \in Host, u \in UnixUser, ps \in SUBSET Person : CheckSSHRow(w, h, u, ps)
         \/ \E h \in Host : CheckRemoveOrphan(w, h)
         \/ \E a \in Agent, force \in BOOLEAN : CheckRevoke(w, a, force)
  PROVE  TypeOK'
<1>1. ASSUME NEW l \in Line, CheckAddSSHKey(w, l)
      PROVE  TypeOK'
  <2>1. [op |-> "key", line |-> l] \in Request
    BY DEF Request
  <2> QED
    BY <1>1, <2>1, ParkType DEF CheckAddSSHKey
<1>2. ASSUME NEW h \in Host, NEW u \in UnixUser, NEW ps \in SUBSET Person, CheckSSHRow(w, h, u, ps)
      PROVE  TypeOK'
  <2>1. [op |-> "row", host |-> h, user |-> u, people |-> ps] \in Request
    BY DEF Request
  <2> QED
    BY <1>2, <2>1, ParkType DEF CheckSSHRow
<1>3. ASSUME NEW h \in Host, CheckRemoveOrphan(w, h)
      PROVE  TypeOK'
  <2>1. [op |-> "orphan", host |-> h] \in Request
    BY DEF Request
  <2> QED
    BY <1>3, <2>1, ParkType DEF CheckRemoveOrphan
<1>4. ASSUME NEW a \in Agent, NEW force \in BOOLEAN, CheckRevoke(w, a, force)
      PROVE  TypeOK'
  <2>1. [op |-> "revoke", agent |-> a, force |-> force] \in Request
    BY Zenon DEF Request
  <2> QED
    BY <1>4, <2>1, ParkType DEF CheckRevoke
<1> QED
  BY <1>1, <1>2, <1>3, <1>4

\* The binding an approval will write is made of what the agent reported.
LEMMA ApproveCheckType ==
  ASSUME TypeOK, NEW w \in Worker, NEW h \in Host, NEW a \in Agent, NEW r \in Ref,
         CheckApprove(w, h, a, r)
  PROVE  TypeOK'
<1>1. snap.content.hosts[h] \in Ip
  BY DEF CheckApprove, Readable, TypeOK, Snapshot, Content, HostMap
<1>2. lastReport[a][r] \in Ident
  <2>1. <<a, r>> \in Claims(snap.content.hosts[h])
    BY DEF CheckApprove
  <2>2. lastReport[a] # NoReport /\ lastReport[a][r] # Absent
    BY <2>1 DEF Claims
  <2> QED
    BY <2>2 DEF TypeOK, Seen
<1> DEFINE b == [host |-> h, agent |-> a, ref |-> r, ip |-> snap.content.hosts[h],
                 label |-> lastReport[a][r].label, suspended |-> FALSE]
<1>3. lastReport[a][r].label \in Label \union {NoLabel}
  BY <1>2 DEF Ident
<1>4. b \in Binding
  BY <1>1, <1>3, Zenon DEF Binding
<1>5. [op |-> "approve", binding |-> b] \in Request
  BY <1>4, Zenon DEF Request
<1>6. Park(w, [op |-> "approve", binding |-> b])
  BY DEF CheckApprove
<1> HIDE DEF b
<1> QED
  BY <1>5, <1>6, ParkType

\* The write half of a request: the tables it commits are well formed.
LEMMA FinishType ==
  ASSUME TypeOK, NEW w \in Worker, Finish(w),
         tables' \in Tables, rev' \in Nat,
         agents' \in [Agent -> {"unborn", "active", "rotated", "gone"}],
         lastReport' \in [Agent -> Seen \union {NoReport}],
         handed' \subseteq Agent \X Ref \X UnixUser
  PROVE  TypeOK'
BY DEF Finish, TypeOK, machineVars

\* The five request writes keep the types.
LEMMA RequestType ==
  ASSUME TypeOK, NEW w \in Worker, RequestStep(w)
  PROVE  TypeOK'
<1>0. req[w] \in Request \union {None}
  BY DEF TypeOK
<1>1. CASE AddSSHKey(w)
  <2>1. req[w].line \in Line
    BY <1>0, <1>1 DEF AddSSHKey, Request, None
  <2>2. tables' \in Tables /\ rev' \in Nat
    <3>1. [tables EXCEPT !.keys = @ \union {req[w].line}] \in Tables
      BY <2>1 DEF TypeOK, Tables
    <3> QED
      BY <1>1, <3>1, CommitType DEF AddSSHKey, TypeOK
  <2> QED
    BY <1>1, <2>2, FinishType DEF AddSSHKey, TypeOK
<1>2. CASE SetSSHRow(w)
  <2>1. req[w].host \in Host /\ req[w].user \in UnixUser /\ req[w].people \in SUBSET Person
    BY <1>0, <1>2 DEF SetSSHRow, Request, None
  <2> DEFINE tb == [tables EXCEPT !.assigns =
                      {x \in @ : ~(x[1] = req[w].host /\ x[2] = req[w].user)}
                        \union ({req[w].host} \X {req[w].user} \X req[w].people)]
  <2>2. tb \in Tables
    BY <2>1 DEF TypeOK, Tables
  <2>3. Commit(tb)
    BY <1>2 DEF SetSSHRow
  <2> HIDE DEF tb
  <2> QED
    BY <1>2, <2>2, <2>3, CommitType, FinishType DEF SetSSHRow, TypeOK
<1>3. CASE ApproveSSHTarget(w)
  <2>1. req[w].binding \in Binding
    BY <1>0, <1>3 DEF ApproveSSHTarget, Request, None
  <2>2. tables' \in Tables /\ rev' \in Nat
    <3> DEFINE tb == [tables EXCEPT !.targets =
                        {c \in @ : c.host # req[w].binding.host} \union {req[w].binding}]
    <3>1. tb \in Tables
      BY <2>1 DEF TypeOK, Tables
    <3>2. Commit(tb) \/ UNCHANGED <<tables, rev>>
      BY <1>3 DEF ApproveSSHTarget
    <3> HIDE DEF tb
    <3> QED
      BY <3>1, <3>2, CommitType DEF TypeOK
  <2> QED
    BY <1>3, <2>2, FinishType DEF ApproveSSHTarget, TypeOK
<1>4. CASE RemoveOrphan(w)
  <2> DEFINE tb == [tables EXCEPT !.assigns = {x \in @ : x[1] # req[w].host},
                                  !.targets = {b \in @ : b.host # req[w].host}]
  <2>1. tb \in Tables
    BY DEF TypeOK, Tables
  <2>2. Commit(tb)
    BY <1>4 DEF RemoveOrphan
  <2> HIDE DEF tb
  <2> QED
    BY <1>4, <2>1, <2>2, CommitType, FinishType DEF RemoveOrphan, TypeOK
<1>5. CASE DeleteSSHAgent(w)
  <2>1. WithoutAgent(req[w].agent) \in Tables
    BY DEF WithoutAgent, TypeOK, Tables
  <2>2. tables' \in Tables /\ rev' \in Nat
    BY <1>5, <2>1, CommitType DEF DeleteSSHAgent, dbVars, TypeOK
  <2>3. /\ agents' \in [Agent -> {"unborn", "active", "rotated", "gone"}]
        /\ lastReport' \in [Agent -> Seen \union {NoReport}]
        /\ handed' \subseteq Agent \X Ref \X UnixUser
    BY <1>5 DEF DeleteSSHAgent, CleanupCommands, dbVars, TypeOK, Tables
  <2> QED
    BY <1>5, <2>2, <2>3, FinishType DEF DeleteSSHAgent
<1> QED
  BY <1>1, <1>2, <1>3, <1>4, <1>5 DEF RequestStep

\* Requests that are one transaction.
LEMMA DirectType ==
  ASSUME TypeOK,
         \/ \E l \in Line : DeleteSSHKey(l)
         \/ \E h \in Host : DeleteSSHTarget(h)
         \/ \E p \in Person : DeleteSSHUser(p)
  PROVE  TypeOK'
<1>1. ASSUME NEW tb \in Tables, Direct(tb)
      PROVE  TypeOK'
  <2>1. tables' \in Tables /\ rev' \in Nat
    BY <1>1, CommitType DEF Direct
  <2> QED
    BY <1>1, <2>1 DEF Direct, TypeOK, serverVars, machineVars
<1>2. ASSUME NEW l \in Line, DeleteSSHKey(l)
      PROVE  TypeOK'
  <2>1. [tables EXCEPT !.keys = @ \ {l}] \in Tables
    BY DEF TypeOK, Tables
  <2> QED
    BY <1>1, <1>2, <2>1 DEF DeleteSSHKey
<1>3. ASSUME NEW h \in Host, DeleteSSHTarget(h)
      PROVE  TypeOK'
  <2>1. [tables EXCEPT !.targets = {b \in @ : b.host # h}] \in Tables
    BY DEF TypeOK, Tables
  <2> QED
    BY <1>1, <1>3, <2>1 DEF DeleteSSHTarget
<1>4. ASSUME NEW p \in Person, DeleteSSHUser(p)
      PROVE  TypeOK'
  <2>1. [tables EXCEPT !.keys = {l \in @ : l[1] # p},
                       !.assigns = {x \in @ : x[3] # p}] \in Tables
    BY DEF TypeOK, Tables
  <2> QED
    BY <1>1, <1>4, <2>1 DEF DeleteSSHUser
<1> QED
  BY <1>2, <1>3, <1>4

\* What happens to the row of an agent, or to its age.
LEMMA AgentRowType ==
  ASSUME TypeOK, NEW a \in Agent,
         CreateSSHAgent(a) \/ RotateSSHAgentToken(a) \/ Reinstall(a) \/ GoesStale(a)
  PROVE  TypeOK'
<1>1. CASE CreateSSHAgent(a)
  BY <1>1 DEF CreateSSHAgent, SetAgent, TypeOK, serverVars, machineVars
<1>2. CASE RotateSSHAgentToken(a)
  BY <1>2 DEF RotateSSHAgentToken, SetAgent, TypeOK, serverVars, machineVars
<1>3. CASE Reinstall(a)
  BY <1>3, IdleTypes DEF Reinstall, SetAgent, TypeOK, serverVars, machineVars
<1>4. CASE GoesStale(a)
  BY <1>4 DEF GoesStale, TypeOK, serverVars, machineVars
<1> QED
  BY <1>1, <1>2, <1>3, <1>4

\* Nothing that happens to a machine breaks the types.
LEMMA MachineType ==
  ASSUME TypeOK, MachineStep
  PROVE  TypeOK'
<1> PICK m \in Machine :
      \/ PowerOff(m) \/ PowerOn(m)
      \/ \E id \in Ident : Rename(m, id) \/ Replace(m, id)
      \/ \E u \in UnixUser, to \in {"account", "leftover", "nothing"} : ChangeAccount(m, u, to)
  BY DEF MachineStep
<1> USE DEF OnMachines, TypeOK, dbVars, serverVars
<1>1. CASE PowerOff(m) \/ PowerOn(m)
  BY <1>1 DEF PowerOff, PowerOn
<1>2. ASSUME NEW id \in Ident, Rename(m, id) \/ Replace(m, id)
      PROVE  TypeOK'
  <2>1. CASE Rename(m, id)
    BY <1>2, <2>1 DEF Rename
  <2>2. CASE Replace(m, id)
    <3>1. lost' \subseteq Machine \X UnixUser
      BY <2>2 DEF Replace
    <3>2. block' \in [Machine -> [UnixUser -> SUBSET Line]]
      BY <2>2 DEF Replace
    <3> QED
      BY <2>2, <3>1, <3>2 DEF Replace
  <2> QED
    BY <1>2, <2>1, <2>2
<1>3. ASSUME NEW u \in UnixUser, NEW to \in {"account", "leftover", "nothing"},
             ChangeAccount(m, u, to)
      PROVE  TypeOK'
  <2>1. lost' \subseteq lost \union {<<m, u>>}
    BY <1>3 DEF ChangeAccount
  <2>2. lost' \subseteq Machine \X UnixUser
    BY <2>1
  <2> QED
    BY <1>3, <2>2 DEF ChangeAccount
<1> QED
  BY <1>1, <1>2, <1>3

\* Steps of an agent process that touch nothing but itself.
LEMMA ProcessType ==
  ASSUME TypeOK, NEW a \in Agent,
         \/ Start(a) \/ Stop(a) \/ FullSyncDue(a) \/ Unauthorized(a)
         \/ \E unreadable \in SUBSET Ref : Discover(a, unreadable)
         \/ SyncRefused(a) \/ ConnectionLost(a)
         \/ RetireFails(a) \/ RetireUnauthorized(a)
  PROVE  TypeOK'
<1>0. loop[a] \in Loop
  BY DEF TypeOK
<1>1. CASE Start(a) \/ RetireFails(a) \/ RetireUnauthorized(a)
  BY <1>1, IdleTypes, SteppingType DEF Start, RetireFails, RetireUnauthorized
<1>2. CASE Stop(a) \/ Unauthorized(a)
  BY <1>2, IdleTypes, SteppingType DEF Stop, Unauthorized
<1>3. CASE FullSyncDue(a)
  <2>1. [loop[a] EXCEPT !.due = TRUE] \in Loop
    BY <1>0 DEF Loop
  <2> QED
    BY <1>3, <2>1, SteppingType DEF FullSyncDue
<1>4. ASSUME NEW unreadable \in SUBSET Ref, Discover(a, unreadable)
      PROVE  TypeOK'
  <2>1. Discovery(a, unreadable) \in Seen
    BY DiscoveryType DEF TypeOK
  <2>2. [loop[a] EXCEPT !.pc = "discovered", !.forced = loop[a].due,
                        !.seen = Discovery(a, unreadable)] \in Loop
    BY <1>0, <2>1 DEF Loop
  <2> QED
    BY <1>4, <2>2, SteppingType DEF Discover
<1>5. CASE SyncRefused(a) \/ ConnectionLost(a)
  <2>1. Between(loop[a].etag, loop[a].due) \in Loop
    BY <1>0, BetweenType DEF Loop
  <2> QED
    BY <1>5, <2>1, SteppingType DEF SyncRefused, ConnectionLost, GiveUp
<1> QED
  BY <1>1, <1>2, <1>3, <1>4, <1>5

\* The three steps of the sync handler.
LEMMA HandlerType ==
  ASSUME TypeOK, TagsAreOrdered, NEW a \in Agent,
         SyncSnapshot(a) \/ SyncRevision(a) \/ SyncLoad(a)
  PROVE  TypeOK'
<1>0. loop[a] \in Loop
  BY DEF TypeOK
<1>1. CASE SyncSnapshot(a)
  <2>1. [loop[a] EXCEPT !.pc = "asking", !.call = snap] \in Loop
    BY <1>0 DEF Loop, TypeOK
  <2> QED
    BY <1>1, <2>1, SteppingType DEF SyncSnapshot
<1>2. CASE SyncRevision(a)
  <2> DEFINE tag == [rev |-> rev, snap |-> loop[a].call.rev, boot |-> boot]
             same == Asked(loop[a]) = tag
             next == [loop[a] EXCEPT !.pc = IF same THEN "unchanged" ELSE "tagged",
                                     !.call = IF same THEN NoSnap ELSE @,
                                     !.next = tag]
  <2>1. loop[a].call \in Snapshot
    BY <1>0, <1>2 DEF SyncRevision, TagsAreOrdered, Ordered, InHandler, Loop
  <2>2. tag \in Tag
    BY <2>1 DEF Tag, Snapshot, TypeOK
  <2>3. Stepping(a, next)
    BY <1>2 DEF SyncRevision
  <2>4. next \in Loop
    <3> HIDE DEF same, tag
    <3> QED
      BY <1>0, <2>2 DEF Loop
  <2> HIDE DEF next
  <2> QED
    BY <2>3, <2>4, SteppingType
<1>3. CASE SyncLoad(a)
  <2> DEFINE c == loop[a].call.content
             orders == Desired(a, c.hosts, c.people, tables)
             next == [loop[a] EXCEPT !.pc = "applying", !.call = NoSnap,
                        !.orders = orders,
                        !.todo = Ops(orders, loop[a].seen),
                        !.mismatched = {t.ref : t \in {o \in orders : Mismatched(o, loop[a].seen)}},
                        !.warned = \E t \in orders : ~Ready(t, loop[a].seen)]
  <2>1. loop[a].call \in Snapshot
    BY <1>0, <1>3 DEF SyncLoad, TagsAreOrdered, Ordered, InHandler, Loop
  <2>2. orders \in SUBSET Target
    BY <2>1, DesiredType DEF Snapshot, Content, TypeOK
  <2>3. loop[a].seen \in Seen
    BY <1>0 DEF Loop
  <2>4. Stepping(a, next)
    BY <1>3 DEF SyncLoad
  <2>5. next \in Loop
    <3> HIDE DEF orders
    <3>1. Ops(orders, loop[a].seen) \in SUBSET Op
      BY <2>2, <2>3, OpsType
    <3>2. {t.ref : t \in {o \in orders : Mismatched(o, loop[a].seen)}} \in SUBSET Ref
      BY <2>2 DEF Target
    <3>3. (\E t \in orders : ~Ready(t, loop[a].seen)) \in BOOLEAN
      OBVIOUS
    <3> DEFINE todo == Ops(orders, loop[a].seen)
               wrong == {t.ref : t \in {o \in orders : Mismatched(o, loop[a].seen)}}
               warned == \E t \in orders : ~Ready(t, loop[a].seen)
    <3> HIDE DEF todo, wrong, warned
    <3>4. todo \in SUBSET Op /\ wrong \in SUBSET Ref /\ warned \in BOOLEAN
      BY <3>1, <3>2, <3>3 DEF todo, wrong, warned
    <3>5. [loop[a] EXCEPT !.pc = "applying", !.call = NoSnap, !.orders = orders,
                          !.todo = todo, !.mismatched = wrong, !.warned = warned] \in Loop
      BY <1>0, <2>2, <3>4 DEF Loop
    <3> QED
      BY <3>5 DEF todo, wrong, warned
  <2> HIDE DEF next
  <2> QED
    BY <2>4, <2>5, SteppingType
<1> QED
  BY <1>1, <1>2, <1>3

\* A file operation is done, or warned about; the server does not hear of it yet.
LEMMA FileMoves ==
  ASSUME NEW a, NEW op,
         Rewrite(a, op) \/ NothingLeft(a, op) \/ CannotApply(a, op) \/ ExecFails(a, op)
  PROVE  /\ UNCHANGED <<dbVars, serverVars>>
         /\ \/ loop' = [loop EXCEPT ![a] = Done(a, op)] /\ (Rewrite(a, op) \/ NothingLeft(a, op))
            \/ loop' = [loop EXCEPT ![a] = Warned(a, op)] /\ (CannotApply(a, op) \/ ExecFails(a, op))
         /\ UNCHANGED machineVars \/ Written(a, op)
BY DEF Rewrite, NothingLeft, CannotApply, ExecFails, Stepping, Agenting

\* A file operation moves its pair to what the report will say.
LEMMA DoneType ==
  ASSUME TypeOK, NEW a \in Agent, NEW op \in loop[a].todo
  PROVE  Done(a, op) \in Loop /\ Warned(a, op) \in Loop
<1>0. loop[a] \in Loop
  BY DEF TypeOK
<1>1. op \in Op
  BY <1>0 DEF Loop
<1>2. <<op.ref, op.user>> \in Pair
  BY <1>1 DEF Op, Pair
<1>3. Done(a, op) \in Loop
  BY <1>0, <1>2 DEF Done, Loop
<1>4. Warned(a, op) \in Loop
  BY <1>0 DEF Warned, Loop
<1> QED
  BY <1>3, <1>4

\* A file operation, done or warned about, keeps the types.
LEMMA FileType ==
  ASSUME TypeOK, NEW a \in Agent, NEW op \in loop[a].todo,
         Rewrite(a, op) \/ NothingLeft(a, op) \/ CannotApply(a, op) \/ ExecFails(a, op)
  PROVE  TypeOK'
<1>1. loop' \in [Agent -> Loop]
  BY DoneType, FileMoves DEF TypeOK
<1>2. CASE UNCHANGED machineVars
  BY <1>1, <1>2, FileMoves DEF TypeOK, dbVars, serverVars, machineVars
<1>3. CASE Written(a, op)
  <2>1. op \in Op
    BY DEF TypeOK, Loop
  <2>2. block' \in [Machine -> [UnixUser -> SUBSET Line]]
    BY <1>3, <2>1 DEF Written, TypeOK, Op
  <2> QED
    BY <1>1, <1>3, <2>2, FileMoves DEF Written, TypeOK, dbVars, serverVars
<1> QED
  BY <1>2, <1>3, FileMoves

\* A report and a retirement write well formed tables.
LEMMA ReportedType ==
  ASSUME TypeOK, NEW a \in Agent
  PROVE  Reported(a) \in Tables
<1>1. loop[a].applied \in SUBSET (Ref \X UnixUser)
  BY DEF TypeOK, Loop, Pair
<1>2. (tables.managed \union {<<a, p[1], p[2]>> : p \in loop[a].applied})
         \ {<<a, p[1], p[2]>> : p \in loop[a].cleared} \in SUBSET (Agent \X Ref \X UnixUser)
  BY <1>1 DEF TypeOK, Tables
<1>3. {IF b.agent = a /\ b.ref \in loop[a].mismatched
       THEN [b EXCEPT !.suspended = TRUE] ELSE b : b \in tables.targets} \in SUBSET Binding
  <2>1. \A b \in Binding : [b EXCEPT !.suspended = TRUE] \in Binding
    BY DEF Binding
  <2> QED
    BY <2>1 DEF TypeOK, Tables
<1> QED
  BY <1>2, <1>3 DEF Reported, TypeOK, Tables

\* A report, answered or not, keeps the types.
LEMMA ReportType ==
  ASSUME TypeOK, NEW a \in Agent, ReportAnswered(a) \/ ReportUnanswered(a)
  PROVE  TypeOK'
<1>0. loop[a] \in Loop
  BY DEF TypeOK
<1>1. /\ tables' \in Tables
      /\ rev' \in Nat
      /\ lastReport' \in [Agent -> Seen \union {NoReport}]
      /\ agents' = agents
  <2>1. RecordSSHReport(a)
    BY DEF ReportAnswered, ReportUnanswered
  <2>2. tables' \in Tables
    BY <2>1, ReportedType DEF RecordSSHReport
  <2>3. loop[a].seen \in Seen
    BY <1>0 DEF Loop
  <2> QED
    BY <2>1, <2>2, <2>3 DEF RecordSSHReport, TypeOK
<1>2. PICK l \in Loop : Agenting(a, l)
  <2>1. CASE ReportAnswered(a)
    <3> DEFINE etag == IF loop[a].warned THEN loop[a].etag ELSE loop[a].next
               due  == loop[a].due /\ ~loop[a].forced
    <3>1. etag \in Tag \union {NoTag}
      BY <1>0 DEF Loop
    <3>2. due \in BOOLEAN
      BY <1>0 DEF Loop
    <3>3. Agenting(a, Between(etag, due))
      BY <2>1 DEF ReportAnswered
    <3> HIDE DEF etag, due
    <3> QED
      BY <3>1, <3>2, <3>3, BetweenType
  <2>2. CASE ReportUnanswered(a)
    BY <1>0, <2>2, BetweenType DEF ReportUnanswered, Loop
  <2> QED
    BY <2>1, <2>2
<1> QED
  BY <1>1, <1>2 DEF Agenting, TypeOK, serverVars, machineVars

\* An uninstall starts from well formed clear orders.
LEMMA UninstallType ==
  ASSUME TypeOK, NEW a \in Agent, Uninstall(a)
  PROVE  TypeOK'
<1> DEFINE orders == {ClearTarget(a, r, tables) : r \in {s \in Ref : ManagedUsers(a, s, tables) # {}}}
           seen   == Discovery(a, {})
           next   == [Off EXCEPT !.pc = "retiring", !.seen = seen, !.orders = orders,
                                 !.todo = Ops(orders, seen)]
<1>1. seen \in Seen
  BY DiscoveryType DEF TypeOK
<1>2. orders \in SUBSET Target
  <2>1. \A r \in Ref : ClearTarget(a, r, tables) \in Target
    BY DEF ClearTarget, Target, ManagedUsers
  <2> QED
    BY <2>1
<1>3. Stepping(a, next)
  BY DEF Uninstall
<1> HIDE DEF orders, seen
<1>4. Ops(orders, seen) \in SUBSET Op
  BY <1>1, <1>2, OpsType
<1>5. next \in Loop
  BY <1>1, <1>2, <1>4, IdleTypes DEF Loop
<1> HIDE DEF next
<1> QED
  BY <1>3, <1>5, SteppingType

\* A retirement, answered or not, keeps the types.
LEMMA RetireType ==
  ASSUME TypeOK, NEW a \in Agent, RetireAnswered(a) \/ RetireUnanswered(a)
  PROVE  TypeOK'
<1>0. RetireSSHAgent(a)
  BY DEF RetireAnswered, RetireUnanswered
<1>1. tables' \in Tables /\ rev' \in Nat
  <2>1. WithoutAgent(a) \in Tables
    BY DEF WithoutAgent, TypeOK, Tables
  <2> DEFINE gone == {<<a, p[1], p[2]>> : p \in loop[a].cleared}
             kept == [tables EXCEPT !.managed = @ \ gone]
  <2>2. kept \in Tables
    <3> HIDE DEF gone
    <3> QED
      BY DEF TypeOK, Tables
  <2>3. \/ tables' = kept /\ (rev' = rev \/ rev' = rev + 1)
        \/ Commit(WithoutAgent(a))
    BY <1>0 DEF RetireSSHAgent
  <2> HIDE DEF kept
  <2> QED
    BY <2>1, <2>2, <2>3, CommitType DEF TypeOK
<1>2. /\ agents' \in [Agent -> {"unborn", "active", "rotated", "gone"}]
      /\ lastReport' \in [Agent -> Seen \union {NoReport}]
  BY <1>0 DEF RetireSSHAgent, TypeOK
<1>3. PICK l \in Loop : Agenting(a, l)
  BY IdleTypes DEF RetireAnswered, RetireUnanswered
<1> QED
  BY <1>1, <1>2, <1>3 DEF Agenting, TypeOK, serverVars, machineVars

-----------------------------------------------------------------------------
(* Why an order is current.  Requests to the database either move the      *)
(* revision or change no table; everything an agent captured stays behind  *)
(* what is current, and whatever moves leaves the captured ETag behind.    *)

TablesMoveWithRevision == rev' \in Nat /\ rev' >= rev /\ (rev' = rev => tables' = tables)

\* The write half of a request changes no table without the revision.
LEMMA RequestsMoveRevision ==
  ASSUME TypeOK, NEW w \in Worker, RequestStep(w)
  PROVE  TablesMoveWithRevision /\ UNCHANGED <<boot, snap, loop>>
<1>1. UNCHANGED <<boot, snap, loop>>
  BY DEF RequestStep, AddSSHKey, SetSSHRow, ApproveSSHTarget, RemoveOrphan, DeleteSSHAgent,
         Finish
<1>2. (\E tb : Commit(tb)) \/ UNCHANGED <<tables, rev>>
  BY DEF RequestStep, AddSSHKey, SetSSHRow, ApproveSSHTarget, RemoveOrphan, DeleteSSHAgent,
         dbVars
<1> QED
  BY <1>1, <1>2 DEF Commit, TablesMoveWithRevision, TypeOK

\* An agent that is not touched, or leaves the cycle, or keeps what it captured.
LEMMA Undisturbed ==
  ASSUME TypeOK, NEW a \in Agent, Ordered(a), CarriesCurrent(a),
         boot' = boot, snap' = snap, TablesMoveWithRevision,
         \/ loop'[a].pc \notin {"asking", "tagged", "applying"}
         \/ /\ loop'[a].pc = loop[a].pc
            /\ loop'[a].call = loop[a].call
            /\ loop'[a].next = loop[a].next
            /\ loop'[a].orders = loop[a].orders
  PROVE  Ordered(a)' /\ CarriesCurrent(a)'
<1>0. loop[a] \in Loop /\ rev \in Nat
  BY DEF TypeOK
<1>1. CASE loop'[a].pc \notin {"asking", "tagged", "applying"}
  BY <1>1 DEF Ordered, InHandler, CarriesCurrent
<1>2. CASE /\ loop'[a].pc = loop[a].pc
           /\ loop'[a].call = loop[a].call
           /\ loop'[a].next = loop[a].next
           /\ loop'[a].orders = loop[a].orders
  <2>1. Ordered(a)'
    <3>1. loop[a].pc \in {"tagged", "applying"} => loop[a].next \in Tag
      BY <1>0 DEF Ordered, Loop
    <3> QED
      BY <1>0, <1>2, <3>1 DEF Ordered, InHandler, TablesMoveWithRevision, Tag
  <2>2. CarriesCurrent(a)'
    <3> SUFFICES ASSUME loop'[a].pc = "applying", HoldsCurrent(loop[a].next)'
                 PROVE  loop'[a].orders = DesiredNow(a)'
      BY <1>2 DEF CarriesCurrent
    <3>1. loop[a].next \in Tag /\ loop[a].next.rev <= rev
      BY <1>0, <1>2 DEF Ordered, Loop
    <3>2. loop'[a].next = [rev |-> rev', snap |-> snap.rev, boot |-> boot]
      BY <1>2 DEF HoldsCurrent, CurrentTag
    <3>3. rev' = rev
      BY <1>0, <1>2, <3>1, <3>2 DEF TablesMoveWithRevision, Tag
    <3>4. HoldsCurrent(loop[a].next)
      BY <1>2, <3>2, <3>3 DEF HoldsCurrent, CurrentTag
    <3> QED
      BY <1>2, <3>3, <3>4 DEF CarriesCurrent, DesiredNow, TablesMoveWithRevision
  <2> QED
    BY <2>1, <2>2
<1> QED
  BY <1>1, <1>2

IInv == TypeOK /\ TagsAreOrdered /\ OrdersAreCurrent

\* A poll moves the snapshot number, or finds nothing new; a first poll and
\* a restart only meet ETags of other processes.
LEMMA WatcherKeeps ==
  ASSUME IInv, NEW a \in Agent,
         (\E c \in Content, other \in BOOLEAN : Poll(c, other)) \/ PollFails \/ Restart
  PROVE  Ordered(a)' /\ CarriesCurrent(a)'
<1>0. /\ TypeOK /\ Ordered(a) /\ CarriesCurrent(a)
      /\ loop[a] \in Loop /\ rev \in Nat /\ boot \in Nat
  BY DEF IInv, TagsAreOrdered, OrdersAreCurrent, TypeOK
<1>1. ASSUME NEW c \in Content, NEW other \in BOOLEAN, Poll(c, other)
      PROVE  Ordered(a)' /\ CarriesCurrent(a)'
  <2>1. UNCHANGED <<tables, rev, boot, loop>>
    BY <1>1 DEF Poll, dbVars
  <2>2. CASE snap' = snap
    BY <1>0, <2>1, <2>2, Undisturbed DEF TablesMoveWithRevision
  <2>3. CASE snap = NoSnap
    <3>1. ~InHandler(a)
      BY <1>0, <2>3 DEF Ordered
    <3>2. loop[a].pc = "applying" => loop[a].next \in Tag /\ loop[a].next.boot # boot
      BY <1>0, <2>3 DEF Ordered, Loop
    <3> QED
      BY <1>0, <2>1, <3>1, <3>2 DEF Ordered, InHandler, CarriesCurrent, HoldsCurrent, CurrentTag, Tag
  <2>4. CASE snap # NoSnap /\ snap' = [rev |-> snap.rev + 1, content |-> c]
    <3>1. snap \in Snapshot /\ snap.rev \in Nat /\ snap'.rev = snap.rev + 1 /\ snap' # NoSnap
      <4>1. snap \in Snapshot
        BY <1>0, <2>4 DEF TypeOK
      <4>2. snap' \in Snapshot
        BY <2>4, <4>1 DEF Snapshot
      <4> QED
        BY <2>4, <4>1, <4>2, SnapshotsExist DEF Snapshot
    <3>2. InHandler(a) => loop[a].call \in Snapshot
      BY <1>0 DEF Ordered, Loop
    <3>3. loop[a].pc \in {"tagged", "applying"} => loop[a].next \in Tag
      BY <1>0 DEF Ordered, Loop
    <3>4. Ordered(a)'
      BY <1>0, <2>1, <2>4, <3>1, <3>2, <3>3 DEF Ordered, InHandler, Snapshot, Tag
    <3>5. CarriesCurrent(a)'
      BY <1>0, <2>1, <3>1, <3>3 DEF Ordered, CarriesCurrent, HoldsCurrent, CurrentTag, Tag
    <3> QED
      BY <3>4, <3>5
  <2> QED
    BY <1>1, <2>2, <2>3, <2>4 DEF Poll
<1>2. CASE PollFails
  <2>1. UNCHANGED <<tables, rev, boot, snap, loop>>
    BY <1>2 DEF PollFails, dbVars
  <2> QED
    BY <1>0, <2>1, Undisturbed DEF TablesMoveWithRevision
<1>3. CASE Restart
  <2>1. /\ boot' = boot + 1 /\ snap' = NoSnap /\ rev' = rev
        /\ loop'[a] = IF InHandler(a) THEN Between(loop[a].etag, loop[a].due) ELSE loop[a]
    BY <1>3 DEF Restart, NewBoot, dbVars, TypeOK
  <2>2. loop'[a].pc \notin {"asking", "tagged"}
    BY <2>1 DEF InHandler, Between
  <2>3. loop'[a].pc = "applying" => loop'[a] = loop[a]
    BY <2>1 DEF InHandler, Between
  <2>4. loop[a].pc = "applying" => loop[a].next \in Tag
    BY <1>0 DEF Ordered, Loop
  <2> QED
    BY <1>0, <2>1, <2>2, <2>3, <2>4 DEF Ordered, InHandler, CarriesCurrent, HoldsCurrent, Tag
<1> QED
  BY <1>1, <1>2, <1>3

\* The sync handler fixes the revision before it reads the tables: when the
\* ETag is still current after that read, so is what was read.
LEMMA HandlerKeeps ==
  ASSUME IInv, NEW a \in Agent, SyncSnapshot(a) \/ SyncRevision(a) \/ SyncLoad(a)
  PROVE  Ordered(a)' /\ CarriesCurrent(a)'
<1>0. /\ TypeOK /\ Ordered(a)
      /\ loop[a] \in Loop /\ rev \in Nat /\ boot \in Nat
  BY DEF IInv, TagsAreOrdered, TypeOK
<1>1. UNCHANGED <<tables, rev, boot, snap>>
  BY DEF SyncSnapshot, SyncRevision, SyncLoad, Stepping, Agenting, dbVars, serverVars
<1>2. CASE SyncSnapshot(a)
  <2>1. loop'[a] = [loop[a] EXCEPT !.pc = "asking", !.call = snap]
    BY <1>0, <1>2, SteppingMoves DEF SyncSnapshot
  <2>2. snap \in Snapshot
    BY <1>0, <1>2 DEF SyncSnapshot, TypeOK
  <2>3. loop'[a].pc = "asking" /\ loop'[a].call = snap
    BY <1>0, <2>1 DEF Loop
  <2> QED
    BY <1>1, <1>2, <2>2, <2>3 DEF SyncSnapshot, Ordered, InHandler, CarriesCurrent, Snapshot
<1>3. CASE SyncRevision(a)
  <2> DEFINE tag == [rev |-> rev, snap |-> loop[a].call.rev, boot |-> boot]
             same == Asked(loop[a]) = tag
  <2>1. loop'[a] = [loop[a] EXCEPT !.pc = IF same THEN "unchanged" ELSE "tagged",
                                   !.call = IF same THEN NoSnap ELSE @,
                                   !.next = tag]
    BY <1>0, <1>3, SteppingMoves DEF SyncRevision
  <2>2. loop[a].pc = "asking" /\ loop[a].call \in Snapshot
    BY <1>0, <1>3 DEF SyncRevision, Ordered, InHandler, Loop
  <2> HIDE DEF same
  <2>3. CASE same
    <3>1. loop'[a].pc = "unchanged"
      BY <1>0, <2>1, <2>3 DEF Loop
    <3> QED
      BY <3>1 DEF Ordered, InHandler, CarriesCurrent
  <2>4. CASE ~same
    <3>1. loop'[a].pc = "tagged" /\ loop'[a].call = loop[a].call /\ loop'[a].next = tag
      BY <1>0, <2>1, <2>4 DEF Loop
    <3>2. tag \in Tag /\ tag # NoTag
      BY <1>0, <2>2, TagsExist DEF Tag, Snapshot
    <3> QED
      BY <1>0, <1>1, <2>2, <3>1, <3>2 DEF Ordered, InHandler, CarriesCurrent, Snapshot
  <2> QED
    BY <2>3, <2>4
<1>4. CASE SyncLoad(a)
  <2> DEFINE c == loop[a].call.content
  <2>1. /\ loop'[a].pc = "applying"
        /\ loop'[a].next = loop[a].next
        /\ loop'[a].orders = Desired(a, c.hosts, c.people, tables)
    BY <1>0, <1>4 DEF SyncLoad, Stepping, Agenting, TypeOK, Loop
  <2>2. loop[a].pc = "tagged" /\ loop[a].next \in Tag
    BY <1>0, <1>4 DEF SyncLoad, Ordered, Loop
  <2>3. Ordered(a)'
    BY <1>0, <1>1, <2>1, <2>2 DEF Ordered, InHandler
  <2>4. CarriesCurrent(a)'
    <3> SUFFICES ASSUME HoldsCurrent(loop[a].next)'
                 PROVE  loop'[a].orders = DesiredNow(a)'
      BY DEF CarriesCurrent
    <3>1. loop[a].next = [rev |-> rev, snap |-> snap.rev, boot |-> boot]
      BY <1>1, <2>1 DEF HoldsCurrent, CurrentTag
    <3>2. loop[a].call = snap
      BY <1>0, <2>2, <3>1 DEF Ordered, InHandler
    <3> QED
      BY <1>1, <2>1, <3>2 DEF DesiredNow
  <2> QED
    BY <2>3, <2>4
<1> QED
  BY <1>2, <1>3, <1>4

\* A step that captures nothing.
Idle(l) == l.pc \notin {"asking", "tagged", "applying"}

Holds(l, k) == l.pc = k.pc /\ l.call = k.call /\ l.next = k.next /\ l.orders = k.orders

Quiet ==
  /\ boot' = boot /\ snap' = snap
  /\ TablesMoveWithRevision
  /\ \A b \in Agent : Idle(loop'[b]) \/ Holds(loop'[b], loop[b])

\* A step that leaves idle agents idle and the others holding what they captured keeps both invariants.
LEMMA QuietKeeps ==
  ASSUME IInv, Quiet
  PROVE  TagsAreOrdered' /\ OrdersAreCurrent'
<1>1. ASSUME NEW a \in Agent
      PROVE  Ordered(a)' /\ CarriesCurrent(a)'
  BY Undisturbed DEF IInv, Quiet, Idle, Holds, TagsAreOrdered, OrdersAreCurrent
<1> QED
  BY <1>1 DEF TagsAreOrdered, OrdersAreCurrent

\* Admin requests disturb no capture.
LEMMA RequestsAreQuiet ==
  ASSUME TypeOK,
         \/ AdminStep
         \/ \E w \in Worker : RequestStep(w)
         \/ \E a \in Agent : GoesStale(a)
         \/ MachineStep
  PROVE  Quiet
<1>0. rev \in Nat
  BY DEF TypeOK
<1>1. ASSUME NEW w \in Worker, RequestStep(w)
      PROVE  Quiet
  BY <1>1, RequestsMoveRevision DEF Quiet, Holds
<1>2. ASSUME NEW w \in Worker, NEW r, Park(w, r)
      PROVE  Quiet
  BY <1>0, <1>2 DEF Park, dbVars, Quiet, Holds, TablesMoveWithRevision
<1>3. ASSUME NEW tb, Direct(tb)
      PROVE  Quiet
  BY <1>0, <1>3 DEF Direct, Commit, serverVars, Quiet, Holds, TablesMoveWithRevision
<1>4. ASSUME NEW a \in Agent, GoesStale(a)
      PROVE  Quiet
  BY <1>0, <1>4 DEF GoesStale, serverVars, Quiet, Holds, TablesMoveWithRevision
<1>5. ASSUME NEW a \in Agent, CreateSSHAgent(a) \/ RotateSSHAgentToken(a)
      PROVE  Quiet
  BY <1>0, <1>5 DEF CreateSSHAgent, RotateSSHAgentToken, SetAgent, serverVars, Quiet, Holds,
                    TablesMoveWithRevision
<1>6. ASSUME NEW a \in Agent, Reinstall(a)
      PROVE  Quiet
  <2>1. loop' = [loop EXCEPT ![a] = Started]
    BY <1>6 DEF Reinstall
  <2>2. Idle(Started)
    BY DEF Idle, Started, Between
  <2>3. \A b \in Agent : Idle(loop'[b]) \/ Holds(loop'[b], loop[b])
    BY <2>1, <2>2 DEF TypeOK, Holds
  <2> QED
    BY <1>0, <1>6, <2>3 DEF Reinstall, SetAgent, serverVars, Quiet, TablesMoveWithRevision
<1>7. CASE MachineStep
  <2>1. OnMachines
    BY <1>7 DEF MachineStep, PowerOff, PowerOn, Rename, Replace, ChangeAccount
  <2> QED
    BY <1>0, <2>1 DEF OnMachines, dbVars, serverVars, Quiet, Holds, TablesMoveWithRevision
<1>8. CASE AdminStep
  <2>1. ASSUME NEW w \in Worker,
               \/ \E l \in Line : CheckAddSSHKey(w, l)
               \/ \E h \in Host, u \in UnixUser, ps \in SUBSET Person : CheckSSHRow(w, h, u, ps)
               \/ \E h \in Host, a \in Agent, r \in Ref : CheckApprove(w, h, a, r)
               \/ \E h \in Host : CheckRemoveOrphan(w, h)
               \/ \E a \in Agent, force \in BOOLEAN : CheckRevoke(w, a, force)
        PROVE  Quiet
    <3>1. \E r : Park(w, r)
      BY <2>1 DEF CheckAddSSHKey, CheckSSHRow, CheckApprove, CheckRemoveOrphan, CheckRevoke
    <3> QED
      BY <3>1, <1>2
  <2>2. ASSUME \/ \E l \in Line : DeleteSSHKey(l)
               \/ \E h \in Host : DeleteSSHTarget(h)
               \/ \E p \in Person : DeleteSSHUser(p)
        PROVE  Quiet
    <3>1. \E tb : Direct(tb)
      BY <2>2 DEF DeleteSSHKey, DeleteSSHTarget, DeleteSSHUser
    <3> QED
      BY <3>1, <1>3
  <2> QED
    BY <1>5, <1>6, <1>8, <2>1, <2>2 DEF AdminStep
<1> QED
  BY <1>1, <1>4, <1>7, <1>8

\* What an agent process does outside the handler disturbs no capture.
LEMMA ProcessIsQuiet ==
  ASSUME TypeOK, NEW a \in Agent,
         \/ Start(a) \/ Stop(a) \/ FullSyncDue(a) \/ Unauthorized(a) \/ Uninstall(a)
         \/ \E unreadable \in SUBSET Ref : Discover(a, unreadable)
         \/ SyncRefused(a) \/ ConnectionLost(a)
         \/ RetireFails(a) \/ RetireUnauthorized(a)
         \/ \E op \in loop[a].todo :
              Rewrite(a, op) \/ NothingLeft(a, op) \/ CannotApply(a, op) \/ ExecFails(a, op)
  PROVE  Quiet
<1>0. loop[a] \in Loop /\ rev \in Nat
  BY DEF TypeOK
<1>1. ASSUME NEW l, Idle(l) \/ Holds(l, loop[a]), Stepping(a, l)
      PROVE  Quiet
  <2>1. loop'[a] = l /\ (\A b \in Agent : b # a => loop'[b] = loop[b])
    BY <1>1, SteppingMoves
  <2>2. UNCHANGED <<tables, rev, boot, snap>>
    BY <1>1, SteppingMoves
  <2> QED
    BY <1>0, <1>1, <2>1, <2>2 DEF Quiet, Holds, TablesMoveWithRevision
<1>2. Idle(Started) /\ Idle(Off) /\ \A etag, due : Idle(Between(etag, due))
  BY DEF Idle, Started, Off, Between
<1>3. CASE \/ Start(a) \/ Stop(a) \/ Unauthorized(a) \/ SyncRefused(a) \/ ConnectionLost(a)
           \/ RetireFails(a) \/ RetireUnauthorized(a)
  <2>1. \E l : Idle(l) /\ Stepping(a, l)
    BY <1>2, <1>3 DEF Start, Stop, Unauthorized, SyncRefused, ConnectionLost, RetireFails,
                      RetireUnauthorized, GiveUp
  <2> QED
    BY <1>1, <2>1
<1>4. CASE FullSyncDue(a)
  <2>1. Holds([loop[a] EXCEPT !.due = TRUE], loop[a])
    BY <1>0 DEF Holds, Loop
  <2> QED
    BY <1>1, <1>4, <2>1 DEF FullSyncDue
<1>5. ASSUME NEW unreadable \in SUBSET Ref, Discover(a, unreadable)
      PROVE  Quiet
  <2>1. Idle([loop[a] EXCEPT !.pc = "discovered", !.forced = loop[a].due,
                             !.seen = Discovery(a, unreadable)])
    BY <1>0 DEF Idle, Loop
  <2> QED
    BY <1>1, <1>5, <2>1 DEF Discover
<1>6. CASE Uninstall(a)
  <2> DEFINE orders == {ClearTarget(a, r, tables) : r \in {s \in Ref : ManagedUsers(a, s, tables) # {}}}
             seen   == Discovery(a, {})
             next   == [Off EXCEPT !.pc = "retiring", !.seen = seen, !.orders = orders,
                                   !.todo = Ops(orders, seen)]
  <2>1. Stepping(a, next)
    BY <1>6 DEF Uninstall
  <2>2. next.pc = "retiring"
    BY IdleTypes DEF Loop
  <2>3. Idle(next)
    BY <2>2 DEF Idle
  <2> QED
    BY <1>1, <2>1, <2>3
<1>7. ASSUME NEW op \in loop[a].todo,
             Rewrite(a, op) \/ NothingLeft(a, op) \/ CannotApply(a, op) \/ ExecFails(a, op)
      PROVE  Quiet
  <2>1. Holds(Done(a, op), loop[a]) /\ Holds(Warned(a, op), loop[a])
    BY <1>0 DEF Holds, Done, Warned, Loop
  <2>2. \E l : Holds(l, loop[a]) /\ loop' = [loop EXCEPT ![a] = l]
    BY <1>7, <2>1, FileMoves
  <2>3. \A b \in Agent : Holds(loop'[b], loop[b])
    BY <2>2 DEF TypeOK, Holds
  <2>4. UNCHANGED <<tables, rev, boot, snap>>
    BY <1>7, FileMoves DEF dbVars, serverVars
  <2> QED
    BY <1>0, <2>3, <2>4 DEF Quiet, TablesMoveWithRevision
<1> QED
  BY <1>3, <1>4, <1>5, <1>6, <1>7

\* Reports and retirements disturb no capture.
LEMMA ReportsAreQuiet ==
  ASSUME TypeOK, NEW a \in Agent,
         \/ ReportAnswered(a) \/ ReportUnanswered(a)
         \/ RetireAnswered(a) \/ RetireUnanswered(a)
  PROVE  Quiet
<1>0. rev \in Nat
  BY DEF TypeOK
<1>1. TablesMoveWithRevision
  <2>1. CASE RecordSSHReport(a)
    BY <1>0, <2>1 DEF RecordSSHReport, TablesMoveWithRevision
  <2>2. CASE RetireSSHAgent(a)
    <3> DEFINE gone == {<<a, p[1], p[2]>> : p \in loop[a].cleared}
               kept == [tables EXCEPT !.managed = @ \ gone]
    <3>1. \/ tables' = kept /\ rev' = (IF loop[a].cleared = {} THEN rev ELSE rev + 1)
          \/ Commit(WithoutAgent(a))
      BY <2>2 DEF RetireSSHAgent
    <3>2. loop[a].cleared = {} => kept = tables
      BY DEF TypeOK, Tables
    <3> HIDE DEF kept
    <3> QED
      BY <1>0, <3>1, <3>2 DEF Commit, TablesMoveWithRevision
  <2> QED
    BY <2>1, <2>2 DEF ReportAnswered, ReportUnanswered, RetireAnswered, RetireUnanswered
<1>2. PICK l : Agenting(a, l) /\ Idle(l)
  BY DEF ReportAnswered, ReportUnanswered, RetireAnswered, RetireUnanswered, Idle, Off, Started,
         Between
<1> QED
  BY <1>1, <1>2 DEF Agenting, serverVars, TypeOK, Quiet, Holds

-----------------------------------------------------------------------------
\* Nothing has been captured before the first cycle.
LEMMA InitHolds ==
  ASSUME Init
  PROVE  IInv
<1>1. Off \in Loop /\ Off.pc = "off"
  BY IdleTypes DEF Off, Started, Between
<1>2. TypeOK
  <2>1. tables \in Tables
    BY DEF Init, Tables
  <2> QED
    BY <1>1, <2>1 DEF Init, TypeOK
<1>3. \A a \in Agent : loop[a].pc = "off"
  BY <1>1 DEF Init
<1>4. TagsAreOrdered /\ OrdersAreCurrent
  BY <1>3 DEF TagsAreOrdered, Ordered, InHandler, OrdersAreCurrent, CarriesCurrent
<1> QED
  BY <1>2, <1>4 DEF IInv

\* Every action keeps the types.
LEMMA NextType ==
  ASSUME IInv, Next
  PROVE  TypeOK'
<1> USE DEF IInv
<1>1. CASE AdminStep
  <2>1. ASSUME NEW w \in Worker, NEW h \in Host, NEW a \in Agent, NEW r \in Ref,
               CheckApprove(w, h, a, r)
        PROVE  TypeOK'
    BY <2>1, ApproveCheckType
  <2> QED
    BY <1>1, <2>1, CheckType, DirectType, AgentRowType DEF AdminStep
<1>2. ASSUME NEW a \in Agent, Uninstall(a)
      PROVE  TypeOK'
  BY <1>2, UninstallType
<1>3. ASSUME NEW w \in Worker, RequestStep(w)
      PROVE  TypeOK'
  BY <1>3, RequestType
<1>4. CASE (\E c \in Content, other \in BOOLEAN : Poll(c, other)) \/ PollFails \/ Restart
  BY <1>4, WatcherType
<1>5. ASSUME NEW a \in Agent, CycleStep(a)
      PROVE  TypeOK'
  BY <1>5, ProcessType, HandlerType, FileType, ReportType, RetireType DEF CycleStep
<1>6. ASSUME NEW a \in Agent, AgentFault(a)
      PROVE  TypeOK'
  BY <1>6, ProcessType, FileType, ReportType, RetireType, AgentRowType DEF AgentFault
<1>7. ASSUME NEW a \in Agent, Start(a) \/ FullSyncDue(a)
      PROVE  TypeOK'
  BY <1>7, ProcessType
<1>8. CASE MachineStep
  BY <1>8, MachineType
<1> QED
  BY <1>1, <1>2, <1>3, <1>4, <1>5, <1>6, <1>7, <1>8 DEF Next

\* Every action keeps captures behind what is current.
LEMMA NextKeeps ==
  ASSUME IInv, Next
  PROVE  TagsAreOrdered' /\ OrdersAreCurrent'
<1>1. CASE Quiet
  BY <1>1, QuietKeeps
<1>2. CASE (\E c \in Content, other \in BOOLEAN : Poll(c, other)) \/ PollFails \/ Restart
  <2>1. ASSUME NEW a \in Agent
        PROVE  Ordered(a)' /\ CarriesCurrent(a)'
    BY <1>2, WatcherKeeps
  <2> QED
    BY <2>1 DEF TagsAreOrdered, OrdersAreCurrent
<1>3. ASSUME NEW a \in Agent, SyncSnapshot(a) \/ SyncRevision(a) \/ SyncLoad(a)
      PROVE  TagsAreOrdered' /\ OrdersAreCurrent'
  <2>1. Ordered(a)' /\ CarriesCurrent(a)'
    BY <1>3, HandlerKeeps
  <2>2. ASSUME NEW b \in Agent, b # a
        PROVE  Ordered(b)' /\ CarriesCurrent(b)'
    <3>1. TypeOK /\ \E l : Stepping(a, l)
      BY <1>3 DEF IInv, SyncSnapshot, SyncRevision, SyncLoad
    <3>2. loop'[b] = loop[b] /\ UNCHANGED <<tables, rev, boot, snap>>
      BY <2>2, <3>1, SteppingMoves
    <3>3. TablesMoveWithRevision
      BY <3>1, <3>2 DEF TypeOK, TablesMoveWithRevision
    <3> QED
      BY <3>1, <3>2, <3>3, Undisturbed DEF IInv, TagsAreOrdered, OrdersAreCurrent
  <2> QED
    BY <2>1, <2>2 DEF TagsAreOrdered, OrdersAreCurrent
<1>4. TypeOK
  BY DEF IInv
<1>5. CASE AdminStep \/ (\E w \in Worker : RequestStep(w)) \/ MachineStep
  BY <1>1, <1>4, <1>5, RequestsAreQuiet
<1>6. ASSUME NEW a \in Agent, Uninstall(a) \/ Start(a) \/ FullSyncDue(a)
      PROVE  TagsAreOrdered' /\ OrdersAreCurrent'
  BY <1>1, <1>4, <1>6, ProcessIsQuiet
<1>7. ASSUME NEW a \in Agent, CycleStep(a)
      PROVE  TagsAreOrdered' /\ OrdersAreCurrent'
  BY <1>1, <1>3, <1>4, <1>7, ProcessIsQuiet, ReportsAreQuiet DEF CycleStep
<1>8. ASSUME NEW a \in Agent, AgentFault(a)
      PROVE  TagsAreOrdered' /\ OrdersAreCurrent'
  BY <1>1, <1>4, <1>8, ProcessIsQuiet, ReportsAreQuiet, RequestsAreQuiet DEF AgentFault
<1> QED
  BY <1>2, <1>5, <1>6, <1>7, <1>8 DEF Next

(* In every behaviour of any size, the types hold, what is captured stays  *)
(* behind what is current, and an order carried out under the current ETag *)
(* is the current order.                                                   *)
THEOREM Invariance == Spec => []IInv
<1>1. Init => IInv
  BY InitHolds
<1>2. IInv /\ [Next]_vars => IInv'
  <2> SUFFICES ASSUME IInv, [Next]_vars
               PROVE  IInv'
    OBVIOUS
  <2>1. CASE Next
    BY <2>1, NextType, NextKeeps DEF IInv
  <2>2. CASE UNCHANGED vars
    <3>1. TypeOK'
      BY <2>2 DEF IInv, TypeOK, vars, dbVars, serverVars, machineVars
    <3>2. Quiet
      BY <2>2 DEF IInv, TypeOK, vars, dbVars, serverVars, Quiet, Holds, TablesMoveWithRevision
    <3> QED
      BY <3>1, <3>2, QuietKeeps DEF IInv
  <2> QED
    BY <2>1, <2>2
<1> QED
  BY <1>1, <1>2, PTL DEF Spec

(* The tables stay well formed whatever interleaves (SetSSHRow,            *)
(* ApproveSSHTarget, RecordSSHReport).                                     *)
THEOREM TypeCorrect == Spec => []TypeOK
BY Invariance, PTL DEF IInv

(* What a request captured is never ahead of what is current: the sync     *)
(* handler, newBoot and Watcher.applyLocked together.                      *)
THEOREM CapturesOrdered == Spec => []TagsAreOrdered
BY Invariance, PTL DEF IInv

(* An agent that works under the current ETag carries out the current      *)
(* order: no change of the tables or of the snapshot hides behind it       *)
(* (sshTx, the sync handler).                                              *)
THEOREM OrdersCurrent == Spec => []OrdersAreCurrent
BY Invariance, PTL DEF IInv

-----------------------------------------------------------------------------
(* Suspended bindings. *)

\* UNIQUE (agent_id, target_ref) of ssh_targets.
OneBinding ==
  \A b, c \in tables.targets : b.agent = c.agent /\ b.ref = c.ref => b = c

Busy(l) == l.pc \in {"applying", "retiring"}

PairOf(op) == <<op.ref, op.user>>

\* At most one operation for each account.
Single(ops) == \A x, y \in ops : PairOf(x) = PairOf(y) => x = y

\* What an agent has left to do, and says it cleared, comes from an order
\* that says one thing of each account, and from machines it saw.
Working(a, l) ==
  /\ \A r \in Ref : l.seen[r] # Absent => Reaches(a, r)
  /\ IF Busy(l)
     THEN /\ l.todo \subseteq Ops(l.orders, l.seen)
          /\ Single(Ops(l.orders, l.seen))
          /\ \A p \in l.cleared : \E op \in Ops(l.orders, l.seen) : op.clear /\ p = PairOf(op)
     ELSE l.todo = {} /\ l.applied = {} /\ l.cleared = {}
  /\ l.pc = "applying" /\ ~l.warned => \A t \in l.orders : Ready(t, l.seen)

TodoIsOrdered == \A a \in Agent : Working(a, loop[a])

SInv == IInv /\ OneBinding /\ TodoIsOrdered

-----------------------------------------------------------------------------
(* The bindings. *)

\* No binding is added.
LEMMA FewerBindings ==
  ASSUME OneBinding, tables'.targets \subseteq tables.targets
  PROVE  OneBinding'
  BY DEF OneBinding

\* An approval replaces its host's binding, and is refused where the machine
\* is another host's (ApproveSSHTarget).
LEMMA ApprovalBindsOnce ==
  ASSUME TypeOK, OneBinding, NEW w \in Worker, ApproveSSHTarget(w)
  PROVE  OneBinding'
<1> DEFINE b == req[w].binding
           taken == \E c \in tables.targets : c.host # b.host /\ c.agent = b.agent /\ c.ref = b.ref
<1>1. CASE taken \/ agents[b.agent] = "gone"
  <2>1. UNCHANGED tables
    BY <1>1 DEF ApproveSSHTarget
  <2> QED  BY <2>1, FewerBindings
<1>2. CASE ~taken /\ ~(agents[b.agent] = "gone")
  <2>1. tables' = [tables EXCEPT !.targets = {c \in @ : c.host # b.host} \union {b}]
    BY <1>2 DEF ApproveSSHTarget, Commit
  <2>2. tables'.targets = {c \in tables.targets : c.host # b.host} \union {b}
    BY <2>1 DEF TypeOK, Tables
  <2> HIDE DEF b
  <2>3. \A c \in tables.targets : c.host # b.host => ~(c.agent = b.agent /\ c.ref = b.ref)
    BY <1>2
  <2> QED  BY <2>2, <2>3 DEF OneBinding
<1> QED  BY <1>1, <1>2

\* A report suspends bindings where they are (RecordSSHReport).
LEMMA ReportBindsNone ==
  ASSUME TypeOK, OneBinding, NEW a \in Agent, RecordSSHReport(a)
  PROVE  OneBinding'
<1> DEFINE Mark(b) == IF b.agent = a /\ b.ref \in loop[a].mismatched
                      THEN [b EXCEPT !.suspended = TRUE] ELSE b
<1>1. tables'.targets = {Mark(b) : b \in tables.targets}
  BY DEF RecordSSHReport, Reported, TypeOK, Tables
<1>2. \A b \in tables.targets : Mark(b).agent = b.agent /\ Mark(b).ref = b.ref
  BY DEF TypeOK, Tables, Binding
<1> HIDE DEF Mark
<1>3. SUFFICES ASSUME NEW x \in tables'.targets, NEW y \in tables'.targets,
                      x.agent = y.agent, x.ref = y.ref
               PROVE  x = y
  BY DEF OneBinding
<1>4. PICK b \in tables.targets : x = Mark(b)
  BY <1>1
<1>5. PICK c \in tables.targets : y = Mark(c)
  BY <1>1
<1>6. b = c
  BY <1>2, <1>3, <1>4, <1>5 DEF OneBinding
<1> QED  BY <1>4, <1>5, <1>6

\* What removes rows or an agent adds no binding.
LEMMA OtherWritesBindNone ==
  ASSUME TypeOK,
         \/ \E w \in Worker : AddSSHKey(w) \/ SetSSHRow(w) \/ RemoveOrphan(w) \/ DeleteSSHAgent(w)
         \/ \E l \in Line : DeleteSSHKey(l)
         \/ \E h \in Host : DeleteSSHTarget(h)
         \/ \E p \in Person : DeleteSSHUser(p)
         \/ \E a \in Agent : RetireSSHAgent(a)
  PROVE  tables'.targets \subseteq tables.targets
<1>1. ASSUME NEW w \in Worker, AddSSHKey(w) \/ SetSSHRow(w)
      PROVE  tables'.targets = tables.targets
  BY <1>1 DEF AddSSHKey, SetSSHRow, Commit, TypeOK, Tables
<1>2. ASSUME NEW w \in Worker, RemoveOrphan(w)
      PROVE  tables'.targets \subseteq tables.targets
  BY <1>2 DEF RemoveOrphan, Commit, TypeOK, Tables
<1>3. \A a : WithoutAgent(a).targets \subseteq tables.targets
  BY DEF WithoutAgent, TypeOK, Tables
<1>4. ASSUME NEW w \in Worker, DeleteSSHAgent(w)
      PROVE  tables'.targets \subseteq tables.targets
  <2>1. tables' = tables \/ tables' = WithoutAgent(req[w].agent)
    BY <1>4 DEF DeleteSSHAgent, Commit, dbVars
  <2> QED  BY <1>3, <2>1
<1>5. ASSUME NEW l, DeleteSSHKey(l)
      PROVE  tables'.targets = tables.targets
  BY <1>5 DEF DeleteSSHKey, Direct, Commit, TypeOK, Tables
<1>6. ASSUME NEW h, DeleteSSHTarget(h)
      PROVE  tables'.targets \subseteq tables.targets
  BY <1>6 DEF DeleteSSHTarget, Direct, Commit, TypeOK, Tables
<1>7. ASSUME NEW p, DeleteSSHUser(p)
      PROVE  tables'.targets = tables.targets
  BY <1>7 DEF DeleteSSHUser, Direct, Commit, TypeOK, Tables
<1>8. ASSUME NEW a \in Agent, RetireSSHAgent(a)
      PROVE  tables'.targets \subseteq tables.targets
  <2> DEFINE gone == {<<a, p[1], p[2]>> : p \in loop[a].cleared}
             kept == [tables EXCEPT !.managed = @ \ gone]
  <2>1. kept.targets = tables.targets
    BY DEF TypeOK, Tables
  <2>2. tables' = kept \/ tables' = WithoutAgent(a)
    BY <1>8 DEF RetireSSHAgent, Commit
  <2> HIDE DEF kept
  <2> QED  BY <1>3, <2>1, <2>2
<1> QED  BY <1>1, <1>2, <1>4, <1>5, <1>6, <1>7, <1>8

\* Every step keeps a machine bound to one host.
LEMMA StepBindsOnce ==
  ASSUME TypeOK, OneBinding, Next
  PROVE  OneBinding'
<1>1. CASE UNCHANGED tables
  BY <1>1, FewerBindings
<1>2. CASE AdminStep
  <2>1. \/ UNCHANGED tables
        \/ \E l \in Line : DeleteSSHKey(l)
        \/ \E h \in Host : DeleteSSHTarget(h)
        \/ \E p \in Person : DeleteSSHUser(p)
    BY <1>2 DEF AdminStep, CheckAddSSHKey, CheckSSHRow, CheckApprove, CheckRemoveOrphan, CheckRevoke,
                Park, dbVars, CreateSSHAgent, RotateSSHAgentToken, Reinstall, SetAgent
  <2> QED  BY <1>1, <2>1, OtherWritesBindNone, FewerBindings
<1>3. CASE \E w \in Worker : RequestStep(w)
  BY <1>3, OtherWritesBindNone, FewerBindings, ApprovalBindsOnce DEF RequestStep
<1>4. ASSUME NEW a \in Agent, CycleStep(a) \/ AgentFault(a)
      PROVE  OneBinding'
  <2>1. \/ UNCHANGED tables
        \/ RecordSSHReport(a) \/ RetireSSHAgent(a)
    BY <1>4 DEF CycleStep, AgentFault, Discover, SyncSnapshot, SyncRevision, SyncLoad, SyncRefused,
                Unauthorized, Rewrite, NothingLeft, CannotApply, ExecFails, Warned, ConnectionLost,
                Stop, GoesStale, GiveUp, Stepping, dbVars, RetireFails, RetireUnauthorized,
                ReportAnswered, ReportUnanswered, RetireAnswered, RetireUnanswered
  <2> QED  BY <1>1, <2>1, ReportBindsNone, OtherWritesBindNone, FewerBindings
<1>5. CASE \/ \E a \in Agent : Uninstall(a) \/ Start(a) \/ FullSyncDue(a)
           \/ \E c \in Content, other \in BOOLEAN : Poll(c, other)
           \/ PollFails \/ Restart
  BY <1>1, <1>5 DEF Uninstall, Start, FullSyncDue, Stepping, Poll, PollFails, Restart, dbVars
<1>6. CASE MachineStep
  <2>1. OnMachines
    BY <1>6 DEF MachineStep, PowerOff, PowerOn, Rename, Replace, ChangeAccount
  <2> QED  BY <1>1, <2>1 DEF OnMachines, dbVars
<1> QED  BY <1>2, <1>3, <1>4, <1>5, <1>6 DEF Next

-----------------------------------------------------------------------------
(* Orders. *)

\* A target says one thing of each account.
Neat(t) ==
  /\ \A v, w \in t.writes : v.user = w.user => v = w
  /\ \A w \in t.writes : w.user \notin t.clear

\* So do the operations of an order that names each machine once.
LEMMA NeatOrders ==
  ASSUME NEW orders, NEW seen, \A t \in orders : Neat(t),
         \A t, o \in orders : t.ref = o.ref => t = o
  PROVE  Single(Ops(orders, seen))
<1>1. \A op \in Ops(orders, seen) : \E t \in orders : op \in WriteOps(t) \union ClearOps(t)
  BY DEF Ops
<1>2. \A t : \A op \in WriteOps(t) \union ClearOps(t) : op.ref = t.ref
  BY DEF WriteOps, ClearOps
<1>3. ASSUME NEW t \in orders,
             NEW x \in WriteOps(t) \union ClearOps(t), NEW y \in WriteOps(t) \union ClearOps(t),
             x.user = y.user
      PROVE  x = y
  <2>1. CASE x \in WriteOps(t) /\ y \in WriteOps(t)
    <3>1. PICK v \in t.writes : x = [clear |-> FALSE, ref |-> t.ref, user |-> v.user, lines |-> v.lines]
      BY <2>1 DEF WriteOps
    <3>2. PICK w \in t.writes : y = [clear |-> FALSE, ref |-> t.ref, user |-> w.user, lines |-> w.lines]
      BY <2>1 DEF WriteOps
    <3>3. v = w
      BY <1>3, <3>1, <3>2 DEF Neat
    <3> QED  BY <3>1, <3>2, <3>3
  <2>2. CASE x \in ClearOps(t) /\ y \in ClearOps(t)
    <3>1. PICK u \in t.clear : x = [clear |-> TRUE, ref |-> t.ref, user |-> u, lines |-> {}]
      BY <2>2 DEF ClearOps
    <3>2. PICK v \in t.clear : y = [clear |-> TRUE, ref |-> t.ref, user |-> v, lines |-> {}]
      BY <2>2 DEF ClearOps
    <3>3. u = v
      BY <1>3, <3>1, <3>2
    <3> QED  BY <3>1, <3>2, <3>3
  <2>3. \A w \in WriteOps(t), c \in ClearOps(t) : w.user # c.user
    BY DEF WriteOps, ClearOps, Neat
  <2> QED  BY <1>3, <2>1, <2>2, <2>3
<1> SUFFICES ASSUME NEW x \in Ops(orders, seen), NEW y \in Ops(orders, seen), PairOf(x) = PairOf(y)
             PROVE  x = y
  BY DEF Single
<1>4. x.ref = y.ref /\ x.user = y.user
  BY DEF PairOf
<1>5. PICK t \in orders : x \in WriteOps(t) \union ClearOps(t)
  BY <1>1
<1>6. PICK o \in orders : y \in WriteOps(o) \union ClearOps(o)
  BY <1>1
<1>7. t = o
  BY <1>2, <1>4, <1>5, <1>6
<1> QED  BY <1>3, <1>4, <1>5, <1>6, <1>7

\* Where a machine is bound once, the server's orders are such (Desired).
LEMMA DesiredOnce ==
  ASSUME OneBinding, NEW a, NEW hosts, NEW people
  PROVE  /\ \A t, o \in Desired(a, hosts, people, tables) : t.ref = o.ref => t = o
         /\ \A t \in Desired(a, hosts, people, tables) : Neat(t)
<1> DEFINE active == {b \in BindingsOf(a, tables) : StateOf(b, hosts) = "active"}
           leftover == {r \in Ref : /\ ManagedUsers(a, r, tables) # {}
                                    /\ \A b \in active : b.ref # r
                                    /\ r \notin Frozen(a, hosts, tables)}
           actives == {ActiveTarget(b, people, tables) : b \in active}
           clears == {ClearTarget(a, r, tables) : r \in leftover}
<1>1. Desired(a, hosts, people, tables) = actives \union clears
  BY DEF Desired
<1>2. \A b : ActiveTarget(b, people, tables).ref = b.ref /\ Neat(ActiveTarget(b, people, tables))
  BY DEF ActiveTarget, Neat
<1>3. \A r : ClearTarget(a, r, tables).ref = r /\ Neat(ClearTarget(a, r, tables))
  BY DEF ClearTarget, Neat
<1>4. \A b, c \in active : b.ref = c.ref => b = c
  BY DEF OneBinding, BindingsOf
<1>5. \A b \in active, r \in leftover : b.ref # r
  OBVIOUS
<1> HIDE DEF active, leftover
<1>6. \A t, o \in actives \union clears : t.ref = o.ref => t = o
  BY <1>2, <1>3, <1>4, <1>5
<1>7. \A t \in actives \union clears : Neat(t)
  BY <1>2, <1>3
<1> QED  BY <1>1, <1>6, <1>7

\* Hence what Desired orders leads to at most one operation on a block.
LEMMA DesiredIsNeat ==
  ASSUME OneBinding, NEW a, NEW hosts, NEW people, NEW seen
  PROVE  Single(Ops(Desired(a, hosts, people, tables), seen))
  BY DesiredOnce, NeatOrders

\* An operation is on a machine that was seen.
LEMMA OpsAreSeen ==
  ASSUME NEW orders, NEW seen, NEW op \in Ops(orders, seen)
  PROVE  \E t \in orders : op \in WriteOps(t) \union ClearOps(t) /\ op.ref = t.ref /\ seen[op.ref] # Absent
<1>1. PICK t \in orders : Ready(t, seen) /\ op \in WriteOps(t) \union ClearOps(t)
  BY DEF Ops
<1>2. op.ref = t.ref
  BY <1>1 DEF WriteOps, ClearOps
<1> QED  BY <1>1, <1>2 DEF Ready, Skipped

-----------------------------------------------------------------------------
(* The cycle. *)

\* One agent's step that leaves it Working leaves all of them so.
LEMMA OneWorks ==
  ASSUME TypeOK, TodoIsOrdered, NEW a \in Agent, NEW l, Working(a, l), loop' = [loop EXCEPT ![a] = l]
  PROVE  TodoIsOrdered'
<1> SUFFICES ASSUME NEW b \in Agent  PROVE Working(b, loop[b])'
  BY DEF TodoIsOrdered
<1>1. loop'[b] = IF b = a THEN l ELSE loop[b]
  BY DEF TypeOK
<1>2. Working(b, loop'[b])
  BY <1>1 DEF TodoIsOrdered
<1> QED  BY <1>2 DEF Working, Reaches

\* No step between cycles has anything to do.
LEMMA Resting ==
  ASSUME NEW a
  PROVE  /\ Working(a, Started) /\ Working(a, Off)
         /\ \A etag, due : Working(a, Between(etag, due))
<1>1. \A etag, due : Working(a, Between(etag, due))
  BY DEF Working, Between, Unseen, Busy
<1>2. Working(a, Off)
  BY DEF Working, Off, Started, Between, Unseen, Busy
<1> QED  BY <1>1, <1>2 DEF Started

\* Only running machines an agent reaches are discovered (Host.Discover).
LEMMA SeenIsReached ==
  ASSUME NEW a, NEW unreadable
  PROVE  \A r \in Ref : Discovery(a, unreadable)[r] # Absent => Reaches(a, r)
  BY DEF Discovery

\* A step outside an order that keeps what was seen.
LEMMA WaitingWorks ==
  ASSUME NEW a, NEW l, NEW k, Working(a, k), ~Busy(k), ~Busy(l), l.seen = k.seen,
         l.todo = k.todo, l.applied = k.applied, l.cleared = k.cleared
  PROVE  Working(a, l)
  BY DEF Working, Busy

\* An operation done, or given up with a warning, was ordered (Apply).
LEMMA DoneWorks ==
  ASSUME NEW a, NEW op, loop[a] \in Loop, Working(a, loop[a]), op \in loop[a].todo
  PROVE  Working(a, Done(a, op)) /\ Working(a, Warned(a, op))
<1>0. Busy(loop[a]) /\ op \in Ops(loop[a].orders, loop[a].seen)
  BY DEF Working
<1>1. Working(a, Warned(a, op))
  BY <1>0 DEF Warned, Working, Busy, Loop
<1>2. Working(a, Done(a, op))
  <2> DEFINE d == Done(a, op)
  <2>1. /\ d.pc = loop[a].pc /\ d.seen = loop[a].seen /\ d.orders = loop[a].orders
        /\ d.warned = loop[a].warned
        /\ d.todo = loop[a].todo \ {op}
        /\ d.cleared = IF op.clear THEN loop[a].cleared \union {PairOf(op)} ELSE loop[a].cleared
    BY DEF Done, Loop, PairOf
  <2> HIDE DEF d
  <2>2. \A p \in d.cleared :
          \E x \in Ops(loop[a].orders, loop[a].seen) : x.clear /\ p = PairOf(x)
    BY <1>0, <2>1 DEF Working
  <2>3. Busy(d)
    BY <1>0, <2>1 DEF Busy
  <2>4. Working(a, d)
    BY <1>0, <2>1, <2>2, <2>3 DEF Working
  <2> QED  BY <2>4 DEF d
<1> QED  BY <1>1, <1>2

\* An order that was just received (Loop.Once after a 200).
LEMMA LoadWorks ==
  ASSUME TypeOK, OneBinding, TodoIsOrdered, NEW a \in Agent, SyncLoad(a)
  PROVE  TodoIsOrdered'
<1>0. loop[a] \in Loop /\ Working(a, loop[a])
  BY DEF TypeOK, TodoIsOrdered
<1> DEFINE c == loop[a].call.content
           orders == Desired(a, c.hosts, c.people, tables)
           todo == Ops(orders, loop[a].seen)
           mis == {t.ref : t \in {o \in orders : Mismatched(o, loop[a].seen)}}
           warned == \E t \in orders : ~Ready(t, loop[a].seen)
           l == [loop[a] EXCEPT !.pc = "applying", !.call = NoSnap, !.orders = orders,
                                !.todo = todo, !.mismatched = mis, !.warned = warned]
<1>1. Stepping(a, l)
  BY DEF SyncLoad
<1>2. ~Busy(loop[a])
  BY DEF SyncLoad, Busy
<1>3. Single(todo)
  BY DesiredIsNeat
<1>4. ~warned => \A t \in orders : Ready(t, loop[a].seen)
  OBVIOUS
<1> HIDE DEF orders, mis, warned, todo
<1>5. /\ l.pc = "applying" /\ l.seen = loop[a].seen /\ l.orders = orders /\ l.todo = todo
      /\ l.warned = warned /\ l.cleared = loop[a].cleared
  BY <1>0 DEF Loop
<1>6. l.cleared = {}
  BY <1>0, <1>2, <1>5 DEF Working
<1>7. l.todo = Ops(l.orders, l.seen) /\ Single(Ops(l.orders, l.seen)) /\ Busy(l)
  BY <1>3, <1>5 DEF todo, Busy
<1> HIDE DEF l
<1>8. Working(a, l)
  BY <1>0, <1>4, <1>5, <1>6, <1>7 DEF Working
<1> QED  BY <1>1, <1>8, OneWorks DEF Stepping, Agenting

\* An uninstall clears what is on record, on the machines it can see.
LEMMA UninstallWorks ==
  ASSUME TypeOK, TodoIsOrdered, NEW a \in Agent, Uninstall(a)
  PROVE  TodoIsOrdered'
<1> DEFINE refs == {s \in Ref : ManagedUsers(a, s, tables) # {}}
           orders == {ClearTarget(a, r, tables) : r \in refs}
           seen == Discovery(a, {})
           todo == Ops(orders, seen)
           l == [Off EXCEPT !.pc = "retiring", !.seen = seen, !.orders = orders, !.todo = todo]
<1>1. Stepping(a, l)
  BY DEF Uninstall
<1>2. Single(todo)
  <2>1. \A r : ClearTarget(a, r, tables).ref = r /\ Neat(ClearTarget(a, r, tables))
    BY DEF ClearTarget, Neat
  <2> HIDE DEF refs
  <2>2. \A t, o \in orders : t.ref = o.ref => t = o
    BY <2>1
  <2>3. \A t \in orders : Neat(t)
    BY <2>1
  <2> HIDE DEF orders, seen
  <2> QED  BY <2>2, <2>3, NeatOrders
<1>3. \A r \in Ref : seen[r] # Absent => Reaches(a, r)
  BY SeenIsReached
<1> HIDE DEF orders, seen, todo
<1>4. /\ l.pc = "retiring" /\ l.seen = seen /\ l.orders = orders /\ l.todo = todo
      /\ l.cleared = {}
  BY DEF Off, Started, Between
<1>5. l.todo = Ops(l.orders, l.seen) /\ Single(Ops(l.orders, l.seen)) /\ Busy(l)
  BY <1>2, <1>4 DEF todo, Busy
<1> HIDE DEF l
<1>6. Working(a, l)
  BY <1>3, <1>4, <1>5 DEF Working
<1> QED  BY <1>1, <1>6, OneWorks DEF Stepping, Agenting

\* The steps of a cycle do what the order that was loaded says, and less (Loop.Once, Apply).
LEMMA CycleWorks ==
  ASSUME TypeOK, OneBinding, TodoIsOrdered, NEW a \in Agent,
         \/ CycleStep(a) \/ AgentFault(a) \/ Start(a) \/ FullSyncDue(a) \/ Uninstall(a)
  PROVE  TodoIsOrdered'
<1>0. loop[a] \in Loop /\ Working(a, loop[a])
  BY DEF TypeOK, TodoIsOrdered
<1>1. ASSUME NEW l, Working(a, l), Agenting(a, l)
      PROVE  TodoIsOrdered'
  BY <1>1, OneWorks DEF Agenting
<1>2. ASSUME NEW l, Working(a, l), Stepping(a, l)
      PROVE  TodoIsOrdered'
  BY <1>1, <1>2 DEF Stepping
<1>3. CASE \/ Start(a) \/ Stop(a) \/ Unauthorized(a) \/ SyncRefused(a) \/ ConnectionLost(a)
           \/ RetireFails(a) \/ RetireUnauthorized(a)
  <2>1. \E l : Working(a, l) /\ Stepping(a, l)
    BY <1>3, Resting DEF Start, Stop, Unauthorized, SyncRefused, ConnectionLost, RetireFails,
                      RetireUnauthorized, GiveUp
  <2> QED  BY <1>2, <2>1
<1>4. CASE \/ ReportAnswered(a) \/ ReportUnanswered(a) \/ RetireAnswered(a) \/ RetireUnanswered(a)
  <2>1. \E l : Working(a, l) /\ Agenting(a, l)
    BY <1>4, Resting DEF ReportAnswered, ReportUnanswered, RetireAnswered, RetireUnanswered
  <2> QED  BY <1>1, <2>1
<1>5. CASE FullSyncDue(a)
  <2> DEFINE l == [loop[a] EXCEPT !.due = TRUE]
  <2>1. Working(a, l)
    BY <1>0 DEF Working, Busy, Loop
  <2> QED  BY <1>2, <1>5, <2>1 DEF FullSyncDue
<1>6. ASSUME NEW unreadable \in SUBSET Ref, Discover(a, unreadable)
      PROVE  TodoIsOrdered'
  <2> DEFINE seen == Discovery(a, unreadable)
             l == [loop[a] EXCEPT !.pc = "discovered", !.forced = loop[a].due, !.seen = seen]
  <2>1. ~Busy(loop[a])
    BY <1>6 DEF Discover, Busy
  <2>2. \A r \in Ref : seen[r] # Absent => Reaches(a, r)
    BY SeenIsReached
  <2>3. Stepping(a, l)
    BY <1>6 DEF Discover
  <2> HIDE DEF seen
  <2>4. /\ l.pc = "discovered" /\ l.seen = seen /\ l.todo = loop[a].todo
        /\ l.applied = loop[a].applied /\ l.cleared = loop[a].cleared
    BY <1>0 DEF Loop
  <2> HIDE DEF l
  <2>5. Working(a, l)
    BY <1>0, <2>1, <2>2, <2>4 DEF Working, Busy
  <2> QED  BY <1>2, <2>3, <2>5
<1>7. CASE SyncSnapshot(a)
  <2> DEFINE l == [loop[a] EXCEPT !.pc = "asking", !.call = snap]
  <2>1. ~Busy(loop[a]) /\ ~Busy(l)
    BY <1>0, <1>7 DEF SyncSnapshot, Busy, Loop
  <2>2. /\ l.seen = loop[a].seen /\ l.todo = loop[a].todo
        /\ l.applied = loop[a].applied /\ l.cleared = loop[a].cleared
    BY <1>0 DEF Loop
  <2>3. Working(a, l)
    BY <1>0, <2>1, <2>2, WaitingWorks
  <2> QED  BY <1>2, <1>7, <2>3 DEF SyncSnapshot
<1>8. CASE SyncRevision(a)
  <2> DEFINE tag == [rev |-> rev, snap |-> loop[a].call.rev, boot |-> boot]
             same == Asked(loop[a]) = tag
             l == [loop[a] EXCEPT !.pc = IF same THEN "unchanged" ELSE "tagged",
                                  !.call = IF same THEN NoSnap ELSE @,
                                  !.next = tag]
  <2>1. Stepping(a, l)
    BY <1>8 DEF SyncRevision
  <2> HIDE DEF same, tag
  <2>2. /\ l.pc \in {"unchanged", "tagged"}
        /\ l.seen = loop[a].seen /\ l.todo = loop[a].todo
        /\ l.applied = loop[a].applied /\ l.cleared = loop[a].cleared
    BY <1>0 DEF Loop
  <2>3. ~Busy(loop[a])
    BY <1>8 DEF SyncRevision, Busy
  <2> HIDE DEF l
  <2>4. Working(a, l)
    BY <1>0, <2>2, <2>3, WaitingWorks DEF Busy
  <2> QED  BY <1>2, <2>1, <2>4
<1>9. ASSUME NEW op \in loop[a].todo,
             Rewrite(a, op) \/ NothingLeft(a, op) \/ CannotApply(a, op) \/ ExecFails(a, op)
      PROVE  TodoIsOrdered'
  <2>1. Working(a, Done(a, op)) /\ Working(a, Warned(a, op))
    BY <1>0, DoneWorks
  <2> QED  BY <1>9, <2>1, FileMoves, OneWorks
<1>10. CASE GoesStale(a)
  BY <1>10 DEF GoesStale, TodoIsOrdered, Working, Reaches
<1> QED
  BY <1>3, <1>4, <1>5, <1>6, <1>7, <1>8, <1>9, <1>10, LoadWorks, UninstallWorks
     DEF CycleStep, AgentFault

\* So does every other step, which leaves agents alone or starts them over.
LEMMA StepWorks ==
  ASSUME TypeOK, OneBinding, TodoIsOrdered, Next
  PROVE  TodoIsOrdered'
<1>1. CASE UNCHANGED loop
  BY <1>1 DEF TodoIsOrdered, Working, Reaches
<1>2. CASE AdminStep
  <2>1. ASSUME NEW a \in Agent, Reinstall(a)
        PROVE  TodoIsOrdered'
    BY <2>1, OneWorks, Resting DEF Reinstall
  <2>2. UNCHANGED loop \/ \E a \in Agent : Reinstall(a)
    BY <1>2 DEF AdminStep, CheckAddSSHKey, CheckSSHRow, CheckApprove, CheckRemoveOrphan, CheckRevoke,
                Park, CreateSSHAgent, RotateSSHAgentToken, SetAgent, DeleteSSHKey, DeleteSSHTarget,
                DeleteSSHUser, Direct
  <2> QED  BY <1>1, <2>1, <2>2
<1>3. CASE \E w \in Worker : RequestStep(w)
  BY <1>1, <1>3, RequestsMoveRevision
<1>4. CASE (\E c \in Content, other \in BOOLEAN : Poll(c, other)) \/ PollFails
  BY <1>1, <1>4 DEF Poll, PollFails
<1>5. CASE Restart
  <2> SUFFICES ASSUME NEW a \in Agent  PROVE Working(a, loop[a])'
    BY DEF TodoIsOrdered
  <2>1. loop'[a] = IF InHandler(a) THEN Between(loop[a].etag, loop[a].due) ELSE loop[a]
    BY <1>5 DEF Restart
  <2>2. Working(a, loop'[a])
    BY <2>1, Resting DEF TodoIsOrdered
  <2> QED  BY <2>2 DEF Working, Reaches
<1>6. CASE \E a \in Agent : \/ CycleStep(a) \/ AgentFault(a) \/ Start(a) \/ FullSyncDue(a)
                            \/ Uninstall(a)
  BY <1>6, CycleWorks
<1>7. CASE MachineStep
  <2>1. OnMachines
    BY <1>7 DEF MachineStep, PowerOff, PowerOn, Rename, Replace, ChangeAccount
  <2> QED  BY <1>1, <2>1 DEF OnMachines
<1> QED  BY <1>2, <1>3, <1>4, <1>5, <1>6, <1>7 DEF Next

-----------------------------------------------------------------------------
\* What an order says of a machine it says because of an active binding of
\* that machine, or because no binding of it is suspended (Desired).
LEMMA OrdersSpareSuspended ==
  ASSUME OneBinding, NEW a, NEW hosts, NEW people, NEW t \in Desired(a, hosts, people, tables),
         NEW b \in BindingsOf(a, tables), b.ref = t.ref
  PROVE  StateOf(b, hosts) # "suspended"
<1>1. CASE \E c \in BindingsOf(a, tables) : StateOf(c, hosts) = "active" /\ t = ActiveTarget(c, people, tables)
  <2>1. PICK c \in BindingsOf(a, tables) : StateOf(c, hosts) = "active" /\ t = ActiveTarget(c, people, tables)
    BY <1>1
  <2>2. t.ref = c.ref
    BY <2>1 DEF ActiveTarget
  <2>3. b = c
    BY <2>2 DEF OneBinding, BindingsOf
  <2> QED  BY <2>1, <2>3
<1>2. CASE \E r \in Ref : r \notin Frozen(a, hosts, tables) /\ t = ClearTarget(a, r, tables)
  <2>1. PICK r \in Ref : r \notin Frozen(a, hosts, tables) /\ t = ClearTarget(a, r, tables)
    BY <1>2
  <2>2. t.ref = r
    BY <2>1 DEF ClearTarget
  <2> QED  BY <2>1, <2>2 DEF Frozen
<1>3. \/ \E c \in BindingsOf(a, tables) : StateOf(c, hosts) = "active" /\ t = ActiveTarget(c, people, tables)
      \/ \E r \in Ref : r \notin Frozen(a, hosts, tables) /\ t = ClearTarget(a, r, tables)
  BY DEF Desired
<1> QED  BY <1>1, <1>2, <1>3

\* An operation is of a machine of its order.
LEMMA OpsAreOrdered ==
  ASSUME NEW orders, NEW seen, NEW op \in Ops(orders, seen)
  PROVE  \E t \in orders : t.ref = op.ref
<1>1. PICK t \in orders : op \in WriteOps(t) \union ClearOps(t)
  BY DEF Ops
<1>2. op.ref = t.ref
  BY <1>1 DEF WriteOps, ClearOps
<1> QED  BY <1>2

\* In a state of the invariant, what is to do under current orders is not behind a suspended binding.
LEMMA TodoSparesSuspended ==
  ASSUME SInv, NEW a \in Agent, NEW op \in loop[a].todo,
         loop[a].pc = "applying", HoldsCurrent(loop[a].next),
         NEW b \in BindingsOf(a, tables), b.ref = op.ref
  PROVE  StateOf(b, snap.content.hosts) # "suspended"
<1>1. loop[a].orders = DesiredNow(a)
  BY DEF SInv, IInv, OrdersAreCurrent, CarriesCurrent
<1>2. op \in Ops(loop[a].orders, loop[a].seen)
  BY DEF SInv, TodoIsOrdered, Working, Busy
<1>3. PICK t \in DesiredNow(a) : t.ref = op.ref
  BY <1>1, <1>2, OpsAreOrdered
<1> QED  BY <1>3, OrdersSpareSuspended DEF SInv, DesiredNow

\* The inductive invariant of the cycle.
LEMMA SafeInvariance == Spec => []SInv
<1>1. Init => OneBinding /\ TodoIsOrdered
  BY Resting DEF Init, OneBinding, TodoIsOrdered
<1>2. IInv /\ OneBinding /\ TodoIsOrdered /\ [Next]_vars => (OneBinding /\ TodoIsOrdered)'
  <2> SUFFICES ASSUME IInv, OneBinding, TodoIsOrdered, [Next]_vars
               PROVE  OneBinding' /\ TodoIsOrdered'
    OBVIOUS
  <2>1. CASE Next
    BY <2>1, StepBindsOnce, StepWorks DEF IInv
  <2>2. CASE UNCHANGED vars
    BY <2>2 DEF vars, dbVars, OneBinding, TodoIsOrdered, Working, Reaches
  <2> QED  BY <2>1, <2>2
<1> QED  BY <1>1, <1>2, Invariance, PTL DEF Spec, SInv

(* "A suspended server is neither written nor cleared" (README, Desired,    *)
(* Apply), whatever was approved, moved, reported or left behind: no file   *)
(* of a machine behind a suspended binding is touched under current orders. *)
THEOREM SuspendedUntouched == Spec => SuspendedIsUntouched
<1>1. SInv /\ [Next]_vars =>
        [\A a \in Agent, r \in Ref, u \in UnixUser :
           /\ Reaches(a, r)
           /\ loop[a].pc = "applying" /\ HoldsCurrent(loop[a].next)
           /\ \E op \in loop[a].todo \ loop'[a].todo : op.ref = r /\ op.user = u
           => \A b \in BindingsOf(a, tables) :
                b.ref = r => StateOf(b, snap.content.hosts) # "suspended"]_vars
  BY TodoSparesSuspended
<1> QED  BY <1>1, SafeInvariance, PTL DEF SuspendedIsUntouched, Spec
=============================================================================
