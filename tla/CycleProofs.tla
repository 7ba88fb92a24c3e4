----------------------------- MODULE CycleProofs -----------------------------
(***************************************************************************)
(* For any hosts, agents and machines, where each machine is reached by    *)
(* one agent under one name: a record is dropped only when the block is    *)
(* gone, an ETag is kept only when the order behind it was carried out,    *)
(* and an outage takes no key away.                                        *)
(*                                                                         *)
(* The argument: what is reported was done and is still so; an ETag that   *)
(* is current makes the order it came with the current order (proved in    *)
(* SshSyncProofs); and what an outage shows of the world is refused, or    *)
(* grants what the world before it granted.                                *)
(***************************************************************************)
EXTENDS SshSyncProofs, MCSshSync

-----------------------------------------------------------------------------
(* Files.  From here on every machine is reached by one agent, under one   *)
(* name: nobody else writes what an agent has written.                     *)

Apart == \A x, y \in DOMAIN MachineOf : MachineOf[x] = MachineOf[y] => x = y

\* An account that was removed with its home has no block.
GoneIsBlank ==
  \A m \in Machine, u \in UnixUser : home[m][u] = "nothing" => block[m][u] = {}

\* What keysRemain can see of an account is gone.
Blank(a, r, u) == BlockOf(a, r, u) = {} \/ <<MachineOf[<<a, r>>], u>> \in Elsewhere

\* What an agent will report as cleared is clear.
ClearedIsBlank ==
  \A a \in Agent : \A p \in loop[a].cleared : Blank(a, p[1], p[2])

\* A clear empties a block.
LEMMA ClearsAreEmpty ==
  ASSUME NEW orders, NEW seen, NEW op \in Ops(orders, seen), op.clear
  PROVE  op.lines = {}
  BY DEF Ops, WriteOps, ClearOps

\* What an agent has to do is on a machine it reaches, for a known account.
LEMMA TodoIsReached ==
  ASSUME TypeOK, TodoIsOrdered, NEW a \in Agent, NEW op \in loop[a].todo
  PROVE  /\ op \in Op /\ op \in Ops(loop[a].orders, loop[a].seen)
         /\ Reaches(a, op.ref) /\ MachineOf[<<a, op.ref>>] \in Machine
<1>1. op \in Op /\ Working(a, loop[a])
  BY DEF TypeOK, Loop, TodoIsOrdered
<1>2. op \in Ops(loop[a].orders, loop[a].seen)
  BY <1>1 DEF Working
<1>3. loop[a].seen[op.ref] # Absent
  BY <1>2, OpsAreSeen
<1>4. Reaches(a, op.ref)
  BY <1>1, <1>3 DEF Working, Op
<1> QED  BY <1>1, <1>2, <1>4, MachineOfType DEF Reaches

\* What an agent will report as cleared is on a machine it reaches.
LEMMA ClearedIsReached ==
  ASSUME TypeOK, TodoIsOrdered, NEW a \in Agent, NEW p \in loop[a].cleared
  PROVE  /\ p[1] \in Ref /\ p[2] \in UnixUser
         /\ Reaches(a, p[1]) /\ MachineOf[<<a, p[1]>>] \in Machine
         /\ \E op \in Ops(loop[a].orders, loop[a].seen) : op.clear /\ p = PairOf(op)
<1>1. p[1] \in Ref /\ p[2] \in UnixUser /\ Working(a, loop[a])
  BY DEF TypeOK, Loop, Pair, TodoIsOrdered
<1>2. PICK op \in Ops(loop[a].orders, loop[a].seen) : op.clear /\ p = PairOf(op)
  BY <1>1 DEF Working
<1>3. loop[a].seen[p[1]] # Absent
  BY <1>2, OpsAreSeen DEF PairOf
<1>4. Reaches(a, p[1])
  BY <1>1, <1>3 DEF Working
<1> QED  BY <1>1, <1>2, <1>4, MachineOfType DEF Reaches

\* A rewrite writes its own account (authorized_keys, WriteManaged) ...
LEMMA RewriteHere ==
  ASSUME TypeOK, TodoIsOrdered, NEW a \in Agent, NEW op \in loop[a].todo, Written(a, op)
  PROVE  BlockOf(a, op.ref, op.user)' = op.lines
<1>1. op \in Op /\ MachineOf[<<a, op.ref>>] \in Machine
  BY TodoIsReached
<1>2. block' = [block EXCEPT ![MachineOf[<<a, op.ref>>]][op.user] = op.lines]
  BY DEF Written
<1> QED  BY <1>1, <1>2 DEF BlockOf, TypeOK, Op

\* ... and no other.
LEMMA RewriteElsewhere ==
  ASSUME TypeOK, TodoIsOrdered, Apart, NEW b \in Agent, NEW op \in loop[b].todo, Written(b, op),
         NEW a \in Agent, NEW r \in Ref, NEW u \in UnixUser, Reaches(a, r),
         a # b \/ <<r, u>> # PairOf(op)
  PROVE  /\ BlockOf(a, r, u)' = BlockOf(a, r, u)
         /\ <<MachineOf[<<a, r>>], u>> \in lost' <=> <<MachineOf[<<a, r>>], u>> \in lost
<1> DEFINE m == MachineOf[<<b, op.ref>>]
           n == MachineOf[<<a, r>>]
<1>1. op \in Op /\ Reaches(b, op.ref) /\ m \in Machine /\ n \in Machine
  BY TodoIsReached, MachineOfType DEF Reaches
<1>2. n = m => <<a, r>> = <<b, op.ref>>
  BY <1>1 DEF Apart, Reaches
<1>3. n # m \/ u # op.user
  BY <1>2 DEF PairOf
<1>4. block' = [block EXCEPT ![m][op.user] = op.lines] /\ lost' = lost \ {<<m, op.user>>}
  BY DEF Written
<1>5. BlockOf(a, r, u) = block[n][u] /\ BlockOf(a, r, u)' = block'[n][u]
  BY DEF BlockOf
<1> HIDE DEF m, n
<1>6. block'[n][u] = block[n][u]
  BY <1>1, <1>3, <1>4 DEF TypeOK, Op
<1> QED  BY <1>3, <1>4, <1>5, <1>6 DEF n

\* What happens to a machine leaves a block as it is, or loses it.
LEMMA MachinesLose ==
  ASSUME TypeOK, MachineStep, NEW m \in Machine, NEW u \in UnixUser
  PROVE  /\ UNCHANGED <<tables, rev, boot, snap, loop, handed>>
         /\ \/ block'[m][u] = block[m][u] /\ (<<m, u>> \in lost => <<m, u>> \in lost')
            \/ block'[m][u] = {} /\ <<m, u>> \in lost'
         /\ home'[m][u] = "nothing" => home[m][u] = "nothing" \/ block'[m][u] = {}
<1> PICK n \in Machine :
      \/ PowerOff(n) \/ PowerOn(n)
      \/ \E id \in Ident : Rename(n, id) \/ Replace(n, id)
      \/ \E v \in UnixUser, to \in {"account", "leftover", "nothing"} : ChangeAccount(n, v, to)
  BY DEF MachineStep
<1> USE DEF OnMachines, dbVars, serverVars
<1>1. CASE PowerOff(n) \/ PowerOn(n)
  BY <1>1 DEF PowerOff, PowerOn
<1>2. ASSUME NEW id, Rename(n, id)
      PROVE  UNCHANGED <<tables, rev, boot, snap, loop, handed, home, block, lost>>
  BY <1>2 DEF Rename
<1>3. ASSUME NEW id, Replace(n, id)
      PROVE  /\ UNCHANGED <<tables, rev, boot, snap, loop, handed, home>>
             /\ \/ block'[m][u] = block[m][u] /\ (<<m, u>> \in lost => <<m, u>> \in lost')
                \/ block'[m][u] = {} /\ <<m, u>> \in lost'
  <2>1. /\ block' = [block EXCEPT ![n] = [v \in UnixUser |-> {}]]
        /\ lost' = lost \union {<<n, v>> : v \in {w \in UnixUser : block[n][w] # {}}}
        /\ UNCHANGED <<tables, rev, boot, snap, loop, handed, home>>
    BY <1>3 DEF Replace
  <2>2. CASE m = n
    BY <2>1, <2>2 DEF TypeOK
  <2>3. CASE m # n
    BY <2>1, <2>3 DEF TypeOK
  <2> QED  BY <2>1, <2>2, <2>3
<1>4. ASSUME NEW v \in UnixUser, NEW to \in {"account", "leftover", "nothing"}, ChangeAccount(n, v, to)
      PROVE  /\ UNCHANGED <<tables, rev, boot, snap, loop, handed>>
             /\ \/ block'[m][u] = block[m][u] /\ (<<m, u>> \in lost => <<m, u>> \in lost')
                \/ block'[m][u] = {} /\ <<m, u>> \in lost'
             /\ home'[m][u] = "nothing" => home[m][u] = "nothing" \/ block'[m][u] = {}
  <2>1. /\ block' = [block EXCEPT ![n][v] = IF to = "nothing" THEN {} ELSE @]
        /\ home' = [home EXCEPT ![n][v] = to]
        /\ lost' = IF to = "nothing" /\ block[n][v] # {} THEN lost \union {<<n, v>>} ELSE lost
        /\ UNCHANGED <<tables, rev, boot, snap, loop, handed>>
    BY <1>4 DEF ChangeAccount
  <2>2. CASE m = n /\ u = v
    BY <2>1, <2>2 DEF TypeOK
  <2>3. CASE m # n \/ u # v
    BY <2>1, <2>3 DEF TypeOK
  <2> QED  BY <2>1, <2>2, <2>3
<1> QED  BY <1>1, <1>2, <1>3, <1>4

-----------------------------------------------------------------------------
(* What a step does to one agent, to the files and to what is current. *)

\* A step of an agent's process, by what it does to this agent.
LEMMA OwnMoves ==
  ASSUME TypeOK, NEW a \in Agent, NEW b \in Agent,
         CycleStep(b) \/ AgentFault(b) \/ Start(b) \/ FullSyncDue(b)
  PROVE  \/ loop'[a] = loop[a]
         \/ FullSyncDue(a)
         \/ loop'[a] = Off \/ loop'[a] = Started
         \/ \E due : loop'[a] = Between(loop[a].etag, due)
         \/ ReportAnswered(a)
         \/ \E unreadable \in SUBSET Ref : Discover(a, unreadable)
         \/ SyncSnapshot(a) \/ SyncRevision(a) \/ SyncLoad(a)
         \/ \E op \in loop[a].todo :
              Rewrite(a, op) \/ NothingLeft(a, op) \/ CannotApply(a, op) \/ ExecFails(a, op)
<1>1. ASSUME NEW l, loop' = [loop EXCEPT ![b] = l]
      PROVE  loop'[a] = IF a = b THEN l ELSE loop[a]
  BY <1>1 DEF TypeOK
<1>2. ASSUME NEW l, Agenting(b, l)
      PROVE  loop'[a] = IF a = b THEN l ELSE loop[a]
  BY <1>1, <1>2 DEF Agenting
<1>3. ASSUME NEW l, Stepping(b, l)
      PROVE  loop'[a] = IF a = b THEN l ELSE loop[a]
  BY <1>2, <1>3 DEF Stepping
<1>4. CASE b # a
  <2>1. UNCHANGED loop \/ \E l : loop' = [loop EXCEPT ![b] = l]
    BY DEF CycleStep, AgentFault, Start, FullSyncDue, Discover,
           SyncSnapshot, SyncRevision, SyncLoad, SyncRefused, Unauthorized, Rewrite, NothingLeft,
           CannotApply, ExecFails, Warned, ConnectionLost, Stop, GoesStale, GiveUp, Stepping,
           Agenting, RetireFails, RetireUnauthorized, ReportAnswered, ReportUnanswered,
           RetireAnswered, RetireUnanswered
  <2> QED  BY <1>1, <1>4, <2>1
<1>5. CASE b = a
  <2>1. CASE Start(a) \/ Stop(a) \/ Unauthorized(a) \/ RetireFails(a) \/ RetireUnauthorized(a)
    BY <1>3, <1>5, <2>1 DEF Start, Stop, Unauthorized, RetireFails, RetireUnauthorized
  <2>2. CASE RetireAnswered(a) \/ RetireUnanswered(a)
    BY <1>2, <1>5, <2>2 DEF RetireAnswered, RetireUnanswered
  <2>3. CASE SyncRefused(a) \/ ConnectionLost(a)
    BY <1>3, <1>5, <2>3 DEF SyncRefused, ConnectionLost, GiveUp
  <2>4. CASE ReportUnanswered(a)
    BY <1>2, <1>5, <2>4 DEF ReportUnanswered
  <2>5. CASE GoesStale(a)
    BY <2>5 DEF GoesStale
  <2> QED  BY <1>5, <2>1, <2>2, <2>3, <2>4, <2>5 DEF CycleStep, AgentFault
<1> QED  BY <1>4, <1>5

\* Any step, by what it does to one agent.
LEMMA AgentMoves ==
  ASSUME TypeOK, Next, NEW a \in Agent
  PROVE  \/ loop'[a] = loop[a]
         \/ FullSyncDue(a)
         \/ loop'[a] = Off \/ loop'[a] = Started
         \/ \E due : loop'[a] = Between(loop[a].etag, due)
         \/ ReportAnswered(a)
         \/ \E unreadable \in SUBSET Ref : Discover(a, unreadable)
         \/ SyncSnapshot(a) \/ SyncRevision(a) \/ SyncLoad(a) \/ Uninstall(a)
         \/ \E op \in loop[a].todo :
              Rewrite(a, op) \/ NothingLeft(a, op) \/ CannotApply(a, op) \/ ExecFails(a, op)
<1>1. ASSUME NEW b \in Agent, NEW l, loop' = [loop EXCEPT ![b] = l]
      PROVE  loop'[a] = IF a = b THEN l ELSE loop[a]
  BY <1>1 DEF TypeOK
<1>2. ASSUME NEW b \in Agent, Uninstall(b) \/ Reinstall(b)
      PROVE  loop'[a] = loop[a] \/ loop'[a] = Started \/ Uninstall(a)
  <2>1. \E l : loop' = [loop EXCEPT ![b] = l]
    BY <1>2 DEF Uninstall, Reinstall, Stepping, Agenting
  <2>2. Reinstall(b) => loop' = [loop EXCEPT ![b] = Started]
    BY DEF Reinstall
  <2> QED  BY <1>1, <1>2, <2>1, <2>2
<1>3. CASE Restart
  BY <1>3 DEF Restart
<1>4. CASE UNCHANGED loop
  BY <1>4
<1>5. ASSUME AdminStep, \A b \in Agent : ~Reinstall(b)
      PROVE  UNCHANGED loop
  BY <1>5 DEF AdminStep, CheckAddSSHKey, CheckSSHRow, CheckApprove, CheckRemoveOrphan, CheckRevoke,
              Park, CreateSSHAgent, RotateSSHAgentToken, SetAgent, DeleteSSHKey, DeleteSSHTarget,
              DeleteSSHUser, Direct
<1>6. ASSUME \/ \E w \in Worker : RequestStep(w)
             \/ \E c \in Content, other \in BOOLEAN : Poll(c, other)
             \/ PollFails \/ MachineStep
      PROVE  UNCHANGED loop
  BY <1>6, RequestsMoveRevision
     DEF Poll, PollFails, MachineStep, PowerOff, PowerOn, Rename, Replace, ChangeAccount, OnMachines
<1> QED  BY OwnMoves, <1>2, <1>3, <1>4, <1>5, <1>6 DEF Next

\* Files change when one is written, and with their machine.
LEMMA FileSteps ==
  ASSUME Next
  PROVE  \/ UNCHANGED <<home, block, lost>>
         \/ MachineStep
         \/ \E a \in Agent : \E op \in loop[a].todo : Written(a, op)
<1>1. ASSUME AdminStep
      PROVE  UNCHANGED machineVars
  <2>1. \/ \E w \in Worker : \E x : Park(w, x)
        \/ \E tb : Direct(tb)
        \/ \E a \in Agent : \E x : SetAgent(a, x)
    BY <1>1 DEF AdminStep, CheckAddSSHKey, CheckSSHRow, CheckApprove, CheckRemoveOrphan, CheckRevoke,
                CreateSSHAgent, RotateSSHAgentToken, Reinstall, DeleteSSHKey, DeleteSSHTarget,
                DeleteSSHUser
  <2> QED  BY <2>1 DEF Park, Direct, SetAgent, machineVars
<1>2. CASE \E w \in Worker : RequestStep(w)
  BY <1>2 DEF RequestStep, AddSSHKey, SetSSHRow, ApproveSSHTarget, RemoveOrphan, DeleteSSHAgent,
              Finish, machineVars
<1>3. CASE (\E c \in Content, other \in BOOLEAN : Poll(c, other)) \/ PollFails \/ Restart
  BY <1>3 DEF Poll, PollFails, Restart, machineVars
<1>4. ASSUME NEW a \in Agent,
             CycleStep(a) \/ AgentFault(a) \/ Start(a) \/ FullSyncDue(a) \/ Uninstall(a),
             \A op \in loop[a].todo : ~Written(a, op)
      PROVE  UNCHANGED <<home, block, lost>>
  BY <1>4 DEF CycleStep, AgentFault, Start, FullSyncDue, Uninstall, Discover,
              SyncSnapshot, SyncRevision, SyncLoad, SyncRefused, Unauthorized, Rewrite, NothingLeft,
              CannotApply, ExecFails, ConnectionLost, Stop, GoesStale, GiveUp, Stepping,
              Agenting, RetireFails, RetireUnauthorized, ReportAnswered, ReportUnanswered,
              RetireAnswered, RetireUnanswered, machineVars
<1> QED  BY <1>1, <1>2, <1>3, <1>4 DEF Next, machineVars

\* The tables never change under one revision; polls and restarts move the rest.
LEMMA Clock ==
  ASSUME IInv, Next
  PROVE  /\ TablesMoveWithRevision
         /\ \/ UNCHANGED <<boot, snap>>
            \/ \E c \in Content, other \in BOOLEAN : Poll(c, other)
            \/ Restart
<1>0. TypeOK /\ rev \in Nat
  BY DEF IInv, TypeOK
<1>1. CASE AdminStep \/ (\E w \in Worker : RequestStep(w)) \/ MachineStep
  BY <1>0, <1>1, RequestsAreQuiet DEF Quiet
<1>2. CASE (\E c \in Content, other \in BOOLEAN : Poll(c, other)) \/ PollFails \/ Restart
  BY <1>0, <1>2 DEF Poll, PollFails, Restart, dbVars, TablesMoveWithRevision
<1>3. ASSUME NEW a \in Agent, SyncSnapshot(a) \/ SyncRevision(a) \/ SyncLoad(a)
      PROVE  UNCHANGED <<tables, rev, boot, snap>>
  BY <1>3 DEF SyncSnapshot, SyncRevision, SyncLoad, Stepping, Agenting, dbVars, serverVars
<1>4. ASSUME NEW a \in Agent,
             CycleStep(a) \/ AgentFault(a) \/ Start(a) \/ FullSyncDue(a) \/ Uninstall(a)
      PROVE  TablesMoveWithRevision /\ UNCHANGED <<boot, snap>>
  BY <1>0, <1>3, <1>4, ProcessIsQuiet, ReportsAreQuiet, RequestsAreQuiet
     DEF CycleStep, AgentFault, Quiet, TablesMoveWithRevision
<1> QED  BY <1>1, <1>2, <1>4 DEF Next

\* The steps of a cycle before its first file, by the fields the arguments below look at.
LEMMA DiscoverMoves ==
  ASSUME TypeOK, NEW a \in Agent, NEW unreadable, Discover(a, unreadable)
  PROVE  /\ loop'[a].pc = "discovered"
         /\ loop'[a].etag = loop[a].etag
         /\ loop'[a].cleared = loop[a].cleared
<1> DEFINE found == Discovery(a, unreadable)
           l == [loop[a] EXCEPT !.pc = "discovered", !.forced = loop[a].due, !.seen = found]
<1>1. Stepping(a, l)
  BY DEF Discover
<1> HIDE DEF found
<1>2. loop'[a] = l
  BY <1>1, SteppingMoves
<1> QED  BY <1>2 DEF TypeOK, Loop

\* A request captures the snapshot, and says nothing of what was cleared.
LEMMA SnapshotMoves ==
  ASSUME TypeOK, NEW a \in Agent, SyncSnapshot(a)
  PROVE  /\ loop'[a].pc = "asking" /\ loop'[a].call = snap /\ snap # NoSnap
         /\ loop'[a].etag = loop[a].etag
         /\ loop'[a].cleared = loop[a].cleared
         /\ UNCHANGED <<boot, snap>>
<1>1. loop'[a] = [loop[a] EXCEPT !.pc = "asking", !.call = snap] /\ UNCHANGED <<boot, snap>>
  BY SteppingMoves DEF SyncSnapshot
<1> QED  BY <1>1 DEF TypeOK, Loop, SyncSnapshot

\* It then gets its ETag, or the answer that nothing changed.
LEMMA RevisionMoves ==
  ASSUME TypeOK, NEW a \in Agent, SyncRevision(a),
         NEW tag, tag = [rev |-> rev, snap |-> loop[a].call.rev, boot |-> boot]
  PROVE  /\ loop[a].pc = "asking"
         /\ loop'[a].pc = IF Asked(loop[a]) = tag THEN "unchanged" ELSE "tagged"
         /\ loop'[a].next = tag
         /\ loop'[a].etag = loop[a].etag
         /\ loop'[a].cleared = loop[a].cleared
<1> DEFINE same == Asked(loop[a]) = tag
           l == [loop[a] EXCEPT !.pc = IF same THEN "unchanged" ELSE "tagged",
                                !.call = IF same THEN NoSnap ELSE @,
                                !.next = tag]
<1>1. loop[a].pc = "asking" /\ Stepping(a, l)
  BY DEF SyncRevision
<1> HIDE DEF same
<1>2. loop'[a] = l
  BY <1>1, SteppingMoves
<1>3. /\ l.pc = IF same THEN "unchanged" ELSE "tagged"
      /\ l.next = tag /\ l.etag = loop[a].etag /\ l.cleared = loop[a].cleared
  BY DEF TypeOK, Loop
<1> QED  BY <1>1, <1>2, <1>3 DEF same

\* An order is to be carried out as a whole, under the ETag it came with.
LEMMA LoadMoves ==
  ASSUME TypeOK, NEW a \in Agent, SyncLoad(a)
  PROVE  /\ loop[a].pc = "tagged" /\ loop'[a].pc = "applying"
         /\ loop'[a].etag = loop[a].etag
         /\ loop'[a].next = loop[a].next
         /\ loop'[a].cleared = loop[a].cleared
         /\ loop'[a].todo = Ops(loop'[a].orders, loop'[a].seen)
<1> DEFINE c == loop[a].call.content
           orders == Desired(a, c.hosts, c.people, tables)
           todo == Ops(orders, loop[a].seen)
           mis == {t.ref : t \in {o \in orders : Mismatched(o, loop[a].seen)}}
           warned == \E t \in orders : ~Ready(t, loop[a].seen)
           l == [loop[a] EXCEPT !.pc = "applying", !.call = NoSnap, !.orders = orders,
                                !.todo = todo, !.mismatched = mis, !.warned = warned]
<1>1. loop[a].pc = "tagged" /\ Stepping(a, l)
  BY DEF SyncLoad
<1> HIDE DEF orders, todo, mis, warned
<1>2. loop'[a] = l
  BY <1>1, SteppingMoves
<1>3. /\ l.pc = "applying" /\ l.etag = loop[a].etag /\ l.next = loop[a].next
      /\ l.cleared = loop[a].cleared
      /\ l.todo = todo /\ l.orders = orders /\ l.seen = loop[a].seen
  BY DEF TypeOK, Loop
<1> QED  BY <1>1, <1>2, <1>3 DEF todo

\* An uninstall starts over, with nothing cleared yet.
LEMMA UninstallMoves ==
  ASSUME TypeOK, NEW a \in Agent, Uninstall(a)
  PROVE  loop'[a].pc = "retiring" /\ loop'[a].etag = NoTag /\ loop'[a].cleared = {}
<1> DEFINE orders == {ClearTarget(a, r, tables) : r \in {s \in Ref : ManagedUsers(a, s, tables) # {}}}
           seen == Discovery(a, {})
           todo == Ops(orders, seen)
<1>1. loop'[a] = [Off EXCEPT !.pc = "retiring", !.seen = seen, !.orders = orders, !.todo = todo]
  BY SteppingMoves DEF Uninstall
<1> HIDE DEF orders, seen, todo
<1> QED  BY <1>1 DEF Off, Started, Between

-----------------------------------------------------------------------------
(* Records. *)

\* An agent counts an account as cleared when it did one clear more, and
\* forgets it when the cycle ends.
LEMMA ClearedMoves ==
  ASSUME TypeOK, TodoIsOrdered, Next, NEW a \in Agent
  PROVE  \/ loop'[a].cleared \subseteq loop[a].cleared
         \/ \E op \in loop[a].todo :
              /\ op.clear
              /\ Rewrite(a, op) \/ NothingLeft(a, op)
              /\ loop'[a].cleared = loop[a].cleared \union {PairOf(op)}
<1>0. loop[a] \in Loop
  BY DEF TypeOK
<1>1. ASSUME NEW l, Stepping(a, l)
      PROVE  loop'[a] = l
  BY <1>1, SteppingMoves
<1>2. CASE \/ loop'[a] = loop[a] \/ loop'[a] = Off \/ loop'[a] = Started
           \/ \E due : loop'[a] = Between(loop[a].etag, due)
  <2>1. Off.cleared = {} /\ Started.cleared = {} /\ \A etag, due : Between(etag, due).cleared = {}
    BY DEF Off, Started, Between
  <2> QED  BY <1>2, <2>1
<1>3. CASE ReportAnswered(a)
  BY <1>3 DEF ReportAnswered, Agenting, Between, TypeOK
<1>4. CASE FullSyncDue(a)
  BY <1>0, <1>1, <1>4 DEF FullSyncDue, Loop
<1>5. CASE \/ \E unreadable \in SUBSET Ref : Discover(a, unreadable)
           \/ SyncSnapshot(a) \/ SyncRevision(a) \/ SyncLoad(a) \/ Uninstall(a)
  BY <1>5, DiscoverMoves, SnapshotMoves, RevisionMoves, LoadMoves, UninstallMoves
<1>6. ASSUME NEW op \in loop[a].todo, Rewrite(a, op) \/ NothingLeft(a, op)
      PROVE  \/ loop'[a].cleared \subseteq loop[a].cleared
             \/ op.clear /\ loop'[a].cleared = loop[a].cleared \union {PairOf(op)}
  <2>1. loop'[a] = Done(a, op)
    BY <1>1, <1>6 DEF Rewrite, NothingLeft, TypeOK
  <2> QED  BY <1>0, <2>1 DEF Done, Loop, PairOf
<1>7. ASSUME NEW op \in loop[a].todo, CannotApply(a, op) \/ ExecFails(a, op)
       PROVE  loop'[a].cleared = loop[a].cleared
  <2>1. loop'[a] = Warned(a, op)
    BY <1>1, <1>7 DEF CannotApply, ExecFails, TypeOK
  <2> QED  BY <1>0, <2>1 DEF Warned, Loop
<1> QED
  BY <1>2, <1>3, <1>4, <1>5, <1>6, <1>7, AgentMoves

\* A home that is removed takes its block along; nothing writes one without a home.
LEMMA StepKeepsGone ==
  ASSUME TypeOK, TodoIsOrdered, GoneIsBlank, Next
  PROVE  GoneIsBlank'
<1> SUFFICES ASSUME NEW m \in Machine, NEW u \in UnixUser, home'[m][u] = "nothing"
             PROVE  block'[m][u] = {}
  BY DEF GoneIsBlank
<1>1. CASE UNCHANGED <<home, block, lost>>
  BY <1>1 DEF GoneIsBlank
<1>2. CASE MachineStep
  BY <1>2, MachinesLose DEF GoneIsBlank
<1>3. ASSUME NEW a \in Agent, NEW op \in loop[a].todo, Written(a, op)
      PROVE  block'[m][u] = {}
  <2> DEFINE n == MachineOf[<<a, op.ref>>]
  <2>1. op \in Op /\ n \in Machine
    BY TodoIsReached
  <2>2. /\ home' = home /\ home[n][op.user] = "account"
        /\ block' = [block EXCEPT ![n][op.user] = op.lines]
    BY <1>3 DEF Written
  <2> HIDE DEF n
  <2>3. m # n \/ u # op.user
    BY <2>2
  <2> QED  BY <2>1, <2>2, <2>3 DEF GoneIsBlank, TypeOK, Op
<1> QED  BY <1>1, <1>2, <1>3, FileSteps

\* What was cleared stays clear until it is reported: the order clears it
\* and writes it nowhere, and nobody else writes it.
LEMMA StepKeepsCleared ==
  ASSUME TypeOK, TodoIsOrdered, Apart, GoneIsBlank, ClearedIsBlank, Next
  PROVE  ClearedIsBlank'
<1> SUFFICES ASSUME NEW a \in Agent, NEW p \in loop'[a].cleared
             PROVE  Blank(a, p[1], p[2])'
  BY DEF ClearedIsBlank
<1>1. CASE p \in loop[a].cleared
  <2>0. /\ p[1] \in Ref /\ p[2] \in UnixUser
        /\ Reaches(a, p[1]) /\ MachineOf[<<a, p[1]>>] \in Machine
        /\ Blank(a, p[1], p[2])
    BY <1>1, ClearedIsReached DEF ClearedIsBlank
  <2>1. CASE UNCHANGED <<home, block, lost>>
    BY <2>0, <2>1 DEF Blank, BlockOf
  <2>2. CASE MachineStep
    BY <2>0, <2>2, MachinesLose DEF Blank, BlockOf
  <2>3. ASSUME NEW b \in Agent, NEW op \in loop[b].todo, Written(b, op)
        PROVE  Blank(a, p[1], p[2])'
    <3>1. CASE a # b \/ <<p[1], p[2]>> # PairOf(op)
      <4>1. BlockOf(a, p[1], p[2])' = BlockOf(a, p[1], p[2])
        BY <2>0, <2>3, <3>1, RewriteElsewhere
      <4> QED  BY <2>0, <4>1 DEF Blank
    <3>2. CASE a = b /\ <<p[1], p[2]>> = PairOf(op)
      <4>1. PICK x \in Ops(loop[a].orders, loop[a].seen) : x.clear /\ p = PairOf(x)
        BY <1>1, ClearedIsReached
      <4>2. p = PairOf(op)
        BY <3>2, <4>1 DEF PairOf
      <4>3. op \in Ops(loop[a].orders, loop[a].seen)
        BY <3>2, TodoIsReached
      <4>4. Busy(loop[a]) /\ Single(Ops(loop[a].orders, loop[a].seen))
        BY <1>1 DEF TodoIsOrdered, Working
      <4>5. x = op
        BY <4>1, <4>2, <4>3, <4>4 DEF Single
      <4>6. op.lines = {}
        BY <4>1, <4>5, ClearsAreEmpty
      <4>7. p[1] = op.ref /\ p[2] = op.user
        BY <4>2 DEF PairOf
      <4> QED  BY <2>3, <3>2, <4>6, <4>7, RewriteHere DEF Blank
    <3> QED  BY <3>1, <3>2
  <2> QED  BY <2>1, <2>2, <2>3, FileSteps
<1>2. ASSUME NEW op \in loop[a].todo, op.clear, Rewrite(a, op) \/ NothingLeft(a, op), p = PairOf(op)
      PROVE  Blank(a, p[1], p[2])'
  <2>1. /\ op \in Op /\ op \in Ops(loop[a].orders, loop[a].seen)
        /\ MachineOf[<<a, op.ref>>] \in Machine
    BY TodoIsReached
  <2>2. p[1] = op.ref /\ p[2] = op.user
    BY <1>2 DEF PairOf
  <2>3. CASE Rewrite(a, op)
    BY <1>2, <2>1, <2>2, <2>3, RewriteHere, ClearsAreEmpty DEF Rewrite, Blank
  <2>4. CASE NothingLeft(a, op)
    <3>1. \/ home[MachineOf[<<a, op.ref>>]][op.user] = "nothing"
          \/ <<MachineOf[<<a, op.ref>>], op.user>> \in Elsewhere
      BY <2>4 DEF NothingLeft
    <3>2. block' = block
      BY <2>4 DEF NothingLeft, Stepping, Agenting, machineVars
    <3> QED  BY <2>1, <2>2, <3>1, <3>2 DEF GoneIsBlank, Blank, BlockOf, Op
  <2> QED  BY <1>2, <2>3, <2>4
<1> QED  BY <1>1, <1>2, ClearedMoves

\* A row goes when it is reported as cleared, or handed to an admin.
LEMMA RowsDropped ==
  ASSUME TypeOK, Next, NEW m \in tables.managed, Reaches(m[1], m[2]),
         m \notin tables'.managed, m \notin handed'
  PROVE  m[1] \in Agent /\ <<m[2], m[3]>> \in loop[m[1]].cleared
<1>0. m = <<m[1], m[2], m[3]>> /\ m[1] \in Agent /\ m[2] \in Ref
  BY DEF TypeOK, Tables
<1>1. ASSUME tables'.managed = tables.managed
      PROVE  FALSE
  BY <1>1
<1>2. CASE AdminStep
  <2>1. \/ UNCHANGED tables
        \/ \E l \in Line : DeleteSSHKey(l)
        \/ \E h \in Host : DeleteSSHTarget(h)
        \/ \E p \in Person : DeleteSSHUser(p)
    BY <1>2 DEF AdminStep, CheckAddSSHKey, CheckSSHRow, CheckApprove, CheckRemoveOrphan, CheckRevoke,
                Park, dbVars, CreateSSHAgent, RotateSSHAgentToken, Reinstall, SetAgent
  <2>2. ASSUME NEW l, DeleteSSHKey(l)  PROVE FALSE
    BY <1>1, <2>2 DEF DeleteSSHKey, Direct, Commit, TypeOK, Tables
  <2>3. ASSUME NEW h, DeleteSSHTarget(h)  PROVE FALSE
    BY <1>1, <2>3 DEF DeleteSSHTarget, Direct, Commit, TypeOK, Tables
  <2>4. ASSUME NEW p, DeleteSSHUser(p)  PROVE FALSE
    BY <1>1, <2>4 DEF DeleteSSHUser, Direct, Commit, TypeOK, Tables
  <2> QED  BY <1>1, <2>1, <2>2, <2>3, <2>4
<1>3. ASSUME NEW w \in Worker, AddSSHKey(w) \/ SetSSHRow(w) \/ ApproveSSHTarget(w) \/ RemoveOrphan(w)
      PROVE  FALSE
  BY <1>1, <1>3 DEF AddSSHKey, SetSSHRow, ApproveSSHTarget, RemoveOrphan, Commit, TypeOK, Tables
<1>4. ASSUME NEW w \in Worker, DeleteSSHAgent(w)
      PROVE  FALSE
  <2>1. tables' = tables \/ /\ tables' = WithoutAgent(req[w].agent)
                            /\ handed' = handed \union CleanupCommands(req[w].agent)
    BY <1>4 DEF DeleteSSHAgent, Commit, dbVars
  <2>2. WithoutAgent(req[w].agent).managed = {x \in tables.managed : x[1] # req[w].agent}
    BY DEF WithoutAgent, TypeOK, Tables
  <2>3. m[1] = req[w].agent /\ m \notin CleanupCommands(req[w].agent)
    BY <1>1, <2>1, <2>2
  <2>4. Proxmox(m[1]) <=> m[2] # Self
    BY <1>0, HostsAreOfOneKind DEF Proxmox, Reaches
  <2> QED  BY <2>3, <2>4 DEF CleanupCommands
<1>5. ASSUME NEW a \in Agent, RecordSSHReport(a)
      PROVE  m[1] = a /\ <<m[2], m[3]>> \in loop[a].cleared
  <2>1. tables'.managed = (tables.managed \union {<<a, p[1], p[2]>> : p \in loop[a].applied})
                             \ {<<a, p[1], p[2]>> : p \in loop[a].cleared}
    BY <1>5 DEF RecordSSHReport, Reported, TypeOK, Tables
  <2>2. PICK p \in loop[a].cleared : m = <<a, p[1], p[2]>>
    BY <2>1
  <2>3. p = <<p[1], p[2]>>
    BY DEF TypeOK, Loop, Pair
  <2> QED  BY <2>2, <2>3
<1>6. ASSUME NEW a \in Agent, RetireSSHAgent(a)
      PROVE  m[1] = a /\ <<m[2], m[3]>> \in loop[a].cleared
  <2> DEFINE gone == {<<a, p[1], p[2]>> : p \in loop[a].cleared}
             kept == [tables EXCEPT !.managed = @ \ gone]
             left == {x \in tables.managed : x[1] = a} \ gone
  <2>1. \/ tables' = kept
        \/ left = {} /\ tables' = WithoutAgent(a)
    BY <1>6 DEF RetireSSHAgent, Commit
  <2>2. kept.managed = tables.managed \ gone
    BY DEF TypeOK, Tables
  <2>3. WithoutAgent(a).managed = {x \in tables.managed : x[1] # a}
    BY DEF WithoutAgent, TypeOK, Tables
  <2>4. m \in gone
    <3> HIDE DEF gone, kept
    <3>1. CASE tables' = kept
      BY <2>2, <3>1
    <3>2. CASE left = {} /\ tables' = WithoutAgent(a)
      BY <2>3, <3>2
    <3> QED  BY <2>1, <3>1, <3>2
  <2>5. PICK p \in loop[a].cleared : m = <<a, p[1], p[2]>>
    BY <2>4
  <2>6. p = <<p[1], p[2]>>
    BY DEF TypeOK, Loop, Pair
  <2> QED  BY <2>5, <2>6
<1>7. ASSUME NEW a \in Agent, CycleStep(a) \/ AgentFault(a)
      PROVE  UNCHANGED tables \/ RecordSSHReport(a) \/ RetireSSHAgent(a)
  BY <1>7 DEF CycleStep, AgentFault, Discover, SyncSnapshot, SyncRevision, SyncLoad, SyncRefused,
              Unauthorized, Rewrite, NothingLeft, CannotApply, ExecFails, Warned, ConnectionLost,
              Stop, GoesStale, GiveUp, Stepping, dbVars, RetireFails, RetireUnauthorized,
              ReportAnswered, ReportUnanswered, RetireAnswered, RetireUnanswered
<1>8. ASSUME \/ \E a \in Agent : Uninstall(a) \/ Start(a) \/ FullSyncDue(a)
             \/ \E c \in Content, other \in BOOLEAN : Poll(c, other)
             \/ PollFails \/ Restart \/ MachineStep
      PROVE  UNCHANGED tables
  BY <1>8 DEF Uninstall, Start, FullSyncDue, Stepping, Poll, PollFails, Restart, dbVars, MachineStep,
              PowerOff, PowerOn, Rename, Replace, ChangeAccount, OnMachines
<1> QED  BY <1>0, <1>1, <1>2, <1>3, <1>4, <1>5, <1>6, <1>7, <1>8 DEF Next, RequestStep

BInv == SInv /\ GoneIsBlank /\ ClearedIsBlank

\* The invariant of the files, where nobody shares a machine.
LEMMA FilesInvariance == Apart => (Spec => []BInv)
<1> SUFFICES ASSUME Apart  PROVE Spec => []BInv
  OBVIOUS
<1>1. Init => GoneIsBlank /\ ClearedIsBlank
  <2>1. Off.cleared = {}
    BY DEF Off, Started, Between
  <2> QED  BY <2>1 DEF Init, GoneIsBlank, ClearedIsBlank
<1>2. SInv /\ GoneIsBlank /\ ClearedIsBlank /\ [Next]_vars => (GoneIsBlank /\ ClearedIsBlank)'
  <2> SUFFICES ASSUME SInv, GoneIsBlank, ClearedIsBlank, [Next]_vars
               PROVE  GoneIsBlank' /\ ClearedIsBlank'
    OBVIOUS
  <2>1. CASE Next
    BY <2>1, StepKeepsGone, StepKeepsCleared DEF SInv, IInv
  <2>2. CASE UNCHANGED vars
    BY <2>2 DEF vars, machineVars, GoneIsBlank, ClearedIsBlank, Blank, BlockOf
  <2> QED  BY <2>1, <2>2
<1> QED  BY <1>1, <1>2, SafeInvariance, PTL DEF Spec, BInv

(* What gets a block cleared is not forgotten before the block is gone      *)
(* (RecordSSHReport, RetireSSHAgent, DeleteSSHAgent), whatever orders,      *)
(* answers and machines were lost on the way: where every machine is        *)
(* reached by one agent under one name, a managed row is dropped only with  *)
(* its block empty, or with its cleanup command shown to an admin, unless   *)
(* the account's home is where keysRemain does not look.                    *)
THEOREM RecordsOutliveBlocks == Apart => (Spec => RecordOutlivesBlock)
<1> SUFFICES ASSUME Apart  PROVE Spec => RecordOutlivesBlock
  OBVIOUS
<1>1. BInv /\ [Next]_vars =>
        [\A m \in tables.managed \ (tables'.managed \union handed') :
           Reaches(m[1], m[2]) =>
             \/ BlockOf(m[1], m[2], m[3]) = {}
             \/ <<MachineOf[<<m[1], m[2]>>], m[3]>> \in Elsewhere]_vars
  <2> SUFFICES ASSUME BInv, Next, NEW m \in tables.managed \ (tables'.managed \union handed'),
                      Reaches(m[1], m[2])
               PROVE  Blank(m[1], m[2], m[3])
    BY DEF Blank
  <2>1. m[1] \in Agent /\ <<m[2], m[3]>> \in loop[m[1]].cleared
    BY RowsDropped DEF BInv, SInv, IInv
  <2> QED  BY <2>1 DEF BInv, ClearedIsBlank
<1> QED  BY <1>1, FilesInvariance, PTL DEF RecordOutlivesBlock, Spec

-----------------------------------------------------------------------------
(* ETags. *)

\* An ETag is of an earlier time, or of an earlier process.
Past(e) ==
  e # NoTag => /\ e.rev <= rev
               /\ e.boot <= boot
               /\ e.boot = boot => snap # NoSnap /\ e.snap <= snap.rev

\* The same after a step, for an ETag that does not move with it.
PastAfter(e) ==
  e # NoTag => /\ e.rev <= rev'
               /\ e.boot <= boot'
               /\ e.boot = boot' => snap' # NoSnap /\ e.snap <= snap'.rev

\* ETag e was answered no later than n.
NoLater(e, n) ==
  e # NoTag => /\ e.rev <= n.rev
               /\ e.boot <= n.boot
               /\ e.boot = n.boot => e.snap <= n.snap

\* The ETag an agent holds is no later than what its request captures.
Follows(a) ==
  LET l == loop[a] IN
  /\ Past(l.etag)
  /\ l.pc = "retiring" => l.etag = NoTag
  /\ l.pc = "unchanged" => l.next = l.etag
  /\ l.pc = "asking" /\ l.etag # NoTag /\ l.etag.boot = boot => l.etag.snap <= l.call.rev
  /\ l.pc \in {"tagged", "applying"} => NoLater(l.etag, l.next)

TagsFollow == \A a \in Agent : Follows(a)

\* What is past stays past.
LEMMA PastStays ==
  ASSUME IInv, Next, NEW e \in Tag \union {NoTag}, Past(e)
  PROVE  PastAfter(e)
<1>0. /\ rev \in Nat /\ boot \in Nat /\ snap \in Snapshot \union {NoSnap}
      /\ e = NoTag \/ e \in Tag
  BY DEF IInv, TypeOK
<1>1. rev' \in Nat /\ rev' >= rev
  BY Clock DEF TablesMoveWithRevision
<1>2. CASE UNCHANGED <<boot, snap>>
  BY <1>0, <1>1, <1>2 DEF Past, PastAfter, Tag
<1>3. ASSUME NEW c \in Content, NEW other \in BOOLEAN, Poll(c, other)
      PROVE  PastAfter(e)
  <2>1. boot' = boot
    BY <1>3 DEF Poll
  <2>2. CASE snap = NoSnap
    BY <1>0, <1>1, <2>1, <2>2 DEF Past, PastAfter, Tag
  <2>3. CASE snap # NoSnap
    <3>1. snap' = snap \/ snap' = [rev |-> snap.rev + 1, content |-> c]
      BY <1>3, <2>3 DEF Poll
    <3>2. snap.rev \in Nat /\ [rev |-> snap.rev + 1, content |-> c] \in Snapshot
      BY <1>0, <2>3 DEF Snapshot
    <3>3. snap' # NoSnap /\ snap'.rev \in Nat /\ snap'.rev >= snap.rev
      BY <2>3, <3>1, <3>2, SnapshotsExist
    <3> QED  BY <1>0, <1>1, <2>1, <3>2, <3>3 DEF Past, PastAfter, Tag
  <2> QED  BY <2>2, <2>3
<1>4. CASE Restart
  <2>1. boot' = boot + 1
    BY <1>4 DEF Restart, NewBoot
  <2> QED  BY <1>0, <1>1, <2>1 DEF Past, PastAfter, Tag
<1> QED  BY <1>2, <1>3, <1>4, Clock

\* A past ETag that is current after a step was current before it, and
\* nothing an order depends on has changed (sshTx, applyLocked, newBoot).
LEMMA CurrentWasCurrent ==
  ASSUME IInv, Next, NEW e \in Tag \union {NoTag}, Past(e), HoldsCurrent(e)', NEW a \in Agent
  PROVE  HoldsCurrent(e) /\ tables' = tables /\ DesiredNow(a)' = DesiredNow(a)
<1>0. /\ rev \in Nat /\ boot \in Nat /\ snap \in Snapshot \union {NoSnap}
      /\ e = [rev |-> rev', snap |-> snap'.rev, boot |-> boot'] /\ snap' # NoSnap
  BY DEF IInv, TypeOK, HoldsCurrent, CurrentTag
<1>1. e \in Tag
  <2>1. rev' \in Nat /\ boot' \in Nat /\ snap' \in Snapshot
    BY <1>0, NextType DEF TypeOK
  <2> QED  BY <1>0, <2>1 DEF Tag, Snapshot
<1>2. e.rev = rev' /\ e.snap = snap'.rev /\ e.boot = boot' /\ e # NoTag
  BY <1>0, <1>1, TagsExist
<1>3. rev' = rev /\ tables' = tables
  <2>1. rev' \in Nat /\ rev' >= rev /\ (rev' = rev => tables' = tables)
    BY Clock DEF TablesMoveWithRevision
  <2>2. rev' <= rev
    BY <1>2 DEF Past
  <2> QED  BY <1>0, <2>1, <2>2
<1>4. boot' = boot /\ snap' = snap
  <2>1. ~Restart
    <3>1. e.boot <= boot
      BY <1>2 DEF Past
    <3> QED  BY <1>0, <1>2, <3>1 DEF Restart, NewBoot
  <2>2. ASSUME NEW c \in Content, NEW other \in BOOLEAN, Poll(c, other)
        PROVE  boot' = boot /\ snap' = snap
    <3>1. boot' = boot
      BY <2>2 DEF Poll
    <3>2. snap # NoSnap /\ e.snap <= snap.rev
      BY <1>2, <3>1 DEF Past
    <3>3. snap.rev \in Nat
      BY <1>0, <3>2 DEF Snapshot
    <3>4. snap' = snap \/ snap'.rev = snap.rev + 1
      BY <2>2, <3>2 DEF Poll
    <3> QED  BY <1>2, <3>1, <3>2, <3>3, <3>4
  <2> QED  BY <2>1, <2>2, Clock
<1>5. HoldsCurrent(e)
  BY <1>0, <1>3, <1>4 DEF HoldsCurrent, CurrentTag
<1>6. DesiredNow(a)' = DesiredNow(a)
  BY <1>3, <1>4 DEF DesiredNow
<1> QED  BY <1>3, <1>5, <1>6

\* If the ETag an agent holds is current, so is the one it works under.
LEMMA NextIsCurrent ==
  ASSUME TypeOK, NEW a \in Agent, Ordered(a), Follows(a), loop[a].pc = "applying",
         HoldsCurrent(loop[a].etag)
  PROVE  HoldsCurrent(loop[a].next)
<1> DEFINE e == loop[a].etag
           n == loop[a].next
<1>1. /\ loop[a] \in Loop /\ rev \in Nat /\ boot \in Nat /\ snap \in Snapshot
      /\ e = [rev |-> rev, snap |-> snap.rev, boot |-> boot] /\ snap # NoSnap
  BY DEF TypeOK, HoldsCurrent, CurrentTag
<1>2. snap.rev \in Nat
  BY <1>1 DEF Snapshot
<1>3. e \in Tag /\ e # NoTag /\ e.rev = rev /\ e.snap = snap.rev /\ e.boot = boot
  BY <1>1, <1>2, TagsExist DEF Tag
<1>4. n \in Tag /\ n.rev <= rev /\ n.boot <= boot /\ (n.boot = boot => n.snap <= snap.rev)
  BY <1>1 DEF Ordered, Loop
<1>5. e.rev <= n.rev /\ e.boot <= n.boot /\ (e.boot = n.boot => e.snap <= n.snap)
  BY <1>3 DEF Follows, NoLater
<1> HIDE DEF e, n
<1>6. n.rev = rev /\ n.boot = boot /\ n.snap = snap.rev
  BY <1>1, <1>2, <1>3, <1>4, <1>5 DEF Tag
<1>7. n = [rev |-> rev, snap |-> snap.rev, boot |-> boot]
  BY <1>4, <1>6 DEF Tag
<1> QED  BY <1>1, <1>7 DEF HoldsCurrent, CurrentTag, n

\* What an agent holds after a step is past, whatever it took over.
LEMMA StepFollows ==
  ASSUME IInv, TagsFollow, Next
  PROVE  TagsFollow'
<1> SUFFICES ASSUME NEW a \in Agent  PROVE Follows(a)'
  BY DEF TagsFollow
<1> DEFINE l == loop[a]
           k == loop'[a]
<1>0. /\ TypeOK /\ l \in Loop /\ Ordered(a) /\ Follows(a)
      /\ rev \in Nat /\ boot \in Nat /\ snap \in Snapshot \union {NoSnap}
  BY DEF IInv, TypeOK, TagsAreOrdered, TagsFollow
<1>1. l.etag \in Tag \union {NoTag} /\ Past(l.etag) /\ PastAfter(l.etag)
  BY <1>0, PastStays DEF Follows, Loop
<1>2. PastAfter(NoTag)
  BY DEF PastAfter
<1>3. ASSUME NEW x, Stepping(a, x)
      PROVE  loop'[a] = x /\ UNCHANGED <<tables, rev, boot, snap>>
  BY <1>0, <1>3, SteppingMoves
\* An agent that keeps its ETag outside the handler and an order.
<1>4. ASSUME k.etag = l.etag \/ k.etag = NoTag, k.pc \in {"off", "waiting", "discovered"}
      PROVE  Follows(a)'
  BY <1>1, <1>2, <1>4 DEF Follows, Past, PastAfter
\* An agent that keeps its ETag and what it captured.
<1>5. ASSUME k.etag = l.etag, k.pc = l.pc, k.next = l.next, k.call = l.call,
             l.pc = "asking" => boot' = boot
      PROVE  Follows(a)'
  BY <1>0, <1>1, <1>5 DEF Follows, NoLater, Past, PastAfter
<1>6. CASE loop'[a] = loop[a] /\ ~Restart
  <2>1. boot' = boot
    BY <1>6, Clock DEF Poll
  <2> QED  BY <1>5, <1>6, <2>1
<1>7. CASE Restart
  <2>1. k = IF InHandler(a) THEN Between(l.etag, l.due) ELSE l
    BY <1>7 DEF Restart
  <2> QED  BY <1>4, <1>5, <2>1 DEF InHandler, Between
<1>8. CASE \/ k = Off \/ k = Started \/ \E due : k = Between(l.etag, due)
  <2>1. /\ Off.etag = NoTag /\ Off.pc = "off" /\ Started.etag = NoTag /\ Started.pc = "waiting"
        /\ \A etag, due : Between(etag, due).etag = etag /\ Between(etag, due).pc = "waiting"
    BY DEF Off, Started, Between
  <2> QED  BY <1>4, <1>8, <2>1
<1>9. CASE FullSyncDue(a)
  <2>1. k = [l EXCEPT !.due = TRUE] /\ boot' = boot
    BY <1>3, <1>9 DEF FullSyncDue
  <2>2. k.etag = l.etag /\ k.pc = l.pc /\ k.next = l.next /\ k.call = l.call
    BY <1>0, <2>1 DEF Loop
  <2> QED  BY <1>5, <2>1, <2>2
<1>10. ASSUME NEW unreadable, Discover(a, unreadable)
       PROVE  Follows(a)'
  BY <1>0, <1>4, <1>10, DiscoverMoves
<1>11. CASE ReportAnswered(a)
  <2>1. k = Between(IF l.warned THEN l.etag ELSE l.next, l.due /\ ~l.forced)
    BY <1>0, <1>11 DEF ReportAnswered, Agenting, TypeOK
  <2>2. k.pc = "waiting" /\ k.etag = IF l.warned THEN l.etag ELSE l.next
    BY <2>1 DEF Between
  <2>3. Past(l.next)
    BY <1>0, <1>11 DEF ReportAnswered, RecordSSHReport, Follows, Ordered, Past
  <2>4. PastAfter(l.next)
    BY <1>0, <2>3, PastStays DEF Loop
  <2> QED  BY <1>1, <2>2, <2>4 DEF Follows, Past, PastAfter
<1>12. CASE SyncSnapshot(a)
  BY <1>0, <1>1, <1>12, SnapshotMoves DEF Follows, Past, PastAfter
<1>13. CASE SyncRevision(a)
  <2> DEFINE tag == [rev |-> rev, snap |-> l.call.rev, boot |-> boot]
  <2>1. /\ l.pc = "asking"
        /\ k.etag = l.etag /\ k.next = tag
        /\ k.pc = IF Asked(l) = tag THEN "unchanged" ELSE "tagged"
    BY <1>0, <1>13, RevisionMoves
  <2>2. NoLater(l.etag, tag)
    BY <1>0, <1>1, <2>1 DEF Follows, NoLater, Past
  <2>3. Asked(l) = tag => l.etag = tag
    <3>1. l.call \in Snapshot
      BY <1>0, <2>1 DEF Ordered, InHandler, Loop
    <3>2. tag \in Tag
      BY <1>0, <3>1 DEF Tag, Snapshot
    <3> QED  BY <3>2, TagsExist DEF Asked
  <2> HIDE DEF tag
  <2> QED  BY <1>1, <2>1, <2>2, <2>3 DEF Follows, NoLater, Past, PastAfter
<1>14. CASE SyncLoad(a)
  <2>1. k.etag = l.etag /\ k.next = l.next /\ k.pc = "applying" /\ l.pc = "tagged"
    BY <1>0, <1>14, LoadMoves
  <2> QED  BY <1>0, <1>1, <2>1 DEF Follows, NoLater, Past, PastAfter
<1>15. CASE Uninstall(a)
  BY <1>0, <1>2, <1>15, UninstallMoves DEF Follows, Past, PastAfter
<1>16. ASSUME NEW op \in l.todo,
              Rewrite(a, op) \/ NothingLeft(a, op) \/ CannotApply(a, op) \/ ExecFails(a, op)
       PROVE  Follows(a)'
  <2>1. k = Done(a, op) \/ k = Warned(a, op)
    BY <1>0, <1>16, FileMoves DEF TypeOK
  <2>2. k.etag = l.etag /\ k.pc = l.pc /\ k.next = l.next /\ k.call = l.call
    BY <1>0, <2>1 DEF Done, Warned, Loop
  <2>3. boot' = boot
    BY <1>16, FileMoves DEF serverVars
  <2> QED  BY <1>5, <2>2, <2>3
<1> QED
  BY <1>0, <1>6, <1>7, <1>8, <1>9, <1>10, <1>11, <1>12, <1>13, <1>14, <1>15, <1>16, AgentMoves

-----------------------------------------------------------------------------
(* Work that is done. *)

\* While nothing went wrong, what is no longer to do was done, and is so still.
DoneAsOrdered(a) ==
  LET l == loop[a] IN
  l.pc = "applying" /\ ~l.warned =>
    \A op \in Ops(l.orders, l.seen) \ l.todo :
      IF op.clear THEN PairOf(op) \in l.cleared
      ELSE PairOf(op) \in l.applied /\ AsWritten(a, op.ref, op.user, op.lines)

WorkIsDone == \A a \in Agent : DoneAsOrdered(a)

SettledUnder(a) ==
  HoldsCurrent(loop[a].etag) =>
    \A t \in DesiredNow(a) :
      /\ t.clear = {}
      /\ \A w \in t.writes :
           /\ Reaches(a, t.ref)
           /\ <<a, t.ref, w.user>> \in tables.managed
           /\ AsWritten(a, t.ref, w.user, w.lines)

TagsAreEarned == \A a \in Agent : SettledUnder(a)

\* What was written stays, unless its own agent writes something else there.
LEMMA WrittenStays ==
  ASSUME TypeOK, TodoIsOrdered, Apart, Next,
         NEW a \in Agent, NEW r \in Ref, NEW u \in UnixUser, NEW lines, Reaches(a, r),
         AsWritten(a, r, u, lines),
         \A op \in loop[a].todo : <<r, u>> = PairOf(op) => op.lines = lines
  PROVE  BlockOf(a, r, u)' = lines \/ <<MachineOf[<<a, r>>], u>> \in lost'
<1>0. MachineOf[<<a, r>>] \in Machine
  BY MachineOfType DEF Reaches
<1>1. CASE UNCHANGED <<home, block, lost>>
  BY <1>1 DEF AsWritten, BlockOf
<1>2. CASE MachineStep
  BY <1>0, <1>2, MachinesLose DEF AsWritten, BlockOf
<1>3. ASSUME NEW b \in Agent, NEW op \in loop[b].todo, Written(b, op)
      PROVE  BlockOf(a, r, u)' = lines \/ <<MachineOf[<<a, r>>], u>> \in lost'
  <2>1. CASE a # b \/ <<r, u>> # PairOf(op)
    <3>1. /\ BlockOf(a, r, u)' = BlockOf(a, r, u)
          /\ <<MachineOf[<<a, r>>], u>> \in lost' <=> <<MachineOf[<<a, r>>], u>> \in lost
      BY <1>3, <2>1, RewriteElsewhere
    <3> QED  BY <3>1 DEF AsWritten
  <2>2. CASE a = b /\ <<r, u>> = PairOf(op)
    <3>1. op.lines = lines /\ r = op.ref /\ u = op.user
      BY <1>3, <2>2 DEF PairOf
    <3> QED  BY <1>3, <2>2, <3>1, RewriteHere
  <2> QED  BY <2>1, <2>2
<1> QED  BY <1>1, <1>2, <1>3, FileSteps

\* So does what an agent's own order wrote: it says one thing of each account.
LEMMA OrderedStays ==
  ASSUME TypeOK, TodoIsOrdered, Apart, Next, NEW a \in Agent, Busy(loop[a]),
         NEW op \in Ops(loop[a].orders, loop[a].seen), AsWritten(a, op.ref, op.user, op.lines)
  PROVE  BlockOf(a, op.ref, op.user)' = op.lines \/ <<MachineOf[<<a, op.ref>>], op.user>> \in lost'
<1>0. loop[a] \in Loop /\ Working(a, loop[a])
  BY DEF TypeOK, TodoIsOrdered
<1>1. op \in Op
  BY <1>0, OpsType DEF Loop
<1>2. op.ref \in Ref /\ op.user \in UnixUser
  BY <1>1 DEF Op
<1>3. Reaches(a, op.ref)
  <2>1. loop[a].seen[op.ref] # Absent
    BY OpsAreSeen
  <2> QED  BY <1>0, <1>2, <2>1 DEF Working
<1>4. ASSUME NEW x \in loop[a].todo, <<op.ref, op.user>> = PairOf(x)
      PROVE  x.lines = op.lines
  <2>1. x \in Ops(loop[a].orders, loop[a].seen) /\ Single(Ops(loop[a].orders, loop[a].seen))
    BY <1>0 DEF Working
  <2>2. x = op
    BY <1>4, <2>1 DEF Single, PairOf
  <2> QED  BY <2>2
<1> HIDE DEF Busy
<1>5. PICK r, u, lines : r = op.ref /\ u = op.user /\ lines = op.lines
  OBVIOUS
<1>6. BlockOf(a, r, u)' = lines \/ <<MachineOf[<<a, r>>], u>> \in lost'
  BY <1>2, <1>3, <1>4, <1>5, WrittenStays
<1> QED  BY <1>5, <1>6 DEF BlockOf

\* A cycle keeps doing what it was ordered, or warns (Apply).
LEMMA StepKeepsDone ==
  ASSUME TypeOK, TodoIsOrdered, Apart, WorkIsDone, Next
  PROVE  WorkIsDone'
<1> SUFFICES ASSUME NEW a \in Agent  PROVE DoneAsOrdered(a)'
  BY DEF WorkIsDone
<1> DEFINE l == loop[a]
           k == loop'[a]
<1>0. l \in Loop /\ Working(a, l) /\ DoneAsOrdered(a)
  BY DEF TypeOK, TodoIsOrdered, WorkIsDone
<1>1. ASSUME NEW x, Stepping(a, x)
      PROVE  k = x
  BY <1>1, SteppingMoves
<1>2. ASSUME k.pc # "applying" \/ k.warned
      PROVE  DoneAsOrdered(a)'
  BY <1>2 DEF DoneAsOrdered
<1>3. ASSUME k.todo = Ops(k.orders, k.seen)
      PROVE  DoneAsOrdered(a)'
  BY <1>3 DEF DoneAsOrdered
\* What was done before this step.
<1>4. ASSUME l.pc = "applying", ~l.warned, NEW op \in Ops(l.orders, l.seen), op \notin l.todo
      PROVE  IF op.clear THEN PairOf(op) \in l.cleared
             ELSE /\ PairOf(op) \in l.applied
                  /\ \/ BlockOf(a, op.ref, op.user)' = op.lines
                     \/ <<MachineOf[<<a, op.ref>>], op.user>> \in lost'
  <2>1. IF op.clear THEN PairOf(op) \in l.cleared
        ELSE PairOf(op) \in l.applied /\ AsWritten(a, op.ref, op.user, op.lines)
    BY <1>0, <1>4 DEF DoneAsOrdered
  <2>2. Busy(l)
    BY <1>4 DEF Busy
  <2> QED  BY <2>1, <2>2, OrderedStays
<1>5. ASSUME k.pc = l.pc, k.orders = l.orders, k.seen = l.seen, k.todo = l.todo,
             k.applied = l.applied, k.cleared = l.cleared, k.warned = l.warned
      PROVE  DoneAsOrdered(a)'
  BY <1>4, <1>5 DEF DoneAsOrdered, AsWritten, BlockOf
<1>6. CASE k = l
  BY <1>5, <1>6
<1>7. CASE FullSyncDue(a)
  <2>1. k = [l EXCEPT !.due = TRUE]
    BY <1>1, <1>7 DEF FullSyncDue
  <2> QED  BY <1>0, <1>5, <2>1 DEF Loop
<1>8. CASE k = Off \/ k = Started \/ \E due : k = Between(l.etag, due)
  <2>1. /\ Off.pc = "off" /\ Started.pc = "waiting"
        /\ \A etag, due : Between(etag, due).pc = "waiting"
    BY DEF Off, Started, Between
  <2> QED  BY <1>2, <1>8, <2>1
<1>9. CASE ReportAnswered(a)
  BY <1>2, <1>9 DEF ReportAnswered, Agenting, Between, TypeOK
<1>10. ASSUME NEW unreadable, Discover(a, unreadable)
       PROVE  DoneAsOrdered(a)'
  BY <1>2, <1>10, DiscoverMoves
<1>11. CASE SyncSnapshot(a) \/ SyncRevision(a)
  BY <1>2, <1>11, SnapshotMoves, RevisionMoves
<1>12. CASE SyncLoad(a)
  BY <1>3, <1>12, LoadMoves
<1>13. CASE Uninstall(a)
  BY <1>2, <1>13, UninstallMoves
<1>14. ASSUME NEW x \in l.todo, CannotApply(a, x) \/ ExecFails(a, x)
       PROVE  DoneAsOrdered(a)'
  <2>1. k = Warned(a, x)
    BY <1>1, <1>14 DEF CannotApply, ExecFails, TypeOK
  <2>2. k.warned
    BY <1>0, <2>1 DEF Warned, Loop
  <2> QED  BY <1>2, <2>2
<1>15. ASSUME NEW x \in l.todo, Rewrite(a, x) \/ NothingLeft(a, x)
       PROVE  DoneAsOrdered(a)'
  <2>1. k = Done(a, x)
    BY <1>1, <1>15 DEF Rewrite, NothingLeft, TypeOK
  <2>2. /\ k.pc = l.pc /\ k.orders = l.orders /\ k.seen = l.seen /\ k.warned = l.warned
        /\ k.todo = l.todo \ {x}
        /\ k.applied = IF x.clear THEN l.applied ELSE l.applied \union {PairOf(x)}
        /\ k.cleared = IF x.clear THEN l.cleared \union {PairOf(x)} ELSE l.cleared
    BY <1>0, <2>1 DEF Done, Loop, PairOf
  <2>3. ASSUME ~x.clear
        PROVE  BlockOf(a, x.ref, x.user)' = x.lines
    BY <1>15, <2>3, RewriteHere DEF NothingLeft, Rewrite
  <2> SUFFICES ASSUME l.pc = "applying", ~l.warned,
                      NEW op \in Ops(l.orders, l.seen), op \notin k.todo
               PROVE  IF op.clear THEN PairOf(op) \in k.cleared
                      ELSE /\ PairOf(op) \in k.applied
                           /\ \/ BlockOf(a, op.ref, op.user)' = op.lines
                              \/ <<MachineOf[<<a, op.ref>>], op.user>> \in lost'
    BY <2>2 DEF DoneAsOrdered, AsWritten, BlockOf
  <2>4. CASE op = x
    BY <2>2, <2>3, <2>4
  <2>5. CASE op # x
    BY <1>4, <2>2, <2>5
  <2> QED  BY <2>4, <2>5
<1> QED
  BY <1>6, <1>7, <1>8, <1>9, <1>10, <1>11, <1>12, <1>13, <1>14, <1>15, AgentMoves

-----------------------------------------------------------------------------
(* What an ETag stands for. *)

\* An agent's ETag changes when it starts over or reports a cycle without a warning.
LEMMA EtagMoves ==
  ASSUME TypeOK, Next, NEW a \in Agent
  PROVE  \/ loop'[a].etag = loop[a].etag
         \/ loop'[a].etag = NoTag
         \/ ReportAnswered(a) /\ ~loop[a].warned /\ loop'[a].etag = loop[a].next
<1> DEFINE l == loop[a]
           k == loop'[a]
<1>0. l \in Loop
  BY DEF TypeOK
<1>1. ASSUME NEW x, Stepping(a, x)
      PROVE  k = x
  BY <1>1, SteppingMoves
<1>2. CASE k = l \/ k = Off \/ k = Started \/ \E due : k = Between(l.etag, due)
  <2>1. Off.etag = NoTag /\ Started.etag = NoTag /\ \A etag, due : Between(etag, due).etag = etag
    BY DEF Off, Started, Between
  <2> QED  BY <1>2, <2>1
<1>3. CASE ReportAnswered(a)
  <2>1. k = Between(IF l.warned THEN l.etag ELSE l.next, l.due /\ ~l.forced)
    BY <1>3 DEF ReportAnswered, Agenting, TypeOK
  <2>2. k.etag = IF l.warned THEN l.etag ELSE l.next
    BY <2>1 DEF Between
  <2> QED  BY <1>3, <2>2
<1>4. CASE FullSyncDue(a)
  BY <1>0, <1>1, <1>4 DEF FullSyncDue, Loop
<1>5. CASE \/ \E unreadable \in SUBSET Ref : Discover(a, unreadable)
           \/ SyncSnapshot(a) \/ SyncRevision(a) \/ SyncLoad(a) \/ Uninstall(a)
  BY <1>5, DiscoverMoves, SnapshotMoves, RevisionMoves, LoadMoves, UninstallMoves
<1>6. ASSUME NEW op \in l.todo,
             Rewrite(a, op) \/ NothingLeft(a, op) \/ CannotApply(a, op) \/ ExecFails(a, op)
      PROVE  k.etag = l.etag
  <2>1. k = Done(a, op) \/ k = Warned(a, op)
    BY <1>6, FileMoves DEF TypeOK
  <2> QED  BY <1>0, <2>1 DEF Done, Warned, Loop
<1> QED  BY <1>2, <1>3, <1>4, <1>5, <1>6, AgentMoves

\* What an order clears is on record (Desired).
LEMMA ClearIsManaged ==
  ASSUME NEW a, NEW hosts, NEW people, NEW t \in Desired(a, hosts, people, tables), NEW u \in t.clear
  PROVE  <<a, t.ref, u>> \in tables.managed
<1>1. ASSUME NEW b \in BindingsOf(a, tables), t = ActiveTarget(b, people, tables)
      PROVE  <<a, t.ref, u>> \in tables.managed
  BY <1>1 DEF ActiveTarget, BindingsOf, ManagedUsers
<1>2. ASSUME NEW r \in Ref, t = ClearTarget(a, r, tables)
      PROVE  <<a, t.ref, u>> \in tables.managed
  BY <1>2 DEF ClearTarget, ManagedUsers
<1>3. \/ \E b \in BindingsOf(a, tables) : t = ActiveTarget(b, people, tables)
      \/ \E r \in Ref : t = ClearTarget(a, r, tables)
  BY DEF Desired
<1> QED  BY <1>1, <1>2, <1>3

\* What the server would ask now is well formed.
LEMMA DesiredNowType ==
  ASSUME TypeOK, NEW a \in Agent, snap # NoSnap
  PROVE  DesiredNow(a) \in SUBSET Target
  BY DesiredType DEF DesiredNow, TypeOK, Snapshot, Content

\* What is current stays as it is ordered, and as it is recorded.
LEMMA CurrentStays ==
  ASSUME IInv, OneBinding, TodoIsOrdered, Apart, TagsFollow, Next,
         NEW a \in Agent, HoldsCurrent(loop[a].etag),
         NEW t \in DesiredNow(a), t.clear = {}, NEW w \in t.writes, Reaches(a, t.ref),
         AsWritten(a, t.ref, w.user, w.lines)
  PROVE  BlockOf(a, t.ref, w.user)' = w.lines \/ <<MachineOf[<<a, t.ref>>], w.user>> \in lost'
<1> DEFINE l == loop[a]
<1>0. /\ TypeOK /\ Ordered(a) /\ Follows(a) /\ CarriesCurrent(a) /\ Working(a, l)
      /\ snap # NoSnap
  BY DEF IInv, TagsAreOrdered, OrdersAreCurrent, TagsFollow, TodoIsOrdered, HoldsCurrent
<1>1. t.ref \in Ref /\ w.user \in UnixUser
  BY <1>0, DesiredNowType DEF Target
<1>2. ASSUME NEW op \in l.todo, <<t.ref, w.user>> = PairOf(op)
      PROVE  op.lines = w.lines
  <2>1. l.pc = "applying"
    <3>1. l.etag # NoTag
      <4>1. CurrentTag \in Tag
        BY <1>0 DEF TypeOK, CurrentTag, Tag, Snapshot
      <4> QED  BY <4>1, TagsExist DEF HoldsCurrent
    <3> QED  BY <1>0, <1>2, <3>1 DEF Working, Busy, Follows
  <2>2. l.orders = DesiredNow(a)
    BY <1>0, <2>1, NextIsCurrent DEF CarriesCurrent
  <2>3. op \in Ops(DesiredNow(a), l.seen)
    BY <1>0, <1>2, <2>2 DEF Working, Busy
  <2>4. PICK o \in DesiredNow(a) : op \in WriteOps(o) \union ClearOps(o) /\ op.ref = o.ref
    BY <2>3, OpsAreSeen
  <2>5. o = t /\ Neat(t)
    BY <1>2, <2>4, DesiredOnce DEF PairOf, DesiredNow
  <2>6. op \in WriteOps(t)
    BY <2>4, <2>5 DEF ClearOps
  <2>7. PICK v \in t.writes :
          op = [clear |-> FALSE, ref |-> t.ref, user |-> v.user, lines |-> v.lines]
    BY <2>6 DEF WriteOps
  <2>8. v.user = w.user
    BY <1>2, <2>7 DEF PairOf
  <2>9. v = w
    BY <2>5, <2>8 DEF Neat
  <2> QED  BY <2>7, <2>9
<1>3. PICK r, u, lines : r = t.ref /\ u = w.user /\ lines = w.lines
  OBVIOUS
<1>4. BlockOf(a, r, u)' = lines \/ <<MachineOf[<<a, r>>], u>> \in lost'
  BY <1>0, <1>1, <1>2, <1>3, WrittenStays
<1> QED  BY <1>3, <1>4 DEF BlockOf

\* A cycle without a warning, reported under an ETag that is current, has
\* carried out what the server asks now (ReportAnswered).
LEMMA ReportEarns ==
  ASSUME IInv, TodoIsOrdered, WorkIsDone, NEW a \in Agent,
         ReportAnswered(a), loop[a].pc = "applying", ~loop[a].warned,
         HoldsCurrent(loop[a].next), tables' = tables,
         NEW t \in DesiredNow(a)
  PROVE  /\ t.clear = {}
         /\ \A w \in t.writes :
              /\ Reaches(a, t.ref)
              /\ <<a, t.ref, w.user>> \in tables.managed
              /\ AsWritten(a, t.ref, w.user, w.lines)
<1> DEFINE l == loop[a]
           ops == Ops(l.orders, l.seen)
<1>0. /\ TypeOK /\ l \in Loop /\ Working(a, l) /\ DoneAsOrdered(a) /\ CarriesCurrent(a)
      /\ snap # NoSnap /\ l.todo = {}
  BY DEF IInv, TypeOK, OrdersAreCurrent, TodoIsOrdered, WorkIsDone, HoldsCurrent,
         ReportAnswered, RecordSSHReport
<1>1. l.orders = DesiredNow(a)
  BY <1>0 DEF CarriesCurrent
<1>2. Ready(t, l.seen) /\ Single(ops)
  BY <1>0, <1>1 DEF Working, Busy
<1>3. \A op \in WriteOps(t) \union ClearOps(t) : op \in ops
  BY <1>1, <1>2 DEF Ops
<1>4. tables.managed = (tables.managed \union {<<a, p[1], p[2]>> : p \in l.applied})
                          \ {<<a, p[1], p[2]>> : p \in l.cleared}
  BY <1>0 DEF ReportAnswered, RecordSSHReport, Reported, TypeOK, Tables
<1>5. t.ref \in Ref /\ Reaches(a, t.ref)
  <2>1. t.ref \in Ref
    BY <1>0, DesiredNowType DEF Target
  <2> QED  BY <1>0, <1>2, <2>1 DEF Working, Ready, Skipped
<1>6. ASSUME NEW u \in t.clear
      PROVE  FALSE
  <2> DEFINE op == [clear |-> TRUE, ref |-> t.ref, user |-> u, lines |-> {}]
  <2>1. op \in ops
    BY <1>3 DEF ClearOps
  <2>2. PairOf(op) \in l.cleared
    BY <1>0, <2>1 DEF DoneAsOrdered
  <2>3. <<t.ref, u>> \in l.cleared
    BY <2>2 DEF PairOf
  <2>4. <<a, t.ref, u>> \in tables.managed
    BY ClearIsManaged DEF DesiredNow
  <2> QED  BY <1>4, <2>3, <2>4
<1>7. ASSUME NEW w \in t.writes
      PROVE  /\ <<a, t.ref, w.user>> \in tables.managed
             /\ AsWritten(a, t.ref, w.user, w.lines)
  <2> DEFINE op == [clear |-> FALSE, ref |-> t.ref, user |-> w.user, lines |-> w.lines]
  <2>1. op \in ops /\ ~op.clear /\ op.ref = t.ref /\ op.user = w.user /\ op.lines = w.lines
    BY <1>3 DEF WriteOps
  <2>2. PairOf(op) \in l.applied /\ AsWritten(a, op.ref, op.user, op.lines)
    BY <1>0, <2>1 DEF DoneAsOrdered
  <2>3. AsWritten(a, t.ref, w.user, w.lines)
    BY <2>2
  <2>4. <<t.ref, w.user>> \in l.applied
    BY <2>2 DEF PairOf
  <2>5. ASSUME NEW p \in l.cleared, <<a, p[1], p[2]>> = <<a, t.ref, w.user>>
        PROVE  FALSE
    <3>1. PICK x \in ops : x.clear /\ p = PairOf(x)
      BY <1>0 DEF Working, Busy
    <3>2. PairOf(x) = PairOf(op)
      BY <2>5, <3>1 DEF PairOf
    <3>3. x = op
      BY <1>2, <2>1, <3>2 DEF Single
    <3> QED  BY <2>1, <3>1, <3>3
  <2>6. <<a, t.ref, w.user>> \in {<<a, p[1], p[2]>> : p \in l.applied}
    BY <2>4
  <2>7. <<a, t.ref, w.user>> \notin {<<a, p[1], p[2]>> : p \in l.cleared}
    BY <2>5
  <2> HIDE DEF op
  <2> QED  BY <1>4, <2>3, <2>6, <2>7
<1> QED  BY <1>5, <1>6, <1>7

\* No step lets an agent hold a current ETag it has not earned.
LEMMA StepEarnsTags ==
  ASSUME IInv, OneBinding, TodoIsOrdered, Apart, TagsFollow, WorkIsDone, TagsAreEarned, Next
  PROVE  TagsAreEarned'
<1> SUFFICES ASSUME NEW a \in Agent, HoldsCurrent(loop[a].etag)', NEW t \in DesiredNow(a)'
             PROVE  /\ t.clear = {}
                    /\ \A w \in t.writes :
                         /\ Reaches(a, t.ref)
                         /\ <<a, t.ref, w.user>> \in tables'.managed
                         /\ \/ BlockOf(a, t.ref, w.user)' = w.lines
                            \/ <<MachineOf[<<a, t.ref>>], w.user>> \in lost'
  BY DEF TagsAreEarned, SettledUnder, HoldsCurrent, AsWritten, Reaches
<1> DEFINE l == loop[a]
<1>0. /\ TypeOK /\ l \in Loop /\ Ordered(a) /\ Follows(a)
  BY DEF IInv, TypeOK, TagsAreOrdered, TagsFollow
<1>1. PICK e : e = loop'[a].etag
  OBVIOUS
<1>2. HoldsCurrent(e)'
  BY <1>1 DEF HoldsCurrent
<1>3. CASE e = l.etag
  <2>1. e \in Tag \union {NoTag} /\ Past(e)
    BY <1>0, <1>3 DEF Loop, Follows
  <2>2. HoldsCurrent(e) /\ tables' = tables /\ DesiredNow(a)' = DesiredNow(a)
    BY <1>2, <2>1, CurrentWasCurrent
  <2>3. HoldsCurrent(l.etag)
    BY <1>3, <2>2
  <2>4. /\ t.clear = {}
        /\ \A w \in t.writes :
             /\ Reaches(a, t.ref)
             /\ <<a, t.ref, w.user>> \in tables.managed
             /\ AsWritten(a, t.ref, w.user, w.lines)
    BY <2>2, <2>3 DEF TagsAreEarned, SettledUnder
  <2> QED  BY <2>2, <2>3, <2>4, CurrentStays
<1>4. CASE e = NoTag
  <2>1. rev' \in Nat /\ boot' \in Nat /\ snap' \in Snapshot \union {NoSnap}
    BY <1>0, NextType DEF TypeOK
  <2>2. snap' # NoSnap /\ e = [rev |-> rev', snap |-> snap'.rev, boot |-> boot']
    BY <1>2 DEF HoldsCurrent, CurrentTag
  <2>3. e \in Tag
    BY <2>1, <2>2 DEF Tag, Snapshot
  <2> QED  BY <1>4, <2>3, TagsExist
<1>5. CASE ReportAnswered(a) /\ ~l.warned /\ e = l.next
  <2>1. l.pc = "unchanged" \/ l.pc = "applying"
    BY <1>5 DEF ReportAnswered, RecordSSHReport
  <2>2. CASE l.pc = "unchanged"
    BY <1>0, <1>3, <1>5, <2>2 DEF Follows
  <2>3. CASE l.pc = "applying"
    <3>1. e \in Tag \union {NoTag} /\ Past(e)
      BY <1>0, <1>5, <2>3 DEF Loop, Ordered, Past
    <3>2. HoldsCurrent(e) /\ tables' = tables /\ DesiredNow(a)' = DesiredNow(a)
      BY <1>2, <3>1, CurrentWasCurrent
    <3>3. HoldsCurrent(l.next)
      BY <1>5, <3>2
    <3>4. t \in DesiredNow(a)
      BY <3>2
    <3>5. UNCHANGED <<block, lost>>
      BY <1>5 DEF ReportAnswered, Agenting, machineVars
    <3>6. /\ t.clear = {}
          /\ \A w \in t.writes :
               /\ Reaches(a, t.ref)
               /\ <<a, t.ref, w.user>> \in tables.managed
               /\ AsWritten(a, t.ref, w.user, w.lines)
      BY <1>5, <2>3, <3>2, <3>3, <3>4, ReportEarns
    <3> QED  BY <3>2, <3>5, <3>6 DEF AsWritten, BlockOf
  <2> QED  BY <2>1, <2>2, <2>3
<1> QED  BY <1>0, <1>1, <1>3, <1>4, <1>5, EtagMoves

HInv == SInv /\ TagsFollow /\ WorkIsDone /\ TagsAreEarned

\* The invariant of ETags, where nobody shares a machine.
LEMMA EarnedInvariance == Apart => (Spec => []HInv)
<1> SUFFICES ASSUME Apart  PROVE Spec => []HInv
  OBVIOUS
<1>1. Init => TagsFollow /\ WorkIsDone /\ TagsAreEarned
  <2> SUFFICES ASSUME Init, NEW a \in Agent
               PROVE  Follows(a) /\ DoneAsOrdered(a) /\ SettledUnder(a)
    BY DEF TagsFollow, WorkIsDone, TagsAreEarned
  <2>1. Off.etag = NoTag /\ Off.pc = "off"
    BY DEF Off, Started, Between
  <2>2. loop[a].etag = NoTag /\ loop[a].pc = "off" /\ snap = NoSnap
    BY <2>1 DEF Init
  <2> QED  BY <2>2 DEF Follows, Past, DoneAsOrdered, SettledUnder, HoldsCurrent
<1>2. SInv /\ TagsFollow /\ WorkIsDone /\ TagsAreEarned /\ [Next]_vars
        => (TagsFollow /\ WorkIsDone /\ TagsAreEarned)'
  <2> SUFFICES ASSUME SInv, TagsFollow, WorkIsDone, TagsAreEarned, [Next]_vars
               PROVE  TagsFollow' /\ WorkIsDone' /\ TagsAreEarned'
    OBVIOUS
  <2>1. CASE Next
    BY <2>1, StepFollows, StepKeepsDone, StepEarnsTags DEF SInv, IInv
  <2>2. CASE UNCHANGED vars
    <3>1. UNCHANGED <<tables, rev, boot, snap, loop, block, lost>>
      BY <2>2 DEF vars, dbVars, serverVars, machineVars
    <3>2. TagsFollow'
      BY <3>1 DEF TagsFollow, Follows, Past, NoLater
    <3>3. WorkIsDone'
      BY <3>1 DEF WorkIsDone, DoneAsOrdered, AsWritten, BlockOf
    <3>4. TagsAreEarned'
      BY <3>1 DEF TagsAreEarned, SettledUnder, HoldsCurrent, CurrentTag, DesiredNow, AsWritten,
                  BlockOf, Reaches
    <3> QED  BY <3>2, <3>3, <3>4
  <2> QED  BY <2>1, <2>2
<1> QED  BY <1>1, <1>2, SafeInvariance, PTL DEF Spec, HInv

(* A 304 never hides undone work (Loop.Once, etag): where every machine is  *)
(* reached by one agent under one name, an agent that holds the ETag that   *)
(* is current now has cleared and written all that the server would ask of  *)
(* it now, and Headboard has it on record, except where a machine lost its  *)
(* keys since.                                                              *)
THEOREM HeldTagsSettled == Apart => (Spec => []HeldTagIsSettled)
<1>1. HInv => HeldTagIsSettled
  BY DEF HInv, TagsAreEarned, SettledUnder, HeldTagIsSettled
<1> QED  BY <1>1, EarnedInvariance, PTL

-----------------------------------------------------------------------------
(* Outages.  What polls see of a world w when the policy's hosts, the users *)
(* or both are gone, or the policy is unreadable; and what happens to a     *)
(* Headboard that no admin works on.                                        *)

Nowhere == [h \in Host |-> NoIp]

Glimpses(w) ==
  {c \in Content : c.hosts \in {w.hosts, Nowhere} /\ c.people \in {w.people, {}}}

OutageStep(w) ==
  \/ PollFails \/ Restart
  \/ \E c \in Glimpses(w), other \in BOOLEAN : Poll(c, other)
  \/ \E a \in Agent : CycleStep(a) \/ AgentFault(a) \/ Start(a) \/ FullSyncDue(a)

\* World w grants these lines on what agent a calls r, suspended or not.
Granted(tb, w, a, r, u, lines) ==
  \E b \in tb.targets :
    /\ b.agent = a /\ b.ref = r /\ w.hosts[b.host] = b.ip
    /\ u \in RowUsers(b.host, w.people, tb)
    /\ lines = RowLines(b.host, u, w.people, tb)

\* An operation that brings an account what w grants, or clears where it grants nothing.
Loyal(tb, w, a, op) ==
  /\ ~op.clear => Granted(tb, w, a, op.ref, op.user, op.lines)
  /\ op.clear => \A lines : ~Granted(tb, w, a, op.ref, op.user, lines)

\* An agent that does nothing but that, and asks for nothing but that.
Serves(tb, w, a, l) ==
  /\ l.pc # "retiring"
  /\ l.call # NoSnap => l.call.content \in Glimpses(w)
  /\ \A op \in l.todo : Loyal(tb, w, a, op)

\* Every file holds what w grants, or nothing yet.
Filled(w) ==
  \A a \in Agent, r \in Ref, u \in UnixUser :
    Reaches(a, r) /\ BlockOf(a, r, u) # {} => Granted(tables, w, a, r, u, BlockOf(a, r, u))

\* The state before an outage of world w, and throughout it.
Calm(w) ==
  /\ SInv
  /\ snap # NoSnap => snap.content \in Glimpses(w)
  /\ \A a \in Agent : Serves(tables, w, a, loop[a])
  /\ Filled(w)

\* What is granted does not depend on what was suspended or recorded.
SameGrants(tb, td) ==
  /\ tb.keys = td.keys /\ tb.assigns = td.assigns
  /\ \A b \in tb.targets : \E c \in td.targets :
       b.agent = c.agent /\ b.ref = c.ref /\ b.host = c.host /\ b.ip = c.ip
  /\ \A c \in td.targets : \E b \in tb.targets :
       b.agent = c.agent /\ b.ref = c.ref /\ b.host = c.host /\ b.ip = c.ip

\* Tables that agree on bindings, keys and assignments grant the same.
LEMMA GrantsStay ==
  ASSUME NEW tb, NEW td, SameGrants(tb, td), NEW w, NEW a, NEW r, NEW u, NEW lines
  PROVE  Granted(tb, w, a, r, u, lines) <=> Granted(td, w, a, r, u, lines)
<1>1. ASSUME NEW h  PROVE /\ RowUsers(h, w.people, tb) = RowUsers(h, w.people, td)
                          /\ RowLines(h, u, w.people, tb) = RowLines(h, u, w.people, td)
  BY DEF SameGrants, RowUsers, RowLines
<1> QED  BY <1>1 DEF SameGrants, Granted

\* A report records and suspends, and grants what was granted (RecordSSHReport).
LEMMA ReportGrants ==
  ASSUME TypeOK, NEW a \in Agent, RecordSSHReport(a)
  PROVE  SameGrants(tables, tables')
<1> DEFINE Mark(b) == IF b.agent = a /\ b.ref \in loop[a].mismatched
                      THEN [b EXCEPT !.suspended = TRUE] ELSE b
<1>1. /\ tables'.targets = {Mark(b) : b \in tables.targets}
      /\ tables'.keys = tables.keys /\ tables'.assigns = tables.assigns
  BY DEF RecordSSHReport, Reported, TypeOK, Tables
<1>2. ASSUME NEW b \in tables.targets
      PROVE  b.agent = Mark(b).agent /\ b.ref = Mark(b).ref /\ b.host = Mark(b).host /\ b.ip = Mark(b).ip
  BY DEF TypeOK, Tables, Binding
<1> HIDE DEF Mark
<1> QED  BY <1>1, <1>2 DEF SameGrants

\* Nothing else in an outage changes the tables.
LEMMA OutageGrants ==
  ASSUME TypeOK, NEW w, OutageStep(w), \A a \in Agent : loop[a].pc # "retiring"
  PROVE  SameGrants(tables, tables')
<1>1. CASE UNCHANGED tables
  BY <1>1 DEF SameGrants
<1>2. CASE PollFails \/ Restart \/ \E c \in Glimpses(w), other \in BOOLEAN : Poll(c, other)
  BY <1>1, <1>2 DEF PollFails, Restart, Poll, dbVars
<1>3. ASSUME NEW a \in Agent, CycleStep(a) \/ AgentFault(a) \/ Start(a) \/ FullSyncDue(a)
      PROVE  UNCHANGED tables \/ RecordSSHReport(a)
  BY <1>3 DEF CycleStep, AgentFault, Start, FullSyncDue, Discover, SyncSnapshot, SyncRevision, SyncLoad,
              SyncRefused, Unauthorized, Rewrite, NothingLeft, CannotApply, ExecFails, Warned,
              ConnectionLost, Stop, GoesStale, GiveUp, Stepping, dbVars, RetireFails,
              RetireUnauthorized, ReportAnswered, ReportUnanswered, RetireAnswered, RetireUnanswered,
              RetireSSHAgent
<1> QED  BY <1>1, <1>2, <1>3, ReportGrants DEF OutageStep

\* What an outage shows is refused, or read as nothing bound or nobody
\* assigned where that is so: it clears nothing that w grants (Implausible).
LEMMA OrdersAreLoyal ==
  ASSUME TypeOK, OneBinding, NEW w \in Content, NEW c \in Glimpses(w),
         ~Implausible(c.hosts, c.people, tables), NEW a \in Agent, NEW seen,
         NEW op \in Ops(Desired(a, c.hosts, c.people, tables), seen)
  PROVE  Loyal(tables, w, a, op)
<1> DEFINE tb == tables
<1>1. PICK t \in Desired(a, c.hosts, c.people, tb) : op \in WriteOps(t) \union ClearOps(t)
  BY DEF Ops
<1>2. /\ c.hosts = w.hosts \/ (tb.targets = {} /\ c.hosts = Nowhere)
      /\ c.people = w.people \/ (tb.assigns = {} /\ c.people = {})
  BY DEF Glimpses, Implausible, Nowhere
<1>3. ASSUME NEW h  PROVE RowUsers(h, c.people, tb) = RowUsers(h, w.people, tb)
  BY <1>2 DEF RowUsers
<1>4. ASSUME NEW h, NEW u, u \in RowUsers(h, c.people, tb)
      PROVE  RowLines(h, u, c.people, tb) = RowLines(h, u, w.people, tb)
  BY <1>2, <1>4 DEF RowUsers, RowLines
<1>5. \A b \in tb.targets : c.hosts[b.host] = w.hosts[b.host]
  BY <1>2
<1>6. \A b \in tb.targets : b.host \in Host /\ b.ip \in Ip /\ b.ref \in Ref /\ b.agent \in Agent /\ b.ip # NoIp
  BY MissingValues DEF TypeOK, Tables, Binding
<1>7. CASE \E b \in BindingsOf(a, tb) : StateOf(b, c.hosts) = "active" /\ t = ActiveTarget(b, c.people, tb)
  <2>1. PICK b \in tb.targets : /\ b.agent = a /\ StateOf(b, c.hosts) = "active"
                                /\ t = ActiveTarget(b, c.people, tb)
    BY <1>7 DEF BindingsOf
  <2>2. w.hosts[b.host] = b.ip
    BY <1>5, <2>1 DEF StateOf
  <2>3. CASE op \in WriteOps(t)
    <3>1. PICK x \in t.writes : op = [clear |-> FALSE, ref |-> t.ref, user |-> x.user, lines |-> x.lines]
      BY <2>3 DEF WriteOps
    <3>2. PICK u \in RowUsers(b.host, c.people, tb) :
            x = [user |-> u, lines |-> RowLines(b.host, u, c.people, tb)]
      BY <2>1, <3>1 DEF ActiveTarget
    <3>3. ~op.clear /\ op.ref = b.ref /\ op.user = u /\ op.lines = RowLines(b.host, u, c.people, tb)
      BY <2>1, <3>1, <3>2 DEF ActiveTarget
    <3>4. u \in RowUsers(b.host, w.people, tb) /\ op.lines = RowLines(b.host, u, w.people, tb)
      BY <1>3, <1>4, <3>2, <3>3
    <3> QED  BY <2>1, <2>2, <3>3, <3>4 DEF Loyal, Granted
  <2>4. CASE op \in ClearOps(t)
    <3>1. op.clear /\ op.ref = b.ref /\ op.user \notin RowUsers(b.host, c.people, tb)
      BY <2>1, <2>4 DEF ClearOps, ActiveTarget
    <3>2. ASSUME NEW d \in tb.targets, d.agent = a, d.ref = op.ref  PROVE d = b
      BY <2>1, <3>1, <3>2 DEF OneBinding
    <3> QED  BY <1>3, <3>1, <3>2 DEF Loyal, Granted
  <2> QED  BY <1>1, <2>3, <2>4
<1>8. CASE \E r \in Ref : /\ t = ClearTarget(a, r, tb)
                          /\ \A b \in BindingsOf(a, tb) : StateOf(b, c.hosts) = "active" => b.ref # r
                          /\ r \notin Frozen(a, c.hosts, tb)
  <2>1. PICK r \in Ref : /\ t = ClearTarget(a, r, tb)
                         /\ \A b \in BindingsOf(a, tb) : StateOf(b, c.hosts) = "active" => b.ref # r
                         /\ r \notin Frozen(a, c.hosts, tb)
    BY <1>8
  <2>2. op.clear /\ op.ref = r
    BY <1>1, <2>1 DEF WriteOps, ClearOps, ClearTarget
  <2>3. ASSUME NEW b \in tb.targets, b.agent = a, b.ref = r, w.hosts[b.host] = b.ip  PROVE FALSE
    <3>1. c.hosts[b.host] = b.ip /\ b.ip # NoIp
      BY <1>5, <1>6, <2>3
    <3>2. b \in BindingsOf(a, tb) /\ StateOf(b, c.hosts) \in {"active", "suspended"}
      BY <2>3, <3>1 DEF BindingsOf, StateOf
    <3>3. StateOf(b, c.hosts) # "active"
      BY <2>1, <2>3, <3>2
    <3>4. r \in Frozen(a, c.hosts, tb)
      BY <2>3, <3>2, <3>3 DEF Frozen
    <3> QED  BY <2>1, <3>4
  <2> QED  BY <2>2, <2>3 DEF Loyal, Granted
<1>9. \/ \E b \in BindingsOf(a, tb) : StateOf(b, c.hosts) = "active" /\ t = ActiveTarget(b, c.people, tb)
      \/ \E r \in Ref : /\ t = ClearTarget(a, r, tb)
                        /\ \A b \in BindingsOf(a, tb) : StateOf(b, c.hosts) = "active" => b.ref # r
                        /\ r \notin Frozen(a, c.hosts, tb)
  BY <1>1 DEF Desired
<1> QED  BY <1>7, <1>8, <1>9

-----------------------------------------------------------------------------
\* An agent that is loyal stays so while the tables grant the same.
LEMMA ServesOn ==
  ASSUME NEW tb, NEW td, SameGrants(tb, td), NEW w, NEW a, NEW l, Serves(tb, w, a, l)
  PROVE  Serves(td, w, a, l)
BY GrantsStay DEF Serves, Loyal

\* Nothing is left to do between two cycles.
LEMMA RestServes ==
  ASSUME NEW tb, NEW w, NEW a
  PROVE  Serves(tb, w, a, Off) /\ Serves(tb, w, a, Started) /\ \A etag, due : Serves(tb, w, a, Between(etag, due))
<1>1. \A etag, due : Serves(tb, w, a, Between(etag, due))
  BY DEF Serves, Between
<1>2. Off.pc = "off" /\ Off.call = NoSnap /\ Off.todo = {}
  BY DEF Off, Started, Between
<1> QED  BY <1>1, <1>2 DEF Serves, Started

\* What a step of the agent leaves to do, and what it asks with.
LEMMA AgentServes ==
  ASSUME NEW CONSTANT w \in Content, Calm(w), NEW a \in Agent, NEW b \in Agent,
         CycleStep(b) \/ AgentFault(b) \/ Start(b) \/ FullSyncDue(b)
  PROVE  Serves(tables, w, a, loop'[a])
<1>0. /\ TypeOK /\ OneBinding /\ loop[a] \in Loop /\ Serves(tables, w, a, loop[a])
      /\ snap # NoSnap => snap.content \in Glimpses(w)
  BY DEF Calm, SInv, IInv, TypeOK
<1>1. ASSUME loop'[a].pc # "retiring", loop'[a].call = loop[a].call \/ loop'[a].call = NoSnap,
             loop'[a].todo \subseteq loop[a].todo
      PROVE  Serves(tables, w, a, loop'[a])
  BY <1>0, <1>1 DEF Serves
<1>2. CASE loop'[a] = loop[a]
  BY <1>0, <1>2
<1>3. CASE FullSyncDue(a)
  <2>1. loop'[a] = [loop[a] EXCEPT !.due = TRUE]
    BY <1>0, <1>3, SteppingMoves DEF FullSyncDue
  <2>2. loop'[a].pc = loop[a].pc /\ loop'[a].call = loop[a].call /\ loop'[a].todo = loop[a].todo
    BY <1>0, <2>1 DEF Loop
  <2> QED  BY <1>0, <1>1, <2>2 DEF Serves
<1>4. CASE loop'[a] = Off \/ loop'[a] = Started \/ \E due : loop'[a] = Between(loop[a].etag, due)
  BY <1>4, RestServes
<1>5. CASE ReportAnswered(a)
  <2>1. \E etag, due : Agenting(a, Between(etag, due))
    BY <1>5 DEF ReportAnswered
  <2>2. \E etag, due : loop'[a] = Between(etag, due)
    BY <1>0, <2>1 DEF Agenting, TypeOK
  <2> QED  BY <2>2, RestServes
<1>6. ASSUME NEW unreadable, Discover(a, unreadable)
      PROVE  Serves(tables, w, a, loop'[a])
  <2> DEFINE found == Discovery(a, unreadable)
  <2>1. loop'[a] = [loop[a] EXCEPT !.pc = "discovered", !.forced = loop[a].due, !.seen = found]
    BY <1>0, <1>6, SteppingMoves DEF Discover
  <2> HIDE DEF found
  <2>2. loop'[a].pc = "discovered" /\ loop'[a].call = loop[a].call /\ loop'[a].todo = loop[a].todo
    BY <1>0, <2>1 DEF Loop
  <2> QED  BY <1>1, <2>2
<1>7. CASE SyncSnapshot(a)
  <2>1. loop'[a] = [loop[a] EXCEPT !.pc = "asking", !.call = snap] /\ snap # NoSnap
    BY <1>0, <1>7, SteppingMoves DEF SyncSnapshot
  <2>2. loop'[a].pc = "asking" /\ loop'[a].call = snap /\ loop'[a].todo = loop[a].todo
    BY <1>0, <2>1 DEF Loop
  <2> QED  BY <1>0, <2>1, <2>2 DEF Serves
<1>8. CASE SyncRevision(a)
  <2> DEFINE tag == [rev |-> rev, snap |-> loop[a].call.rev, boot |-> boot]
             same == Asked(loop[a]) = tag
  <2>1. loop'[a] = [loop[a] EXCEPT !.pc = IF same THEN "unchanged" ELSE "tagged",
                                   !.call = IF same THEN NoSnap ELSE @, !.next = tag]
    BY <1>0, <1>8, SteppingMoves DEF SyncRevision
  <2> HIDE DEF same, tag
  <2>2. /\ loop'[a].pc # "retiring" /\ loop'[a].todo = loop[a].todo
        /\ loop'[a].call = loop[a].call \/ loop'[a].call = NoSnap
    BY <1>0, <2>1 DEF Loop
  <2> QED  BY <1>1, <2>2
<1>9. CASE SyncLoad(a)
  <2> DEFINE c == loop[a].call.content
             orders == Desired(a, c.hosts, c.people, tables)
             todo == Ops(orders, loop[a].seen)
             mis == {t.ref : t \in {o \in orders : Mismatched(o, loop[a].seen)}}
             warned == \E t \in orders : ~Ready(t, loop[a].seen)
  <2>1. /\ loop[a].pc = "tagged" /\ ~Implausible(c.hosts, c.people, tables)
        /\ Stepping(a, [loop[a] EXCEPT !.pc = "applying", !.call = NoSnap, !.orders = orders,
                                       !.todo = todo, !.mismatched = mis, !.warned = warned])
    BY <1>9 DEF SyncLoad
  <2>2. c \in Glimpses(w)
    <3>1. loop[a].call # NoSnap
      BY <1>0, <2>1 DEF Calm, SInv, IInv, TagsAreOrdered, Ordered, InHandler
    <3> QED  BY <1>0, <3>1 DEF Serves
  <2>3. \A op \in todo : Loyal(tables, w, a, op)
    BY <1>0, <2>1, <2>2, OrdersAreLoyal
  <2> HIDE DEF c, orders, todo, mis, warned
  <2>4. loop'[a].pc = "applying" /\ loop'[a].call = NoSnap /\ loop'[a].todo = todo
    <3>1. loop'[a] = [loop[a] EXCEPT !.pc = "applying", !.call = NoSnap, !.orders = orders,
                                     !.todo = todo, !.mismatched = mis, !.warned = warned]
      BY <1>0, <2>1, SteppingMoves
    <3> QED  BY <1>0, <3>1 DEF Loop
  <2> QED  BY <2>3, <2>4 DEF Serves
<1>10. ASSUME NEW op \in loop[a].todo,
              Rewrite(a, op) \/ NothingLeft(a, op) \/ CannotApply(a, op) \/ ExecFails(a, op)
       PROVE  Serves(tables, w, a, loop'[a])
  <2>1. loop'[a] = Done(a, op) \/ loop'[a] = Warned(a, op)
    BY <1>0, <1>10, FileMoves DEF TypeOK
  <2>2. loop'[a].pc = loop[a].pc /\ loop'[a].call = loop[a].call /\ loop'[a].todo \subseteq loop[a].todo
    <3>1. CASE loop'[a] = Done(a, op)
      <4> DEFINE p == <<op.ref, op.user>>
                 applied == IF op.clear THEN loop[a].applied ELSE loop[a].applied \union {p}
                 cleared == IF op.clear THEN loop[a].cleared \union {p} ELSE loop[a].cleared
      <4>1. loop'[a] = [loop[a] EXCEPT !.todo = @ \ {op}, !.applied = applied, !.cleared = cleared]
        BY <1>0, <3>1 DEF Done, Loop
      <4> HIDE DEF applied, cleared
      <4> QED  BY <1>0, <4>1 DEF Loop
    <3>2. CASE loop'[a] = Warned(a, op)
      BY <1>0, <3>2 DEF Warned, Loop
    <3> QED  BY <2>1, <3>1, <3>2
  <2> QED  BY <1>0, <1>1, <2>2 DEF Serves
<1> QED  BY <1>0, <1>2, <1>3, <1>4, <1>5, <1>6, <1>7, <1>8, <1>9, <1>10, OwnMoves

\* So does a restart or a poll.
LEMMA OutageServes ==
  ASSUME NEW CONSTANT w \in Content, Calm(w), OutageStep(w)
  PROVE  /\ \A a \in Agent : Serves(tables, w, a, loop'[a])
         /\ snap' # NoSnap => snap'.content \in Glimpses(w)
<1>1. ASSUME NEW b \in Agent, CycleStep(b) \/ AgentFault(b) \/ Start(b) \/ FullSyncDue(b)
      PROVE  /\ \A a \in Agent : Serves(tables, w, a, loop'[a])
             /\ UNCHANGED snap
  <2>1. UNCHANGED snap
    BY <1>1 DEF CycleStep, AgentFault, Start, FullSyncDue, Discover, SyncSnapshot, SyncRevision, SyncLoad,
              SyncRefused, Unauthorized, Rewrite, NothingLeft, CannotApply, ExecFails, Warned,
              ConnectionLost, Stop, GoesStale, GiveUp, Stepping, Agenting, serverVars, RetireFails,
              RetireUnauthorized, ReportAnswered, ReportUnanswered, RetireAnswered, RetireUnanswered
  <2> QED  BY <1>1, <2>1, AgentServes
<1>2. ASSUME PollFails \/ \E c \in Glimpses(w), other \in BOOLEAN : Poll(c, other)
      PROVE  /\ \A a \in Agent : Serves(tables, w, a, loop'[a])
             /\ snap' # NoSnap => snap'.content \in Glimpses(w)
  <2>1. UNCHANGED loop
    BY <1>2 DEF PollFails, Poll
  <2>2. PollFails => UNCHANGED snap
    BY DEF PollFails
  <2>3. ASSUME NEW c \in Glimpses(w), NEW other, Poll(c, other)
        PROVE  snap' = snap \/ snap'.content = c
    BY <2>3 DEF Poll
  <2> QED  BY <1>2, <2>1, <2>2, <2>3 DEF Calm
<1>3. ASSUME Restart
      PROVE  (\A a \in Agent : Serves(tables, w, a, loop'[a])) /\ snap' = NoSnap
  BY <1>3, RestServes DEF Restart, Calm
<1> QED  BY <1>1, <1>2, <1>3 DEF OutageStep, Calm

-----------------------------------------------------------------------------
\* Files change when one is written only.
LEMMA OutageFiles ==
  ASSUME NEW w, OutageStep(w)
  PROVE  UNCHANGED block \/ \E a \in Agent : \E op \in loop[a].todo : Written(a, op)
<1>1. CASE PollFails \/ Restart \/ \E c \in Glimpses(w), other \in BOOLEAN : Poll(c, other)
  BY <1>1 DEF PollFails, Restart, Poll, machineVars
<1>2. ASSUME NEW a \in Agent, CycleStep(a) \/ AgentFault(a) \/ Start(a) \/ FullSyncDue(a),
             \A op \in loop[a].todo : ~Written(a, op)
      PROVE  UNCHANGED block
  BY <1>2 DEF CycleStep, AgentFault, Start, FullSyncDue, Discover, SyncSnapshot, SyncRevision, SyncLoad,
              SyncRefused, Unauthorized, Rewrite, NothingLeft, CannotApply, ExecFails, ConnectionLost,
              Stop, GoesStale, GiveUp, Stepping, Agenting, RetireFails, RetireUnauthorized,
              ReportAnswered, ReportUnanswered, RetireAnswered, RetireUnanswered, machineVars
<1> QED  BY <1>1, <1>2 DEF OutageStep

\* An account is granted one set of lines.
LEMMA GrantedOnce ==
  ASSUME OneBinding, NEW w, NEW a, NEW r, NEW u, NEW x, NEW y,
         Granted(tables, w, a, r, u, x), Granted(tables, w, a, r, u, y)
  PROVE  x = y
BY DEF Granted, OneBinding

\* A loyal rewrite fills an empty block, or writes what is there.
LEMMA LoyalRewrite ==
  ASSUME Apart, NEW CONSTANT w, Calm(w), NEW b \in Agent, NEW op \in loop[b].todo, Written(b, op),
         NEW a \in Agent, NEW r \in Ref, NEW u \in UnixUser, Reaches(a, r)
  PROVE  /\ BlockOf(a, r, u) # {} => BlockOf(a, r, u)' = BlockOf(a, r, u)
         /\ BlockOf(a, r, u)' # {} => Granted(tables, w, a, r, u, BlockOf(a, r, u)')
<1>0. TypeOK /\ TodoIsOrdered /\ OneBinding /\ Loyal(tables, w, b, op)
  BY DEF Calm, SInv, IInv, Serves
<1>1. BlockOf(a, r, u) # {} => Granted(tables, w, a, r, u, BlockOf(a, r, u))
  BY DEF Calm, Filled
<1>2. CASE a = b /\ <<r, u>> = PairOf(op)
  <2>1. r = op.ref /\ u = op.user /\ BlockOf(a, r, u)' = op.lines
    BY <1>0, <1>2, RewriteHere DEF PairOf
  <2>2. CASE op.clear
    <3>1. op.lines = {}
      BY <1>0, <2>2, TodoIsReached, ClearsAreEmpty
    <3>2. BlockOf(a, r, u) = {}
      BY <1>0, <1>1, <1>2, <2>1, <2>2 DEF Loyal
    <3> QED  BY <2>1, <3>1, <3>2
  <2>3. CASE ~op.clear
    <3>1. Granted(tables, w, a, r, u, op.lines)
      BY <1>0, <1>2, <2>1, <2>3 DEF Loyal
    <3> QED  BY <1>0, <1>1, <2>1, <3>1, GrantedOnce
  <2> QED  BY <2>2, <2>3
<1>3. CASE a # b \/ <<r, u>> # PairOf(op)
  <2>1. BlockOf(a, r, u)' = BlockOf(a, r, u)
    BY <1>0, <1>3, RewriteElsewhere
  <2> QED  BY <1>1, <2>1
<1> QED  BY <1>2, <1>3

\* It is a step the system can take.
LEMMA OutageIsNext ==
  ASSUME NEW w, OutageStep(w)
  PROVE  Next
BY DEF OutageStep, Next, Glimpses

\* Nobody's keys are lost, and the state stays calm.
LEMMA OutageKeeps ==
  ASSUME Apart, NEW CONSTANT w \in Content, Calm(w), OutageStep(w)
  PROVE  /\ Calm(w)'
         /\ \A m \in Machine, u \in UnixUser : block[m][u] # {} => block'[m][u] = block[m][u]
<1>0. SInv /\ TypeOK /\ TodoIsOrdered /\ \A a \in Agent : loop[a].pc # "retiring"
  BY DEF Calm, SInv, IInv, Serves
<1>1. SInv'
  BY <1>0, OutageIsNext, NextType, NextKeeps, StepBindsOnce, StepWorks DEF SInv, IInv
<1>2. SameGrants(tables, tables')
  BY <1>0, OutageGrants
<1>3. \A a \in Agent : Serves(tables', w, a, loop'[a])
  BY <1>2, OutageServes, ServesOn
<1>4. ASSUME NEW a \in Agent, NEW r \in Ref, NEW u \in UnixUser, Reaches(a, r)
      PROVE  /\ BlockOf(a, r, u) # {} => BlockOf(a, r, u)' = BlockOf(a, r, u)
             /\ BlockOf(a, r, u)' # {} => Granted(tables, w, a, r, u, BlockOf(a, r, u)')
  <2>1. CASE UNCHANGED block
    BY <1>4, <2>1 DEF Calm, Filled, BlockOf
  <2>2. CASE \E b \in Agent : \E op \in loop[b].todo : Written(b, op)
    BY <1>4, <2>2, LoyalRewrite
  <2> QED  BY <2>1, <2>2, OutageFiles
<1>5. Filled(w)'
  <2> SUFFICES ASSUME NEW a \in Agent, NEW r \in Ref, NEW u \in UnixUser,
                      Reaches(a, r), BlockOf(a, r, u)' # {}
               PROVE  Granted(tables', w, a, r, u, BlockOf(a, r, u)')
    BY DEF Filled, Reaches
  <2>1. Granted(tables, w, a, r, u, BlockOf(a, r, u)')
    BY <1>4
  <2> QED  BY <1>2, <2>1, GrantsStay
<1>6. ASSUME NEW m \in Machine, NEW u \in UnixUser, block[m][u] # {}
      PROVE  block'[m][u] = block[m][u]
  <2>1. CASE \E a \in Agent, r \in Ref : Reaches(a, r) /\ MachineOf[<<a, r>>] = m
    BY <1>4, <1>6, <2>1 DEF BlockOf
  <2>2. ASSUME NEW b \in Agent, NEW op \in loop[b].todo, Written(b, op), MachineOf[<<b, op.ref>>] # m
        PROVE  block'[m][u] = block[m][u]
    <3>1. block' = [block EXCEPT ![MachineOf[<<b, op.ref>>]][op.user] = op.lines]
      BY <2>2 DEF Written
    <3> QED  BY <1>0, <2>2, <3>1 DEF TypeOK
  <2>3. \A b \in Agent : \A op \in loop[b].todo : op.ref \in Ref /\ Reaches(b, op.ref)
    BY <1>0, TodoIsReached DEF Op
  <2> QED  BY <2>1, <2>2, <2>3, OutageFiles
<1> QED  BY <1>1, <1>3, <1>5, <1>6, OutageServes DEF Calm

\* So it does in between.
LEMMA StaysCalm ==
  ASSUME Apart, NEW CONSTANT w \in Content, Calm(w), [OutageStep(w)]_vars
  PROVE  Calm(w)'
<1>1. CASE UNCHANGED vars
  <2>1. IInv'
    BY <1>1 DEF Calm, SInv, IInv, vars, dbVars, serverVars, machineVars, TypeOK, TagsAreOrdered,
                Ordered, InHandler, OrdersAreCurrent, CarriesCurrent, HoldsCurrent, CurrentTag, DesiredNow
  <2>2. OneBinding' /\ TodoIsOrdered'
    BY <1>1 DEF Calm, SInv, vars, dbVars, OneBinding, TodoIsOrdered, Working, Reaches
  <2>3. Filled(w)'
    BY <1>1 DEF Calm, Filled, vars, dbVars, machineVars, Reaches, BlockOf
  <2> QED  BY <1>1, <2>1, <2>2, <2>3 DEF Calm, SInv, vars, dbVars, serverVars
<1> QED  BY <1>1, OutageKeeps

\* What goes on from a calm state while nobody changes anything.
OutageSpec(w) == Calm(w) /\ [][OutageStep(w)]_vars

(* No outage of Headscale, of the policy or of Headboard revokes a key,     *)
(* whatever the tables grant, however long it lasts and wherever it began   *)
(* in a cycle: hosts or users that are gone, a policy that cannot be read,  *)
(* restarts and lost requests clear no block (the sync handler, Implausible,*)
(* policyHosts).                                                            *)
THEOREM OutageKeepsKeys ==
  ASSUME Apart, NEW CONSTANT w \in Content
  PROVE  OutageSpec(w) =>
           [][\A m \in Machine, u \in UnixUser : block[m][u] # {} => block'[m][u] = block[m][u]]_vars
<1>1. Calm(w) /\ [OutageStep(w)]_vars => Calm(w)'
  BY StaysCalm
<1>2. Calm(w) /\ [OutageStep(w)]_vars =>
        [\A m \in Machine, u \in UnixUser : block[m][u] # {} => block'[m][u] = block[m][u]]_vars
  BY OutageKeeps
<1> QED  BY <1>1, <1>2, PTL DEF OutageSpec

-----------------------------------------------------------------------------
(* The installed system of the runs, of any size. *)

\* The values its rows are made of.
Furnished ==
  /\ "h1" \in Host /\ {"ip1", "ip2"} \subseteq Ip /\ {"web", "db", "new"} \subseteq Label
  /\ "p1" \in Person /\ "u1" \in UnixUser /\ "a1" \in Agent /\ "r1" \in Ref

\* Nobody administers it during an outage.
Unattended == plan.kinds = Outage => Calm(Usual) /\ req = [w \in Worker |-> None]

\* An outage may begin right after the installation.
LEMMA InstalledIsCalm ==
  ASSUME Furnished, Installed, ident \in [Machine -> Identities \union {Identity("r2")}]
  PROVE  Usual \in Content /\ Calm(Usual)
<1>1. Usual \in Content
  BY DEF Furnished, Usual, Content, HostMap, HostIp
<1>2. ident \in [Machine -> Ident]
  <2>1. Identities \union {Identity("r2")} \subseteq Ident
    BY DEF Furnished, Identities, Identity, IpOf, LabelOf, Ident
  <2> QED  BY <2>1
<1>3. tables \in Tables
  BY DEF Furnished, Installed, Tables, Binding
<1>4. snap \in Snapshot /\ snap.content = Usual
  BY <1>1 DEF Installed, Snapshot
<1>5. [rev |-> 0, snap |-> 1, boot |-> 0] \in Tag
  BY DEF Tag
<1>6. \A a \in Agent : \/ loop[a] = Off
                       \/ loop[a] = Between([rev |-> 0, snap |-> 1, boot |-> 0], FALSE)
  BY DEF Installed
<1>7. \A a \in Agent : loop[a] \in Loop
  BY <1>5, <1>6, BetweenType, IdleTypes
<1>8. loop \in [Agent -> Loop]
  BY <1>7 DEF Installed
<1>9. lastReport \in [Agent -> Seen \union {NoReport}]
  <2>1. \A a \in Agent : Discovery(a, {}) \in Seen
    BY <1>2, DiscoveryType
  <2> QED  BY <2>1 DEF Installed
<1>10. TypeOK
  BY <1>2, <1>3, <1>4, <1>8, <1>9 DEF Installed, TypeOK
<1>11. \A a \in Agent : loop[a].pc \in {"off", "waiting"} /\ loop[a].call = NoSnap /\ loop[a].todo = {}
  BY <1>6 DEF Off, Started, Between
<1>12. TagsAreOrdered /\ OrdersAreCurrent
  BY <1>11 DEF TagsAreOrdered, Ordered, InHandler, OrdersAreCurrent, CarriesCurrent
<1>13. OneBinding
  BY DEF Installed, OneBinding
<1>14. TodoIsOrdered
  BY <1>6, Resting DEF TodoIsOrdered
<1>15. \A a \in Agent : Serves(tables, Usual, a, loop[a])
  BY <1>11 DEF Serves
<1>16. Filled(Usual)
  BY MachineOfType DEF Installed, Filled, Reaches, BlockOf
<1>17. Usual \in Glimpses(Usual)
  BY <1>1 DEF Glimpses
<1> QED  BY <1>1, <1>4, <1>10, <1>12, <1>13, <1>14, <1>15, <1>16, <1>17 DEF Calm, SInv, IInv

\* What a scenario of outages allows is a step of an outage.
LEMMA OutageScenario ==
  ASSUME Usual \in Content, Unattended, plan.kinds = Outage, MCNext
  PROVE  OutageStep(Usual) /\ req' = [w \in Worker |-> None]
<1>1. \A w \in Worker : ~RequestStep(w)
  BY DEF Unattended, None, RequestStep, AddSSHKey, SetSSHRow, ApproveSSHTarget, RemoveOrphan, DeleteSSHAgent
<1>2. Usual \in Glimpses(Usual) /\ (snap # NoSnap => snap.content \in Glimpses(Usual))
  BY DEF Glimpses, Unattended, Calm
<1>3. Broken \subseteq Glimpses(Usual)
  <2>1. /\ [Usual EXCEPT !.hosts = [h \in Host |-> NoIp]] \in Glimpses(Usual)
    BY DEF Usual, Glimpses, Content, HostMap, Nowhere
  <2>2. [Usual EXCEPT !.people = {}] \in Glimpses(Usual)
    BY DEF Usual, Glimpses, Content, HostMap
  <2>3. [Usual EXCEPT !.parses = FALSE] \in Glimpses(Usual)
    BY DEF Usual, Glimpses, Content, HostMap
  <2> QED  BY <2>1, <2>2, <2>3 DEF Broken
<1>4. FreePoll => OutageStep(Usual)
  BY <1>2 DEF FreePoll, OutageStep
<1>5. Free => OutageStep(Usual)
  BY <1>1, <1>4 DEF Free, OutageStep
<1>6. Disturbance => OutageStep(Usual)
  BY <1>3 DEF Disturbance, Outage, OutageStep
<1>7. OutageStep(Usual)
  BY <1>5, <1>6 DEF MCNext
<1>8. req' = req \/ req' = [w \in Worker |-> None]
  <2>1. ASSUME NEW a \in Agent, CycleStep(a) \/ AgentFault(a) \/ Start(a) \/ FullSyncDue(a)
        PROVE  UNCHANGED req
    BY <2>1 DEF CycleStep, AgentFault, Start, FullSyncDue, Discover, SyncSnapshot, SyncRevision, SyncLoad,
              SyncRefused, Unauthorized, Rewrite, NothingLeft, CannotApply, ExecFails, Warned,
              ConnectionLost, Stop, GoesStale, GiveUp, Stepping, Agenting, serverVars, RetireFails,
              RetireUnauthorized, ReportAnswered, ReportUnanswered, RetireAnswered, RetireUnanswered
  <2> QED  BY <1>7, <2>1 DEF OutageStep, PollFails, Restart, Poll
<1> QED  BY <1>7, <1>8 DEF Unattended

(* An outage never reads as "revoke everything", in systems of any size     *)
(* that start as the runs' do, and for outages of any length.               *)
THEOREM NothingRevoked == Furnished /\ Apart => (MCBootSpec => OutageNeverRevokes)
<1> SUFFICES ASSUME Furnished, Apart  PROVE MCBootSpec => OutageNeverRevokes
  OBVIOUS
<1>0. Usual \in Content
  BY DEF Furnished, Usual, Content, HostMap, HostIp
<1>1. MCInit \/ MCBootInit => Unattended
  <2>1. MCInit => Unattended
    BY InstalledIsCalm DEF MCInit, Unattended, Installed
  <2>2. MCBootInit => plan.kinds # Outage
    BY DEF MCBootInit, Requests, Outage
  <2> QED  BY <2>1, <2>2 DEF Unattended
<1>2. Unattended /\ [MCNext]_mcvars => Unattended'
  <2> SUFFICES ASSUME Unattended, [MCNext]_mcvars, plan'.kinds = Outage
               PROVE  Calm(Usual)' /\ req' = [w \in Worker |-> None]
    BY DEF Unattended
  <2>1. plan.kinds = Outage
    BY DEF MCNext, mcvars
  <2>2. [OutageStep(Usual)]_vars /\ req' = [w \in Worker |-> None]
    <3>1. CASE MCNext
      BY <1>0, <2>1, <3>1, OutageScenario
    <3>2. CASE UNCHANGED mcvars
      BY <2>1, <3>2 DEF mcvars, vars, serverVars, Unattended
    <3> QED  BY <3>1, <3>2
  <2>3. Calm(Usual)
    BY <2>1 DEF Unattended
  <2> QED  BY <1>0, <2>2, <2>3, StaysCalm
<1>3. Unattended /\ [MCNext]_mcvars =>
        [plan.kinds = Outage =>
           \A m \in Machine, u \in UnixUser : block[m][u] # {} => block'[m][u] = block[m][u]]_mcvars
  <2> SUFFICES ASSUME Unattended, MCNext, plan.kinds = Outage,
                      NEW m \in Machine, NEW u \in UnixUser, block[m][u] # {}
               PROVE  block'[m][u] = block[m][u]
    OBVIOUS
  <2> QED  BY <1>0, OutageScenario, OutageKeeps DEF Unattended
<1> QED  BY <1>1, <1>2, <1>3, PTL DEF MCBootSpec, OutageNeverRevokes
=============================================================================
