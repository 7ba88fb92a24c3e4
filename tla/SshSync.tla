------------------------------- MODULE SshSync -------------------------------
(***************************************************************************)
(* SSH key sync: Headboard's SQLite tables and the handlers that change    *)
(* them (internal/store/ssh.go, internal/api/ssh_*.go), the agents that    *)
(* poll it (internal/agent) and the machines they write authorized_keys    *)
(* on.  Every database transaction, every request step between two reads   *)
(* and every file write is one action, so that they interleave as the      *)
(* program's do.                                                           *)
(***************************************************************************)
EXTENDS SshDesired, Naturals

CONSTANTS
  Machine,      \* physical machines
  MachineOf,    \* the machine behind each <<agent, ref>> an agent can reach
  Self,         \* what an agent that is not on a Proxmox host calls its own machine
  Elsewhere,    \* the accounts whose home directory is not /home/<user>
  Worker,       \* admin requests being served at once
  NoTag,        \* an agent that holds no ETag
  NoSnap,       \* no snapshot yet
  NoReport      \* no recent report: never reported, or older than 6 minutes

ASSUME MachineOfType ==
  DOMAIN MachineOf \subseteq Agent \X Ref /\ \A x \in DOMAIN MachineOf : MachineOf[x] \in Machine

\* An agent is on a Proxmox host and reaches its containers, or it is not
\* and reaches the machine it runs on (DetectHost).
ASSUME HostsAreOfOneKind ==
  \A x, y \in DOMAIN MachineOf : x[1] = y[1] => (x[2] = Self <=> y[2] = Self)

ASSUME ElsewhereType == Elsewhere \subseteq Machine \X UnixUser

VARIABLES
  \* SQLite
  tables,       \* ssh_keys, ssh_assignments, ssh_targets, ssh_managed
  rev,          \* ssh_revision.rev
  agents,       \* the ssh_agents row of each id, and whether its process's token matches
  lastReport,   \* ssh_agents.last_report while it is recent
  \* the Headboard process
  boot,         \* the random part of ETags, fresh in every process
  snap,         \* Watcher.snap as far as SSH reads it
  connected,    \* Watcher.ConnectionStatus() is "connected"
  req,          \* admin requests between their check and their write
  handed,       \* cleanup commands shown by a revoke
  \* agents and machines
  loop,         \* each agent process
  up, ident, home, block,  \* running machines, identity, accounts, managed blocks
  lost          \* history: the accounts whose keys went with their machine and were not written since

dbVars      == <<tables, rev, agents, lastReport>>
serverVars  == <<boot, snap, connected, req, handed>>
machineVars == <<up, ident, home, block, lost>>
vars == <<dbVars, serverVars, loop, machineVars>>

-----------------------------------------------------------------------------
(* Types. *)

Content == [hosts : HostMap, people : SUBSET Person, parses : BOOLEAN]
Snapshot == [rev : Nat \ {0}, content : Content]
Tag == [rev : Nat, snap : Nat, boot : Nat]

\* The absent values are not values.
ASSUME SnapshotsExist == NoSnap \notin Snapshot
ASSUME TagsExist == NoTag \notin Tag

Request ==
  [op : {"key"}, line : Line]
    \union [op : {"row"}, host : Host, user : UnixUser, people : SUBSET Person]
    \union [op : {"approve"}, binding : Binding]
    \union [op : {"orphan"}, host : Host]
    \union [op : {"revoke"}, agent : Agent, force : BOOLEAN]

None == [op |-> "none"]

Seen == [Ref -> Ident \union {Absent}]
Pair == Ref \X UnixUser
Op == [clear : BOOLEAN, ref : Ref, user : UnixUser, lines : SUBSET Line]

Loop == [pc : {"off", "waiting", "discovered", "asking", "tagged",
               "unchanged", "applying", "retiring"},
         etag : Tag \union {NoTag}, due : BOOLEAN, forced : BOOLEAN,
         seen : Seen, call : Snapshot \union {NoSnap},
         next : Tag \union {NoTag}, orders : SUBSET Target, todo : SUBSET Op,
         applied : SUBSET Pair, cleared : SUBSET Pair,
         mismatched : SUBSET Ref, warned : BOOLEAN]

(* The tables hold rows of their own kinds, whatever order requests, cycles *)
(* and reports commit in (SetSSHRow, RecordSSHReport): a row's columns are   *)
(* never swapped and a target is a binding of known hosts and agents.       *)
TypeOK ==
  /\ tables \in Tables
  /\ rev \in Nat
  /\ agents \in [Agent -> {"unborn", "active", "rotated", "gone"}]
  /\ lastReport \in [Agent -> Seen \union {NoReport}]
  /\ boot \in Nat
  /\ snap \in Snapshot \union {NoSnap}
  /\ connected \in BOOLEAN
  /\ req \in [Worker -> Request \union {None}]
  /\ handed \subseteq Agent \X Ref \X UnixUser
  /\ loop \in [Agent -> Loop]
  /\ up \subseteq Machine
  /\ ident \in [Machine -> Ident]
  /\ home \in [Machine -> [UnixUser -> {"account", "leftover", "nothing"}]]
  /\ block \in [Machine -> [UnixUser -> SUBSET Line]]
  /\ lost \subseteq Machine \X UnixUser

-----------------------------------------------------------------------------
(* Shared operators. *)

Unseen == [r \in Ref |-> Absent]

\* An agent process between cycles: what it carries over is its ETag and
\* whether an hour has passed since its last full sync.
Between(etag, due) ==
  [pc |-> "waiting", etag |-> etag, due |-> due, forced |-> FALSE,
   seen |-> Unseen, call |-> NoSnap, next |-> NoTag, orders |-> {}, todo |-> {},
   applied |-> {}, cleared |-> {}, mismatched |-> {}, warned |-> FALSE]

Started == Between(NoTag, TRUE)
Off == [Started EXCEPT !.pc = "off"]

Reaches(a, r) == <<a, r>> \in DOMAIN MachineOf

\* Host.Discover: the running machines, some of them unreadable.
Discovery(a, unreadable) ==
  [r \in Ref |-> IF Reaches(a, r) /\ MachineOf[<<a, r>>] \in up
                 THEN IF r \in unreadable THEN Unreadable ELSE ident[MachineOf[<<a, r>>]]
                 ELSE Absent]

\* sshTx with a change: the revision moves in the same transaction.
Commit_Unrevised(tb) == tables' = tb /\ UNCHANGED rev

Commit(tb) == tables' = tb /\ rev' = rev + 1

CurrentTag == [rev |-> rev, snap |-> snap.rev, boot |-> boot]

HoldsCurrent(tag) == snap # NoSnap /\ tag = CurrentTag

DesiredNow(a) == Desired(a, snap.content.hosts, snap.content.people, tables)

Readable == snap # NoSnap /\ snap.content.parses

-----------------------------------------------------------------------------
Init ==
  /\ tables = [keys |-> {}, assigns |-> {}, targets |-> {}, managed |-> {}]
  /\ rev = 0
  /\ agents = [a \in Agent |-> "unborn"]
  /\ lastReport = [a \in Agent |-> NoReport]
  /\ boot = 0
  /\ snap = NoSnap
  /\ connected = FALSE
  /\ req = [w \in Worker |-> None]
  /\ handed = {}
  /\ loop = [a \in Agent |-> Off]
  /\ up = Machine
  /\ ident \in [Machine -> Ident]
  /\ home = [m \in Machine |-> [u \in UnixUser |-> "account"]]
  /\ block = [m \in Machine |-> [u \in UnixUser |-> {}]]
  /\ lost = {}

-----------------------------------------------------------------------------
(* The watcher, as far as SSH sees it, and the Headboard process. *)

\* A poll that succeeds: the revision moves iff anything differs, here or
\* (other) in the devices, which no order depends on.
Poll(c, other) ==
  /\ snap' = IF snap = NoSnap THEN [rev |-> 1, content |-> c]
             ELSE IF c = snap.content /\ ~other THEN snap
             ELSE [rev |-> snap.rev + 1, content |-> c]
  /\ connected' = TRUE
  /\ UNCHANGED <<dbVars, boot, req, handed, loop, machineVars>>

PollFails ==
  /\ connected
  /\ connected' = FALSE
  /\ UNCHANGED <<dbVars, boot, snap, req, handed, loop, machineVars>>

InHandler(a) == loop[a].pc \in {"asking", "tagged"}

\* Random bytes: never a value an earlier process handed out.
NewBoot_Constant == boot

NewBoot == boot + 1

\* The process restarts: a new boot id, no snapshot, and no request survives.
Restart ==
  /\ boot' = NewBoot
  /\ snap' = NoSnap
  /\ connected' = FALSE
  /\ req' = [w \in Worker |-> None]
  /\ loop' = [a \in Agent |-> IF InHandler(a) THEN Between(loop[a].etag, loop[a].due) ELSE loop[a]]
  /\ UNCHANGED <<dbVars, handed, machineVars>>

-----------------------------------------------------------------------------
(* Admin requests.  A handler that checks the state it read, and then      *)
(* writes, is two actions: the check parks what it will write in req.      *)

Park(w, r) ==
  /\ req[w] = None
  /\ req' = [req EXCEPT ![w] = r]
  /\ UNCHANGED <<dbVars, boot, snap, connected, handed, loop, machineVars>>

CheckAddSSHKey(w, l) ==
  /\ snap # NoSnap
  /\ l[1] \in snap.content.people
  /\ Park(w, [op |-> "key", line |-> l])

CheckSSHRow(w, h, u, ps) ==
  /\ Readable
  /\ snap.content.hosts[h] # NoIp
  /\ ps \subseteq snap.content.people
  /\ Park(w, [op |-> "row", host |-> h, user |-> u, people |-> ps])

\* Every target some recently seen agent reports at this address.
Claims(ip) ==
  {c \in Agent \X Ref :
     /\ agents[c[1]] \in {"active", "rotated"}
     /\ lastReport[c[1]] # NoReport
     /\ lastReport[c[1]][c[2]] # Absent
     /\ ip \in lastReport[c[1]][c[2]].ips}

\* approvalCandidate: the only claim of the host's address is this target.
CheckApprove(w, h, a, r) ==
  /\ Readable
  /\ snap.content.hosts[h] # NoIp
  /\ Claims(snap.content.hosts[h]) = {<<a, r>>}
  /\ Park(w, [op |-> "approve",
              binding |-> [host |-> h, agent |-> a, ref |-> r,
                           ip |-> snap.content.hosts[h],
                           label |-> lastReport[a][r].label,
                           suspended |-> FALSE]])

CheckRemoveOrphan(w, h) ==
  /\ Readable
  /\ snap.content.hosts[h] = NoIp
  /\ Park(w, [op |-> "orphan", host |-> h])

PendingClears(a) == {t \in DesiredNow(a) : t.clear # {}}

CheckRevoke(w, a, force) ==
  /\ Readable
  /\ agents[a] \in {"active", "rotated"}
  /\ \/ force
     \/ BindingsOf(a, tables) = {} /\ PendingClears(a) = {}
  /\ Park(w, [op |-> "revoke", agent |-> a, force |-> force])

Finish(w) ==
  /\ req' = [req EXCEPT ![w] = None]
  /\ UNCHANGED <<boot, snap, connected, loop, machineVars>>

AddSSHKey(w) ==
  /\ req[w].op = "key"
  /\ IF \E l \in tables.keys : l[2] = req[w].line[2]   \* the fingerprint is UNIQUE
     THEN UNCHANGED <<tables, rev>>
     ELSE Commit([tables EXCEPT !.keys = @ \union {req[w].line}])
  /\ Finish(w)
  /\ UNCHANGED <<agents, lastReport, handed>>

SetSSHRow_Swapped(w) ==
  /\ req[w].op = "row"
  /\ LET r == req[w] IN
       Commit([tables EXCEPT !.assigns =
                 {x \in @ : ~(x[1] = r.host /\ x[2] = r.user)}
                   \union ({r.user} \X {r.host} \X r.people)])
  /\ Finish(w)
  /\ UNCHANGED <<agents, lastReport, handed>>

SetSSHRow(w) ==
  /\ req[w].op = "row"
  /\ LET r == req[w] IN
       Commit([tables EXCEPT !.assigns =
                 {x \in @ : ~(x[1] = r.host /\ x[2] = r.user)}
                   \union ({r.host} \X {r.user} \X r.people)])
  /\ Finish(w)
  /\ UNCHANGED <<agents, lastReport, handed>>

\* An upsert by host: a new binding, a move, or a re-approval.  The UNIQUE
\* pair and the foreign key refuse the rest.
ApproveSSHTarget(w) ==
  /\ req[w].op = "approve"
  /\ LET b == req[w].binding IN
       IF \/ \E c \in tables.targets : c.host # b.host /\ c.agent = b.agent /\ c.ref = b.ref
          \/ agents[b.agent] = "gone"
       THEN UNCHANGED <<tables, rev>>
       ELSE Commit([tables EXCEPT !.targets = {c \in @ : c.host # b.host} \union {b}])
  /\ Finish(w)
  /\ UNCHANGED <<agents, lastReport, handed>>

RemoveOrphan(w) ==
  /\ req[w].op = "orphan"
  /\ Commit([tables EXCEPT !.assigns = {x \in @ : x[1] # req[w].host},
                           !.targets = {b \in @ : b.host # req[w].host}])
  /\ Finish(w)
  /\ UNCHANGED <<agents, lastReport, handed>>

\* The rows an agent leaves behind when its row is deleted, by cascade.
WithoutAgent(a) ==
  [tables EXCEPT !.targets = {b \in @ : b.agent # a},
                 !.managed = {m \in @ : m[1] # a}]

Proxmox(a) == \E r \in Ref : r # Self /\ Reaches(a, r)

\* What an admin is shown to run by hand: a container of a Proxmox host, or
\* the machine itself; a row of the other kind is left out.
CleanupCommands(a) ==
  {m \in tables.managed : m[1] = a /\ (Proxmox(a) <=> m[2] # Self)}

DeleteSSHAgent(w) ==
  /\ req[w].op = "revoke"
  /\ LET a == req[w].agent IN
       IF agents[a] = "gone"
       THEN UNCHANGED <<dbVars, handed>>
       ELSE /\ Commit(WithoutAgent(a))
            /\ agents' = [agents EXCEPT ![a] = "gone"]
            /\ lastReport' = [lastReport EXCEPT ![a] = NoReport]
            /\ handed' = handed \union CleanupCommands(a)
  /\ Finish(w)

\* Requests that check nothing they read earlier are a single transaction.
Direct(tb) ==
  /\ Commit(tb)
  /\ UNCHANGED <<agents, lastReport, serverVars, loop, machineVars>>

DeleteSSHKey(l) ==
  /\ l \in tables.keys
  /\ Direct([tables EXCEPT !.keys = @ \ {l}])

DeleteSSHTarget(h) ==
  /\ \E b \in tables.targets : b.host = h
  /\ Direct([tables EXCEPT !.targets = {b \in @ : b.host # h}])

\* After Headscale has dropped the user.
DeleteSSHUser(p) ==
  Direct([tables EXCEPT !.keys = {l \in @ : l[1] # p},
                        !.assigns = {x \in @ : x[3] # p}])

SetAgent(a, status) ==
  /\ agents' = [agents EXCEPT ![a] = status]
  /\ UNCHANGED <<tables, rev, lastReport, serverVars, machineVars>>

CreateSSHAgent(a) == agents[a] = "unborn" /\ SetAgent(a, "active") /\ UNCHANGED loop

RotateSSHAgentToken(a) == agents[a] = "active" /\ SetAgent(a, "rotated") /\ UNCHANGED loop

\* The operator runs the installer again with the new token.
Reinstall(a) ==
  /\ agents[a] = "rotated"
  /\ SetAgent(a, "active")
  /\ loop' = [loop EXCEPT ![a] = Started]

\* Six minutes without a report.
GoesStale(a) ==
  /\ lastReport[a] # NoReport
  /\ lastReport' = [lastReport EXCEPT ![a] = NoReport]
  /\ UNCHANGED <<tables, rev, agents, serverVars, loop, machineVars>>

-----------------------------------------------------------------------------
(* The agent's cycle (Loop.Once), one step per request and per file. *)

Agenting(a, l) ==
  /\ loop' = [loop EXCEPT ![a] = l]
  /\ UNCHANGED <<serverVars, machineVars>>

Stepping(a, l) == Agenting(a, l) /\ UNCHANGED dbVars

\* An error ends the cycle: the ETag is kept and a full sync stays due.
GiveUp_Adopts(a) ==
  Stepping(a, Between(IF loop[a].next = NoTag THEN loop[a].etag ELSE loop[a].next, loop[a].due))

GiveUp(a) == Stepping(a, Between(loop[a].etag, loop[a].due))

Start(a) ==
  /\ loop[a].pc = "off"
  /\ agents[a] = "active"
  /\ Stepping(a, Started)

\* A crash, a SIGTERM, or the operator stopping the service.
Stop(a) ==
  /\ loop[a].pc # "off"
  /\ Stepping(a, Off)

FullSyncDue(a) ==
  /\ loop[a].pc # "off"
  /\ ~loop[a].due
  /\ Stepping(a, [loop[a] EXCEPT !.due = TRUE])

Discover(a, unreadable) ==
  /\ loop[a].pc = "waiting"
  /\ Stepping(a, [loop[a] EXCEPT !.pc = "discovered", !.forced = loop[a].due,
                                 !.seen = Discovery(a, unreadable)])

\* 401: Run logs and returns, and nothing it wrote is touched.
Unauthorized(a) ==
  /\ agents[a] # "active"
  /\ \/ loop[a].pc \in {"discovered", "unchanged"}
     \/ loop[a].pc = "applying" /\ loop[a].todo = {}
  /\ Stepping(a, Off)

\* The sync handler authenticates and takes one snapshot ...
SyncSnapshot(a) ==
  /\ loop[a].pc = "discovered"
  /\ agents[a] = "active"
  /\ connected /\ snap # NoSnap
  /\ Stepping(a, [loop[a] EXCEPT !.pc = "asking", !.call = snap])

Asked_Unforced(l) == l.etag

Asked(l) == IF l.forced THEN NoTag ELSE l.etag

\* ... then reads the revision, which settles the ETag ...
SyncRevision(a) ==
  LET l   == loop[a]
      tag == [rev |-> rev, snap |-> l.call.rev, boot |-> boot]
  IN  /\ l.pc = "asking"
      /\ Stepping(a, [l EXCEPT !.pc = IF Asked(l) = tag THEN "unchanged" ELSE "tagged",
                               !.call = IF Asked(l) = tag THEN NoSnap ELSE @,
                               !.next = tag])

\* ... and only then the tables, in one read transaction.  What the agent
\* makes of the answer follows from what it discovered before it asked.
SyncLoad(a) ==
  LET l == loop[a]
      c == l.call.content
      orders == Desired(a, c.hosts, c.people, tables)
  IN  /\ l.pc = "tagged"
      /\ c.parses
      /\ ~Implausible(c.hosts, c.people, tables)
      /\ Stepping(a, [l EXCEPT !.pc = "applying", !.call = NoSnap,
                               !.orders = orders,
                               !.todo = Ops(orders, l.seen),
                               !.mismatched = {t.ref : t \in {o \in orders : Mismatched(o, l.seen)}},
                               !.warned = \E t \in orders : ~Ready(t, l.seen)])

\* 503: not connected, an unreadable policy, or an implausible world.
SyncRefused(a) ==
  /\ \/ /\ loop[a].pc = "discovered"
        /\ agents[a] = "active"
        /\ ~connected \/ snap = NoSnap
     \/ /\ loop[a].pc = "tagged"
        /\ LET c == loop[a].call.content IN
             ~c.parses \/ Implausible(c.hosts, c.people, tables)
  /\ GiveUp(a)

\* The request or its answer is lost; nothing was recorded.
ConnectionLost(a) ==
  /\ loop[a].pc \in {"discovered", "asking", "tagged", "unchanged", "applying"}
  /\ loop[a].pc = "applying" => loop[a].todo = {}
  /\ GiveUp(a)

Done(a, op) ==
  LET l == loop[a]
      p == <<op.ref, op.user>>
  IN  [l EXCEPT !.todo = @ \ {op},
                !.applied = IF op.clear THEN @ ELSE @ \union {p},
                !.cleared = IF op.clear THEN @ \union {p} ELSE @]

\* One authorized_keys rewritten through a temporary file and a rename.
Written(a, op) ==
  LET m == MachineOf[<<a, op.ref>>] IN
  /\ m \in up
  /\ home[m][op.user] = "account"
  /\ block' = [block EXCEPT ![m][op.user] = op.lines]
  /\ lost' = lost \ {<<m, op.user>>}
  /\ UNCHANGED <<up, ident, home>>

Rewrite(a, op) ==
  /\ op \in loop[a].todo
  /\ Written(a, op)
  /\ loop' = [loop EXCEPT ![a] = Done(a, op)]
  /\ UNCHANGED <<dbVars, serverVars>>

\* A clear for an account that is gone counts when keysRemain finds no file:
\* it looks in /home/<user>, wherever the home was.
NothingLeft_Unlooked(a, op) ==
  LET m == MachineOf[<<a, op.ref>>] IN
  /\ op \in loop[a].todo
  /\ op.clear
  /\ m \in up
  /\ home[m][op.user] # "account"
  /\ Stepping(a, Done(a, op))

NothingLeft(a, op) ==
  LET m == MachineOf[<<a, op.ref>>] IN
  /\ op \in loop[a].todo
  /\ op.clear
  /\ m \in up
  /\ \/ home[m][op.user] = "nothing"
     \/ home[m][op.user] = "leftover" /\ <<m, op.user>> \in Elsewhere
  /\ Stepping(a, Done(a, op))

\* Any failure is a warning, and the pair is reported neither way.
Warned(a, op) == [loop[a] EXCEPT !.todo = @ \ {op}, !.warned = TRUE]

CannotApply(a, op) ==
  LET m == MachineOf[<<a, op.ref>>] IN
  /\ op \in loop[a].todo
  /\ \/ m \notin up
     \/ home[m][op.user] # "account" /\ ~op.clear
     \/ home[m][op.user] = "leftover" /\ <<m, op.user>> \notin Elsewhere
  /\ Stepping(a, Warned(a, op))

\* pct, getent, the shell or a damaged block refuses; or the file was
\* replaced and the exec fails all the same.
ExecFails(a, op) ==
  /\ op \in loop[a].todo
  /\ Written(a, op) \/ UNCHANGED machineVars
  /\ loop' = [loop EXCEPT ![a] = Warned(a, op)]
  /\ UNCHANGED <<dbVars, serverVars>>

\* RecordSSHReport, in one transaction.  The revision moves only when a
\* managed row or a suspension changed: agents report every 30 seconds.
Reported(a) ==
  LET l == loop[a] IN
  [tables EXCEPT
     !.managed = (@ \union {<<a, p[1], p[2]>> : p \in l.applied})
                   \ {<<a, p[1], p[2]>> : p \in l.cleared},
     !.targets = {IF b.agent = a /\ b.ref \in l.mismatched
                  THEN [b EXCEPT !.suspended = TRUE] ELSE b : b \in @}]

RecordSSHReport(a) ==
  /\ loop[a].pc = "unchanged" \/ (loop[a].pc = "applying" /\ loop[a].todo = {})
  /\ agents[a] = "active"
  /\ tables' = Reported(a)
  /\ rev' = IF Reported(a) = tables THEN rev ELSE rev + 1
  /\ lastReport' = [lastReport EXCEPT ![a] = loop[a].seen]
  /\ UNCHANGED agents

\* Work that was skipped keeps the old ETag, so the agent asks again.
ReportAnswered(a) ==
  LET l == loop[a] IN
  /\ RecordSSHReport(a)
  /\ Agenting(a, Between(IF l.warned THEN l.etag ELSE l.next, l.due /\ ~l.forced))

\* Recorded, but the agent never learns it: for the agent an error.
ReportUnanswered(a) ==
  /\ RecordSSHReport(a)
  /\ Agenting(a, Between(loop[a].etag, loop[a].due))

-----------------------------------------------------------------------------
(* headboard-agent uninstall: stop the service, clear every block Headboard *)
(* has on record, then have Headboard delete the agent.                     *)

Uninstall(a) ==
  LET orders == {ClearTarget(a, r, tables) : r \in {s \in Ref : ManagedUsers(a, s, tables) # {}}}
      seen   == Discovery(a, {})
  IN  /\ loop[a].pc # "retiring"
      /\ agents[a] = "active"
      /\ Stepping(a, [Off EXCEPT !.pc = "retiring", !.seen = seen, !.orders = orders,
                                 !.todo = Ops(orders, seen)])

\* The agent goes once none of its rows remain; until then they are kept.
RetireSSHAgent(a) ==
  LET gone == {<<a, p[1], p[2]>> : p \in loop[a].cleared}
      left == {m \in tables.managed : m[1] = a} \ gone
  IN  /\ loop[a].pc = "retiring"
      /\ loop[a].todo = {}
      /\ agents[a] = "active"
      /\ IF left # {}
         THEN /\ tables' = [tables EXCEPT !.managed = @ \ gone]
              /\ rev' = IF loop[a].cleared = {} THEN rev ELSE rev + 1
              /\ UNCHANGED <<agents, lastReport>>
         ELSE /\ Commit(WithoutAgent(a))
              /\ agents' = [agents EXCEPT ![a] = "gone"]
              /\ lastReport' = [lastReport EXCEPT ![a] = NoReport]

\* Retired: the binary goes too.  Otherwise the service is started again.
RetireAnswered(a) ==
  /\ RetireSSHAgent(a)
  /\ Agenting(a, IF agents'[a] = "gone" THEN Off ELSE Started)

RetireUnanswered(a) ==
  /\ RetireSSHAgent(a)
  /\ Agenting(a, Started)

RetireFails(a) ==
  /\ loop[a].pc = "retiring"
  /\ Stepping(a, Started)

RetireUnauthorized(a) == agents[a] # "active" /\ RetireFails(a)

-----------------------------------------------------------------------------
(* The machines change under all of this. *)

OnMachines == UNCHANGED <<dbVars, serverVars, loop>>

PowerOff(m) == m \in up /\ up' = up \ {m} /\ UNCHANGED <<ident, home, block, lost>> /\ OnMachines

PowerOn(m) == m \notin up /\ up' = up \union {m} /\ UNCHANGED <<ident, home, block, lost>> /\ OnMachines

\* A new address or hostname on the same disk.
Rename(m, id) ==
  /\ ident' = [ident EXCEPT ![m] = id]
  /\ UNCHANGED <<up, home, block, lost>> /\ OnMachines

\* Another container under the same id, or the same one with its blocks lost.
Replace(m, id) ==
  /\ ident' = [ident EXCEPT ![m] = id]
  /\ block' = [block EXCEPT ![m] = [u \in UnixUser |-> {}]]
  /\ lost' = lost \union {<<m, u>> : u \in {v \in UnixUser : block[m][v] # {}}}
  /\ UNCHANGED <<up, home>> /\ OnMachines

\* useradd, userdel (the home stays), userdel -r.
ChangeAccount(m, u, to) ==
  /\ home[m][u] # to
  /\ to = "leftover" => home[m][u] = "account"
  /\ home' = [home EXCEPT ![m][u] = to]
  /\ block' = [block EXCEPT ![m][u] = IF to = "nothing" THEN {} ELSE @]
  /\ lost' = IF to = "nothing" /\ block[m][u] # {} THEN lost \union {<<m, u>>} ELSE lost
  /\ UNCHANGED <<up, ident>> /\ OnMachines

-----------------------------------------------------------------------------
AdminStep ==
  \/ \E w \in Worker :
       \/ \E l \in Line : CheckAddSSHKey(w, l)
       \/ \E h \in Host, u \in UnixUser, ps \in SUBSET Person : CheckSSHRow(w, h, u, ps)
       \/ \E h \in Host, a \in Agent, r \in Ref : CheckApprove(w, h, a, r)
       \/ \E h \in Host : CheckRemoveOrphan(w, h)
       \/ \E a \in Agent, force \in BOOLEAN : CheckRevoke(w, a, force)
  \/ \E l \in Line : DeleteSSHKey(l)
  \/ \E h \in Host : DeleteSSHTarget(h)
  \/ \E p \in Person : DeleteSSHUser(p)
  \/ \E a \in Agent : CreateSSHAgent(a) \/ RotateSSHAgentToken(a) \/ Reinstall(a)

\* The second half of an admin request.
RequestStep(w) ==
  AddSSHKey(w) \/ SetSSHRow(w) \/ ApproveSSHTarget(w) \/ RemoveOrphan(w) \/ DeleteSSHAgent(w)

\* What an agent process does unless something stops it.
CycleStep(a) ==
  \/ Discover(a, {})
  \/ SyncSnapshot(a) \/ SyncRevision(a) \/ SyncLoad(a) \/ SyncRefused(a) \/ Unauthorized(a)
  \/ \E op \in loop[a].todo : Rewrite(a, op) \/ NothingLeft(a, op) \/ CannotApply(a, op)
  \/ ReportAnswered(a) \/ RetireAnswered(a) \/ RetireUnauthorized(a)

AgentFault(a) ==
  \/ \E unreadable \in SUBSET Ref : Discover(a, unreadable)
  \/ \E op \in loop[a].todo : ExecFails(a, op)
  \/ ConnectionLost(a) \/ ReportUnanswered(a)
  \/ RetireUnanswered(a) \/ RetireFails(a)
  \/ Stop(a) \/ GoesStale(a)

MachineStep ==
  \E m \in Machine :
    \/ PowerOff(m) \/ PowerOn(m)
    \/ \E id \in Ident : Rename(m, id) \/ Replace(m, id)
    \/ \E u \in UnixUser, to \in {"account", "leftover", "nothing"} : ChangeAccount(m, u, to)

Next ==
  \/ AdminStep
  \/ \E a \in Agent : Uninstall(a)
  \/ \E w \in Worker : RequestStep(w)
  \/ \E c \in Content, other \in BOOLEAN : Poll(c, other)
  \/ PollFails \/ Restart
  \/ \E a \in Agent : CycleStep(a) \/ AgentFault(a) \/ Start(a) \/ FullSyncDue(a)
  \/ MachineStep

Spec == Init /\ [][Next]_vars

-----------------------------------------------------------------------------
(* Properties.  A block is one machine's managed block for one account. *)

BlockOf(a, r, u) == block[MachineOf[<<a, r>>]][u]

\* The account holds these keys, or the machine has lost them since.
AsWritten(a, r, u, lines) ==
  BlockOf(a, r, u) = lines \/ <<MachineOf[<<a, r>>], u>> \in lost

\* Nothing the server would ask of the agent now is left to do.
Settled(a) ==
  \A t \in DesiredNow(a) :
    /\ t.clear = {}
    /\ \A w \in t.writes :
         /\ <<a, t.ref, w.user>> \in tables.managed
         /\ BlockOf(a, t.ref, w.user) = w.lines

CarriesCurrent(a) ==
  loop[a].pc = "applying" /\ HoldsCurrent(loop[a].next) => loop[a].orders = DesiredNow(a)

(* The order an agent is carrying out under the ETag that is current now is *)
(* exactly what the tables and the snapshot say now: every change of either *)
(* moves the ETag (sshTx, applyLocked), and the ETag is fixed before the    *)
(* tables are read (the sync handler).                                      *)
OrdersAreCurrent == \A a \in Agent : CarriesCurrent(a)

Ordered(a) ==
  LET l == loop[a] IN
  /\ InHandler(a) =>
       /\ snap # NoSnap
       /\ l.call # NoSnap
       /\ l.call.rev <= snap.rev
       /\ l.call.rev = snap.rev => l.call = snap
  /\ l.pc = "tagged" => l.next.boot = boot /\ l.next.snap = l.call.rev
  /\ l.pc \in {"tagged", "applying"} =>
       /\ l.next # NoTag
       /\ l.next.rev <= rev
       /\ l.next.boot <= boot
       /\ l.next.boot = boot => snap # NoSnap /\ l.next.snap <= snap.rev

(* Why an ETag can be trusted: what a request captured is never ahead of    *)
(* the revision, the snapshot and the process that are current now, and a   *)
(* snapshot captured under the current number is the current snapshot.  The *)
(* boot half carries the argument across restarts, where snapshot numbers   *)
(* begin again at 1 (newBoot, Watcher.applyLocked).                         *)
TagsAreOrdered == \A a \in Agent : Ordered(a)

(* A 304 never hides undone work: an agent that holds the current ETag has  *)
(* cleared every block it should not hold and written every other one as    *)
(* it is ordered now, unless the machine lost it since, and Headboard has   *)
(* recorded it, whatever reports, answers and processes were lost on the    *)
(* way (Loop.Once keeps the old ETag; boot separates two processes).        *)
HeldTagIsSettled ==
  \A a \in Agent : HoldsCurrent(loop[a].etag) =>
    \A t \in DesiredNow(a) :
      /\ t.clear = {}
      /\ \A w \in t.writes :
           /\ <<a, t.ref, w.user>> \in tables.managed
           /\ AsWritten(a, t.ref, w.user, w.lines)

(* A managed row, which is what gets a block cleared, is dropped only once  *)
(* the block is empty, or its cleanup command has been shown to an admin    *)
(* (RecordSSHReport, RetireSSHAgent, DeleteSSHAgent, keysRemain).  An       *)
(* account whose home is not /home/<user> is excepted: keysRemain misses    *)
(* what such an account leaves behind.                                      *)
RecordOutlivesBlock ==
  [][\A m \in tables.managed \ (tables'.managed \union handed') :
       Reaches(m[1], m[2]) =>
         \/ BlockOf(m[1], m[2], m[3]) = {}
         \/ <<MachineOf[<<m[1], m[2]>>], m[3]>> \in Elsewhere]_vars

(* README: a suspended server is neither written nor cleared.  An agent     *)
(* acting on the newest orders touches no block behind a suspended binding. *)
SuspendedIsUntouched ==
  [][\A a \in Agent, r \in Ref, u \in UnixUser :
       /\ Reaches(a, r)
       /\ loop[a].pc = "applying" /\ HoldsCurrent(loop[a].next)
       /\ \E op \in loop[a].todo \ loop'[a].todo : op.ref = r /\ op.user = u
       => \A b \in BindingsOf(a, tables) :
            b.ref = r => StateOf(b, snap.content.hosts) # "suspended"]_vars

Online == connected /\ Readable /\ ~Implausible(snap.content.hosts, snap.content.people, tables)

\* The machine behind a binding is not the one that was approved.
Stranger(b) ==
  LET id == ident[MachineOf[<<b.agent, b.ref>>]] IN
  b.ip \notin id.ips \/ (b.label # NoLabel /\ id.label # b.label)

Delivers(b) == agents[b.agent] = "active" /\ StateOf(b, snap.content.hosts) = "active"

MachinesWork ==
  /\ up = Machine
  /\ \A m \in Machine, u \in UnixUser : home[m][u] = "account"
  /\ \A b \in tables.targets : Delivers(b) => ~Stranger(b)

(* Once the disturbances end and the machines are as approved, every agent  *)
(* that still has a valid token ends up settled and stays so (Loop.Run:     *)
(* every cycle is retried, and an hourly full sync repairs what a 304 would *)
(* never look at).                                                          *)
EventuallySettled ==
  <>[](Online /\ MachinesWork)
    => <>[](\A a \in Agent : agents[a] = "active" => Settled(a))

\* An agent would still write behind this host's binding to a stranger.
Exposed(h) ==
  \E b \in tables.targets :
    /\ b.host = h /\ Delivers(b) /\ Stranger(b)
    /\ MachineOf[<<b.agent, b.ref>>] \in up
    /\ ident[MachineOf[<<b.agent, b.ref>>]] # Unreadable

(* README: when a container's hostname or address no longer matches what    *)
(* was approved, the server is suspended: the binding does not stay active  *)
(* for ever, although a 304 skips the check (Apply, RecordSSHReport,        *)
(* FullEvery).                                                              *)
StrangersAreSuspended ==
  <>[]Online => \A h \in Host : []<>~Exposed(h)

-----------------------------------------------------------------------------
(* What the documentation says and the code does not keep: each of these is *)
(* violated, in a run of its own.                                           *)

(* "so Headboard never forgets keys still sitting on a server"              *)
(* (internal/store/ssh.go): every key on a machine is on record, or about   *)
(* to be reported, or still wanted there, or handed to an admin to clean.   *)
NeverForgets ==
  \A a \in Agent, r \in Ref, u \in UnixUser :
    Reaches(a, r) /\ BlockOf(a, r, u) # {} =>
      \/ <<a, r, u>> \in tables.managed \union handed
      \/ <<r, u>> \in loop[a].applied
      \/ snap # NoSnap /\ \E t \in DesiredNow(a) : t.ref = r /\ \E w \in t.writes : w.user = u

(* keysRemain (internal/agent/apply.go): "Only a definite 'no such file'    *)
(* counts as nothing left: any other failure keeps the clear pending." A    *)
(* row is dropped only with its block empty or its cleanup command shown,   *)
(* wherever the account's home is.                                          *)
ClearsStayPending ==
  [][\A m \in tables.managed \ (tables'.managed \union handed') :
       Reaches(m[1], m[2]) => BlockOf(m[1], m[2], m[3]) = {}]_vars

(* "Revoke an agent; refused while it still has bindings or pending clears  *)
(* unless forced" (revokeSSHAgent): violated.  What is approved on it after *)
(* the check goes with it.                                                  *)
OnlyIdleAgentsGo ==
  [][\A w \in Worker : req[w].op = "revoke" /\ ~req[w].force =>
       LET a == req[w].agent IN
         agents[a] # "gone" /\ agents'[a] = "gone" => BindingsOf(a, tables) = {} /\ PendingClears(a) = {}]_vars
=============================================================================
