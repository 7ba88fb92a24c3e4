----------------------------- MODULE MCSshSync -----------------------------
(***************************************************************************)
(* Small instances of SshSync.  A scenario names the disturbances a         *)
(* behaviour may contain and how many of them, and the agents installed;   *)
(* agents' cycles, admitted requests and polls that find nothing new are   *)
(* free.  A behaviour of a run follows one of the run's scenarios.         *)
(***************************************************************************)
EXTENDS SshSync, TLC

CONSTANT Scenario   \* what the behaviours of the run may contain

VARIABLES
  plan,       \* the scenario of this behaviour
  budget      \* how many disturbances it may still contain

mcvars == <<vars, plan, budget>>

\* Admins, policy edits, faults of the agent and restarts at once.
Requests == {[kinds |-> {"admin", "edit", "agent", "restart", "uninstall"}, budget |-> 3, agents |-> Agent]}

\* Nothing but failed or broken polls, restarts and an agent's own faults.
Outage == {"outage", "restart", "agent"}

\* A long outage; or machines that change under an uninstall, or under admins.
Faults == {[kinds |-> Outage, budget |-> 4, agents |-> Agent],
           [kinds |-> {"machine", "edit", "uninstall"}, budget |-> 3, agents |-> Agent],
           [kinds |-> {"machine", "admin", "edit", "uninstall"}, budget |-> 2, agents |-> Agent]}

\* What the safety properties are checked in.
Safety == Requests \union Faults

\* One agent and any two disturbances; or a host that moves between two.
Repairs == {[kinds |-> {"machine", "admin", "edit", "agent"}, budget |-> 2, agents |-> {"a1"}],
            [kinds |-> {"handover"}, budget |-> 2, agents |-> Agent]}

\* The agent a host is taken from has not reported for six minutes.
Silent == IF "handover" \in plan.kinds THEN {"a1"} ELSE {}

\* An admin and an agent that may lose its reports.
LostReports == {[kinds |-> {"admin", "agent"}, budget |-> 2, agents |-> Agent]}

\* Three requests of admins, two of them under way at once.
TwoRequests == {[kinds |-> {"admin"}, budget |-> 3, agents |-> Agent]}

\* A row or a user is removed while accounts are.
Departures == {[kinds |-> {"machine", "admin"}, budget |-> 2, agents |-> Agent]}

\* Every agent on machines of its own, or all of them on the same one.
OwnMachines == Agent \X Ref
MachineEach == [x \in Agent \X Ref |-> x]
OneMachine  == {"shared"}
MachineShared == [x \in Agent \X Ref |-> "shared"]

\* A daemon's account, whose home is under /var.
OnSecond == {<<m, "u1">> : m \in {x \in Machine : x[2] = "r2"}}
Everyone == Machine \X UnixUser

IpOf(r)    == IF r = "r1" THEN "ip1" ELSE "ip2"
LabelOf(r) == IF r = "r1" THEN "web" ELSE "db"
HostIp(h)  == IF h = "h1" THEN "ip1" ELSE "ip2"

Usual == [hosts |-> [h \in Host |-> HostIp(h)], people |-> Person, parses |-> TRUE]

\* What a poll can find when Headscale or the policy is broken, and what an
\* admin may have made of them.
Broken == {[Usual EXCEPT !.hosts = [h \in Host |-> NoIp]],
           [Usual EXCEPT !.people = {}],
           [Usual EXCEPT !.parses = FALSE]}
Edited == {Usual,
           [Usual EXCEPT !.hosts["h1"] = "ip2"],
           [Usual EXCEPT !.hosts["h1"] = NoIp],
           [Usual EXCEPT !.people = @ \ {"p1"}]}

Identity(r) == [ips |-> {IpOf(r)}, label |-> LabelOf(r)]
Identities == {Identity("r1"), [Identity("r1") EXCEPT !.label = "new"]}

\* After the installer ran, the first cycles reported, an admin approved h1
\* on r1 of a1, added a key for each person and let p1 in as u1.
Installed ==
  /\ tables = [keys    |-> Line \cap {<<"p1", "k1">>, <<"p2", "k2">>},
               assigns |-> {<<"h1", "u1", "p1">>},
               targets |-> {[host |-> "h1", agent |-> "a1", ref |-> "r1", ip |-> "ip1",
                             label |-> "web", suspended |-> FALSE]},
               managed |-> {}]
  /\ rev = 4
  /\ agents = [a \in Agent |-> IF a \in plan.agents THEN "active" ELSE "unborn"]
  /\ snap = [rev |-> 1, content |-> Usual]
  /\ boot = 0
  /\ connected = TRUE
  /\ req = [w \in Worker |-> None]
  /\ handed = {}
  /\ up = Machine
  /\ home = [m \in Machine |-> [u \in UnixUser |-> "account"]]
  /\ block = [m \in Machine |-> [u \in UnixUser |-> {}]]
  /\ lost = {}
  /\ lastReport = [a \in Agent |-> IF a \in plan.agents \ Silent THEN Discovery(a, {}) ELSE NoReport]
  /\ loop = [a \in Agent |-> IF a \in plan.agents
                             THEN Between([rev |-> 0, snap |-> 1, boot |-> 0], FALSE) ELSE Off]

MachineIdentity ==
  \A a \in Agent, r \in Ref : Reaches(a, r) => ident[MachineOf[<<a, r>>]] = Identity(r)

\* A tick: the first poll of a process, or one that finds nothing new.
FreePoll == Poll(IF snap = NoSnap THEN Usual ELSE snap.content, FALSE)

\* What happens of itself.
Free ==
  \/ \E a \in Agent : CycleStep(a) \/ Start(a) \/ FullSyncDue(a)
  \/ \E w \in Worker : RequestStep(w)
  \/ FreePoll

Disturbance ==
  \/ /\ "admin" \in plan.kinds /\ AdminStep
     /\ \A a \in Agent \ plan.agents : UNCHANGED agents[a]
  \/ "uninstall" \in plan.kinds /\ \E a \in Agent : Uninstall(a)
  \/ "edit" \in plan.kinds /\ \E c \in Edited, other \in BOOLEAN : Poll(c, other)
  \/ "outage" \in plan.kinds /\ (PollFails \/ \E c \in Broken : Poll(c, FALSE))
  \/ "restart" \in plan.kinds /\ Restart
  \/ /\ "handover" \in plan.kinds
     /\ \E h \in Host : \/ DeleteSSHTarget(h) /\ \E b \in tables.targets : b.host = h /\ b.agent = "a1"
                        \/ CheckApprove(CHOOSE w \in Worker : TRUE, h, "a2", "r1")
  \/ "agent" \in plan.kinds /\ \E a \in Agent : AgentFault(a)
  \/ /\ "machine" \in plan.kinds
     /\ \E m \in Machine :
          \/ PowerOff(m) \/ PowerOn(m)
          \/ \E id \in Identities : Rename(m, id) \/ Replace(m, id)
          \/ \E u \in UnixUser, to \in {"account", "leftover", "nothing"} : ChangeAccount(m, u, to)

MCInit ==
  /\ plan \in Scenario
  /\ budget = plan.budget
  /\ ident \in [Machine -> Identities \union {Identity("r2")}]
  /\ MachineIdentity
  /\ Installed

\* A database just migrated and agents not yet created: the request that
\* creates one comes on top of the budget.
MCBootInit ==
  /\ plan \in Scenario \intersect Requests
  /\ budget = plan.budget + 1
  /\ Init
  /\ MachineIdentity

MCNext ==
  /\ UNCHANGED plan
  /\ \/ Free /\ UNCHANGED budget
     \/ budget > 0 /\ Disturbance /\ budget' = budget - 1

MCSpec == MCInit /\ [][MCNext]_mcvars

MCBootSpec == (MCInit \/ MCBootInit) /\ [][MCNext]_mcvars

\* Agents poll for ever (Loop.Run), systemd starts a stopped one, an hour
\* passes, the watcher ticks (Watcher.Run) and handlers return.
MCFairSpec ==
  /\ MCSpec
  /\ \A a \in Agent : /\ WF_mcvars(CycleStep(a) /\ UNCHANGED <<plan, budget>>)
                      /\ WF_mcvars(Start(a) /\ UNCHANGED <<plan, budget>>)
                      /\ WF_mcvars(FullSyncDue(a) /\ UNCHANGED <<plan, budget>>)
  /\ \A w \in Worker : WF_mcvars(RequestStep(w) /\ UNCHANGED <<plan, budget>>)
  /\ WF_mcvars(FreePoll /\ UNCHANGED <<plan, budget>>)

(* An outage never reads as "revoke everything" (the sync handler,          *)
(* implausible, policyHosts): in a behaviour where the only disturbances    *)
(* are failed polls, an unreadable or empty policy, an empty user list,     *)
(* lost messages and restarts, no block that holds keys ever loses them.    *)
OutageNeverRevokes ==
  [][plan.kinds = Outage =>
       \A m \in Machine, u \in UnixUser : block[m][u] # {} => block'[m][u] = block[m][u]]_mcvars
=============================================================================
