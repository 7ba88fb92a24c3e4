----------------------------- MODULE SshDesired -----------------------------
(***************************************************************************)
(* What one SSH agent must hold, computed from the database and from the   *)
(* tailnet snapshot (internal/sshsync/desired.go), and what the agent makes *)
(* of that order once it has looked at its machines (the checks at the     *)
(* head of agent.Apply).  Pure operators: no state lives here.             *)
(*                                                                         *)
(* A key line is a pair <<person, key>>: the text of a line matters to no  *)
(* property, only whose key it is.  An empty managed block and an absent   *)
(* one grant nobody anything and are both the empty set of lines.          *)
(***************************************************************************)
EXTENDS FiniteSets

CONSTANTS
  Host,       \* names in the policy's hosts map
  Ip,         \* addresses
  Label,      \* hostnames machines report
  Person,     \* Headscale users
  Key,        \* public keys
  UnixUser,   \* unix accounts on the servers
  Agent,      \* ids of SSH agents (AUTOINCREMENT: an id is never reused)
  Ref,        \* what an agent calls a machine: a container id, or "self"
  NoIp,       \* not a server, or: no address expected
  NoLabel,    \* hostname unreadable, or: no hostname expected
  Absent      \* a machine that is not running is not discovered

ASSUME MissingValues == NoIp \notin Ip /\ NoLabel \notin Label

Line == Person \X Key

\* One row of ssh_targets.
Binding == [host : Host, agent : Agent, ref : Ref,
            ip : Ip, label : Label \union {NoLabel}, suspended : BOOLEAN]

\* The four tables Desired reads.
Tables == [keys    : SUBSET Line,
           assigns : SUBSET (Host \X UnixUser \X Person),
           targets : SUBSET Binding,
           managed : SUBSET (Agent \X Ref \X UnixUser)]

\* What the snapshot gives it: the servers of the policy and the live users.
HostMap == [Host -> Ip \union {NoIp}]

\* sshsync.Target, one machine's order.
Target == [ref    : Ref,
           ip     : Ip \union {NoIp},
           label  : Label \union {NoLabel},
           writes : SUBSET [user : UnixUser, lines : SUBSET Line],
           clear  : SUBSET UnixUser]

-----------------------------------------------------------------------------
\* StateOf: an address that no longer matches suspends; it is never followed.
StateOf(b, hosts) ==
  IF hosts[b.host] = NoIp THEN "orphan"
  ELSE IF b.suspended \/ hosts[b.host] # b.ip THEN "suspended"
  ELSE "active"

BindingsOf(a, tb) == {b \in tb.targets : b.agent = a}

\* A binding that is suspended freezes its machine: no write and no clear.
Frozen_Nothing(a, hosts, tb) == {}

Frozen(a, hosts, tb) ==
  {b.ref : b \in {c \in BindingsOf(a, tb) : StateOf(c, hosts) = "suspended"}}

\* The unix users with a row for a live person, keys or not.
RowUsers(h, people, tb) ==
  {u \in UnixUser : \E p \in people : <<h, u, p>> \in tb.assigns}

RowLines(h, u, people, tb) ==
  {l \in tb.keys : l[1] \in people /\ <<h, u, l[1]>> \in tb.assigns}

ManagedUsers(a, r, tb) == {u \in UnixUser : <<a, r, u>> \in tb.managed}

ActiveTarget(b, people, tb) ==
  [ref    |-> b.ref,
   ip     |-> b.ip,
   label  |-> b.label,
   writes |-> {[user |-> u, lines |-> RowLines(b.host, u, people, tb)] :
                 u \in RowUsers(b.host, people, tb)},
   clear  |-> ManagedUsers(b.agent, b.ref, tb) \ RowUsers(b.host, people, tb)]

\* Blocks left where nothing is bound any more: clears, and no expectation.
ClearTarget(a, r, tb) ==
  [ref |-> r, ip |-> NoIp, label |-> NoLabel,
   writes |-> {}, clear |-> ManagedUsers(a, r, tb)]

Desired(a, hosts, people, tb) ==
  LET active   == {b \in BindingsOf(a, tb) : StateOf(b, hosts) = "active"}
      leftover == {r \in Ref : /\ ManagedUsers(a, r, tb) # {}
                               /\ \A b \in active : b.ref # r
                               /\ r \notin Frozen(a, hosts, tb)}
  IN  {ActiveTarget(b, people, tb) : b \in active}
        \union {ClearTarget(a, r, tb) : r \in leftover}

\* A world that would revoke everything at once; agents are told to wait.
Implausible_HostsOnly(hosts, people, tb) ==
  (\A h \in Host : hosts[h] = NoIp) /\ tb.targets # {}

Implausible(hosts, people, tb) ==
  \/ /\ \A h \in Host : hosts[h] = NoIp
     /\ tb.targets # {}
  \/ /\ people = {}
     /\ tb.assigns # {}

-----------------------------------------------------------------------------
(* The agent's side: what a cycle's discovery says of each machine. *)

Ident == [ips : SUBSET Ip, label : Label \union {NoLabel}]

ASSUME AbsentIsNoIdent == Absent \notin Ident

\* A running machine whose discovery command failed reports neither.
Unreadable == [ips |-> {}, label |-> NoLabel]

Skipped(t, seen) ==
  \/ seen[t.ref] = Absent
  \/ t.ip # NoIp /\ seen[t.ref].ips = {}
  \/ t.label # NoLabel /\ seen[t.ref].label = NoLabel

Mismatched_AddressOnly(t, seen) ==
  /\ ~Skipped(t, seen)
  /\ t.ip # NoIp /\ t.ip \notin seen[t.ref].ips

Mismatched(t, seen) ==
  /\ ~Skipped(t, seen)
  /\ \/ t.label # NoLabel /\ seen[t.ref].label # t.label
     \/ t.ip # NoIp /\ t.ip \notin seen[t.ref].ips

Ready(t, seen) == ~Skipped(t, seen) /\ ~Mismatched(t, seen)

WriteOps(t) ==
  {[clear |-> FALSE, ref |-> t.ref, user |-> w.user, lines |-> w.lines] : w \in t.writes}

ClearOps(t) ==
  {[clear |-> TRUE, ref |-> t.ref, user |-> u, lines |-> {}] : u \in t.clear}

\* The file operations an order comes down to on the machines that are ready.
Ops(orders, seen) ==
  UNION {WriteOps(t) \union ClearOps(t) : t \in {o \in orders : Ready(o, seen)}}
=============================================================================
