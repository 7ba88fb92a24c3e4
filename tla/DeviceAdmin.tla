---------------------------- MODULE DeviceAdmin ----------------------------
(***************************************************************************)
(* Devices, people and registrations (internal/api/devices*.go,            *)
(* registrations.go, users.go over internal/hs/mutate.go).  A handler      *)
(* decides on the watcher's snapshot and then calls Headscale, once or     *)
(* several times; a call may be refused, or done with its answer lost.     *)
(*                                                                         *)
(* A device is a machine (its machine key); a node is one of its           *)
(* registrations.  Headscale is external: it never reuses an id, gives a   *)
(* machine that signs in as another person a second node and one that      *)
(* signs in as the same person the node it had, and deletes a person's     *)
(* nodes with the person.                                                  *)
(***************************************************************************)
EXTENDS Naturals, FiniteSets

CONSTANTS
  Machine,    \* machine keys
  Owner,      \* ids of Headscale users
  Name,       \* their names
  Ticket,     \* auth ids a machine may print
  Account,    \* Headboard accounts
  Manager,    \* the accounts whose role may manage devices and people
  Handler,    \* requests in progress
  Loop,       \* the watcher's own loop
  MaxNode     \* how many nodes are ever registered

CONSTANTS Absent, Tagged, Unborn, Gone, NoName, NoOwner, NoTicket, Unused, Spent, NoSnap, NoRead

VARIABLES
  node,     \* Headscale's nodes
  born,     \* how many it has ever registered
  person,   \* its users' names
  ticket,   \* the registrations it holds pending
  link,     \* users.headscale_user_id of each account
  snap,     \* Watcher.snap
  read,     \* the poll in progress: who polls and the nodes it has read
  req       \* the requests in progress

headscale == <<node, born, person, ticket>>
watcher   == <<snap, read>>
vars      == <<headscale, link, watcher, req>>

NodeId == 1..MaxNode
Node   == [machine : Machine, owner : Owner \union {Tagged}]
Label  == Name \union {Unborn, Gone}

\* What ListNodes answers: a node comes with the name of its owner.
Seen     == [machine : Machine, owner : Owner \union {Tagged}, name : Label \union {NoName}]
View     == [NodeId -> Seen \union {Absent}]
Snapshot == [nodes : View, people : [Owner -> Label], born : 0..MaxNode]

Op == {"reassign", "delete", "tags", "approve", "reject", "create", "rename", "deleteUser"}

Request ==
  [pc     : {"idle", "call", "undo", "retire", "finish", "refresh"},
   op     : Op,
   self   : Owner \union {NoOwner},    \* a member's own person, none of a manager
   old    : 0..MaxNode,                \* the device of the path, 0 if there is none
   seen   : Seen \union {Absent},      \* as the snapshot had it
   ticket : Ticket \union {NoTicket},
   user   : Name \union {NoName},
   owner  : Owner \union {NoOwner},    \* the person of the path
   reg    : 0..MaxNode,                \* the node RegisterNode answered
   again  : BOOLEAN,                   \* history: that node was there before
   born   : 0..MaxNode]                \* history: the nodes the decision knew of

ASSUME DeviceAssumption ==
  /\ MaxNode \in Nat
  /\ Manager \subseteq Account
  /\ Tagged \notin Owner /\ NoOwner \notin Owner
  /\ Unborn \notin Name /\ Gone \notin Name /\ NoName \notin Label
  /\ Unused \notin Machine /\ Spent \notin Machine
  /\ Absent \notin Node \union Seen
  /\ NoSnap \notin Snapshot
  /\ NoRead \notin [by : Handler \union {Loop}, nodes : View, born : 0..MaxNode]
  /\ Loop \notin Handler

TypeOK ==
  /\ node \in [NodeId -> Node \union {Absent}]
  /\ born \in 0..MaxNode
  /\ \A i \in NodeId : i > born => node[i] = Absent
  /\ person \in [Owner -> Label]
  /\ ticket \in [Ticket -> Machine \union {Unused, Spent}]
  /\ link \in [Account -> Owner \union {NoOwner}]
  /\ snap \in Snapshot \union {NoSnap}
  /\ read \in [by : Handler \union {Loop}, nodes : View, born : 0..MaxNode] \union {NoRead}
  /\ req \in [Handler -> Request]

-----------------------------------------------------------------------------
Idle == [pc |-> "idle", op |-> "delete", self |-> NoOwner, old |-> 0, seen |-> Absent,
         ticket |-> NoTicket, user |-> NoName, owner |-> NoOwner,
         reg |-> 0, again |-> FALSE, born |-> 0]

\* A server that starts over whatever Headscale holds.
Init ==
  /\ node \in [NodeId -> Node \union {Absent}]
  /\ born \in 0..MaxNode
  /\ \A i \in NodeId : i > born => node[i] = Absent
  /\ person \in [Owner -> Name \union {Unborn}]
  /\ ticket = [t \in Ticket |-> Unused]
  /\ link \in [Account -> Owner \union {NoOwner}]
  /\ snap = NoSnap
  /\ read = NoRead
  /\ req = [h \in Handler |-> Idle]

-----------------------------------------------------------------------------
(* Headscale, as the handlers use it.                                       *)

Registers_Uncounted(t, o, i) ==
  /\ ticket[t] \in Machine
  /\ ticket' = [ticket EXCEPT ![t] = Spent]
  /\ i = born + 1
  /\ node' = [node EXCEPT ![i] = [machine |-> ticket[t], owner |-> o]]
  /\ UNCHANGED <<born, person>>

\* RegisterNode: ticket t becomes node i of person o.
Registers(t, o, i) ==
  /\ ticket[t] \in Machine
  /\ ticket' = [ticket EXCEPT ![t] = Spent]
  /\ LET new == [machine |-> ticket[t], owner |-> o] IN
     \/ node[i] = new /\ UNCHANGED <<node, born>>
     \/ /\ \A j \in NodeId : node[j] # new
        /\ i = born + 1
        /\ born' = i
        /\ node' = [node EXCEPT ![i] = new]
  /\ UNCHANGED person

Removes(i) ==
  /\ node[i] # Absent
  /\ node' = [node EXCEPT ![i] = Absent]
  /\ UNCHANGED <<born, person, ticket>>

Tags(i) ==
  /\ node[i] # Absent
  /\ node' = [node EXCEPT ![i].owner = Tagged]
  /\ UNCHANGED <<born, person, ticket>>

Names(o, n) ==
  /\ \A p \in Owner : person[p] # n
  /\ person' = [person EXCEPT ![o] = n]
  /\ UNCHANGED <<node, born, ticket>>

\* A person's nodes go with the person.
Drops(o) ==
  /\ person[o] \in Name
  /\ person' = [person EXCEPT ![o] = Gone]
  /\ node' = [i \in NodeId |-> IF node[i] # Absent /\ node[i].owner = o THEN Absent ELSE node[i]]
  /\ UNCHANGED <<born, ticket>>

-----------------------------------------------------------------------------
(* A request arrives: the caller is read with its session, the device and   *)
(* the people from the snapshot; a check that fails ends it at once.        *)

Asks(h, new) ==
  /\ req[h].pc = "idle"
  /\ req' = [req EXCEPT ![h] = new]
  /\ UNCHANGED <<headscale, link, watcher>>

Listed(i) == snap # NoSnap /\ i \in NodeId /\ snap.nodes[i] # Absent

OwnsHeadscaleUser_Linked(a, o) == link[a] \in Owner

OwnsHeadscaleUser(a, o) == o \in Owner /\ link[a] = o

EnterReassign(h, a, i, t, n) ==
  /\ a \in Manager /\ Listed(i)
  /\ snap.nodes[i].owner # Tagged
  /\ snap.nodes[i].name # n
  /\ Asks(h, [Idle EXCEPT !.pc = "call", !.op = "reassign", !.old = i, !.seen = snap.nodes[i],
                          !.ticket = t, !.user = n])

\* deviceForWrite: an admin any device, a member its own.
EnterDelete(h, a, i) ==
  /\ Listed(i)
  /\ a \in Manager \/ OwnsHeadscaleUser(a, snap.nodes[i].owner)
  /\ Asks(h, [Idle EXCEPT !.pc = "call", !.op = "delete", !.old = i, !.seen = snap.nodes[i],
                          !.self = IF a \in Manager THEN NoOwner ELSE link[a]])

EnterTags(h, a, i) ==
  /\ a \in Manager /\ Listed(i)
  /\ Asks(h, [Idle EXCEPT !.pc = "call", !.op = "tags", !.old = i, !.seen = snap.nodes[i]])

\* A registration is approved for a named person, or as it stands.
EnterApprove(h, a, t, n) ==
  /\ a \in Manager
  /\ Asks(h, [Idle EXCEPT !.pc = "call", !.op = "approve", !.ticket = t, !.user = n])

EnterReject(h, a, t) ==
  /\ a \in Manager
  /\ Asks(h, [Idle EXCEPT !.pc = "call", !.op = "reject", !.ticket = t])

EnterCreate(h, a, n) ==
  /\ a \in Manager /\ snap # NoSnap
  /\ \A o \in Owner : snap.people[o] # n
  /\ Asks(h, [Idle EXCEPT !.pc = "call", !.op = "create", !.user = n])

EnterRename(h, a, o, n) ==
  /\ a \in Manager
  /\ Asks(h, [Idle EXCEPT !.pc = "call", !.op = "rename", !.owner = o, !.user = n])

EnterDeleteUser_Unchecked(h, a, o) ==
  /\ a \in Manager /\ snap # NoSnap
  /\ Asks(h, [Idle EXCEPT !.pc = "call", !.op = "deleteUser", !.owner = o, !.born = snap.born])

\* Refused while the snapshot shows a device of the person's.
EnterDeleteUser(h, a, o) ==
  /\ a \in Manager /\ snap # NoSnap
  /\ \A i \in NodeId : Listed(i) => snap.nodes[i].owner # o
  /\ Asks(h, [Idle EXCEPT !.pc = "call", !.op = "deleteUser", !.owner = o, !.born = snap.born])

EnterStep(h) ==
  \E a \in Account :
    \/ \E i \in NodeId : EnterDelete(h, a, i) \/ EnterTags(h, a, i)
    \/ \E i \in NodeId, t \in Ticket, n \in Name : EnterReassign(h, a, i, t, n)
    \/ \E t \in Ticket : EnterReject(h, a, t) \/ \E n \in Name \union {NoName} : EnterApprove(h, a, t, n)
    \/ \E n \in Name : EnterCreate(h, a, n) \/ \E o \in Owner : EnterRename(h, a, o, n)
    \/ \E o \in Owner : EnterDeleteUser(h, a, o)

-----------------------------------------------------------------------------
(* The calls.  Whatever goes wrong, the handler returns the error: nothing  *)
(* is audited, nothing refreshed and nothing taken back.                    *)

Calling(h, op) == req[h].pc = "call" /\ req[h].op = op

Moves(h, pc) == req' = [req EXCEPT ![h].pc = pc]

\* Headscale has done it; its answer comes back, or is lost.
Answered(h, pc) ==
  /\ Moves(h, pc) \/ req' = [req EXCEPT ![h] = Idle]
  /\ UNCHANGED <<link, watcher>>

Register_AnyMachine(h) ==
  /\ Calling(h, "reassign")
  /\ \E o \in Owner, i \in NodeId :
       /\ person[o] = req[h].user
       /\ Registers(req[h].ticket, o, i)
       /\ req' = [req EXCEPT ![h].pc = "retire", ![h].reg = i, ![h].again = (node[i] # Absent)]
  /\ UNCHANGED <<link, watcher>>

\* The first call of a reassign: the node that answers must be of the same
\* machine as the device that is moved.
Register(h) ==
  /\ Calling(h, "reassign")
  /\ \E o \in Owner, i \in NodeId :
       /\ person[o] = req[h].user
       /\ Registers(req[h].ticket, o, i)
       /\ \/ req' = [req EXCEPT
                 ![h].pc = IF node'[i].machine = req[h].seen.machine THEN "retire" ELSE "undo",
                 ![h].reg = i, ![h].again = (node[i] # Absent)]
          \/ req' = [req EXCEPT ![h] = Idle]
  /\ UNCHANGED <<link, watcher>>

\* 409: "so nothing was changed".
Undo(h) ==
  /\ req[h].pc = "undo"
  /\ Removes(req[h].reg)
  /\ req' = [req EXCEPT ![h] = Idle]
  /\ UNCHANGED <<link, watcher>>

Retire_Unchecked(h) ==
  /\ req[h].pc = "retire"
  /\ Removes(req[h].old) \/ UNCHANGED headscale
  /\ Answered(h, "finish")

Retire(h) ==
  /\ req[h].pc = "retire"
  /\ Removes(req[h].old)
  /\ Answered(h, "finish")

DeleteNode(h) ==
  /\ Calling(h, "delete")
  /\ Removes(req[h].old)
  /\ Answered(h, "finish")

SetTags(h) ==
  /\ Calling(h, "tags")
  /\ Tags(req[h].old)
  /\ Answered(h, "finish")

\* RegisterNode for the person named, ApproveRegistration when none is.
Approve(h) ==
  /\ Calling(h, "approve")
  /\ \E o \in Owner, i \in NodeId :
       /\ person[o] \in Name
       /\ req[h].user \in {person[o], NoName}
       /\ Registers(req[h].ticket, o, i)
  /\ Answered(h, "finish")

RejectRegistration(h) ==
  /\ Calling(h, "reject")
  /\ ticket[req[h].ticket] \in Machine
  /\ ticket' = [ticket EXCEPT ![req[h].ticket] = Spent]
  /\ UNCHANGED <<node, born, person>>
  /\ Answered(h, "finish")

CreateUser(h) ==
  /\ Calling(h, "create")
  /\ \E o \in Owner : person[o] = Unborn /\ Names(o, req[h].user)
  /\ Answered(h, "finish")

RenameUser(h) ==
  /\ Calling(h, "rename")
  /\ person[req[h].owner] \in Name
  /\ Names(req[h].owner, req[h].user)
  /\ Answered(h, "finish")

DeleteUser(h) ==
  /\ Calling(h, "deleteUser")
  /\ Drops(req[h].owner)
  /\ Answered(h, "finish")

\* Headscale refuses, or cannot be reached.
CallFails(h) ==
  /\ req[h].pc \in {"call", "undo", "retire"}
  /\ req' = [req EXCEPT ![h] = Idle]
  /\ UNCHANGED <<headscale, link, watcher>>

CallStep(h) ==
  \/ Register(h) \/ Undo(h) \/ Retire(h) \/ DeleteNode(h) \/ SetTags(h)
  \/ Approve(h) \/ RejectRegistration(h)
  \/ CreateUser(h) \/ RenameUser(h) \/ DeleteUser(h)

-----------------------------------------------------------------------------
(* finish: the audit entry, then a refresh under the watcher's lock.        *)

Audit(h) ==
  /\ req[h].pc = "finish"
  /\ Moves(h, "refresh")
  /\ UNCHANGED <<headscale, link, watcher>>

Nodes == [i \in NodeId |->
            IF node[i] = Absent THEN Absent
            ELSE [machine |-> node[i].machine, owner |-> node[i].owner,
                  name |-> IF node[i].owner = Tagged THEN NoName ELSE person[node[i].owner]]]

ReadNodes(p) ==
  /\ read = NoRead
  /\ p # Loop => req[p].pc = "refresh"
  /\ read' = [by |-> p, nodes |-> Nodes, born |-> born]
  /\ UNCHANGED <<headscale, link, snap, req>>

\* The poll ends; a handler that waited for it returns.
PollEnds(new) ==
  /\ read # NoRead
  /\ snap' = new
  /\ read' = NoRead
  /\ req' = IF read.by = Loop THEN req ELSE [req EXCEPT ![read.by] = Idle]
  /\ UNCHANGED <<headscale, link>>

ReadUsers == PollEnds([nodes |-> read.nodes, people |-> person, born |-> read.born])

PollFails == PollEnds(snap)

Restart ==
  /\ snap' = NoSnap
  /\ read' = NoRead
  /\ req' = [h \in Handler |-> Idle]
  /\ UNCHANGED <<headscale, link>>

\* Accounts are linked to people, each person to one at most.
LinkHeadscaleUser(a, o) ==
  /\ o \in Owner => \A b \in Account \ {a} : link[b] # o
  /\ link' = [link EXCEPT ![a] = o]
  /\ UNCHANGED <<headscale, watcher, req>>

\* A machine prints an auth id; someone works at Headscale's own console.
PrintAuthId(t, m) ==
  /\ ticket[t] = Unused
  /\ ticket' = [ticket EXCEPT ![t] = m]
  /\ UNCHANGED <<node, born, person, link, watcher, req>>

Console ==
  /\ \/ \E t \in Ticket, o \in Owner, i \in NodeId : person[o] \in Name /\ Registers(t, o, i)
     \/ \E i \in NodeId : Removes(i) \/ Tags(i)
     \/ \E o \in Owner, n \in Name : person[o] \in Name /\ Names(o, n)
     \/ \E o \in Owner : Drops(o)
  /\ UNCHANGED <<link, watcher, req>>

Next ==
  \/ \E h \in Handler : EnterStep(h) \/ CallStep(h) \/ CallFails(h) \/ Audit(h)
  \/ \E p \in Handler \union {Loop} : ReadNodes(p)
  \/ ReadUsers \/ PollFails \/ Restart
  \/ \E a \in Account, o \in Owner \union {NoOwner} : LinkHeadscaleUser(a, o)
  \/ \E t \in Ticket, m \in Machine : PrintAuthId(t, m)
  \/ Console

Spec == Init /\ [][Next]_vars

-----------------------------------------------------------------------------
HasNode(m) == \E i \in NodeId : node[i] # Absent /\ node[i].machine = m

\* Handler h has called Headscale in this step.
Calls(h) == req[h].pc \in {"call", "undo", "retire"} /\ req'[h].pc # req[h].pc

(* "so the device is never left with no node at all" (devices_reassign.go): *)
(* besides the node it has registered itself, a reassign deletes only one   *)
(* of a machine it has registered again, and that registration is there     *)
(* unless somebody else has deleted it.                                     *)
ReassignKeepsTheDevice ==
  [][\A h \in Handler, i \in NodeId :
       /\ req[h].op = "reassign" /\ Calls(h)
       /\ node[i] # Absent /\ node'[i] = Absent
       /\ i # req[h].reg
       => /\ req[h].reg # 0
          /\ node[req[h].reg] # Absent => node[req[h].reg].machine = node[i].machine]_vars

(* "checks it came from the same machine, then removes the old node"        *)
(* (reassignDevice): once a reassign reports success the old node is gone,  *)
(* and what it registered is the same machine, or has been deleted since.   *)
ReassignedIsTheDevice ==
  \A h \in Handler :
    /\ req[h].op = "reassign" /\ req[h].pc \in {"finish", "refresh"}
    => /\ node[req[h].old] = Absent
       /\ node[req[h].reg] # Absent => node[req[h].reg].machine = req[h].seen.machine

(* "you can only change your own devices" (deviceForWrite): however old the *)
(* snapshot a member's delete was allowed on, the node that goes was the    *)
(* member's, or has been tagged since.                                      *)
OwnDevicesOnly ==
  [][\A h \in Handler, i \in NodeId :
       /\ req[h].self # NoOwner /\ Calls(h)
       /\ node[i] # Absent /\ node'[i] = Absent
       => node[i].owner \in {req[h].self, Tagged}]_vars

(* "nobody removes a person and silently takes their laptops off the        *)
(* network" (deleteTailnetUser), as far as the snapshot goes: the nodes     *)
(* that go with a person were registered after it was read.                 *)
CascadeTakesNewcomersOnly ==
  [][\A h \in Handler, i \in NodeId :
       /\ req[h].op = "deleteUser" /\ Calls(h)
       /\ node[i] # Absent /\ node'[i] = Absent
       => i > req[h].born]_vars

(* "that sign-in came from a different machine, so nothing was changed"     *)
(* (reassignNode): violated, because a machine that signs in as the person  *)
(* it already belongs to keeps its node, and the undo deletes that node.    *)
NothingWasChanged ==
  [][\A h \in Handler, m \in Machine :
       req[h].pc = "undo" /\ Calls(h) /\ req[h].again /\ HasNode(m) => HasNode(m)']_vars
=============================================================================
