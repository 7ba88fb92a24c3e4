---------------------------- MODULE DeviceProofs ----------------------------
(***************************************************************************)
(* The theorems of DeviceAdmin, for every number of machines, people,      *)
(* tickets, accounts and handlers.  Every argument rests on one fact about *)
(* Headscale: whatever happens, a node keeps its id and its machine, and   *)
(* its owner but for tags (Onward), so what a snapshot or a request says   *)
(* of a node stays true until the node is gone (Remembers, Sound).         *)
(***************************************************************************)
EXTENDS DeviceAdmin, TLAPS

\* The part of TypeOK that is Headscale's.
HeadscaleOK ==
  /\ node \in [NodeId -> Node \union {Absent}]
  /\ born \in 0..MaxNode
  /\ \A i \in NodeId : i > born => node[i] = Absent
  /\ person \in [Owner -> Label]
  /\ ticket \in [Ticket -> Machine \union {Unused, Spent}]

\* From the table tab, of n nodes, to the table new, of m: a node that is
\* there was there before, the same but for its tags, or is new.
Onward(tab, n, new, m) ==
  /\ n \in 0..MaxNode /\ m \in 0..MaxNode
  /\ n =< m
  /\ \A i \in NodeId : i =< n /\ new[i] # Absent
       => /\ tab[i] # Absent
          /\ new[i].machine = tab[i].machine
          /\ new[i].owner \in {tab[i].owner, Tagged}

\* What was read of the nodes while b had been registered.
Remembers(tab, n, view, b) ==
  /\ view \in View /\ b \in 0..MaxNode /\ b =< n
  /\ \A i \in NodeId : i > b => view[i] = Absent
  /\ \A i \in NodeId : i =< b /\ tab[i] # Absent
       => /\ view[i] # Absent
          /\ tab[i].machine = view[i].machine
          /\ tab[i].owner \in {view[i].owner, Tagged}

\* What a request in progress was asked for.
Aimed(r) ==
  /\ r.op \in {"delete", "tags", "reassign"} => r.old \in NodeId /\ r.seen \in Seen
  /\ r.op \in {"reassign", "approve", "reject"} => r.ticket \in Ticket
  /\ r.op \in {"rename", "deleteUser"} => r.owner \in Owner
  /\ r.op \in {"create", "rename"} => r.user \in Name
  /\ r.self # NoOwner => r.op = "delete" /\ r.seen.owner = r.self
  /\ r.op # "reassign" => r.pc \notin {"undo", "retire"}

\* The device of the path is still what the snapshot showed, or gone.
SameDevice(tab, n, r) ==
  r.op \in {"delete", "tags", "reassign"}
  => /\ r.old =< n
     /\ tab[r.old] # Absent => /\ tab[r.old].machine = r.seen.machine
                               /\ tab[r.old].owner \in {r.seen.owner, Tagged}

\* How far a reassign has come.
Registered(tab, n, r) ==
  r.op = "reassign" /\ r.pc # "call"
  => /\ r.reg \in NodeId /\ r.reg =< n
     /\ r.pc # "undo" /\ tab[r.reg] # Absent => tab[r.reg].machine = r.seen.machine
     /\ r.pc \in {"finish", "refresh"} => tab[r.old] = Absent

\* The person to be deleted owns nothing the decision knew of.
Emptied(tab, n, r) ==
  r.op = "deleteUser"
  => /\ r.born =< n
     /\ \A i \in NodeId : i =< r.born /\ tab[i] # Absent => tab[i].owner # r.owner

Sound(tab, n, r) ==
  r.pc # "idle" => Aimed(r) /\ SameDevice(tab, n, r) /\ Registered(tab, n, r) /\ Emptied(tab, n, r)

Inv ==
  /\ TypeOK
  /\ snap # NoSnap => Remembers(node, born, snap.nodes, snap.born)
  /\ read # NoRead => Remembers(node, born, read.nodes, read.born)
  /\ \A h \in Handler : Sound(node, born, req[h])

-----------------------------------------------------------------------------
(* What stays true as the table moves on.                                   *)

\* What a snapshot or a read remembers stays true while the table moves on.
LEMMA RemembersOn ==
  ASSUME NEW tab, NEW n, NEW new, NEW m, NEW view, NEW b,
         Onward(tab, n, new, m), Remembers(tab, n, view, b)
  PROVE  Remembers(new, m, view, b)
<1>1. /\ view \in View /\ b \in 0..MaxNode /\ b =< m
      /\ \A i \in NodeId : i > b => view[i] = Absent
  BY DeviceAssumption DEF Onward, Remembers
<1>2. ASSUME NEW i \in NodeId, i =< b, new[i] # Absent
      PROVE  /\ view[i] # Absent
             /\ new[i].machine = view[i].machine
             /\ new[i].owner \in {view[i].owner, Tagged}
  <2>1. i =< n
    BY <1>2, DeviceAssumption DEF Onward, Remembers, NodeId
  <2> QED  BY <2>1, <1>2 DEF Onward, Remembers
<1> QED  BY <1>1, <1>2 DEF Remembers

\* So does what a request under way says of its nodes.
LEMMA SoundOn ==
  ASSUME NEW tab, NEW n, NEW new, NEW m, NEW r \in Request,
         Onward(tab, n, new, m), Sound(tab, n, r)
  PROVE  Sound(new, m, r)
<1> SUFFICES ASSUME r.pc # "idle"
             PROVE  SameDevice(new, m, r) /\ Registered(new, m, r) /\ Emptied(new, m, r)
  BY DEF Sound
<1>1. Aimed(r) /\ SameDevice(tab, n, r) /\ Registered(tab, n, r) /\ Emptied(tab, n, r)
  BY DEF Sound
<1>2. r.old \in 0..MaxNode /\ r.reg \in 0..MaxNode /\ r.born \in 0..MaxNode
  BY DEF Request
<1>3. n \in 0..MaxNode /\ m \in 0..MaxNode /\ n =< m
  BY DEF Onward
<1>4. SameDevice(new, m, r)
  BY <1>1, <1>2, <1>3, DeviceAssumption DEF Aimed, SameDevice, Onward
<1>5. Registered(new, m, r)
  <2> SUFFICES ASSUME r.op = "reassign", r.pc # "call"  PROVE Registered(new, m, r)
    BY DEF Registered
  <2>1. /\ r.old \in NodeId /\ r.old =< n
        /\ r.reg \in NodeId /\ r.reg =< n
    BY <1>1 DEF Aimed, SameDevice, Registered
  <2>2. r.pc # "undo" /\ new[r.reg] # Absent => new[r.reg].machine = r.seen.machine
    BY <1>1, <2>1 DEF Registered, Onward
  <2>3. r.pc \in {"finish", "refresh"} => new[r.old] = Absent
    BY <1>1, <2>1 DEF Registered, Onward
  <2> QED  BY <1>3, <2>1, <2>2, <2>3, DeviceAssumption DEF Registered, NodeId
<1>6. Emptied(new, m, r)
  <2> SUFFICES ASSUME r.op = "deleteUser"  PROVE Emptied(new, m, r)
    BY DEF Emptied
  <2>1. r.owner \in Owner /\ r.born =< n
    BY <1>1 DEF Aimed, Emptied
  <2>2. ASSUME NEW i \in NodeId, i =< r.born, new[i] # Absent  PROVE new[i].owner # r.owner
    <3>1. i =< n
      BY <2>1, <2>2, <1>2, <1>3, DeviceAssumption DEF NodeId
    <3>2. tab[i] # Absent /\ new[i].owner \in {tab[i].owner, Tagged}
      BY <3>1, <2>2 DEF Onward
    <3> QED  BY <1>1, <2>1, <2>2, <3>2, DeviceAssumption DEF Emptied
  <2> QED  BY <2>1, <2>2, <1>2, <1>3, DeviceAssumption DEF Emptied
<1> QED  BY <1>4, <1>5, <1>6

\* A handler without a request says nothing.
LEMMA IdleSound ==
  ASSUME NEW tab, NEW n  PROVE Idle \in Request /\ Sound(tab, n, Idle)
BY DeviceAssumption DEF Idle, Request, Sound, Op

\* So is a request that names no device and is not to delete a person.
LEMMA AskSound ==
  ASSUME NEW tab, NEW n, NEW r, Aimed(r),
         r.op \notin {"delete", "tags", "reassign", "deleteUser"}
  PROVE  Sound(tab, n, r)
BY DEF Sound, SameDevice, Registered, Emptied

-----------------------------------------------------------------------------
(* Headscale's own steps.                                                   *)

\* RegisterNode: the same person keeps the node, another gets a new id.
LEMMA HeadscaleRegisters ==
  ASSUME HeadscaleOK, NEW t \in Ticket, NEW o \in Owner, NEW i \in NodeId, Registers(t, o, i)
  PROVE  /\ HeadscaleOK' /\ Onward(node, born, node', born')
         /\ i =< born' /\ node'[i].machine = ticket[t]
<1> DEFINE new == [machine |-> ticket[t], owner |-> o]
<1>1. new \in Node /\ new # Absent
  BY DeviceAssumption DEF HeadscaleOK, Registers, Node
<1>2. ticket' \in [Ticket -> Machine \union {Unused, Spent}] /\ person' = person
  BY DEF HeadscaleOK, Registers
<1>3. CASE node[i] = new /\ UNCHANGED <<node, born>>
  BY <1>1, <1>2, <1>3, DeviceAssumption DEF HeadscaleOK, Onward, NodeId
<1>4. CASE i = born + 1 /\ born' = i /\ node' = [node EXCEPT ![i] = new]
  BY <1>1, <1>2, <1>4, DeviceAssumption DEF HeadscaleOK, Onward, NodeId
<1> QED  BY <1>3, <1>4 DEF Registers

\* DeleteNode: the id is never given again.
LEMMA HeadscaleRemoves ==
  ASSUME HeadscaleOK, NEW i \in NodeId, Removes(i)
  PROVE  HeadscaleOK' /\ Onward(node, born, node', born') /\ node'[i] = Absent
BY DeviceAssumption DEF HeadscaleOK, Removes, Onward, NodeId

\* SetTags: the node stays the machine's and belongs to nobody.
LEMMA HeadscaleTags ==
  ASSUME HeadscaleOK, NEW i \in NodeId, Tags(i)
  PROVE  HeadscaleOK' /\ Onward(node, born, node', born')
<1>1. node[i] \in Node /\ [node[i] EXCEPT !.owner = Tagged] \in Node
  BY DEF HeadscaleOK, Tags, Node
<1>2. node' = [node EXCEPT ![i] = [node[i] EXCEPT !.owner = Tagged]]
  BY DEF Tags
<1> QED  BY <1>1, <1>2, DeviceAssumption DEF HeadscaleOK, Tags, Onward, NodeId, Node

\* CreateUser and RenameUser touch no node.
LEMMA HeadscaleNames ==
  ASSUME HeadscaleOK, NEW o \in Owner, NEW n \in Name, Names(o, n)
  PROVE  HeadscaleOK' /\ Onward(node, born, node', born')
BY DeviceAssumption DEF HeadscaleOK, Names, Onward, Label

\* DeleteUser takes the nodes of the person with it.
LEMMA HeadscaleDrops ==
  ASSUME HeadscaleOK, NEW o \in Owner, Drops(o)
  PROVE  HeadscaleOK' /\ Onward(node, born, node', born')
BY DeviceAssumption DEF HeadscaleOK, Drops, Onward, Label

\* A step that leaves the nodes alone moves the table on trivially.
LEMMA HeadscaleStands ==
  ASSUME HeadscaleOK, UNCHANGED <<node, born>>
  PROVE  Onward(node, born, node', born')
BY DeviceAssumption DEF HeadscaleOK, Onward

-----------------------------------------------------------------------------
(* A step keeps the invariant when the table moves on and the handler that  *)
(* takes it is sound; the watcher and the other handlers follow.            *)

\* A step of a handler, which also sets its own request.
LEMMA HandlerStep ==
  ASSUME Inv, HeadscaleOK', Onward(node, born, node', born'), UNCHANGED <<link, watcher>>,
         NEW h \in Handler, NEW new \in Request, Sound(node', born', new),
         req' = [req EXCEPT ![h] = new]
  PROVE  Inv'
<1>1. TypeOK'
  BY DEF Inv, TypeOK, HeadscaleOK, watcher
<1>2. snap # NoSnap => Remembers(node', born', snap.nodes, snap.born)
  BY RemembersOn DEF Inv
<1>3. read # NoRead => Remembers(node', born', read.nodes, read.born)
  BY RemembersOn DEF Inv
<1>4. ASSUME NEW g \in Handler  PROVE Sound(node', born', req'[g])
  <2>1. req[g] \in Request /\ Sound(node, born, req[g])
    BY DEF Inv, TypeOK
  <2>2. Sound(node', born', req[g])
    BY <2>1, SoundOn
  <2> QED  BY <2>2 DEF Inv, TypeOK
<1> QED  BY <1>1, <1>2, <1>3, <1>4 DEF Inv, watcher

\* A step that leaves every request as it is.
LEMMA OtherStep ==
  ASSUME Inv, HeadscaleOK', Onward(node, born, node', born'), UNCHANGED <<link, watcher, req>>
  PROVE  Inv'
<1>1. TypeOK'
  BY DEF Inv, TypeOK, HeadscaleOK, watcher
<1>2. snap # NoSnap => Remembers(node', born', snap.nodes, snap.born)
  BY RemembersOn DEF Inv
<1>3. read # NoRead => Remembers(node', born', read.nodes, read.born)
  BY RemembersOn DEF Inv
<1>4. ASSUME NEW g \in Handler  PROVE Sound(node', born', req'[g])
  BY SoundOn DEF Inv, TypeOK
<1> QED  BY <1>1, <1>2, <1>3, <1>4 DEF Inv, watcher

\* The invariant has Headscale's types.
LEMMA InvHeadscale == Inv => HeadscaleOK
BY DEF Inv, TypeOK, HeadscaleOK

\* What a handler reads of a device in the snapshot.
LEMMA ListedDevice ==
  ASSUME Inv, NEW i \in NodeId, Listed(i)
  PROVE  /\ snap.nodes[i] \in Seen /\ i =< born
         /\ node[i] # Absent => /\ node[i].machine = snap.nodes[i].machine
                                /\ node[i].owner \in {snap.nodes[i].owner, Tagged}
<1>1. /\ snap.nodes[i] \in Seen /\ snap.nodes[i] # Absent
      /\ Remembers(node, born, snap.nodes, snap.born)
  BY DEF Inv, Listed, Remembers, View
<1>2. i =< snap.born
  BY <1>1, DeviceAssumption DEF Remembers, NodeId
<1>3. snap.born =< born /\ snap.born \in 0..MaxNode /\ born \in 0..MaxNode
  BY <1>1 DEF Inv, TypeOK, Remembers
<1> QED  BY <1>1, <1>2, <1>3, DeviceAssumption DEF Remembers, NodeId

\* A handler that has decided and is about to call.
LEMMA AsksStep ==
  ASSUME Inv, NEW h \in Handler, NEW new \in Request, Sound(node, born, new), Asks(h, new)
  PROVE  Inv'
<1>1. HeadscaleOK' /\ Onward(node, born, node', born')
  BY InvHeadscale, HeadscaleStands DEF Asks, headscale, HeadscaleOK
<1>2. Sound(node', born', new)
  BY DEF Asks, headscale
<1> QED  BY <1>1, <1>2, HandlerStep DEF Asks

\* Every handler decides on the snapshot, which the invariant says is sound.
LEMMA EnterKeeps ==
  ASSUME Inv, NEW h \in Handler, EnterStep(h)
  PROVE  Inv'
<1>1. ASSUME NEW a \in Account, NEW i \in NodeId, NEW t \in Ticket, NEW n \in Name,
             EnterReassign(h, a, i, t, n)
      PROVE  Inv'
  <2> DEFINE new == [Idle EXCEPT !.pc = "call", !.op = "reassign", !.old = i, !.seen = snap.nodes[i],
                                 !.ticket = t, !.user = n]
  <2>1. /\ snap.nodes[i] \in Seen /\ i \in 0..MaxNode /\ i =< born
        /\ node[i] # Absent => /\ node[i].machine = snap.nodes[i].machine
                               /\ node[i].owner \in {snap.nodes[i].owner, Tagged}
    BY <1>1, ListedDevice DEF EnterReassign, NodeId
  <2>2. /\ new \in Request
        /\ new.pc = "call" /\ new.op = "reassign" /\ new.old = i /\ new.seen = snap.nodes[i]
        /\ new.ticket = t /\ new.self = NoOwner
    BY <2>1, IdleSound DEF Idle, Request, Op
  <2>3. Sound(node, born, new)
    BY <2>1, <2>2 DEF Sound, Aimed, SameDevice, Registered, Emptied
  <2> QED  BY <1>1, <2>2, <2>3, AsksStep DEF EnterReassign
<1>2. ASSUME NEW a \in Account, NEW i \in NodeId, EnterDelete(h, a, i)
      PROVE  Inv'
  <2> DEFINE self == IF a \in Manager THEN NoOwner ELSE link[a]
             new == [Idle EXCEPT !.pc = "call", !.op = "delete", !.old = i, !.seen = snap.nodes[i],
                                 !.self = self]
  <2>1. self \in Owner \union {NoOwner} /\ (self # NoOwner => snap.nodes[i].owner = self)
    BY <1>2 DEF EnterDelete, OwnsHeadscaleUser, Inv, TypeOK
  <2>2. /\ snap.nodes[i] \in Seen /\ i \in 0..MaxNode /\ i =< born
        /\ node[i] # Absent => /\ node[i].machine = snap.nodes[i].machine
                               /\ node[i].owner \in {snap.nodes[i].owner, Tagged}
    BY <1>2, ListedDevice DEF EnterDelete, NodeId
  <2>3. Asks(h, new)
    BY <1>2 DEF EnterDelete
  <2> HIDE DEF self
  <2>4. /\ new \in Request
        /\ new.pc = "call" /\ new.op = "delete" /\ new.old = i /\ new.seen = snap.nodes[i]
        /\ new.self = self
    BY <2>1, <2>2, IdleSound DEF Idle, Request, Op
  <2>5. Sound(node, born, new)
    BY <2>1, <2>2, <2>4 DEF Sound, Aimed, SameDevice, Registered, Emptied
  <2> QED  BY <2>3, <2>4, <2>5, AsksStep
<1>3. ASSUME NEW a \in Account, NEW i \in NodeId, EnterTags(h, a, i)
      PROVE  Inv'
  <2> DEFINE new == [Idle EXCEPT !.pc = "call", !.op = "tags", !.old = i, !.seen = snap.nodes[i]]
  <2>1. /\ snap.nodes[i] \in Seen /\ i \in 0..MaxNode /\ i =< born
        /\ node[i] # Absent => /\ node[i].machine = snap.nodes[i].machine
                               /\ node[i].owner \in {snap.nodes[i].owner, Tagged}
    BY <1>3, ListedDevice DEF EnterTags, NodeId
  <2>2. /\ new \in Request
        /\ new.pc = "call" /\ new.op = "tags" /\ new.old = i /\ new.seen = snap.nodes[i]
        /\ new.self = NoOwner
    BY <2>1, IdleSound DEF Idle, Request, Op
  <2>3. Sound(node, born, new)
    BY <2>1, <2>2 DEF Sound, Aimed, SameDevice, Registered, Emptied
  <2> QED  BY <1>3, <2>2, <2>3, AsksStep DEF EnterTags
<1>4. ASSUME NEW a \in Account, NEW t \in Ticket, NEW n \in Name \union {NoName},
             EnterApprove(h, a, t, n)
      PROVE  Inv'
  <2> DEFINE new == [Idle EXCEPT !.pc = "call", !.op = "approve", !.ticket = t, !.user = n]
  <2>1. new \in Request /\ new.pc = "call" /\ new.op = "approve" /\ new.self = NoOwner /\ new.ticket = t
    BY IdleSound DEF Idle, Request, Op
  <2>2. Sound(node, born, new)
    <3> HIDE DEF new
    <3>1. Aimed(new)
      BY <2>1 DEF Aimed
    <3> QED  BY <2>1, <3>1, AskSound
  <2> QED  BY <1>4, <2>1, <2>2, AsksStep DEF EnterApprove
<1>5. ASSUME NEW a \in Account, NEW t \in Ticket, EnterReject(h, a, t)
      PROVE  Inv'
  <2> DEFINE new == [Idle EXCEPT !.pc = "call", !.op = "reject", !.ticket = t]
  <2>1. new \in Request /\ new.pc = "call" /\ new.op = "reject" /\ new.self = NoOwner /\ new.ticket = t
    BY IdleSound DEF Idle, Request, Op
  <2>2. Sound(node, born, new)
    <3> HIDE DEF new
    <3>1. Aimed(new)
      BY <2>1 DEF Aimed
    <3> QED  BY <2>1, <3>1, AskSound
  <2> QED  BY <1>5, <2>1, <2>2, AsksStep DEF EnterReject
<1>6. ASSUME NEW a \in Account, NEW o \in Owner, NEW n \in Name, EnterRename(h, a, o, n)
      PROVE  Inv'
  <2> DEFINE new == [Idle EXCEPT !.pc = "call", !.op = "rename", !.owner = o, !.user = n]
  <2>1. new \in Request /\ new.pc = "call" /\ new.op = "rename" /\ new.self = NoOwner /\ new.owner = o /\ new.user = n
    BY IdleSound DEF Idle, Request, Op
  <2>2. Sound(node, born, new)
    <3> HIDE DEF new
    <3>1. Aimed(new)
      BY <2>1 DEF Aimed
    <3> QED  BY <2>1, <3>1, AskSound
  <2> QED  BY <1>6, <2>1, <2>2, AsksStep DEF EnterRename
<1>7. ASSUME NEW a \in Account, NEW o \in Owner, EnterDeleteUser(h, a, o)
      PROVE  Inv'
  <2> DEFINE new == [Idle EXCEPT !.pc = "call", !.op = "deleteUser", !.owner = o, !.born = snap.born]
  <2>1. Remembers(node, born, snap.nodes, snap.born)
    BY <1>7 DEF EnterDeleteUser, Inv
  <2>2. ASSUME NEW i \in NodeId, i =< snap.born, node[i] # Absent  PROVE node[i].owner # o
    BY <2>1, <2>2, <1>7, DeviceAssumption DEF EnterDeleteUser, Listed, Remembers
  <2>3. /\ new \in Request /\ new.pc = "call" /\ new.op = "deleteUser" /\ new.self = NoOwner
        /\ new.owner = o /\ new.born = snap.born /\ snap.born =< born
    BY <2>1, IdleSound DEF Remembers, Idle, Request, Op
  <2>4. Sound(node, born, new)
    <3> HIDE DEF new
    <3>1. Aimed(new)
      BY <2>3 DEF Aimed
    <3>2. SameDevice(node, born, new) /\ Registered(node, born, new)
      BY <2>3 DEF SameDevice, Registered
    <3>3. Emptied(node, born, new)
      BY <2>2, <2>3 DEF Emptied
    <3> QED  BY <3>1, <3>2, <3>3 DEF Sound
  <2> QED  BY <1>7, <2>3, <2>4, AsksStep DEF EnterDeleteUser
<1>8. PICK a \in Account :
        \/ \E i \in NodeId : EnterDelete(h, a, i) \/ EnterTags(h, a, i)
        \/ \E i \in NodeId, t \in Ticket, n \in Name : EnterReassign(h, a, i, t, n)
        \/ \E t \in Ticket : EnterReject(h, a, t) \/ \E n \in Name \union {NoName} : EnterApprove(h, a, t, n)
        \/ \E n \in Name : EnterCreate(h, a, n) \/ \E o \in Owner : EnterRename(h, a, o, n)
        \/ \E o \in Owner : EnterDeleteUser(h, a, o)
  BY DEF EnterStep
<1>9. ASSUME NEW n \in Name, EnterCreate(h, a, n)
      PROVE  Inv'
  <2> DEFINE new == [Idle EXCEPT !.pc = "call", !.op = "create", !.user = n]
  <2>1. new \in Request /\ new.pc = "call" /\ new.op = "create" /\ new.self = NoOwner /\ new.user = n
    BY IdleSound DEF Idle, Request, Op
  <2>2. Sound(node, born, new)
    <3> HIDE DEF new
    <3>1. Aimed(new)
      BY <2>1 DEF Aimed
    <3> QED  BY <2>1, <3>1, AskSound
  <2> QED  BY <1>9, <2>1, <2>2, AsksStep DEF EnterCreate
<1> QED  BY <1>1, <1>2, <1>3, <1>4, <1>5, <1>6, <1>7, <1>8, <1>9

-----------------------------------------------------------------------------
(* The calls.                                                               *)

\* The handler goes on to pc, or returns.
LEMMA AnsweredStep ==
  ASSUME Inv, HeadscaleOK', Onward(node, born, node', born'), NEW h \in Handler,
         NEW pc \in {"finish", "refresh"}, Answered(h, pc), req[h].pc # "idle",
         req[h].op = "reassign" => Registered(node', born', [req[h] EXCEPT !.pc = pc])
  PROVE  Inv'
<1>1. req[h] \in Request /\ Sound(node, born, req[h])
  BY DEF Inv, TypeOK
<1>2. Sound(node', born', req[h])
  BY <1>1, SoundOn
<1> DEFINE new == [req[h] EXCEPT !.pc = pc]
<1>3. new \in Request /\ Sound(node', born', new)
  <2>1. /\ new \in Request /\ new.pc = pc /\ new.op = req[h].op /\ new.self = req[h].self
        /\ new.old = req[h].old /\ new.seen = req[h].seen /\ new.ticket = req[h].ticket
        /\ new.user = req[h].user /\ new.owner = req[h].owner /\ new.born = req[h].born
    BY <1>1 DEF Request
  <2>2. new.op = "reassign" => Registered(node', born', new)
    BY <2>1
  <2> HIDE DEF new
  <2>3. Aimed(req[h]) /\ SameDevice(node', born', req[h]) /\ Emptied(node', born', req[h])
    BY <1>2 DEF Sound
  <2>4. Aimed(new)
    BY <2>1, <2>3 DEF Aimed
  <2>5. SameDevice(node', born', new)
    BY <2>1, <2>3, Zenon DEF SameDevice
  <2>6. Registered(node', born', new)
    BY <2>2 DEF Registered
  <2>7. Emptied(node', born', new)
    BY <2>1, <2>3, Zenon DEF Emptied
  <2> QED  BY <2>1, <2>4, <2>5, <2>6, <2>7 DEF Sound
<1>4. Idle \in Request /\ Sound(node', born', Idle)
  BY IdleSound
<1>5. UNCHANGED <<link, watcher>>
  BY DEF Answered
<1>6. CASE req' = [req EXCEPT ![h] = Idle]
  BY <1>4, <1>5, <1>6, HandlerStep
<1>7. CASE Moves(h, pc)
  <2>1. req' = [req EXCEPT ![h] = new]
    BY <1>7, <1>1 DEF Moves
  <2> QED  BY <1>3, <1>5, <2>1, HandlerStep
<1> QED  BY <1>6, <1>7 DEF Answered

\* Every call, carried out, refused or unanswered.
LEMMA CallKeeps ==
  ASSUME Inv, NEW h \in Handler, CallStep(h) \/ CallFails(h)
  PROVE  Inv'
<1> DEFINE r == req[h]
<1>0. HeadscaleOK /\ r \in Request /\ Sound(node, born, r)
  BY InvHeadscale DEF Inv, TypeOK
<1>1. CASE Register(h)
  <2>1. /\ r.pc = "call" /\ r.op = "reassign" /\ Aimed(r) /\ SameDevice(node, born, r)
        /\ r.ticket \in Ticket /\ r.old \in NodeId
    BY <1>0, <1>1 DEF Register, Calling, Sound, Aimed
  <2>2. PICK o \in Owner, i \in NodeId :
          /\ Registers(r.ticket, o, i)
          /\ \/ req' = [req EXCEPT
                    ![h].pc = IF node'[i].machine = r.seen.machine THEN "retire" ELSE "undo",
                    ![h].reg = i, ![h].again = (node[i] # Absent)]
             \/ req' = [req EXCEPT ![h] = Idle]
    BY <1>1 DEF Register
  <2>3. HeadscaleOK' /\ Onward(node, born, node', born') /\ i =< born'
    BY <1>0, <2>1, <2>2, HeadscaleRegisters
  <2>4. Sound(node', born', r)
    BY <1>0, <2>3, SoundOn
  <2>5. UNCHANGED <<link, watcher>>
    BY <1>1 DEF Register
  <2>6. CASE req' = [req EXCEPT ![h] = Idle]
    BY <2>3, <2>5, <2>6, IdleSound, HandlerStep
  <2>7. CASE req' = [req EXCEPT
                    ![h].pc = IF node'[i].machine = r.seen.machine THEN "retire" ELSE "undo",
                    ![h].reg = i, ![h].again = (node[i] # Absent)]
    <3> DEFINE pc == IF node'[i].machine = r.seen.machine THEN "retire" ELSE "undo"
               again == (node[i] # Absent)
               new == [r EXCEPT !.pc = pc, !.reg = i, !.again = again]
    <3>1. i \in 0..MaxNode /\ again \in BOOLEAN /\ pc \in {"retire", "undo"}
      BY DEF NodeId
    <3>2. pc # "undo" => node'[i].machine = r.seen.machine
      OBVIOUS
    <3>3. req' = [req EXCEPT ![h] = new]
      BY <2>7, <1>0
    <3> HIDE DEF pc, again
    <3>4. /\ new \in Request
          /\ new.pc = pc /\ new.reg = i /\ new.op = r.op /\ new.old = r.old /\ new.seen = r.seen
          /\ new.ticket = r.ticket /\ new.self = r.self
      BY <1>0, <3>1 DEF Request
    <3>5. SameDevice(node', born', r)
      BY <2>1, <2>4 DEF Sound
    <3> HIDE DEF new
    <3>6. Aimed(new) /\ SameDevice(node', born', new) /\ Emptied(node', born', new)
      BY <2>1, <3>1, <3>4, <3>5 DEF Aimed, SameDevice, Emptied
    <3>7. Registered(node', born', new)
      BY <2>3, <3>1, <3>2, <3>4 DEF Registered
    <3>8. Sound(node', born', new)
      BY <3>6, <3>7 DEF Sound
    <3> QED  BY <2>3, <2>5, <3>3, <3>4, <3>8, HandlerStep
  <2> QED  BY <2>2, <2>6, <2>7
<1>2. CASE Undo(h)
  <2>1. r.reg \in NodeId
    BY <1>0, <1>2 DEF Undo, Sound, Aimed, Registered
  <2>2. HeadscaleOK' /\ Onward(node, born, node', born')
    BY <1>0, <1>2, <2>1, HeadscaleRemoves DEF Undo
  <2> QED  BY <1>2, <2>2, IdleSound, HandlerStep DEF Undo
<1>3. CASE Retire(h)
  <2>1. r.old \in NodeId /\ r.op = "reassign"
    BY <1>0, <1>3 DEF Retire, Sound, Aimed
  <2>2. HeadscaleOK' /\ Onward(node, born, node', born') /\ node'[r.old] = Absent
    BY <1>0, <1>3, <2>1, HeadscaleRemoves DEF Retire
  <2>3. Sound(node', born', r)
    BY <1>0, <2>2, SoundOn
  <2>4. Registered(node', born', [r EXCEPT !.pc = "finish"])
    BY <1>0, <1>3, <2>2, <2>3 DEF Retire, Request, Sound, Registered
  <2> QED  BY <1>3, <2>2, <2>4, AnsweredStep DEF Retire
<1>4. CASE DeleteNode(h) \/ SetTags(h)
  <2>1. r.old \in NodeId /\ r.op # "reassign" /\ r.pc # "idle"
    BY <1>0, <1>4 DEF DeleteNode, SetTags, Calling, Sound, Aimed
  <2>2. HeadscaleOK' /\ Onward(node, born, node', born') /\ Answered(h, "finish")
    BY <1>0, <1>4, <2>1, HeadscaleRemoves, HeadscaleTags DEF DeleteNode, SetTags
  <2> QED  BY <2>1, <2>2, AnsweredStep
<1>5. CASE Approve(h)
  <2>1. r.ticket \in Ticket /\ r.op # "reassign" /\ r.pc # "idle"
    BY <1>0, <1>5 DEF Approve, Calling, Sound, Aimed
  <2>2. HeadscaleOK' /\ Onward(node, born, node', born') /\ Answered(h, "finish")
    BY <1>0, <1>5, <2>1, HeadscaleRegisters DEF Approve
  <2> QED  BY <2>1, <2>2, AnsweredStep
<1>6. CASE RejectRegistration(h)
  <2>1. r.ticket \in Ticket /\ r.op # "reassign" /\ r.pc # "idle"
    BY <1>0, <1>6 DEF RejectRegistration, Calling, Sound, Aimed
  <2>2. HeadscaleOK' /\ Onward(node, born, node', born') /\ Answered(h, "finish")
    BY <1>0, <1>6, <2>1, HeadscaleStands DEF RejectRegistration, HeadscaleOK
  <2> QED  BY <2>1, <2>2, AnsweredStep
<1>7. CASE CreateUser(h) \/ RenameUser(h) \/ DeleteUser(h)
  <2>1. /\ r.op # "reassign" /\ r.pc # "idle"
        /\ r.op \in {"create", "rename"} => r.user \in Name
        /\ r.op \in {"rename", "deleteUser"} => r.owner \in Owner
    BY <1>0, <1>7 DEF CreateUser, RenameUser, DeleteUser, Calling, Sound, Aimed
  <2>2. HeadscaleOK' /\ Onward(node, born, node', born') /\ Answered(h, "finish")
    BY <1>0, <1>7, <2>1, HeadscaleNames, HeadscaleDrops DEF CreateUser, RenameUser, DeleteUser, Calling
  <2> QED  BY <2>1, <2>2, AnsweredStep
<1>8. CASE CallFails(h)
  <2>1. HeadscaleOK' /\ Onward(node, born, node', born')
    BY <1>0, <1>8, HeadscaleStands DEF CallFails, headscale, HeadscaleOK
  <2> QED  BY <1>8, <2>1, IdleSound, HandlerStep DEF CallFails
<1> QED  BY <1>1, <1>2, <1>3, <1>4, <1>5, <1>6, <1>7, <1>8 DEF CallStep

-----------------------------------------------------------------------------
(* The watcher, and everything else.                                        *)

\* A poll reads the nodes as they are: it remembers them all.
LEMMA ReadKeeps ==
  ASSUME Inv, NEW p \in Handler \union {Loop}, ReadNodes(p)
  PROVE  Inv'
<1>1. Nodes \in View
  <2>1. ASSUME NEW i \in NodeId  PROVE Nodes[i] \in Seen \union {Absent}
    BY DeviceAssumption DEF Nodes, Inv, TypeOK, Node, Seen, Label
  <2> QED  BY <2>1 DEF Nodes, View
<1>2. /\ \A i \in NodeId : i > born => Nodes[i] = Absent
      /\ \A i \in NodeId : node[i] # Absent
           => /\ Nodes[i] # Absent
              /\ node[i].machine = Nodes[i].machine
              /\ node[i].owner = Nodes[i].owner
  <2>1. ASSUME NEW i \in NodeId, node[i] # Absent
        PROVE  /\ Nodes[i] \in Seen
               /\ node[i].machine = Nodes[i].machine
               /\ node[i].owner = Nodes[i].owner
    BY <1>1, <2>1, DeviceAssumption DEF Nodes, Inv, TypeOK, Node, Seen, Label
  <2> QED  BY <2>1, DeviceAssumption DEF Nodes, Inv, TypeOK
<1>3. Remembers(node, born, Nodes, born)
  BY <1>1, <1>2, DeviceAssumption DEF Remembers, Inv, TypeOK
<1>4. read' = [by |-> p, nodes |-> Nodes, born |-> born]
  BY DEF ReadNodes
<1>5. TypeOK'
  BY <1>1, <1>4 DEF ReadNodes, headscale, Inv, TypeOK
<1>6. Remembers(node, born, read'.nodes, read'.born)
  BY <1>3, <1>4
<1> QED  BY <1>5, <1>6 DEF ReadNodes, headscale, Inv

\* The poll ends with the snapshot it brings, or with the one there was.
LEMMA PollKeeps ==
  ASSUME Inv, ReadUsers \/ PollFails
  PROVE  Inv'
<1>1. /\ read # NoRead
      /\ read.by \in Handler \union {Loop} /\ read.nodes \in View /\ read.born \in 0..MaxNode
      /\ Remembers(node, born, read.nodes, read.born)
  BY DEF ReadUsers, PollFails, PollEnds, Inv, TypeOK
<1>2. /\ snap' \in Snapshot \union {NoSnap}
      /\ snap' # NoSnap => Remembers(node, born, snap'.nodes, snap'.born)
  <2>1. CASE snap' = [nodes |-> read.nodes, people |-> person, born |-> read.born]
    BY <1>1, <2>1 DEF Inv, TypeOK, Snapshot
  <2>2. CASE snap' = snap
    BY <2>2 DEF Inv, TypeOK
  <2> QED  BY <2>1, <2>2 DEF ReadUsers, PollFails, PollEnds
<1>3. req' = IF read.by = Loop THEN req ELSE [req EXCEPT ![read.by] = Idle]
  BY DEF ReadUsers, PollFails, PollEnds
<1>4. /\ req' \in [Handler -> Request]
      /\ \A h \in Handler : Sound(node, born, req'[h])
  BY <1>1, <1>3, IdleSound DEF Inv, TypeOK
<1>5. UNCHANGED <<headscale, link>> /\ read' = NoRead
  BY DEF ReadUsers, PollFails, PollEnds
<1> QED  BY <1>2, <1>4, <1>5 DEF headscale, Inv, TypeOK

\* Audit entries, restarts, the console, links and new auth ids.
LEMMA RestKeeps ==
  ASSUME Inv,
         \/ \E h \in Handler : Audit(h)
         \/ Restart \/ Console
         \/ \E a \in Account, o \in Owner \union {NoOwner} : LinkHeadscaleUser(a, o)
         \/ \E t \in Ticket, m \in Machine : PrintAuthId(t, m)
  PROVE  Inv'
<1>0. HeadscaleOK
  BY InvHeadscale
<1>1. ASSUME NEW h \in Handler, Audit(h)  PROVE Inv'
  <2> DEFINE new == [req[h] EXCEPT !.pc = "refresh"]
  <2>1. HeadscaleOK' /\ Onward(node, born, node', born') /\ UNCHANGED <<link, watcher>>
    BY <1>0, <1>1, HeadscaleStands DEF Audit, headscale, HeadscaleOK
  <2>2. req[h] \in Request /\ Sound(node, born, req[h]) /\ req[h].pc = "finish"
    BY <1>1 DEF Audit, Inv, TypeOK
  <2>3. Sound(node', born', req[h])
    BY <2>1, <2>2, SoundOn
  <2>4. new \in Request /\ Sound(node', born', new)
    BY <2>2, <2>3 DEF Request, Sound, Aimed, SameDevice, Registered, Emptied
  <2>5. req' = [req EXCEPT ![h] = new]
    BY <1>1 DEF Audit, Moves
  <2> QED  BY <2>1, <2>4, <2>5, HandlerStep
<1>2. CASE Restart
  BY <1>2, IdleSound DEF Restart, headscale, Inv, TypeOK
<1>3. CASE Console
  <2>1. HeadscaleOK' /\ Onward(node, born, node', born')
    BY <1>0, <1>3, HeadscaleRegisters, HeadscaleRemoves, HeadscaleTags, HeadscaleNames, HeadscaleDrops
    DEF Console
  <2> QED  BY <1>3, <2>1, OtherStep DEF Console
<1>4. ASSUME NEW a \in Account, NEW o \in Owner \union {NoOwner}, LinkHeadscaleUser(a, o)
      PROVE  Inv'
  BY <1>4 DEF LinkHeadscaleUser, headscale, watcher, Inv, TypeOK
<1>5. ASSUME NEW t \in Ticket, NEW m \in Machine, PrintAuthId(t, m)
      PROVE  Inv'
  <2>1. HeadscaleOK' /\ Onward(node, born, node', born')
    BY <1>0, <1>5, HeadscaleStands DEF PrintAuthId, HeadscaleOK
  <2> QED  BY <1>5, <2>1, OtherStep DEF PrintAuthId
<1> QED  BY <1>1, <1>2, <1>3, <1>4, <1>5

\* The invariant holds in the first state, before any poll.
LEMMA InvInit == Init => Inv
<1> SUFFICES ASSUME Init PROVE Inv
  OBVIOUS
<1>1. node \in [NodeId -> Node \union {Absent}] /\ snap = NoSnap /\ read = NoRead
  BY DEF Init
<1>2. TypeOK
  BY IdleSound DEF Init, TypeOK, Label
<1>3. \A h \in Handler : Sound(node, born, req[h])
  BY IdleSound DEF Init
<1> QED  BY <1>1, <1>2, <1>3 DEF Inv

\* Every step keeps it.
LEMMA InvNext == Inv /\ [Next]_vars => Inv'
<1> SUFFICES ASSUME Inv, [Next]_vars PROVE Inv'
  OBVIOUS
<1>1. CASE UNCHANGED vars
  BY <1>1 DEF vars, headscale, watcher, Inv, TypeOK
<1>2. CASE Next
  BY <1>2, EnterKeeps, CallKeeps, ReadKeeps, PollKeeps, RestKeeps DEF Next
<1> QED  BY <1>1, <1>2

\* The inductive invariant of DeviceAdmin.
LEMMA Invariance == Spec => []Inv
BY InvInit, InvNext, PTL DEF Spec

-----------------------------------------------------------------------------
(* The state of the model keeps its types: a node beyond the last one born  *)
(* does not exist, and a snapshot is what ListNodes and ListUsers answered. *)
THEOREM DevicesTyped == Spec => []TypeOK
<1>1. Inv => TypeOK
  BY DEF Inv
<1> QED  BY <1>1, Invariance, PTL

(* Once a reassign reports success the old node is gone, and what it has    *)
(* registered is the same machine or has been deleted since, whoever else   *)
(* calls Headscale meanwhile (reassignNode, finish).                        *)
THEOREM Reassigned == Spec => []ReassignedIsTheDevice
<1>1. Inv => ReassignedIsTheDevice
  BY DEF Inv, Sound, Registered, ReassignedIsTheDevice
<1> QED  BY <1>1, Invariance, PTL

-----------------------------------------------------------------------------
(* Who calls Headscale: only the step of the handler itself.                *)

\* Nodes that change while a handler answers a call were changed by that call.
LEMMA CallOf ==
  ASSUME Inv, Next, NEW h \in Handler, Calls(h), node' # node
  PROVE  CallStep(h)
<1>1. ASSUME NEW g \in Handler, CallStep(g)  PROVE g = h
  <2>1. \A f \in Handler : f # g => req'[f] = req[f]
    BY <1>1 DEF CallStep, Register, Undo, Retire, DeleteNode, SetTags, Approve, RejectRegistration,
                CreateUser, RenameUser, DeleteUser, Answered, Moves, Inv, TypeOK
  <2> QED  BY <2>1 DEF Calls
<1>2. ASSUME NEW g \in Handler, EnterStep(g) \/ CallFails(g) \/ Audit(g)  PROVE node' = node
  BY <1>2 DEF EnterStep, EnterReassign, EnterDelete, EnterTags, EnterApprove, EnterReject, EnterCreate,
              EnterRename, EnterDeleteUser, Asks, CallFails, Audit, headscale
<1>3. ASSUME \/ \E p \in Handler \union {Loop} : ReadNodes(p)
             \/ ReadUsers \/ PollFails \/ Restart
             \/ \E a \in Account, o \in Owner \union {NoOwner} : LinkHeadscaleUser(a, o)
             \/ \E t \in Ticket, m \in Machine : PrintAuthId(t, m)
      PROVE  node' = node
  BY <1>3 DEF ReadNodes, ReadUsers, PollFails, PollEnds, Restart, LinkHeadscaleUser, PrintAuthId, headscale
<1>4. CASE Console
  BY <1>4 DEF Console, Calls
<1> QED  BY <1>1, <1>2, <1>3, <1>4 DEF Next

\* A registration takes no node away.
LEMMA RegistersRemovesNothing ==
  ASSUME HeadscaleOK, NEW t, NEW o \in Owner, NEW j \in NodeId, Registers(t, o, j),
         NEW i \in NodeId, node[i] # Absent
  PROVE  node'[i] # Absent
<1>1. [machine |-> ticket[t], owner |-> o] \in Node
  BY DEF Registers, Node
<1> QED  BY <1>1, DeviceAssumption DEF Registers, HeadscaleOK

(* A reassign that deletes another node than the one it registered deletes  *)
(* one of the same machine, which is registered again unless somebody else  *)
(* has deleted that: whatever the tickets, the names and the other handlers *)
(* do, the old node is not given up for another machine (reassignNode).     *)
THEOREM KeepsTheDevice == Spec => ReassignKeepsTheDevice
<1> DEFINE A == \A h \in Handler, i \in NodeId :
                  /\ req[h].op = "reassign" /\ Calls(h)
                  /\ node[i] # Absent /\ node'[i] = Absent
                  /\ i # req[h].reg
                  => /\ req[h].reg # 0
                     /\ node[req[h].reg] # Absent => node[req[h].reg].machine = node[i].machine
<1>1. Inv /\ [Next]_vars => [A]_vars
  <2> SUFFICES ASSUME Inv, Next, NEW h \in Handler, NEW i \in NodeId,
                      req[h].op = "reassign", Calls(h),
                      node[i] # Absent, node'[i] = Absent, i # req[h].reg
               PROVE  /\ req[h].reg # 0
                      /\ node[req[h].reg] # Absent => node[req[h].reg].machine = node[i].machine
    BY DEF vars
  <2>1. CallStep(h)
    BY CallOf
  <2>2. ~Register(h)
    BY InvHeadscale, RegistersRemovesNothing DEF Register
  <2>3. ~Undo(h)
    BY DEF Undo, Removes, Inv, TypeOK
  <2>4. Retire(h)
    BY <2>1, <2>2, <2>3
    DEF CallStep, Calling, DeleteNode, SetTags, Approve, RejectRegistration, CreateUser, RenameUser, DeleteUser
  <2>5. i = req[h].old
    BY <2>4 DEF Retire, Removes, Inv, TypeOK
  <2>6. req[h].pc = "retire" /\ Sound(node, born, req[h])
    BY <2>4 DEF Retire, Inv
  <2>7. /\ req[h].reg \in NodeId
        /\ node[req[h].reg] # Absent => node[req[h].reg].machine = req[h].seen.machine
        /\ node[i].machine = req[h].seen.machine
    BY <2>5, <2>6 DEF Sound, Registered, SameDevice
  <2> QED  BY <2>7, DeviceAssumption DEF NodeId
<1> QED  BY <1>1, Invariance, PTL DEF Spec, ReassignKeepsTheDevice

(* A member's delete takes a node of the member's own person, or one that   *)
(* has been tagged since, however old the snapshot (deviceForWrite).        *)
THEOREM MembersDeleteTheirOwn == Spec => OwnDevicesOnly
<1> DEFINE A == \A h \in Handler, i \in NodeId :
                  /\ req[h].self # NoOwner /\ Calls(h)
                  /\ node[i] # Absent /\ node'[i] = Absent
                  => node[i].owner \in {req[h].self, Tagged}
<1>1. Inv /\ [Next]_vars => [A]_vars
  <2> SUFFICES ASSUME Inv, Next, NEW h \in Handler, NEW i \in NodeId,
                      req[h].self # NoOwner, Calls(h),
                      node[i] # Absent, node'[i] = Absent
               PROVE  node[i].owner \in {req[h].self, Tagged}
    BY DEF vars
  <2>1. CallStep(h)
    BY CallOf
  <2>2. /\ req[h].op = "delete" /\ req[h].seen.owner = req[h].self
        /\ SameDevice(node, born, req[h]) /\ req[h].pc \notin {"undo", "retire"}
    BY DEF Calls, Inv, Sound, Aimed
  <2>3. DeleteNode(h)
    BY <2>1, <2>2
    DEF CallStep, Calling, Register, Undo, Retire, SetTags, Approve, RejectRegistration,
        CreateUser, RenameUser, DeleteUser
  <2>4. i = req[h].old
    BY <2>3 DEF DeleteNode, Removes, Inv, TypeOK
  <2> QED  BY <2>2, <2>4 DEF SameDevice
<1> QED  BY <1>1, Invariance, PTL DEF Spec, OwnDevicesOnly

(* What goes with a deleted person was registered after the nodes of the    *)
(* snapshot were read on which the deletion was allowed                     *)
(* (deleteTailnetUser): what it showed of that person's never goes.         *)
THEOREM CascadesTakeNewcomers == Spec => CascadeTakesNewcomersOnly
<1> DEFINE A == \A h \in Handler, i \in NodeId :
                  /\ req[h].op = "deleteUser" /\ Calls(h)
                  /\ node[i] # Absent /\ node'[i] = Absent
                  => i > req[h].born
<1>1. Inv /\ [Next]_vars => [A]_vars
  <2> SUFFICES ASSUME Inv, Next, NEW h \in Handler, NEW i \in NodeId,
                      req[h].op = "deleteUser", Calls(h),
                      node[i] # Absent, node'[i] = Absent
               PROVE  i > req[h].born
    BY DEF vars
  <2>1. CallStep(h)
    BY CallOf
  <2>2. Emptied(node, born, req[h]) /\ req[h].pc \notin {"undo", "retire"}
    BY DEF Calls, Inv, Sound, Aimed
  <2>3. DeleteUser(h)
    BY <2>1, <2>2
    DEF CallStep, Calling, Register, Undo, Retire, DeleteNode, SetTags, Approve, RejectRegistration,
        CreateUser, RenameUser
  <2>4. node[i].owner = req[h].owner
    BY <2>3 DEF DeleteUser, Drops, Inv, TypeOK
  <2>5. ~(i =< req[h].born)
    BY <2>2, <2>4 DEF Emptied
  <2>6. req[h].born \in 0..MaxNode
    BY DEF Inv, TypeOK, Request
  <2> QED  BY <2>5, <2>6, DeviceAssumption DEF NodeId
<1> QED  BY <1>1, Invariance, PTL DEF Spec, CascadeTakesNewcomersOnly
=============================================================================
