--------------------------- MODULE MCDeviceAdmin ---------------------------
(***************************************************************************)
(* Small instances of DeviceAdmin: two machines of two people, an account  *)
(* that manages devices and one that owns the first, and at most Budget    *)
(* requests, polls, faults and changes from elsewhere in a behaviour.      *)
(***************************************************************************)
EXTENDS DeviceAdmin, TLC

CONSTANT Budget   \* how many requests, polls, faults and changes from elsewhere

VARIABLE budget

mcvars == <<vars, budget>>

Same == Permutations(Handler) \union Permutations(Ticket)

\* After the first poll of a process that has just started.
Usual ==
  /\ node = [i \in NodeId |-> CASE i = 1 -> [machine |-> "laptop", owner |-> "o1"]
                                [] i = 2 -> [machine |-> "phone", owner |-> "o2"]
                                [] OTHER -> Absent]
  /\ born = 2
  /\ person = [o \in Owner |-> CASE o = "o1" -> "alice" [] o = "o2" -> "bob" [] OTHER -> Unborn]
  /\ ticket = [t \in Ticket |-> Unused]
  /\ link = [a \in Account |-> IF a \in Manager THEN NoOwner ELSE "o1"]
  /\ snap = [nodes |-> Nodes, people |-> person, born |-> born]
  /\ read = NoRead
  /\ req = [h \in Handler |-> Idle]

MCInit == Usual /\ budget = Budget

Free ==
  \/ \E h \in Handler : CallStep(h) \/ CallFails(h) \/ Audit(h)
  \/ \E h \in Handler : ReadNodes(h)
  \/ ReadUsers
  \/ snap = NoSnap /\ ReadNodes(Loop)
  \/ \E t \in Ticket, m \in Machine : PrintAuthId(t, m)

Counted ==
  \/ \E h \in Handler : EnterStep(h)
  \/ ReadNodes(Loop) \/ PollFails \/ Restart
  \/ \E a \in Account, o \in Owner \union {NoOwner} : LinkHeadscaleUser(a, o)
  \/ Console

MCNext ==
  \/ Free /\ UNCHANGED budget
  \/ budget > 0 /\ Counted /\ budget' = budget - 1

MCSpec == MCInit /\ [][MCNext]_mcvars
=============================================================================
