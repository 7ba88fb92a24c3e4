SPECIFICATION MCSpec
CONSTANTS
  Machine = {"laptop", "phone"}
  Owner = {"o1", "o2", "o3"}
  Name = {"alice", "bob", "carol"}
  Ticket = {t1, t2}
  Account = {"ada", "mia"}
  Manager = {"ada"}
  Handler = {h1, h2}
  Loop = Loop
  MaxNode = 4
  Absent = Absent
  Tagged = Tagged
  Unborn = Unborn
  Gone = Gone
  NoName = NoName
  NoOwner = NoOwner
  NoTicket = NoTicket
  Unused = Unused
  Spent = Spent
  NoSnap = NoSnap
  NoRead = NoRead
  Budget = 3
SYMMETRY Same
INVARIANTS
  TypeOK
  ReassignedIsTheDevice
PROPERTIES
  ReassignKeepsTheDevice
  OwnDevicesOnly
  CascadeTakesNewcomersOnly
CHECK_DEADLOCK FALSE
