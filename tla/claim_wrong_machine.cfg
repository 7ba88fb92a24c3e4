SPECIFICATION MCSpec
CONSTANTS
  Machine = {"laptop", "phone"}
  Owner = {"o1", "o2", "o3"}
  Name = {"alice", "bob", "carol"}
  Ticket = {t1}
  Account = {"ada", "mia"}
  Manager = {"ada"}
  Handler = {h1}
  Loop = Loop
  MaxNode = 4
  Absent = Absent
  Tagged = Tagged
  Unborn = Unborn
  Gone = Gone
  NoName = NoName
  NoOwner = NoOwner
  NoTicket = NoTicket
  Unused = Unused
  Spent = Spent
  NoSnap = NoSnap
  NoRead = NoRead
  Budget = 3
PROPERTIES
  NothingWasChanged
CHECK_DEADLOCK FALSE
