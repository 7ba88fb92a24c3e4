SPECIFICATION MCBootSpec
CONSTANTS
  Host = {"h1","h2"}
  Ip = {"ip1", "ip2"}
  Label = {"web", "db", "new"}
  Person = {"p1"}
  Key = {"k1"}
  UnixUser = {"u1"}
  Agent = {"a1"}
  Ref = {"r1","r2"}
  Worker = {"w"}
  NoIp = NoIp
  NoLabel = NoLabel
  Absent = Absent
  NoTag = NoTag
  NoSnap = NoSnap
  NoReport = NoReport
  Machine <- OwnMachines
  Self = "self"
  Elsewhere <- OnSecond
  MachineOf <- MachineEach
  Scenario <- Safety
INVARIANTS
  TypeOK
  HeldTagIsSettled
  TagsAreOrdered
  OrdersAreCurrent
PROPERTIES
  OutageNeverRevokes
  RecordOutlivesBlock
  SuspendedIsUntouched
