SPECIFICATION MCFairSpec
CONSTANTS
  Host = {"h1"}
  Ip = {"ip1", "ip2"}
  Label = {"web", "db", "new"}
  Person = {"p1", "p2"}
  Key = {"k1", "k2"}
  UnixUser = {"u1"}
  Agent = {"a1", "a2"}
  Ref = {"r1"}
  Worker = {"w"}
  NoIp = NoIp
  NoLabel = NoLabel
  Absent = Absent
  NoTag = NoTag
  NoSnap = NoSnap
  NoReport = NoReport
  Machine <- OneMachine
  Self = "r1"
  Elsewhere <- Everyone
  MachineOf <- MachineShared
  Scenario <- Repairs
PROPERTIES
  EventuallySettled
  StrangersAreSuspended
