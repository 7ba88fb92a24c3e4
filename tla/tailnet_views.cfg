SPECIFICATION MCFairSpec
CONSTANTS
  Writer = {w1}
  Tab = {t1}
  NoSnap = NoSnap
  NoWrite = NoWrite
  Loop = Loop
  NoOne = NoOne
  Budget = 3
INVARIANTS
  TypeOK
  ReadsOwnWrite
  RulesFitTheSnapshot
PROPERTIES
  SnapshotsMoveForward
  
  MirrorIsKept
