SPECIFICATION MCSpec
CONSTANTS
  Writer = {w1, w2}
  Tab = {}
  NoSnap = NoSnap
  NoWrite = NoWrite
  Loop = Loop
  NoOne = NoOne
  g1 = g1
  t1 = t1
  t2 = t2
  ali = ali
  r1 = r1
  Group = {g1}
  Tag = {t1, t2}
  Person = {ali}
  Route = {r1}
  Refused = Refused
  End = End
  NoDraft = NoDraft
  Stored <- SomePolicies
  Offered <- OfferedEntries
  Listed <- ListedNames
  Scenario <- EditScenarios
INVARIANTS
  EditTypeOK
  DraftTypeOK
  ShownIsSubmitted
PROPERTIES
  GuardSeesAnsweredSaves
  NoFalseConflict
  CascadeLeavesNothingBehind
  CascadeKeepsTheRest
  SavedAsPreviewed
