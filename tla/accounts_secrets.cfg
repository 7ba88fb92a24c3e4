SPECIFICATION MCSpec
CONSTANTS
  Account = {a1, a2}
  Local = {a1}
  Token = {s1, s2, s3}
  Worker = {w1, w2}
  NoSession = NoSession
  NoOne = NoOne
  MaxPin = 2
  MaxLogin = 1
  Budget = 4
  Roles = {"member"}
SYMMETRY Symmetry
INVARIANTS
  TypeOK
  ResetEndsSessions
  SignInsAreLimited
PROPERTIES
  LockHolds
  OnlySignInRevives
CHECK_DEADLOCK FALSE
