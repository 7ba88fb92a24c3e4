SPECIFICATION MCSpec
CONSTANTS
  Account = {a1, a2}
  Local = {a1}
  Token = {s1, s2}
  Worker = {w1, w2}
  NoSession = NoSession
  NoOne = NoOne
  MaxPin = 2
  MaxLogin = 2
  Budget = 3
  Roles = {"owner", "member"}
INVARIANTS
  AnOwnerRemains
CHECK_DEADLOCK FALSE
