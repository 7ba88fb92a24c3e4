SPECIFICATION MCSpec
CONSTANTS
  Agent = {"a1", "a2"}
  k1 = k1
  k2 = k2
  Key = {k1, k2}
  Begin = Begin
  End = End
  Quoted = Quoted
  Other = Other
  Order <- Orders
  MaxLines = 4
INVARIANTS
  BlockTypeOK
PROPERTIES
  OutsideIsKept
  AnswersAreTrue
  WritesStayReadable
