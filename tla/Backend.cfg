SPECIFICATION FairSpec
CONSTANTS
  Ops <- Each
  a = a
  b = b
  Tables <- Some
  i1 = i1
  i2 = i2
  Idx = {i1, i2}
  Names = {a, b}
  Cursors = {c1, c2}
  First = First
  Nil = Nil
  PageLimit = 3
  SpoolItems = 1
  MaxOps = 2
  MaxChanges = 1
  MaxBreaks = 1
INVARIANTS
  TypeOK
  NoDangling
  HonestOutcome
  NamesAreFresh
PROPERTIES
  OperationEnds
