SPECIFICATION Spec
CONSTANTS
  Types <- Catalog
  Inputs <- Values
  Interfaces <- Names
  Base = 4
  PayloadLimit = 40
  MaxDepth = 5
  V4Bits = 2
  V6Bits = 3
  Nil = Nil
CHECK_DEADLOCK FALSE
INVARIANTS
  RoundTrip
  SizeIsExact
  DescribedIsTrue
