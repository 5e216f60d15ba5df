SPECIFICATION Spec
CONSTANTS
  Responses <- Some
  Limit = 4
  Reserve = 1
  RecordFrames = 2
  Window = 2
  Nil = Nil
  MaxRepeats = 1
  MaxRuns = 1
  MaxDrops = 0
CHECK_DEADLOCK FALSE
INVARIANTS
  ExampleDeduplicates
