SPECIFICATION FairSpec
CONSTANTS
  Responses <- Some
  Limit = 4
  Reserve = 1
  RecordFrames = 2
  Window = 2
  Nil = Nil
  MaxRepeats = 3
  MaxRuns = 3
  MaxDrops = 2
CHECK_DEADLOCK FALSE
INVARIANTS
  TypeOK
  TerminalIsTrue
  ShownIsExact
  NoFalseGap
PROPERTIES
  ClientFinishes
