SPECIFICATION Spec
CONSTANTS
  Sids = {s1}
  i1 = i1
  i2 = i2
  Ids = {i1, i2}
  Nil = Nil
  Messages <- Renewals
  Window = 1
  KSessions = 2
  KJobsPerSession = 2
  KBodies = 4
  Budget = 4
  SessionBudget = 4
  MinAvailable = 1
  MaxFrames = 1
  LeaseTime = 1
  MaxTime = 3
  MaxSends = 2
  Allowed <- TwoCrashes
INVARIANTS
  ResultHonest
  ActiveRetained
  NoFatalExit
PROPERTIES
  StableOutcome
  LedgerSpec
