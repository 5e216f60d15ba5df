SPECIFICATION Spec
CONSTANTS
  Sids = {s1}
  i1 = i1
  i2 = i2
  Ids = {i1, i2}
  Nil = Nil
  Messages <- Duplicates
  Window = 1
  KSessions = 2
  KJobsPerSession = 1
  KBodies = 2
  Budget = 4
  SessionBudget = 4
  MinAvailable = 1
  MaxFrames = 2
  LeaseTime = 1
  MaxTime = 1
  MaxSends = 3
  Allowed <- CrashAndFault
INVARIANTS
  TypeOK
  AtMostOnce
  NoGap
PROPERTIES
  RemovedOnlyIfHandled
