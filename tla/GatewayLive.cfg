SPECIFICATION FairSpec
CONSTANTS
  Sids = {s1}
  i1 = i1
  i2 = i2
  Ids = {i1, i2}
  Nil = Nil
  Messages <- Progress
  Window = 1
  KSessions = 2
  KJobsPerSession = 1
  KBodies = 2
  Budget = 2
  SessionBudget = 2
  MinAvailable = 1
  MaxFrames = 2
  LeaseTime = 1
  MaxTime = 1
  MaxSends = 2
  Allowed <- CrashAndFault
PROPERTIES
  RequestsConsumed
  ResponsesDelivered
