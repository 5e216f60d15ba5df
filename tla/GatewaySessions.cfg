SPECIFICATION Spec
CONSTANTS
  Sids = {s1, s2}
  i1 = i1
  i2 = i2
  Ids = {i1, i2}
  Nil = Nil
  Messages <- Renewals
  Window = 1
  KSessions = 2
  KJobsPerSession = 2
  KBodies = 4
  Budget = 3
  SessionBudget = 2
  MinAvailable = 1
  MaxFrames = 3
  LeaseTime = 1
  MaxTime = 2
  MaxSends = 1
  Allowed <- OneCrash
SYMMETRY SessionSymmetry
INVARIANTS
  OneRunning
  AdmissionOrder
  BudgetHeld
