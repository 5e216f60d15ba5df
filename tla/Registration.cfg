SPECIFICATION FairSpec
CONSTANTS
  Procs = {p1, p2}
  Journals = {j1, j2}
  p1 = p1
  p2 = p2
  j1 = j1
  j2 = j2
  Placements <- Placed
  Unread = {c1}
  Kinds <- Sending
  c1 = c1
  c2 = c2
  Clients = {c1, c2}
  Regs = {r0, r1, r2}
  Sids = {1, 2, 3, 4, 5, 6}
  Nil = Nil
  Window = 1
  KSessions = 2
  LeaseTime = 1
  MaxSends = 2
  MaxFailures = 1
INVARIANTS
  TypeOK
  OneServes
  HandedOutIsLive
  RetriesShareSession
PROPERTIES
  RegistrationsAnswered
