SPECIFICATION FairSpec
CONSTANTS
  Sids = {s1}
  Tids = {t1, t2, t3}
  a = a
  b = b
  Bytes = {a, b}
  Begins <- Declared
  Chunks <- Pieces
  Nil = Nil
  UploadBytes = 3
  ParamsBytes = 2
  PerSession = 2
  Reservable = 3
  Lifetime = 2
  MaxCrashes = 2
INVARIANTS
  TypeOK
  ResolvedIsDeclared
  LastIsStored
  QuotaHeld
  DiskWithinReservation
PROPERTIES
  ArrivedIsKept
  Released
