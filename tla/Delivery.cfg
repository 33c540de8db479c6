SPECIFICATION DeliverySpec
CONSTANTS
  k1 = k1
  k2 = k2
  k3 = k3
  h1 = h1
  h2 = h2
  Keys = {k1, k2, k3}
  Size <- MCSize
  MaxBytes = 10
  Handlers = {h1, h2}
  Nobody = Nobody
  MaxFetches = 4
  MaxFailures = 1
  v1 = v1
  v2 = v2
  u1 = u1
  u2 = u2
  t1 = t1
  t2 = t2
  Caps = {v1, v2}
  Tuning = {u1, u2}
  Token = {t1, t2}
  None = None
  MaxEvents = 2
  MaxCommits = 7
CHECK_DEADLOCK FALSE
INVARIANTS
  Accounted
  ServedWhole
PROPERTIES
  EvictsWhileAbove
  NoLostUpdate
  RollbackNeedsRace
  WorkEnds
