SPECIFICATION Spec
CONSTANTS
  u = u
  w = w
  bob = bob
  bob1 = bob1
  k1 = k1
  p1 = p1
  p2 = p2
  Ids = {u, w}
  Names = {bob, bob1}
  None = None
  Local <- MCLocal
  Suffixed <- MCSuffixed
  Given = {None, bob1}
  Keys = {k1}
  Workers = {p1, p2}
  MaxProvisions = 2
  MaxDeletes = 2
  MaxEdits = 1
  MaxFailures = 1
SYMMETRY MCSymmetry
CHECK_DEADLOCK FALSE
INVARIANTS
  CredentialsGoFirst
  ResolvedIsOwn
PROPERTIES
  BotsOfOthersSurvive
