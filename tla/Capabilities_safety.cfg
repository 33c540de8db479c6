SPECIFICATION Spec
CONSTANTS
  h1 = h1
  h2 = h2
  k1 = k1
  k2 = k2
  s1 = s1
  s2 = s2
  Handlers = {h1, h2}
  Cred = {k1, k2}
  Blob = {s1, s2}
  None = None
  Asks <- MCAsks
  MaxEvents = 3
SYMMETRY MCSymmetry
CHECK_DEADLOCK FALSE
INVARIANTS
  OneCredential
  ToggleIsWhole
