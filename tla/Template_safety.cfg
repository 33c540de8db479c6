SPECIFICATION Spec
CONSTANTS
  a1 = a1
  a2 = a2
  b1 = b1
  b2 = b2
  s1 = s1
  o1 = o1
  o2 = o2
  Boots = {b1, b2}
  Resets = {s1}
  Readme = Readme
  Code = Code
  Extra = Extra
  NoFile = NoFile
  Stub = Stub
  Factory = Factory
  Unmarked = Unmarked
  MaxEdits = 1
  Users = {a1, a2}
  Ops = {o1, o2}
  MaxOps = 4
CHECK_DEADLOCK FALSE
INVARIANTS
  MarkedIsWhole
  AccessFollowsRole
PROPERTIES
  EditsSurvive
  ResetIsExact
