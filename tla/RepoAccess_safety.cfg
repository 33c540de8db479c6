SPECIFICATION FairSpec
CONSTANTS
  o = o
  a = a
  b = b
  grp = grp
  w1 = w1
  w2 = w2
  Users = {o, a, b}
  Groups = {grp}
  Everyone = Everyone
  Owner = o
  Reserved = {b}
  Provisioned = {o, b}
  GrantLevels = {1, 2}
  Workers = {w1}
  Sweeper = Sweeper
  MaxEdits = 3
  MaxFailures = 1
INVARIANTS
  CollaboratorsJustified
  SoloSyncConverges
PROPERTIES
  ProtectedUntouched
  EventuallySettled
