SPECIFICATION ActivitySpec
CONSTANTS
  n1 = n1
  q1 = q1
  q2 = q2
  i1 = i1
  i2 = i2
  Residents = {n1}
  Projects = {q1, q2}
  Owner <- MCOwner
  NoProject = NoProject
  Stranger = Stranger
  Inserts = {i1, i2}
  Retention = 1
  Streak = 2
  LastDay = 1
  MaxCalls = 2
CHECK_DEADLOCK FALSE
PROPERTIES
  PruneSafeForBadges
