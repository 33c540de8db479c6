SPECIFICATION Spec
CONSTANTS
  r1 = r1
  r2 = r2
  Requests = {r1, r2}
  Inherit = Inherit
  Knobs <- MCKnobs
  QuotaKnobs <- MCQuota
  LimitKnobs <- MCLimits
  Overridable <- MCOverridable
  MaxStorage = "maxStorage"
  DefaultStorage = "defaultStorage"
  Rules <- MCRules
  MaxPvcSize = 3
  Chart <- MCChart
  DefaultForms <- MCDefaults
  OverrideForms <- MCForms
  Sizes = {3}
  MaxSubmits = 4
  MaxFailures = 1
  a1 = a1
  a2 = a2
  l1 = l1
  l2 = l2
  Saves = {a1, a2}
  Policies = {l1, l2}
  Default = Default
  Unsaved = Unsaved
  MaxSaves = 3
  c1 = c1
  f1 = f1
  f2 = f2
  e1 = e1
  s1 = s1
  s2 = s2
  Clients = {c1}
  Slugs = {s1, s2}
  Platform = Platform
  Malformed = Malformed
  Facades = {f1, f2}
  Edits = {e1}
  Nobody = Nobody
  Unknown = Unknown
  ResourceLists <- MCResources
  Bodies <- MCBodies
  MaxAudiences = 2
  n1 = n1
  q1 = q1
  q2 = q2
  i1 = i1
  i2 = i2
  Residents = {n1}
  Projects = {q1, q2}
  Owner <- MCOwner
  NoProject = NoProject
  Stranger = Stranger
  Inserts = {i1, i2}
  Retention = 1
  Streak = 2
  LastDay = 1
  MaxCalls = 2
SYMMETRY MCSymmetry
CHECK_DEADLOCK FALSE
INVARIANTS
  AloneIsExact
  BudgetConsistent
  SettingsAgree
  MemoTrue
  OnceEach
