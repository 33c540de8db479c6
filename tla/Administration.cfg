SPECIFICATION PagesSpec
CONSTANTS
  a = a
  b = b
  c = c
  h1 = h1
  h2 = h2
  People = {a, b, c}
  Nobody = Nobody
  Handlers = {h1, h2}
  MaxSubmits = 3
  MaxFailures = 1
  q1 = q1
  q2 = q2
  m1 = m1
  m2 = m2
  g1 = g1
  g2 = g2
  Slugs = {q1, q2}
  Sections = {m1, m2}
  Pages = {g1, g2}
  HealthTTL = 2
  HealthDelay = 1
  HealthCap = 5
  Limit = 1
SYMMETRY MCSymmetry
INVARIANTS
  SuccessIsComplete
PROPERTIES
  RowFollowsRepo
  HealthBounded
