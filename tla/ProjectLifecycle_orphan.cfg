SPECIFICATION Spec
CONSTANTS
  a = a
  b = b
  h1 = h1
  h2 = h2
  People = {a}
  Nameless = {}
  Handlers = {h1, h2}
  MaxProjects = 1
  MaxFailures = 0
INVARIANTS
  NoOrphans
