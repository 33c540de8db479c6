SPECIFICATION FairSpec
CONSTANTS
  a = a
  b = b
  h1 = h1
  h2 = h2
  People = {a, b}
  Nameless = {b}
  Handlers = {h1, h2}
  MaxProjects = 2
  MaxFailures = 1
INVARIANTS
  ReadyIsDeployed
  SealedFirst
  DeleteLeavesNothing
PROPERTIES
  ProvisioningEnds
