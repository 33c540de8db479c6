SPECIFICATION Spec
CONSTANTS
  v1 = v1
  v2 = v2
  a1 = a1
  r1 = r1
  r2 = r2
  mit = mit
  gpl = gpl
  Versions = {v1, v2}
  Ids = {a1}
  Asks <- MCAsks
  Requests = {r1, r2}
  None = None
  Published <- MCPublished
  Listed = {v1}
  License <- MCLicense
  Affects <- MCAffects
  Severity <- MCSeverity
  Policies <- MCDefaultPolicy
  AllowLicense = {mit}
  BlockLicense = {gpl}
  AllowPins = {}
  BlockPins = {}
  MinAge = 2
  MaxSeverity = 3
  VulnTTL = 1
  NotFoundRefresh = 1
  MetaTTL = 1
  MaxTime = 2
  MaxRequests = 3
  MaxFailures = 1
  MaxAtOnce = 2
SYMMETRY MCSymmetry
CHECK_DEADLOCK FALSE
INVARIANTS
  AdvisoriesInForce
  CooldownHolds
  TransientNotStored
  LookupsShared
