SPECIFICATION Spec
CONSTANTS
  d1 = d1
  t1 = t1
  t2 = t2
  g1 = g1
  ems_factory = ems_factory
  mqtt = mqtt
  r1 = r1
  Devices = {d1}
  Types = {t1, t2}
  Gateways = {g1}
  Sampled = {g1}
  Prefixes = {ems_factory}
  PrefixGateway <- MCPrefixGateway
  PrefixType <- MCPrefixType
  Backfilled = {}
  Subscriber = mqtt
  Requests = {r1}
  MaxCorrections = 1
  MaxRuns = 2
  MaxAudit = 2
  Faults = {"raise", "crash"}
INVARIANTS
  TypeOK
  CandidateNotFrozen
  ReviewMatchesVerdict
PROPERTIES
  HumanOwnedAudited
  RetiredReopenedByOverride
CHECK_DEADLOCK FALSE
