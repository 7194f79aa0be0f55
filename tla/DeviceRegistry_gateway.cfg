SPECIFICATION FairSpec
CONSTANTS
  b1 = b1
  d1 = d1
  t1 = t1
  t2 = t2
  g1 = g1
  ems_factory = ems_factory
  mqtt = mqtt
  r1 = r1
  Devices = {d1, b1}
  Types = {t1, t2}
  Gateways = {g1}
  Sampled = {g1}
  Prefixes = {ems_factory}
  PrefixGateway <- MCPrefixGateway
  PrefixType <- MCPrefixType
  Backfilled = {b1}
  Subscriber = mqtt
  Requests = {r1}
  MaxCorrections = 2
  MaxRuns = 1
  MaxAudit = 0
  Faults = {}
PROPERTIES
  AutoConfirmHeedsCorrections
  DiscoveredIsReviewed
CHECK_DEADLOCK FALSE
