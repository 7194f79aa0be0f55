SPECIFICATION Spec
CONSTANTS
  ip1 = ip1
  ip2 = ip2
  s1 = s1
  s2 = s2
  Ips = {ip1, ip2}
  Keys = {"k1"}
  Slots = {s1, s2}
  Limit = 2
  Window = 2
  MaxRestarts = 1
INVARIANTS
  TypeOK
  BurstBounded
  KeyedCallsOnly
  RefusedWithoutCost
PROPERTIES
  OnlyBusyLimited
SYMMETRY Alike
CHECK_DEADLOCK FALSE
