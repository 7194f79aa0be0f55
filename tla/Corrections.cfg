SPECIFICATION FairSpec
CONSTANTS
  d1 = d1
  d2 = d2
  d3 = d3
  k1 = k1
  k2 = k2
  k3 = k3
  s1 = s1
  s2 = s2
  Slots = {s1, s2}
  Devices = {d1, d2, d3}
  Keys = {k1, k2, k3}
  KeyLimit = 1
  DeviceLimit = 1
  Hour = 1
  Alerts <- MCAlerts
  OpsPool = 2
  AiPool = 2
  Seeds <- MCSeeds
  Feedbacks <- MCFeedbacks
  Deactivations <- MCDeactivations
  Outcomes <- MCOutcomes
  MaxNow = 3
  MaxRequests = 3
  MaxFaults = 1
INVARIANTS
  TypeOK
  KeyLimitHolds
  DeviceLimitHolds
  CrossingMarked
  NoOpsDeadlock
PROPERTIES
  Answered
CHECK_DEADLOCK FALSE
