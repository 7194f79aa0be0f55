SPECIFICATION FairSpec
CONSTANTS
  meter = meter
  s001 = s001
  temp_01 = temp_01
  sensor_001 = sensor_001
  press = press
  overlong = overlong
  Names = {meter, s001, temp_01, sensor_001, press, overlong}
  WellFormed = {meter, s001, temp_01, sensor_001, press}
  Legacy <- MCLegacy
  Normalized <- MCNormalized
  Messages <- MCMessages
  RateLimit = 1
  RateWindow = 2
  DedupeWindow = 2
  MaxLag = 2
  MaxInbox = 1
  MaxFaults = 1
INVARIANTS
  TypeOK
PROPERTIES
  PromiseKept
  EventuallyDiscovered
CHECK_DEADLOCK FALSE
