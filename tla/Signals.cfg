SPECIFICATION FairSpec
CONSTANTS
  a = a
  b = b
  s1 = s1
  s2 = s2
  Names = {a, b}
  Initially = {a}
  Bodies <- MCBodies
  Slots = {s1, s2}
  MaxRequests = 3
  MaxFaults = 1
INVARIANTS
  TypeOK
  OneVersion
  BodiesNeverMix
PROPERTIES
  FreezeHolds
  Answered
CHECK_DEADLOCK FALSE
