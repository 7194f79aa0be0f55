SPECIFICATION Spec
CONSTANTS
  a = a
  b = b
  s1 = s1
  s2 = s2
  Names = {a, b}
  Initially = {a}
  Bodies <- MCBodies
  Slots = {s1, s2}
  MaxRequests = 3
  MaxFaults = 1
PROPERTIES
  FrozenSignalsStay
CHECK_DEADLOCK FALSE
