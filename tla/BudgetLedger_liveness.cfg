SPECIFICATION FairSpec
CONSTANTS
  c1 = c1
  c2 = c2
  Calls = {c1, c2}
  Metered = {"l1", "guardrail"}
  Budget <- MCBudget
  CallEst <- MCCallEst
  CallCosts <- MCCallCosts
  CallExcess <- MCCallExcess
  Retries = 2
  LastMonth = 0
  MaxStarts = 2
  Faults = {"raise"}
INVARIANTS
  NoLeak
PROPERTIES
  ReservationsEnd
CHECK_DEADLOCK FALSE
