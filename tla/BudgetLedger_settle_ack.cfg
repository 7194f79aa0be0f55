SPECIFICATION Spec
CONSTANTS
  c1 = c1
  c2 = c2
  Calls = {c1, c2}
  Metered = {"l1", "guardrail"}
  Budget <- MCBudget
  CallEst <- MCCallEst
  CallCosts <- MCCallCosts
  CallExcess <- MCCallExcess
  Retries = 1
  LastMonth = 1
  MaxStarts = 2
  Faults = {"settle_ack"}
INVARIANTS
  RefundsOnlyHeld
CHECK_DEADLOCK FALSE
