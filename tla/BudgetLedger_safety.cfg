SPECIFICATION Spec
CONSTANTS
  c1 = c1
  c2 = c2
  Calls = {c1, c2}
  Metered = {"l1", "guardrail"}
  Budget <- MCBudget
  CallEst <- MCCallEst
  CallCosts <- MCLargePrompt
  CallExcess <- MCCallExcess
  Retries = 1
  LastMonth = 1
  MaxStarts = 2
  Faults = {"raise", "abort", "reserve_ack", "crash"}
INVARIANTS
  TypeOK
  Conservation
  OverrunBounded
  RefundsOnlyHeld
  CallsAreCovered
  NeverOvercharged
PROPERTIES
  PromiseKept
CHECK_DEADLOCK FALSE
SYMMETRY Symmetry
