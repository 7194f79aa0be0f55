SPECIFICATION Spec
CONSTANTS
  Devices = {"small", "large"}
  Relevant <- MCRelevant
  Rendered <- MCRendered
  Cap = 6
  Workers = {"rest", "mcp"}
  MaxId = 3
  MaxRuns = 2
INVARIANTS
  OldestDropped
CHECK_DEADLOCK FALSE
