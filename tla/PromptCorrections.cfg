SPECIFICATION FairSpec
CONSTANTS
  Devices = {"small", "large"}
  Relevant <- MCRelevant
  Rendered <- MCRendered
  Cap = 6
  Workers = {"rest", "mcp"}
  MaxId = 4
  MaxRuns = 2
INVARIANTS
  TypeOK
  LongestPrefix
  HintKept
  AppliedCount
PROPERTIES
  SearchEnds
CHECK_DEADLOCK FALSE
