SPECIFICATION Spec
CONSTANTS
  p1 = p1
  p2 = p2
  Pods <- MCPods
  Skew <- OneTickApart
  Duration = 3
  Margin = 2
  Lag = 0
  Budget = 0
  Polls = TRUE
  OwnWrites = {"progress", "finish"}
  Stalls = FALSE
  Horizon = 7
  MaxClaims = 2
INVARIANT ExclusiveExecution
INVARIANT WorkersWritesAccepted
PROPERTY ExclusiveJobSpec
CHECK_DEADLOCK FALSE
