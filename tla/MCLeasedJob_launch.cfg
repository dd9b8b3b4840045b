SPECIFICATION FairSpec
CONSTANTS
  p1 = p1
  p2 = p2
  Pods = {p1}
  Skew <- NoSkew
  Duration = 3
  Margin = 2
  Lag = 0
  Budget = 1
  Polls = FALSE
  OwnWrites = {"finish", "park"}
  Stalls = TRUE
  Horizon = 5
  MaxClaims = 2
PROPERTY NoReturnAfterTakeover
PROPERTY AbandonedLeaseEnds
CHECK_DEADLOCK FALSE
