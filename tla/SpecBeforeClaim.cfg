SPECIFICATION Spec
CONSTANTS
  p1 = p1
  p2 = p2
  p3 = p3
  None = None
  Proc <- Two
  Stable <- Two
  Mode = "background"
  CancelAt <- NoProc
  MaxTokens = 1
  MaxAttempts = 2
  MaxFaults = 0
INVARIANTS
  ClaimedRowHasSpec
CHECK_DEADLOCK FALSE
