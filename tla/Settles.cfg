SPECIFICATION SilentEngineSpec
CONSTANTS
  p1 = p1
  p2 = p2
  p3 = p3
  None = None
  Proc <- Two
  Stable <- One
  Mode = "background"
  CancelAt <- One
  MaxTokens = 0
  MaxAttempts = 4
  MaxFaults = 1
PROPERTIES
  CancelSettles
  EventuallySettled
CHECK_DEADLOCK FALSE
