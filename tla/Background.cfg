SPECIFICATION Spec
CONSTANTS
  p1 = p1
  p2 = p2
  p3 = p3
  None = None
  Proc <- Two
  Stable <- One
  Mode = "background"
  CancelAt <- One
  MaxTokens = 1
  MaxAttempts = 3
  MaxFaults = 1
INVARIANTS
  TypeOK
  RecordedOnce
  WebhookOnce
PROPERTIES
  SettledForGood
  NoLeaseTheft
CHECK_DEADLOCK FALSE
