SPECIFICATION Spec
CONSTANTS
  p1 = p1
  p2 = p2
  p3 = p3
  None = None
  Proc <- Two
  Stable <- One
  Mode = "plain"
  CancelAt <- NoProc
  MaxTokens = 2
  MaxAttempts = 3
  MaxFaults = 1
INVARIANTS
  LogIsAList
  TextNeverRegenerated
  AnswerIsTheLog
  WriteAhead
PROPERTIES
  ReadersView
CHECK_DEADLOCK FALSE
