SPECIFICATION FairSpec
CONSTANTS
  q1 = q1
  q2 = q2
  q3 = q3
  NoResponse = NoResponse
  Request <- Three
  Body <- OneDiffers
  MaxFaults = 2
INVARIANTS
  OneRunPerKey
  ServedItsOwnBody
PROPERTIES
  AnswerIsKept
  ClaimsEnd
CHECK_DEADLOCK FALSE
