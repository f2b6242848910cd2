SPECIFICATION Spec
CONSTANTS
  r1 = r1
  r2 = r2
  c1 = c1
  c2 = c2
  c3 = c3
  Resp <- TwoResp
  Client <- TwoClients
  MaxFollowers = 2
  TailRecords = 2
  PollLimit = 2
  ListLimit = 2
  MaxSeq = 2
  MaxRuns = 0
  MaxFaults = 0
INVARIANTS
  JoinersServed
CHECK_DEADLOCK FALSE
