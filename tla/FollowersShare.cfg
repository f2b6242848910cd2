SPECIFICATION Spec
CONSTANTS
  r1 = r1
  r2 = r2
  c1 = c1
  c2 = c2
  c3 = c3
  Resp <- OneResp
  Client <- ThreeClients
  MaxFollowers = 2
  TailRecords = 1
  PollLimit = 1
  ListLimit = 1
  MaxSeq = 1
  MaxRuns = 1
  MaxFaults = 1
SYMMETRY Symmetry
INVARIANTS
  EndsComplete
  FollowerCap
CHECK_DEADLOCK FALSE
