SPECIFICATION FairSpec
CONSTANTS
  r1 = r1
  r2 = r2
  c1 = c1
  c2 = c2
  c3 = c3
  Resp <- OneResp
  Client <- OneClient
  MaxFollowers = 1
  TailRecords = 1
  PollLimit = 1
  ListLimit = 1
  MaxSeq = 2
  MaxRuns = 2
  MaxFaults = 0
INVARIANTS
  FollowsInOrder
  EndsComplete
PROPERTIES
  FollowersEnd
CHECK_DEADLOCK FALSE
