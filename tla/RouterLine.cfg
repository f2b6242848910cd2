SPECIFICATION FairSpec
CONSTANTS
  c1 = c1
  c2 = c2
  long = long
  extended = extended
  normal = normal
  router = router
  NoRow = NoRow
  door = door
  Door <- door
  Row <- TwoRows
  Caller <- OneCaller
  Gate <- RouterGates
  Path <- RouterPath
  Seated <- Nobody
  Ticketed <- Nobody
  Engine <- RouterEngine
  Weight <- RouterWeight
  Concurrent <- RouterConcurrent
  Budget <- RouterBudget
  Leftover <- OldOne
  Scan = 3
  MaxFaults = 1
INVARIANTS
  GateCountsItsHolders
  OneRepresentative
PROPERTIES
  ServedInOrder
  EveryRowEnds
CHECK_DEADLOCK FALSE
