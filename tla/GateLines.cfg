SPECIFICATION FairSpec
CONSTANTS
  c1 = c1
  c2 = c2
  long = long
  extended = extended
  normal = normal
  router = router
  NoRow = NoRow
  door = door
  Door <- door
  Row <- OneRow
  Caller <- TwoCallers
  Gate <- MainGates
  Path <- MainPath
  Seated <- ExtendedGate
  Ticketed <- OneCaller
  Engine <- MainEngine
  Weight <- NoWeight
  Concurrent <- OneEach
  Budget <- NoBudget
  Leftover <- OldOne
  Scan = 3
  MaxFaults = 1
INVARIANTS
  NoGrantMissed
PROPERTIES
  EveryWaitEnds
CHECK_DEADLOCK FALSE
