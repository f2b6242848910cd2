SPECIFICATION FairSpec
CONSTANTS
  a = a
  d1 = d1
  d2 = d2
  w1 = w1
  w2 = w2
  k1 = k1
  NoDelivery = NoDelivery
  Endpoint <- OneEndpoint
  Delivery <- Two
  EndpointOf <- AA
  Worker <- TwoWorkers
  Conn <- OneConn
  MaxAttempts = 2
  MaxPending = 1
  Share = 1
  Batch = 2
  Gate = 1
  MaxFaults = 1
  MaxEnables = 1
INVARIANTS
  OneSender
  StatusIsTrue
  AttemptsBounded
  BacklogBounded
PROPERTIES
  DeliveredForGood
  DeliveriesSettle
CHECK_DEADLOCK FALSE
