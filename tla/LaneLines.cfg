SPECIFICATION FairSpec
CONSTANTS
  turn = turn
  other = other
  patient = patient
  document = document
  job = job
  essay = essay
  NoRequest = NoRequest
  Request <- Everybody
  LaneOf <- LanesOf
  Origin <- Origins
  Patient <- PatientOnes
  Preadmitted <- Essays
  Recurring <- Turns
  Capacity <- Seats
  Reserved = 1
  ChatWeight = 1
  MaxWaiting = 1
  DecodeYields = 1
INVARIANTS
  SeatsAreHeld
  ClosedByItsHolder
  NoSeatIdles
PROPERTIES
  ClosureAdmitsNobody
  ClosureEnds
  PatientIsServed
  PatientGivesWay
CHECK_DEADLOCK FALSE
