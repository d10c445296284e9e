CONSTANTS
  u1 = u1
  u2 = u2
  p1 = p1
  p2 = p2
  p3 = p3
  p4 = p4
  r1 = r1
  r2 = r2
  r3 = r3
  r4 = r4
  q1 = q1
  Uri <- OneUri
  Promise <- Promises
  Run <- Runs
  Request <- OneRequest
  MaxVersion = 3
  MaxInbox = 3
  Faults <- NoFaults
  None = None
  Absent = Absent
  Pending = Pending
SPECIFICATION FairSpec
PROPERTIES
  ImplementsFairStore
  EveryRequestAnswered
  EveryValidationEnds
