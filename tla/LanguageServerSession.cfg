CONSTANTS
  u1 = u1
  u2 = u2
  p1 = p1
  p2 = p2
  p3 = p3
  p4 = p4
  r1 = r1
  r2 = r2
  r3 = r3
  r4 = r4
  q1 = q1
  Uri <- TwoUris
  Promise <- Promises
  Run <- Runs
  Request <- OneRequest
  MaxVersion = 2
  MaxInbox = 2
  Faults <- NoFaults
  None = None
  Absent = Absent
  Pending = Pending
SPECIFICATION Spec
INVARIANTS
  TypeOK
  SettingsOnlyForOpenDocuments
  CachedSettingsAreCurrent
  StaleOnlyWhileAwaiting
  PendingIsTransient
PROPERTIES
  PublishesUnderCurrentSetting
  AnswerNotOlderThanRequest
