SPECIFICATION Spec
CONSTANTS
  c1 = c1
  c2 = c2
  e1 = e1
  e2 = e2
  g = g
  Consumers = {c1, c2}
  Events = {e1, e2}
  Garbage = {g}
  NotJson = {}
  Rejected = {}
  ForceFail = {e2}
  MaxAttempts = 2
  StartFirst = TRUE
  DlqEnabled = TRUE
  ReopenAfter = 1
  MaxLog = 3
  MaxFaults = 2
  Nobody = Nobody
SYMMETRY ConsumerSymmetry
INVARIANTS
  TypeOK
  CommittedIsAccounted
  DoneMeansNotified
  FailedMeansExhausted
