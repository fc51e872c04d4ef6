SPECIFICATION Spec
CONSTANTS
  c1 = c1
  e1 = e1
  e2 = e2
  Consumers = {c1}
  Events = {e1, e2}
  Garbage = {}
  NotJson = {}
  Rejected = {}
  ForceFail = {}
  MaxAttempts = 2
  StartFirst = FALSE
  DlqEnabled = TRUE
  ReopenAfter = 2
  MaxLog = 2
  MaxFaults = 1
  Nobody = Nobody
INVARIANTS
  CommittedIsAccounted
