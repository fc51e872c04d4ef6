SPECIFICATION FairSpec
CONSTANTS
  c1 = c1
  e1 = e1
  Consumers = {c1}
  Events = {e1}
  Garbage = {}
  NotJson = {}
  Rejected = {e1}
  ForceFail = {}
  MaxAttempts = 2
  StartFirst = TRUE
  DlqEnabled = TRUE
  ReopenAfter = 2
  MaxLog = 2
  MaxFaults = 0
  Nobody = Nobody
PROPERTIES
  EventuallyCommitted
