SPECIFICATION FairSpec
CONSTANTS
  c1 = c1
  e1 = e1
  e2 = e2
  g = g
  Consumers = {c1}
  Events = {e1, e2}
  Garbage = {g}
  NotJson = {g}
  Rejected = {}
  ForceFail = {e2}
  MaxAttempts = 2
  StartFirst = TRUE
  DlqEnabled = FALSE
  ReopenAfter = 2
  MaxLog = 3
  MaxFaults = 3
  Nobody = Nobody
INVARIANTS
  RepeatsPaidByFaults
  OverrunPaidByFaults
  CommittedIsAccounted
  VerdictsPaidByFaults
PROPERTIES
  EventuallyCommitted
