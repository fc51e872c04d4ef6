SPECIFICATION Spec
CONSTANTS
  c1 = c1
  e1 = e1
  g = g
  Consumers = {c1}
  Events = {e1}
  Garbage = {g}
  NotJson = {g}
  Rejected = {}
  ForceFail = {}
  MaxAttempts = 2
  StartFirst = TRUE
  DlqEnabled = TRUE
  ReopenAfter = 2
  MaxLog = 2
  MaxFaults = 0
  Nobody = Nobody
INVARIANTS
  LettersCarryTheMessage
