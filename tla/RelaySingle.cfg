SPECIFICATION Spec
CONSTANTS
  Events = {1, 2, 3}
  r1 = r1
  Relays = {r1}
  BatchSize = 2
  ProcessingTimeout = 1
  MaxAttempts = 2
  DlqEnabled = FALSE
  MaxSkew = 1
  MaxCopies = 1
  MaxFaults = 2
  NoClaim = NoClaim
INVARIANTS
  SoleOwner
  OverrunPaidByFaults
PROPERTIES
  SettledIsFinal
