SPECIFICATION Spec
CONSTANTS
  Events = {1}
  r1 = r1
  r2 = r2
  Relays = {r1, r2}
  BatchSize = 1
  ProcessingTimeout = 1
  MaxAttempts = 2
  DlqEnabled = TRUE
  MaxSkew = 1
  MaxCopies = 1
  MaxFaults = 0
  NoClaim = NoClaim
PROPERTIES
  SettledIsFinal
