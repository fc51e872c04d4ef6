SPECIFICATION Spec
CONSTANTS
  Events = {1}
  r1 = r1
  r2 = r2
  r3 = r3
  Relays = {r1, r2, r3}
  BatchSize = 1
  ProcessingTimeout = 1
  MaxAttempts = 2
  DlqEnabled = TRUE
  MaxSkew = 1
  MaxCopies = 2
  MaxFaults = 2
  NoClaim = NoClaim
SYMMETRY RelaySymmetry
INVARIANTS
  TypeOK
  SentMeansPublished
  DeadMeansExhausted
  DeadLettered
  BoundedDuplication
  ClaimsUnique
  LeaseIffProcessing
