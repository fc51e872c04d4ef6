SPECIFICATION FairSpec
CONSTANTS
  r1 = r1
  c1 = c1
  c2 = c2
  Events = {1}
  Relays = {r1}
  Consumers = {c1, c2}
  BatchSize = 1
  ProcessingTimeout = 1
  MaxSkew = 1
  MaxCopies = 1
  ReopenAfter = 1
  DlqEnabled = TRUE
  RelayAttempts = 2
  NotifyAttempts = 2
  ForceFail = {1}
  MaxFaults = 1
  NoClaim = NoClaim
  Nobody = Nobody
INVARIANTS
  SentIsDeliveredOrAhead
PROPERTIES
  EventuallyDelivered
  ImplementsDelivery
