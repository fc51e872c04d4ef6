SPECIFICATION FairSpec
CONSTANTS
  MaxCalls = 3
  ResetPause = 2
  PerWrite = 2
  MaxMoves = 2
INVARIANTS
  TypeOK
PROPERTIES
  ImplementsPublisher
  EveryCallReturns
CHECK_DEADLOCK FALSE
