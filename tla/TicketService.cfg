SPECIFICATION FairSpec
CONSTANTS
  c1 = c1
  c2 = c2
  Clients = {c1, c2}
  Bodies <- BodyCases
  MaxTries = 2
  MaxOpenConns = 2
  MaxFaults = 2
  MaxTimeouts = 1
INVARIANTS
  TypeOK
  OutboxMatchesTickets
  CreatedIsStored
  DuplicatesPaidByFaults
PROPERTIES
  EveryHandlerEnds
  ImplementsTicketStore
