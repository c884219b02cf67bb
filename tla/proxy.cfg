SPECIFICATION FairSpec
CONSTANTS
  Conns = {c1, c2}
  MaxConnections = 1
  MaxRequests = 2
INVARIANTS TypeOK SlotsAreHandlers RecordedBeforeAnswer NoLegLeftOpen
PROPERTY HungUpIsReleased
\* Every connection may have been closed.
CHECK_DEADLOCK FALSE
