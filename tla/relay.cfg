SPECIFICATION FairSpec
CONSTANTS
  MaxChunks = 3
  MaxAhead = 1
INVARIANTS TypeOK DeliveredInOrder CloserIsHeardOut
PROPERTY ClosingEndsRelay
\* A relay that is over stays so.
CHECK_DEADLOCK FALSE
