SPECIFICATION Spec
CONSTANTS
  Conns = {c1}
  MaxConnections = 1
  MaxRequests = 1
PROPERTY UpgradesPassThrough
CHECK_DEADLOCK FALSE
