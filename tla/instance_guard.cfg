SPECIFICATION StartupSpec
CONSTANTS
  Nobody = Nobody
  Absent = Absent
  Torn = Torn
  Daemons = {d1, d2, d3}
  Ports = {p1, p2}
INVARIANTS TypeOK SoleDaemonIsReachable StaleSocketNeverBlocks OneAuthority 
  InterruptedWriteIsRepaired
SYMMETRY Symmetry
\* Every process may have ended.
CHECK_DEADLOCK FALSE
