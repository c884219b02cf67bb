\* Two pairs, two captures, one task at a time inside stop_capture, one failing
\* file-system call, one crash and restart.
SPECIFICATION Spec
CONSTANTS
  NoCapture = NoCapture
  Requests = {r1, r2}
  Names = {a, b}
  Stoppers = {s1}
  MaxFaults = 1
  MaxCrashes = 1
SYMMETRY Symmetry
INVARIANTS TypeOK AcknowledgedIsKept FsyncedBeforeAnswer ReportsHoldAcknowledged HistoryIsWhole
PROPERTIES NoCaptureForgotten SettledIsFrozen ImplementsStore
\* Every pair answered, every capture name used: nothing is left to do.
CHECK_DEADLOCK FALSE
