SPECIFICATION DaemonSpec
CONSTANTS
  NoCapture = NoCapture
  Requests = {r1}
  Names = {a, b}
  Clients = {c1, c2}
  ShutdownTask = sd
  Stoppers = {c1, c2, sd}
  MaxFaults = 0
  MaxCrashes = 0
  MaxSignals = 2
INVARIANT NeverLoseACapture
CHECK_DEADLOCK FALSE
