SPECIFICATION DaemonSpec
CONSTANTS
  NoCapture = NoCapture
  Requests = {r1}
  Names = {a, b}
  Clients = {c1, c2}
  ShutdownTask = sd
  Stoppers = {c1, c2, sd}
  MaxFaults = 1
  MaxCrashes = 0
  MaxSignals = 2
INVARIANTS DaemonTypeOK ReportsHoldAcknowledged ActiveCaptureIsFlushed OrderlyExitKeepsAcknowledged
PROPERTIES ShutdownEnds
CHECK_DEADLOCK FALSE
