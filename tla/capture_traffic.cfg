\* No failing call and no crash: one pair and one stop are enough.
SPECIFICATION Spec
CONSTANTS
  NoCapture = NoCapture
  Requests = {r1, r2}
  Names = {a, b}
  Stoppers = {s1}
  MaxFaults = 0
  MaxCrashes = 0
INVARIANT TrafficFlowsNormally
CHECK_DEADLOCK FALSE
