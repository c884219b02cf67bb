\* Two pairs into two captures, one failing file-system call, no crash.
SPECIFICATION FairSpec
CONSTANTS
  NoCapture = NoCapture
  Requests = {r1, r2}
  Names = {a, b}
  Stoppers = {s1}
  MaxFaults = 1
  MaxCrashes = 0
PROPERTIES StopsComplete AppendsSettle
CHECK_DEADLOCK FALSE
