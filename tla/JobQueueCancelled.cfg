CONSTANTS
  MaxJobs = 1
  Workers = {w1, w2}
  MaxPending = 2
  MaxCancels = 1
  MaxCrashes = 0
  MaxFaults = 0
SPECIFICATION Spec
PROPERTIES
  CancelledNotStarted
CHECK_DEADLOCK FALSE
