CONSTANTS
  MaxJobs = 2
  Workers = {w1, w2}
  MaxPending = 1
  MaxCancels = 1
  MaxCrashes = 1
  MaxFaults = 0
SPECIFICATION FairSpec
PROPERTIES
  RunningEnds
CHECK_DEADLOCK FALSE
