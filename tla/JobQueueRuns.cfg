CONSTANTS
  MaxJobs = 2
  Workers = {w1, w2}
  MaxPending = 2
  MaxCancels = 0
  MaxCrashes = 0
  MaxFaults = 0
SPECIFICATION FairSpec
PROPERTIES
  QueuedRuns
CHECK_DEADLOCK FALSE
