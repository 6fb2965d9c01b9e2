CONSTANTS
  MaxJobs = 2
  Workers = {w1, w2}
  MaxPending = 2
  MaxCancels = 1
  MaxCrashes = 1
  MaxFaults = 1
SPECIFICATION Spec
SYMMETRY Interchangeable
INVARIANTS
  TypeOK
  ExecutingIsDurable
  NoOrphanRunning
  SettledIsLogged
PROPERTIES
  SerialExecution
CHECK_DEADLOCK FALSE
