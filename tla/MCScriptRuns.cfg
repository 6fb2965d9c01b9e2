SPECIFICATION Spec
CONSTANTS
  t1 = t1
  Tabs = {t1}
  MaxRuns = 2
  MaxOutputs = 1
  MaxLogged = 1
  MaxFaults = 1
INVARIANTS TypeOK ShowsItsRun LogTells NoStray
CHECK_DEADLOCK FALSE
