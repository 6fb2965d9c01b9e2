SPECIFICATION Spec
CONSTANTS
  t1 = t1
  Tabs = {t1}
  MaxRuns = 1
  MaxOutputs = 1
  MaxLogged = 1
  MaxFaults = 1
PROPERTIES OutputKept
CHECK_DEADLOCK FALSE
