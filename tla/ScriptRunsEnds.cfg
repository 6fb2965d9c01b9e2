SPECIFICATION FairSpec
CONSTANTS
  t1 = t1
  Tabs = {t1}
  MaxRuns = 1
  MaxOutputs = 2
  MaxLogged = 1
  MaxFaults = 2
PROPERTIES AbandonedStops EndIsShown
CHECK_DEADLOCK FALSE
