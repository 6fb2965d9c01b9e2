SPECIFICATION FairSpec
CONSTANTS
  MaxRuns = 2
  Plans <- MCPlans
  PlansOf <- MCPlansOf
  Keys = {"k"}
  Missing = "missing"
  KeyOf <- MCKeyOf
  Timeout = 1
  Ttl = 2
  MaxBytes = 5
  InitialDocs <- MCDocs
  MaxDocs = 3
  MaxTime = 2
  MaxWrites = 1
  MaxFaults = 1
INVARIANTS
  TypeOK
  PersistedIsWhole
  CompletedIsAnswer
PROPERTIES
  CancelStops
  RunEnds
CHECK_DEADLOCK FALSE
