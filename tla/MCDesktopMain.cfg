SPECIFICATION Spec
CONSTANTS
  Scenarios <- MCScenarios
  None = None
  Invalid = Invalid
  DefaultSettings <- MCDefaults
  SqlPlans <- MCSqlPlans
  NoSql = NoSql
  DocumentsNow <- MCDocumentsNow
  MaxMishaps = 1
  MaxNesting = 3
INVARIANTS
  TypeOK
  SettingsKept
  LogKept
  CredentialHeld
  CompletesWithItsRows
PROPERTIES
  ConnectionIsCurrent
CHECK_DEADLOCK FALSE
