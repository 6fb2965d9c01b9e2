SPECIFICATION Spec
CONSTANTS
  LastDoc = 2
  Fields = {f, g}
  None = None
  MaxCursors = 1
  MaxMishaps = 1
  Drafts = {0, 1}
  StaleBehaviors <- MCStaleBehaviors
  MaxActs = 3
  Accounts = {"a", "b"}
  Paths = {"p", "q"}
  Workspaces <- MCWorkspaces
  MaxTabs = 2
  MaxUses = 3
  MaxRuns = 2
  MaxRows = 1
  LastUser = 3
  UsersPerPage = 1
  MaxVisits = 4
  MaxOthers = 1
  OthersUsers = {1}
  MaxRefused = 1
  FoundWorkspaces <- MCFoundWorkspaces
  MaxContent = 2
  MaxChanges = 3
  MaxWindows = 2
  MaxTime = 4
  MaxLapses = 1
SYMMETRY MCSymmetry
INVARIANTS
  TypeOK
  ShowsItsQuery
  StaleIsMarked
  NoSilentOverwrite
  ShowsItsAccount
  NoRunUnattended
  ShowsItsUsers
  SavedIsShown
PROPERTIES ViewReturns
CHECK_DEADLOCK FALSE
