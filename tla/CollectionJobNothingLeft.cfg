SPECIFICATION Spec
CONSTANTS
  Docs <- MCDocs
  Collections <- MCCollections
  Root = "orders"
  CollOf <- MCCollOf
  ParentOf <- MCParents
  PageSize = 2
  Limit = 2
  Size <- MCSize
  MaxBytes = 3
  Sources <- MCSources
  Targets <- MCTargets
  Files <- MCFiles
  MaxOutside = 0
  MaxFaults = 0
INVARIANTS
  NothingLeft
