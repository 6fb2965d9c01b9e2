SPECIFICATION FairSpec
CONSTANTS
  Docs <- MCDocs
  Collections <- MCCollections
  Root = "orders"
  CollOf <- MCCollOf
  ParentOf <- MCParents
  PageSize = 2
  Limit = 2
  Size <- MCSize
  MaxBytes = 3
  Sources <- MCSources
  Targets <- MCTargets
  Files <- MCFiles
  MaxOutside = 1
  MaxFaults = 2
INVARIANTS
  TypeOK
  DeletesScope
  TargetComplete
  KeepsExisting
  ReportsCommitted
  NoPartialFile
PROPERTIES
  CancelStopsWrites
  JobEnds
