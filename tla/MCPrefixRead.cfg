SPECIFICATION Spec
CONSTANTS
  Top = 4
  Slash = 2
  Delim = 1
  Root <- MCRoot
  Empty <- MCEmpty
  Segments <- MCSegments
  Keys <- MCKeys
  Changes <- MCChanges
  Batches <- MCBatches
  Singles <- MCSingles
  DeletedPrefixes <- MCDeleted
  Settings <- MCSettings
  MaxRev = 4
INVARIANT TypeOK
INVARIANT EveryKeyWasTrue
INVARIANT SnapshotWhereItCan
INVARIANT NestingIsRight
PROPERTY DeletesItsPrefix
PROPERTY EveryPageAdvances
PROPERTY ReadEnds
CHECK_DEADLOCK FALSE
