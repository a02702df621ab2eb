SPECIFICATION Spec
CONSTANTS
  Top = 4
  Slash = 2
  Delim = 1
  Root <- MCRoot
  Empty <- MCEmpty
  Segments <- MCSegments
  Keys <- MCKeys
  Changes <- MCChanges
  Batches <- MCBatches
  Singles <- MCSingles
  DeletedPrefixes <- MCDeleted
  Settings <- MCPaged
  MaxRev = 4
INVARIANT NoReadWatchGap
CHECK_DEADLOCK FALSE
