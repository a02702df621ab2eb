SPECIFICATION AppSpec
CONSTANTS
  name1 = name1
  name2 = name2
  value = value
  Top = 2
  Root <- MCRoot
  Empty = Empty
  Segments <- MCSegments
  Keys <- MCKeys
  Changes <- MCChanges
  Batches <- MCBatches
  Singles <- MCSingles
  DeletedPrefixes <- MCDeleted
  Settings <- MCSettings
  Prefix <- MCPrefix
  MaxRev = 4
INVARIANT AppTypeOK
INVARIANT SeesWhatItWasTold
INVARIANT CurrentWhenSettled
PROPERTY LiveSpec
PROPERTY NeverSilentlyStale
CHECK_DEADLOCK FALSE
