SPECIFICATION LiveSpec
CONSTANTS
  a = a
  b = b
  other = other
  NoKey = NoKey
  Keys <- MCKeys
  Watched <- MCWatched
  Changes <- MCAllChanges
  Want <- MCPuts
  MaxRev = 3
  Debounce = FALSE
  MaxPending = 0
  ResumeFromRevision = FALSE
  CreatedNotify = TRUE
  ProgressNotify = TRUE
  FailIfMissing = TRUE
  ReadRevision = 2
  PartialCatchUp = TRUE
  ConcurrentReads = FALSE
  CallbackReads = FALSE
  CallbackPanics = FALSE
  DenyResync = TRUE
  MaxFaults = 2
  MaxAttempt = 3
PROPERTY NothingRepeated
PROPERTY CancelStops
CHECK_DEADLOCK FALSE
