SPECIFICATION LiveSpec
CONSTANTS
  a = a
  b = b
  other = other
  NoKey = NoKey
  Keys <- MCKeys
  Watched <- MCWatched
  Changes <- MCFewChanges
  Want <- MCBoth
  MaxRev = 3
  Debounce = TRUE
  MaxPending = 2
  ResumeFromRevision = TRUE
  CreatedNotify = FALSE
  ProgressNotify = TRUE
  FailIfMissing = FALSE
  ReadRevision = 0
  PartialCatchUp = FALSE
  ConcurrentReads = TRUE
  CallbackReads = TRUE
  CallbackPanics = FALSE
  DenyResync = FALSE
  MaxFaults = 1
  MaxAttempt = 3
PROPERTY FeedSpec
PROPERTY CatchesUp
PROPERTY CancelStops
CHECK_DEADLOCK FALSE
