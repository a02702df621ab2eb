SPECIFICATION Spec
CONSTANTS
  a = a
  b = b
  other = other
  NoKey = NoKey
  Keys <- MCKeys
  Watched <- MCWatched
  Changes <- MCFewChanges
  Want <- MCBoth
  MaxRev = 3
  Debounce = FALSE
  MaxPending = 0
  ResumeFromRevision = TRUE
  CreatedNotify = FALSE
  ProgressNotify = FALSE
  FailIfMissing = FALSE
  ReadRevision = 0
  PartialCatchUp = FALSE
  ConcurrentReads = FALSE
  CallbackReads = FALSE
  CallbackPanics = FALSE
  DenyResync = TRUE
  MaxFaults = 1
  MaxAttempt = 3
INVARIANT AuthNeverRetried
CHECK_DEADLOCK FALSE
