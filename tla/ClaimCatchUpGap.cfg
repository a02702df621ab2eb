SPECIFICATION ReadFirstSpec
CONSTANTS
  a = a
  b = b
  other = other
  NoKey = NoKey
  Keys <- MCKeys
  Watched <- MCWatched
  Changes <- MCFewChanges
  Want <- MCBoth
  MaxRev = 3
  Debounce = FALSE
  MaxPending = 0
  ResumeFromRevision = TRUE
  CreatedNotify = FALSE
  ProgressNotify = FALSE
  FailIfMissing = FALSE
  ReadRevision = 0
  PartialCatchUp = TRUE
  ConcurrentReads = FALSE
  CallbackReads = FALSE
  CallbackPanics = FALSE
  DenyResync = FALSE
  MaxFaults = 1
  MaxAttempt = 3
INVARIANT NoEventMissed
CHECK_DEADLOCK FALSE
