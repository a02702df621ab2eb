SPECIFICATION Spec
CONSTANTS
  a = a
  b = b
  other = other
  NoKey = NoKey
  Keys <- MCKeys
  Watched <- MCWatched
  Changes <- MCAllChanges
  Want <- MCBoth
  MaxRev = 4
  Debounce = TRUE
  MaxPending = 2
  ResumeFromRevision = TRUE
  CreatedNotify = FALSE
  ProgressNotify = TRUE
  FailIfMissing = FALSE
  ReadRevision = 0
  PartialCatchUp = FALSE
  ConcurrentReads = FALSE
  CallbackReads = TRUE
  CallbackPanics = TRUE
  DenyResync = FALSE
  MaxFaults = 2
  MaxAttempt = 3
INVARIANT TypeOK
INVARIANT Conservation
INVARIANT BufferIsDrained
INVARIANT ResumesWhereItStopped
INVARIANT RecoveryCount
INVARIANT AuthNeverRetried
PROPERTY ResyncBeforeRewatch
PROPERTY FeedSpec
CHECK_DEADLOCK FALSE
