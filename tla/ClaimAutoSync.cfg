SPECIFICATION Spec
CONSTANTS
  Top = 2
  Half = 16
  MaxAttempts = 7
  Keys <- MCKeys
  Names <- MCNames
  Bounds <- MCBounds
  DefaultMin = 1
  DefaultMax = 12
  MaxOptions = 3
INVARIANT AutoSyncOptsOut
CHECK_DEADLOCK FALSE
