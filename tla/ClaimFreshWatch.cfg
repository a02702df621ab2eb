SPECIFICATION Spec
CONSTANTS
  Ctxs = {watchCtx, ctx}
  WatchCtx = watchCtx
  MaxWatches = 2
  Setups <- MCSetups
PROPERTY FreshWatchRuns
CHECK_DEADLOCK FALSE
