SPECIFICATION FairSpec
CONSTANTS
  Ctxs = {watchCtx, ctx}
  WatchCtx = watchCtx
  MaxWatches = 3
  Setups <- MCSetups
INVARIANT TypeOK
INVARIANT SingleWatcher
INVARIANT SignalsItsOwn
INVARIANT CallsItsOwn
INVARIANT NoLeak
INVARIANT QuietAfterClose
PROPERTY SlotSpec
PROPERTY CloseReturns
PROPERTY SlotIsFreed
CHECK_DEADLOCK FALSE
