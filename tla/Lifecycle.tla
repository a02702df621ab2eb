----------------------------- MODULE Lifecycle ------------------------------
(* The watch slot of a Provider and everybody who touches it (etcd.go and    *)
(* the deferred calls of watch.go): application goroutines that call Watch,  *)
(* WatchTyped and Close or cancel the contexts they passed, the watch        *)
(* goroutines they launch, and the callbacks these run, which may call Close *)
(* themselves.  A section under watchMu is one action; nothing blocks while  *)
(* it is held.  What the loop does between two deliveries is module          *)
(* WatchLoop; here it only delivers, and ends.                               *)
EXTENDS Integers

CONSTANTS
  Ctxs,              \* contexts an application hands to the Provider
  WatchCtx,          \* the one of WithWatchContext, parent of every Watch
  MaxWatches,        \* bound on the goroutines ever launched
  Setups             \* Providers and applications to consider

ASSUME LifecycleAssumption ==
  /\ WatchCtx \in Ctxs
  /\ MaxWatches \in Nat
  /\ Setups \subseteq
       [ownsClient : BOOLEAN,        \* the client is built by New, not WithClient
        closeTimeout : BOOLEAN,      \* WithCloseTimeout > 0
        closeInCallback : BOOLEAN,   \* a callback may call Close
        callbacksReturn : BOOLEAN]   \* no callback runs for ever

Watches == 1..MaxWatches
None == 0

VARIABLES
  setup,          \* never changed
  closed,         \* Provider.closed
  watchCancel,    \* Provider.watchCancel: whose context it cancels
  watchCb,        \* Provider.watchCb and watchTypedCb: whose callback
  watchTypedCb,
  watchDone,      \* Provider.watchDone: whose channel
  launched,       \* goroutines launched so far; they are numbered
  loop,           \* where each goroutine is
  parent,         \* the context each was derived from
  panicking,      \* goroutines a panic is unwinding
  calling,        \* whose callbacks each goroutine is running
  cancelled,      \* contexts cancelled by their own cancel function
  ctxsDone,       \* application contexts that are cancelled
  signalled,      \* watchDone channels closed
  typedCalls,     \* WatchTyped calls past their context check
  closeAt,        \* where the effective Close is
  closeFrom,      \* the goroutine whose callback called it, or None
  waitFor,        \* the channel it waits for
  timedOut,       \* it stopped waiting
  clientClosed

slotVars == <<watchCancel, watchCb, watchTypedCb, watchDone>>
loopVars == <<launched, loop, parent, panicking, calling>>
ctxVars == <<setup, cancelled, ctxsDone>>
closeVars == <<closed, closeAt, closeFrom, waitFor, timedOut, clientClosed>>
vars == <<slotVars, loopVars, ctxVars, signalled, typedCalls, closeVars>>

LoopStates == {"none", "running", "calling", "signal", "recover", "clear", "gone"}
CloseStates == {"no", "cancel", "wait", "client", "done"}

Init ==
  /\ setup \in Setups
  /\ watchCancel = None /\ watchCb = None /\ watchTypedCb = None /\ watchDone = None
  /\ launched = 0
  /\ loop = [g \in Watches |-> "none"]
  /\ parent = [g \in Watches |-> WatchCtx]
  /\ panicking = {} /\ calling = [g \in Watches |-> {}]
  /\ cancelled = {} /\ ctxsDone = {} /\ signalled = {} /\ typedCalls = {}
  /\ closed = FALSE /\ closeAt = "no" /\ closeFrom = None /\ waitFor = None
  /\ timedOut = FALSE /\ clientClosed = FALSE

\* The context of goroutine g is cancelled.
Done(g) == g \in cancelled \/ parent[g] \in ctxsDone

\* Goroutine g exists and has not finished.
Live(g) == loop[g] \notin {"none", "gone"}

-----------------------------------------------------------------------------
(* The application.                                                          *)

CancelCtx ==
  \E x \in Ctxs \ ctxsDone :
    /\ ctxsDone' = ctxsDone \cup {x}
    /\ UNCHANGED <<setup, slotVars, loopVars, cancelled, signalled, typedCalls, closeVars>>

\* Definitions named Bug... are mistakes the properties are tested with; nothing
\* uses them.

\* Otherwise Watch and WatchTyped return ErrClosed or ErrWatchActive.
BugActiveUnchecked == ~closed
BugClosedUnchecked == watchCancel = None
SlotFree == ~closed /\ watchCancel = None

\* The free slot is taken by a new goroutine, whose context is derived from x.
Launch(x) ==
  /\ SlotFree
  /\ launched < MaxWatches
  /\ launched' = launched + 1
  /\ watchCancel' = launched' /\ watchDone' = launched'
  /\ loop' = [loop EXCEPT ![launched'] = "running"]
  /\ parent' = [parent EXCEPT ![launched'] = x]
  /\ UNCHANGED <<panicking, calling, ctxVars, signalled, closeVars>>

\* Watch; where it returns ErrClosed or ErrWatchActive it changes nothing.
Watch ==
  /\ Launch(WatchCtx)
  /\ watchCb' = launched'
  /\ UNCHANGED <<watchTypedCb, typedCalls>>

\* WatchTyped checks its context before it takes the lock ...
TypedCheck ==
  \E x \in Ctxs \ (ctxsDone \cup typedCalls) :
    /\ typedCalls' = typedCalls \cup {x}
    /\ UNCHANGED <<slotVars, loopVars, ctxVars, signalled, closeVars>>

\* ... and takes the slot, or finds it taken or the Provider closed.
TypedInstall ==
  \E x \in typedCalls :
    /\ typedCalls' = typedCalls \ {x}
    /\ \/ /\ Launch(x)
          /\ watchTypedCb' = launched'
          /\ UNCHANGED watchCb
       \/ /\ ~SlotFree
          /\ UNCHANGED <<slotVars, loopVars, ctxVars, signalled, closeVars>>

-----------------------------------------------------------------------------
(* A watch goroutine.                                                        *)

\* deliverBatch: read the callbacks under the lock, then call what was read.
BugCalledAside(g) ==
  /\ loop[g] = "running"
  /\ calling' = [calling EXCEPT ![g] = {watchTypedCb, watchCb} \ {None}]
  /\ UNCHANGED <<slotVars, launched, loop, parent, panicking, ctxVars, signalled,
                 typedCalls, closeVars>>
Deliver(g) ==
  /\ loop[g] = "running"
  /\ loop' = [loop EXCEPT ![g] = "calling"]
  /\ calling' = [calling EXCEPT ![g] = {watchTypedCb, watchCb} \ {None}]
  /\ UNCHANGED <<slotVars, launched, parent, panicking, ctxVars, signalled,
                 typedCalls, closeVars>>

\* The callback returns, or panics and deliverBatch recovers it; not before a
\* Close it has called returns.
CallbackReturns(g) ==
  /\ loop[g] = "calling"
  /\ closeFrom = g => closeAt = "done"
  /\ loop' = [loop EXCEPT ![g] = "running"]
  /\ calling' = [calling EXCEPT ![g] = {}]
  /\ UNCHANGED <<slotVars, launched, parent, panicking, ctxVars, signalled,
                 typedCalls, closeVars>>

\* The loop returns: its context is cancelled, or etcd refuses permission.
LoopReturns(g) ==
  /\ loop[g] = "running"
  /\ loop' = [loop EXCEPT ![g] = "signal"]
  /\ UNCHANGED <<slotVars, launched, parent, panicking, calling, ctxVars,
                 signalled, typedCalls, closeVars>>

\* A hook or the key transform panics; nothing recovers before the defers.
LoopPanics(g) ==
  /\ loop[g] = "running"
  /\ loop' = [loop EXCEPT ![g] = "signal"]
  /\ panicking' = panicking \cup {g}
  /\ UNCHANGED <<slotVars, launched, parent, calling, ctxVars, signalled,
                 typedCalls, closeVars>>

\* The deferred calls, last one first.
SignalWatchDone(g) ==
  /\ loop[g] = "signal"
  /\ loop' = [loop EXCEPT ![g] = "recover"]
  /\ signalled' = IF watchDone # None THEN signalled \cup {watchDone} ELSE signalled
  /\ UNCHANGED <<slotVars, launched, parent, panicking, calling, ctxVars,
                 typedCalls, closeVars>>

RecoverWatchPanic(g) ==
  /\ loop[g] = "recover"
  /\ loop' = [loop EXCEPT ![g] = "clear"]
  /\ panicking' = panicking \ {g}
  /\ UNCHANGED <<slotVars, launched, parent, calling, ctxVars, signalled,
                 typedCalls, closeVars>>

BugCancelKept(g) ==
  /\ loop[g] = "clear"
  /\ loop' = [loop EXCEPT ![g] = "gone"]
  /\ watchCb' = None /\ watchTypedCb' = None /\ watchDone' = None
  /\ UNCHANGED <<watchCancel, launched, parent, panicking, calling, ctxVars,
                 signalled, typedCalls, closeVars>>
BugCallbackKept(g) ==
  /\ loop[g] = "clear"
  /\ loop' = [loop EXCEPT ![g] = "gone"]
  /\ watchCancel' = None /\ watchTypedCb' = None /\ watchDone' = None
  /\ UNCHANGED <<watchCb, launched, parent, panicking, calling, ctxVars,
                 signalled, typedCalls, closeVars>>
ClearWatchState(g) ==
  /\ loop[g] = "clear"
  /\ loop' = [loop EXCEPT ![g] = "gone"]
  /\ watchCancel' = None /\ watchCb' = None
  /\ watchTypedCb' = None /\ watchDone' = None
  /\ UNCHANGED <<launched, parent, panicking, calling, ctxVars, signalled,
                 typedCalls, closeVars>>

-----------------------------------------------------------------------------
(* Close.  Only the first call does anything, so one is enough.              *)

\* closed.CompareAndSwap, by the application or by a callback.
CloseStart ==
  /\ ~closed
  /\ closed' = TRUE
  /\ closeAt' = "cancel"
  /\ closeFrom' \in {None} \cup {g \in Watches : setup.closeInCallback /\ loop[g] = "calling"}
  /\ UNCHANGED <<slotVars, loopVars, ctxVars, signalled, typedCalls,
                 waitFor, timedOut, clientClosed>>

\* Under the lock: cancel the active watch and pick up its channel.
BugCancelNil ==
  /\ closeAt = "cancel"
  /\ closeAt' = "wait"
  /\ cancelled' = cancelled \cup {watchCancel}
  /\ watchCancel' = None
  /\ waitFor' = watchDone
  /\ UNCHANGED <<setup, watchCb, watchTypedCb, watchDone, loopVars, ctxsDone, signalled,
                 typedCalls, closed, closeFrom, timedOut, clientClosed>>
CloseCancel ==
  /\ closeAt = "cancel"
  /\ closeAt' = "wait"
  /\ cancelled' = IF watchCancel # None THEN cancelled \cup {watchCancel} ELSE cancelled
  /\ watchCancel' = None
  /\ waitFor' = watchDone
  /\ UNCHANGED <<setup, watchCb, watchTypedCb, watchDone, loopVars, ctxsDone, signalled,
                 typedCalls, closed, closeFrom, timedOut, clientClosed>>

\* The channel is closed, or there was nothing to wait for.
BugNoWait ==
  /\ closeAt = "wait"
  /\ closeAt' = "client"
  /\ UNCHANGED <<slotVars, loopVars, ctxVars, signalled, typedCalls,
                 closed, closeFrom, waitFor, timedOut, clientClosed>>
CloseWaits ==
  /\ closeAt = "wait"
  /\ waitFor = None \/ waitFor \in signalled
  /\ closeAt' = "client"
  /\ UNCHANGED <<slotVars, loopVars, ctxVars, signalled, typedCalls,
                 closed, closeFrom, waitFor, timedOut, clientClosed>>

\* The close timeout elapses.
BugTimeoutInverted ==
  /\ closeAt = "wait"
  /\ ~setup.closeTimeout /\ waitFor # None
  /\ closeAt' = "client"
  /\ timedOut' = TRUE
  /\ UNCHANGED <<slotVars, loopVars, ctxVars, signalled, typedCalls,
                 closed, closeFrom, waitFor, clientClosed>>
CloseGivesUp ==
  /\ closeAt = "wait"
  /\ setup.closeTimeout /\ waitFor # None
  /\ closeAt' = "client"
  /\ timedOut' = TRUE
  /\ UNCHANGED <<slotVars, loopVars, ctxVars, signalled, typedCalls,
                 closed, closeFrom, waitFor, clientClosed>>

\* A client that New built is closed, one of WithClient is not.
CloseClient ==
  /\ closeAt = "client"
  /\ closeAt' = "done"
  /\ clientClosed' = setup.ownsClient
  /\ UNCHANGED <<slotVars, loopVars, ctxVars, signalled, typedCalls,
                 closed, closeFrom, waitFor, timedOut>>

-----------------------------------------------------------------------------

Defers(g) == SignalWatchDone(g) \/ RecoverWatchPanic(g) \/ ClearWatchState(g)
Goroutine(g) ==
  Deliver(g) \/ CallbackReturns(g) \/ LoopReturns(g) \/ LoopPanics(g) \/ Defers(g)
Close == CloseStart \/ CloseCancel \/ CloseWaits \/ CloseGivesUp \/ CloseClient

Next ==
  \/ CancelCtx \/ Watch \/ TypedCheck \/ TypedInstall
  \/ \E g \in Watches : Goroutine(g)
  \/ Close

Spec == Init /\ [][Next]_vars

(* Scheduling: goroutines that can run do, a cancelled loop comes to its end *)
(* (CancelStops of module WatchLoop), and a Close that was called goes on,   *)
(* by its timeout where it has one.  Nobody has to call or cancel anything,  *)
(* and a callback may run forever.  Where callbacks return, a cancelled loop *)
(* stops even if there is always one more batch to hand over: Go's select    *)
(* picks at random and does not choose the batch for ever.                   *)
FairSpec ==
  /\ Spec
  /\ \A g \in Watches :
       /\ WF_vars(Done(g) /\ LoopReturns(g)) /\ WF_vars(Defers(g))
       /\ WF_vars(setup.callbacksReturn /\ CallbackReturns(g))
       /\ SF_vars(setup.callbacksReturn /\ Done(g) /\ LoopReturns(g))
  /\ WF_vars(CloseCancel) /\ WF_vars(CloseWaits)
  /\ WF_vars(CloseGivesUp) /\ WF_vars(CloseClient)

-----------------------------------------------------------------------------
(* Properties.                                                               *)

\* Every variable keeps its type.
TypeOK ==
  /\ setup \in Setups
  /\ {watchCancel, watchCb, watchTypedCb, watchDone, waitFor, closeFrom, launched}
       \subseteq 0..MaxWatches
  /\ loop \in [Watches -> LoopStates]
  /\ parent \in [Watches -> Ctxs]
  /\ calling \in [Watches -> SUBSET Watches]
  /\ panicking \subseteq Watches /\ cancelled \subseteq Watches
  /\ signalled \subseteq Watches
  /\ ctxsDone \subseteq Ctxs /\ typedCalls \subseteq Ctxs
  /\ {closed, timedOut, clientClosed} \subseteq BOOLEAN
  /\ closeAt \in CloseStates

\* "only one watch is active per Provider at a time" (README.md): a goroutine
\* that is being unwound still owns the slot, so a new one never joins it.
SingleWatcher == \A g, h \in Watches : Live(g) /\ Live(h) => g = h

\* The goroutine that unwinds finds its own channel in the slot, still open:
\* closing another watch's channel would let a Close return early, closing its
\* own twice would panic outside of any recover.
SignalsItsOwn ==
  \A g \in Watches : loop[g] = "signal" => watchDone = g /\ g \notin signalled

\* A batch goes to the callback of the watch that received it, to that one and
\* to no other, although deliverBatch reads the slot anew for each batch.
CallsItsOwn == \A g \in Watches : loop[g] = "calling" => calling[g] = {g}

\* Once Close has been through its critical section, every goroutine there is
\* has its context cancelled: none can have been launched past it.
NoLeak ==
  closeAt \in {"wait", "client", "done"} =>
    \A g \in Watches : Live(g) => g \in cancelled

\* Close "waits for the watch goroutine (with a bounded timeout), and only then
\* tears down the built-in client" (SECURITY.md): unless it timed out, no loop is
\* running and no callback is being called when the client is closed or later.
QuietAfterClose ==
  closeAt \in {"client", "done"} /\ ~timedOut =>
    \A g \in Watches : loop[g] \notin {"running", "calling"}

\* All of the above as an application sees it: the goroutines, the slot they share
\* and its lock implement one watch at a time, whose batches go to its callback and
\* to no other, and after which Close is quiet; the goroutine alive is the watch.
Slot == INSTANCE WatchSlot WITH
  bounded <- setup.closeTimeout,
  started <- launched,
  active <- watchDone,
  over <- watchDone # None /\ loop[watchDone] \in {"recover", "clear"},
  called <- UNION {calling[g] : g \in Watches},
  close <- IF ~closed THEN "open"
           ELSE IF closeAt \in {"cancel", "wait"} THEN "closing"
           ELSE IF timedOut THEN "gaveUp" ELSE "drained",
  client <- IF clientClosed THEN "closed" ELSE "open"
SlotSpec == Slot!Spec

\* A callback does not run for ever, not even by waiting for itself.
CallbacksEnd ==
  setup.callbacksReturn /\ (setup.closeInCallback => setup.closeTimeout)

\* Close returns: with a timeout even if a callback never does, or is the one
\* that called it; without a timeout if callbacks return and do not call it.
CloseReturns ==
  closed /\ (setup.closeTimeout \/ CallbacksEnd) ~> closeAt = "done"

\* A cancelled watch whose callback returns gives its slot back, so that the
\* Provider can be watched again without Close.
SlotIsFreed ==
  \A g \in Watches :
    Live(g) /\ Done(g) /\ CallbacksEnd ~> loop[g] = "gone" /\ watchCancel # g
=============================================================================
