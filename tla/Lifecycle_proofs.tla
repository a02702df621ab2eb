-------------------------- MODULE Lifecycle_proofs --------------------------
(* The safety properties of Lifecycle hold for any number of watches and     *)
(* contexts.  The argument: whoever is alive owns the whole slot, from the   *)
(* launch to clearWatchState, except that Close may have taken the cancel    *)
(* function out of it; and it can have done so only after setting closed,    *)
(* which keeps Watch and WatchTyped from using the gap.                      *)
EXTENDS Lifecycle, TLAPS

\* Goroutines are numbered in the order of their launch.
Numbered == \A g \in Watches : g > launched => loop[g] = "none"

\* A live goroutine's channel and callback fill the slot; its cancel function is
\* there too until Close has taken it.
OwnsSlot ==
  \A g \in Watches : Live(g) =>
    /\ watchDone = g
    /\ \/ watchCb = g /\ watchTypedCb = None
       \/ watchCb = None /\ watchTypedCb = g
    /\ watchCancel = g \/ closeAt \in {"wait", "client", "done"}

\* Nothing is left in the slot when nobody is alive.
SlotIsLive ==
  /\ watchDone # None => watchDone \in Watches /\ Live(watchDone)
  /\ watchCancel \in {None, watchDone}
  /\ watchCb \in {None, watchDone} /\ watchTypedCb \in {None, watchDone}

\* A channel is closed by the first deferred call of its goroutine.
Signalled ==
  \A g \in Watches : g \in signalled => loop[g] \in {"recover", "clear", "gone"}

\* No callback runs on where the loop goes on.
NotAside == \A g \in Watches : loop[g] # "calling" => calling[g] = {}

\* How far Close has come, and what its critical section leaves behind.
CloseKnows ==
  /\ closed <=> closeAt # "no"
  /\ timedOut => closeAt \in {"client", "done"}
  /\ clientClosed => closeAt = "done"
  /\ closeAt \in {"wait", "client", "done"} =>
       /\ watchCancel = None
       /\ \A g \in Watches : Live(g) => g \in cancelled /\ waitFor = g

IInv == /\ TypeOK /\ Numbered /\ OwnsSlot /\ SlotIsLive /\ Signalled
        /\ NotAside /\ CloseKnows /\ CallsItsOwn /\ QuietAfterClose

-----------------------------------------------------------------------------

USE DEF Watches, None

\* Every step of Lifecycle keeps the types of the variables.
LEMMA TypingStep ==
  ASSUME TypeOK, [Next]_vars
  PROVE  TypeOK'
<1> USE LifecycleAssumption DEF TypeOK, slotVars, loopVars, ctxVars, closeVars,
        LoopStates, CloseStates
<1>1. CASE CancelCtx
  BY <1>1 DEF CancelCtx
<1>2. CASE Watch
  BY <1>2 DEF Watch, Launch, SlotFree
<1>3. CASE TypedCheck
  BY <1>3 DEF TypedCheck
<1>4. ASSUME NEW x \in typedCalls, Launch(x), watchTypedCb' = launched',
             UNCHANGED watchCb, typedCalls' = typedCalls \ {x}
      PROVE  TypeOK'
  BY <1>4 DEF Launch, SlotFree
<1>12. CASE TypedInstall
  <2>1. PICK x \in typedCalls :
          /\ typedCalls' = typedCalls \ {x}
          /\ \/ Launch(x) /\ watchTypedCb' = launched' /\ UNCHANGED watchCb
             \/ UNCHANGED <<slotVars, loopVars, ctxVars, signalled, closeVars>>
    BY <1>12 DEF TypedInstall, SlotFree
  <2>2. CASE UNCHANGED <<slotVars, loopVars, ctxVars, signalled, closeVars>>
    BY <2>1, <2>2
  <2> QED BY <1>4, <2>1, <2>2
<1>5. ASSUME NEW g \in Watches, Goroutine(g)
      PROVE  TypeOK'
  <2>1. CASE Deliver(g)
    BY <2>1 DEF Deliver
  <2>2. CASE CallbackReturns(g)
    BY <2>2 DEF CallbackReturns
  <2>3. CASE LoopReturns(g)
    BY <2>3 DEF LoopReturns
  <2>4. CASE LoopPanics(g)
    BY <2>4 DEF LoopPanics
  <2>5. CASE SignalWatchDone(g)
    <3>1. watchDone # None => watchDone \in Watches
      OBVIOUS
    <3>2. signalled' \subseteq Watches
      BY <2>5, <3>1 DEF SignalWatchDone
    <3> QED BY <2>5, <3>2 DEF SignalWatchDone
  <2>6. CASE RecoverWatchPanic(g)
    BY <2>6 DEF RecoverWatchPanic
  <2>7. CASE ClearWatchState(g)
    BY <2>7 DEF ClearWatchState
  <2> QED BY <1>5, <2>1, <2>2, <2>3, <2>4, <2>5, <2>6, <2>7 DEF Goroutine, Defers
<1>6. CASE CloseStart
  BY <1>6 DEF CloseStart
<1>7. CASE CloseCancel
  <2>1. watchCancel # None => watchCancel \in Watches
    OBVIOUS
  <2>2. cancelled' \subseteq Watches
    BY <1>7, <2>1 DEF CloseCancel
  <2> QED BY <1>7, <2>2 DEF CloseCancel
<1>8. CASE CloseWaits
  BY <1>8 DEF CloseWaits
<1>9. CASE CloseGivesUp
  BY <1>9 DEF CloseGivesUp
<1>10. CASE CloseClient
  BY <1>10 DEF CloseClient
<1>11. CASE UNCHANGED vars
  BY <1>11 DEF vars
<1> QED BY <1>1, <1>2, <1>3, <1>12, <1>5, <1>6, <1>7, <1>8, <1>9, <1>10, <1>11 DEF Next, Close

\* Every step keeps the invariant: a launch finds nobody alive, and nobody else
\* alive can disturb the slot of the one that is.
LEMMA InvariantStep ==
  ASSUME IInv, [Next]_vars
  PROVE  IInv'
<1>1. TypeOK'
  BY TypingStep DEF IInv
<1> USE <1>1 DEF IInv, TypeOK, Live, LoopStates, CloseStates, slotVars, loopVars,
        ctxVars, closeVars
<1> USE DEF Numbered, OwnsSlot, SlotIsLive, Signalled, NotAside, CloseKnows,
        CallsItsOwn, QuietAfterClose
<1>2. CASE CancelCtx
  BY <1>2 DEF CancelCtx
<1>3. CASE TypedCheck
  BY <1>3 DEF TypedCheck
<1>4. ASSUME ~closed, watchCancel = None
      PROVE  \A g \in Watches : ~Live(g)
  BY <1>4
<1>5. ASSUME NEW x \in Ctxs, Launch(x),
             \/ watchCb' = launched' /\ UNCHANGED watchTypedCb
             \/ watchTypedCb' = launched' /\ UNCHANGED watchCb
      PROVE  IInv'
  BY <1>4, <1>5 DEF Launch, SlotFree
<1>6. CASE Watch
  BY <1>5, <1>6, LifecycleAssumption DEF Watch
<1>7. CASE TypedInstall
  <2>1. PICK x \in typedCalls :
          \/ Launch(x) /\ watchTypedCb' = launched' /\ UNCHANGED watchCb
          \/ UNCHANGED <<slotVars, loopVars, ctxVars, signalled, closeVars>>
    BY <1>7 DEF TypedInstall, SlotFree
  <2>2. CASE UNCHANGED <<slotVars, loopVars, ctxVars, signalled, closeVars>>
    BY <2>2
  <2> QED BY <1>5, <2>1, <2>2
<1>8. ASSUME NEW g \in Watches, Goroutine(g)
      PROVE  IInv'
  <2>1. CASE Deliver(g)
    <3>1. \A h \in Watches :
            /\ loop'[h] = IF h = g THEN "calling" ELSE loop[h]
            /\ calling'[h] = IF h = g THEN {watchTypedCb, watchCb} \ {None} ELSE calling[h]
      BY <2>1 DEF Deliver
    <3>2. UNCHANGED <<slotVars, launched, cancelled, signalled, closeVars>>
          /\ loop[g] = "running" /\ Live(g)
      BY <2>1 DEF Deliver
    <3>3. {watchTypedCb, watchCb} \ {None} = {g}
      BY <3>2
    <3>4. NotAside' /\ CallsItsOwn'
      BY <3>1, <3>3
    <3> QED BY <3>1, <3>2, <3>4
  <2>2. CASE CallbackReturns(g)
    <3>1. \A h \in Watches :
            /\ loop'[h] = IF h = g THEN "running" ELSE loop[h]
            /\ calling'[h] = IF h = g THEN {} ELSE calling[h]
      BY <2>2 DEF CallbackReturns
    <3>2. UNCHANGED <<slotVars, launched, cancelled, signalled, closeVars>>
          /\ loop[g] = "calling" /\ Live(g)
      BY <2>2 DEF CallbackReturns
    <3>3. NotAside' /\ CallsItsOwn'
      BY <3>1
    <3> QED BY <3>1, <3>2, <3>3
  <2>3. CASE LoopReturns(g) \/ LoopPanics(g)
    <3>1. \A h \in Watches : loop'[h] = IF h = g THEN "signal" ELSE loop[h]
      BY <2>3 DEF LoopReturns, LoopPanics
    <3>2. UNCHANGED <<slotVars, launched, calling, cancelled, signalled, closeVars>>
          /\ loop[g] = "running" /\ Live(g)
      BY <2>3 DEF LoopReturns, LoopPanics
    <3>3. NotAside' /\ CallsItsOwn'
      BY <3>1, <3>2
    <3> QED BY <3>1, <3>2, <3>3
  <2>5. CASE SignalWatchDone(g)
    BY <2>5 DEF SignalWatchDone
  <2>6. CASE RecoverWatchPanic(g)
    BY <2>6 DEF RecoverWatchPanic
  <2>7. CASE ClearWatchState(g)
    BY <2>7 DEF ClearWatchState
  <2> QED BY <1>8, <2>1, <2>2, <2>3, <2>5, <2>6, <2>7 DEF Goroutine, Defers
<1>9. CASE CloseStart
  BY <1>9 DEF CloseStart
<1>10. CASE CloseCancel
  BY <1>10 DEF CloseCancel
<1>11. CASE CloseWaits
  BY <1>11 DEF CloseWaits
<1>12. CASE CloseGivesUp
  BY <1>12 DEF CloseGivesUp
<1>13. CASE CloseClient
  BY <1>13 DEF CloseClient
<1>14. CASE UNCHANGED vars
  BY <1>14 DEF vars
<1> QED BY <1>2, <1>3, <1>6, <1>7, <1>8, <1>9, <1>10, <1>11, <1>12, <1>13, <1>14 DEF Next, Close

LEMMA InvariantInit == Init => IInv
<1> SUFFICES ASSUME Init PROVE IInv
  OBVIOUS
<1>1. TypeOK
  <2>1. {watchCancel, watchCb, watchTypedCb, watchDone, waitFor, closeFrom, launched}
          \subseteq 0..MaxWatches
    BY LifecycleAssumption DEF Init
  <2>2. /\ loop \in [Watches -> LoopStates]
        /\ parent \in [Watches -> Ctxs]
        /\ calling \in [Watches -> SUBSET Watches]
    BY LifecycleAssumption DEF Init, LoopStates
  <2> QED BY <2>1, <2>2 DEF Init, TypeOK, CloseStates
<1>2. \A g \in Watches : loop[g] = "none" /\ g \notin signalled /\ calling[g] = {}
  BY DEF Init
<1>3. \A g \in Watches : ~Live(g)
  BY <1>2 DEF Live
<1> QED
  BY <1>1, <1>2, <1>3
     DEF Init, IInv, Numbered, OwnsSlot, SlotIsLive, Signalled, NotAside,
         CloseKnows, CallsItsOwn, QuietAfterClose

\* The strengthened invariant holds in every reachable state.
THEOREM Invariance == Spec => []IInv
<1>1. IInv /\ [Next]_vars => IInv'
  BY InvariantStep
<1> QED BY InvariantInit, <1>1, PTL DEF Spec

\* Every variable keeps its type, for any number of watches and contexts.
THEOREM Typing == Spec => []TypeOK
<1>1. IInv => TypeOK
  BY DEF IInv
<1> QED BY <1>1, Invariance, PTL

\* Never more than one watch goroutine is alive: Watch and WatchTyped take the
\* slot only after clearWatchState of the last one, which is its last step.
THEOREM OneWatcher == Spec => []SingleWatcher
<1>1. IInv => SingleWatcher
  BY DEF IInv, OwnsSlot, SingleWatcher
<1> QED BY <1>1, Invariance, PTL

\* signalWatchDone closes the channel of its own goroutine, and closes it once.
THEOREM OwnSignal == Spec => []SignalsItsOwn
<1>1. IInv => SignalsItsOwn
  BY DEF IInv, OwnsSlot, Signalled, SignalsItsOwn, Live
<1> QED BY <1>1, Invariance, PTL

\* deliverBatch calls the callback its goroutine was launched with, and only that.
THEOREM OwnCallback == Spec => []CallsItsOwn
<1>1. IInv => CallsItsOwn
  BY DEF IInv
<1> QED BY <1>1, Invariance, PTL

\* After the critical section of Close no goroutine is left with a live context,
\* whatever Watch and WatchTyped calls race with it.
THEOREM CloseCancelsAll == Spec => []NoLeak
<1>1. IInv => NoLeak
  BY DEF IInv, CloseKnows, NoLeak
<1> QED BY <1>1, Invariance, PTL

\* A Close that did not time out closes the client, and returns, with no loop
\* running and no callback in progress.
THEOREM CloseDrains == Spec => []QuietAfterClose
<1>1. IInv => QuietAfterClose
  BY DEF IInv
<1> QED BY <1>1, Invariance, PTL

-----------------------------------------------------------------------------
(* Lifecycle implements WatchSlot.                                           *)

\* The callbacks that run are those of the goroutine in the slot, if it calls any.
LEMMA CallingIn ==
  ASSUME NEW call, NEW at, NEW done,
         \A g \in Watches : at[g] = "calling" => g = done /\ call[g] = {g},
         \A g \in Watches : at[g] # "calling" => call[g] = {}
  PROVE  UNION {call[g] : g \in Watches}
           = IF done \in Watches /\ at[done] = "calling" THEN {done} ELSE {}
<1>1. CASE done \in Watches /\ at[done] = "calling"
  <2>1. \A g \in Watches \ {done} : call[g] = {}
    OBVIOUS
  <2>2. call[done] = {done}
    BY <1>1
  <2> QED BY <1>1, <2>1, <2>2
<1>2. CASE ~(done \in Watches /\ at[done] = "calling")
  <2>1. \A g \in Watches : call[g] = {}
    BY <1>2
  <2> QED BY <1>2, <2>1
<1> QED BY <1>1, <1>2

Called == UNION {calling[g] : g \in Watches}

LEMMA SlotStep ==
  ASSUME IInv, IInv', [Next]_vars
  PROVE  [Slot!Next]_(Slot!slotVars)
<1> USE DEF Live, LoopStates, CloseStates
<1>1. /\ Called = IF watchDone \in Watches /\ loop[watchDone] = "calling"
                  THEN {watchDone} ELSE {}
      /\ Called' = IF watchDone' \in Watches /\ loop'[watchDone'] = "calling"
                   THEN {watchDone'} ELSE {}
  <2>1. /\ \A g \in Watches : loop[g] = "calling" => g = watchDone /\ calling[g] = {g}
        /\ \A g \in Watches : loop[g] # "calling" => calling[g] = {}
    BY DEF IInv, OwnsSlot, CallsItsOwn, NotAside
  <2>2. /\ \A g \in Watches : loop'[g] = "calling" => g = watchDone' /\ calling'[g] = {g}
        /\ \A g \in Watches : loop'[g] # "calling" => calling'[g] = {}
    BY DEF IInv, OwnsSlot, CallsItsOwn, NotAside
  <2>3. Called = IF watchDone \in Watches /\ loop[watchDone] = "calling"
                 THEN {watchDone} ELSE {}
    BY <2>1, CallingIn DEF Called
  <2>4. Called' = IF watchDone' \in Watches /\ loop'[watchDone'] = "calling"
                  THEN {watchDone'} ELSE {}
    BY <2>2, CallingIn DEF Called
  <2> QED BY <2>3, <2>4
<1>2. /\ loop \in [Watches -> LoopStates] /\ launched \in 0..MaxWatches
      /\ watchDone # None => watchDone \in Watches /\ Live(watchDone)
      /\ watchDone' # None => watchDone' \in Watches
      /\ \A g \in Watches : Live(g) => watchDone = g
      /\ closed <=> closeAt # "no"
      /\ setup.closeTimeout \in BOOLEAN /\ closed \in BOOLEAN
  BY LifecycleAssumption DEF IInv, TypeOK, OwnsSlot, SlotIsLive, CloseKnows
<1> DEFINE over == watchDone # None /\ loop[watchDone] \in {"recover", "clear"}
           close == IF ~closed THEN "open"
                    ELSE IF closeAt \in {"cancel", "wait"} THEN "closing"
                    ELSE IF timedOut THEN "gaveUp" ELSE "drained"
           client == IF clientClosed THEN "closed" ELSE "open"
<1>3. /\ Slot!slotVars
           = <<setup.closeTimeout, launched, watchDone, over, Called, close, client>>
      /\ UNCHANGED <<setup, launched, watchDone, over, Called, close, client>>
           => UNCHANGED Slot!slotVars
  BY DEF Slot!slotVars, Called
<1>4. ASSUME UNCHANGED <<setup, slotVars, loop, calling, closeVars, launched>>
      PROVE  UNCHANGED Slot!slotVars
  BY <1>3, <1>4 DEF Called, slotVars, closeVars
<1>5. CASE CancelCtx \/ TypedCheck \/ UNCHANGED vars
  BY <1>4, <1>5 DEF CancelCtx, TypedCheck, vars, loopVars, ctxVars
<1>6. ASSUME NEW x, Launch(x)
      PROVE  Slot!Start
  <2>1. watchCancel = None /\ ~closed /\ watchDone = None
    BY <1>2, <1>6 DEF Launch, SlotFree, IInv, OwnsSlot
  <2>2. /\ launched' = launched + 1 /\ watchDone' = launched' /\ launched' \in Watches
        /\ loop' = [loop EXCEPT ![launched'] = "running"]
        /\ UNCHANGED <<setup, closed, closeAt, timedOut, clientClosed>>
    BY <1>2, <1>6, LifecycleAssumption DEF Launch, ctxVars, closeVars
  <2>3. loop'[watchDone'] = "running"
    BY <1>2, <2>2
  <2>4. Called = {} /\ Called' = {} /\ ~over /\ ~over'
    BY <1>1, <2>1, <2>2, <2>3
  <2> QED BY <2>1, <2>2, <2>4 DEF Slot!Start, Called
<1>7. CASE Watch
  BY <1>6, <1>7 DEF Watch, Slot!Next
<1>8. CASE TypedInstall
  BY <1>4, <1>6, <1>8 DEF TypedInstall, Slot!Next, loopVars, ctxVars
<1>9. ASSUME NEW g \in Watches, Goroutine(g)
      PROVE  [Slot!Next]_(Slot!slotVars)
  <2>1. /\ Live(g) /\ watchDone = g /\ g # None
        /\ UNCHANGED <<setup, launched, closed, closeAt, timedOut, clientClosed>>
        /\ ~ClearWatchState(g) => watchDone' = watchDone
    BY <1>2, <1>9
       DEF Goroutine, Defers, Deliver, CallbackReturns, LoopReturns, LoopPanics,
           SignalWatchDone, RecoverWatchPanic, ClearWatchState, slotVars, ctxVars, closeVars
  <2>2. UNCHANGED <<setup.closeTimeout, close, client>>
    BY <2>1
  <2>3. CASE Deliver(g)
    <3>1. watchDone' = g /\ loop[g] = "running" /\ loop'[g] = "calling"
      BY <1>2, <2>1, <2>3 DEF Deliver, slotVars
    <3>2. Called = {} /\ Called' = {g} /\ ~over /\ ~over'
      BY <1>1, <2>1, <3>1
    <3>3. Slot!HandOver
      BY <2>1, <2>2, <3>1, <3>2 DEF Slot!HandOver, Called
    <3> QED BY <3>3 DEF Slot!Next
  <2>4. CASE CallbackReturns(g)
    <3>1. watchDone' = g /\ loop[g] = "calling" /\ loop'[g] = "running"
      BY <1>2, <2>1, <2>4 DEF CallbackReturns, slotVars
    <3>2. Called = {g} /\ Called' = {} /\ ~over /\ ~over'
      BY <1>1, <2>1, <3>1
    <3>3. Slot!Return
      BY <2>1, <2>2, <3>1, <3>2 DEF Slot!Return, Called
    <3> QED BY <3>3 DEF Slot!Next
  <2>5. CASE LoopReturns(g) \/ LoopPanics(g)
    <3>1. watchDone' = g /\ loop[g] = "running" /\ loop'[g] = "signal"
      BY <1>2, <2>1, <2>5 DEF LoopReturns, LoopPanics, slotVars
    <3>2. Called = {} /\ Called' = {} /\ ~over /\ ~over'
      BY <1>1, <2>1, <3>1
    <3> QED BY <1>3, <2>1, <2>2, <3>1, <3>2
  <2>6. CASE SignalWatchDone(g)
    <3>1. watchDone' = g /\ loop[g] = "signal" /\ loop'[g] = "recover"
      BY <1>2, <2>1, <2>6 DEF SignalWatchDone, slotVars
    <3>2. Called = {} /\ Called' = {} /\ ~over /\ over'
      BY <1>1, <2>1, <3>1
    <3>3. Slot!Stop
      BY <2>1, <2>2, <3>1, <3>2 DEF Slot!Stop, Called
    <3> QED BY <3>3 DEF Slot!Next
  <2>7. CASE RecoverWatchPanic(g)
    <3>1. watchDone' = g /\ loop[g] = "recover" /\ loop'[g] = "clear"
      BY <1>2, <2>1, <2>7 DEF RecoverWatchPanic, slotVars
    <3>2. Called = {} /\ Called' = {} /\ over /\ over'
      BY <1>1, <2>1, <3>1
    <3> QED BY <1>3, <2>1, <2>2, <3>1, <3>2
  <2>8. CASE ClearWatchState(g)
    <3>1. watchDone' = None /\ loop[g] = "clear"
      BY <2>8 DEF ClearWatchState
    <3>2. Called = {} /\ Called' = {} /\ over /\ ~over'
      BY <1>1, <2>1, <3>1
    <3>3. Slot!Free
      BY <2>1, <2>2, <3>1, <3>2 DEF Slot!Free, Called
    <3> QED BY <3>3 DEF Slot!Next
  <2> QED BY <1>9, <2>3, <2>4, <2>5, <2>6, <2>7, <2>8 DEF Goroutine, Defers
<1>10. ASSUME Close, UNCHANGED <<setup, launched, watchDone, loop, calling>>
       PROVE  [Slot!Next]_(Slot!slotVars)
  <2>1. UNCHANGED <<setup.closeTimeout, launched, watchDone, over, Called>>
    BY <1>10 DEF Called
  <2>2. CASE CloseStart
    <3>1. close = "open" /\ close' = "closing" /\ UNCHANGED client
      BY <2>2 DEF CloseStart
    <3>2. Slot!CloseCalled
      BY <2>1, <3>1 DEF Slot!CloseCalled, Called
    <3> QED BY <3>2 DEF Slot!Next
  <2>3. CASE CloseCancel
    <3>1. UNCHANGED <<close, client>>
      BY <1>2, <2>3 DEF CloseCancel
    <3> QED BY <1>3, <1>10, <2>1, <3>1
  <2>4. CASE CloseWaits
    <3>1. ~timedOut /\ close = "closing" /\ close' = "drained" /\ UNCHANGED client
      BY <1>2, <2>4 DEF CloseWaits, IInv, CloseKnows
    <3>2. watchDone = None \/ over
      BY <1>2, <2>4 DEF CloseWaits, IInv, CloseKnows, Signalled
    <3>3. Slot!Drained
      BY <2>1, <3>1, <3>2 DEF Slot!Drained, Called
    <3> QED BY <3>3 DEF Slot!Next
  <2>5. CASE CloseGivesUp
    <3>1. close = "closing" /\ close' = "gaveUp" /\ UNCHANGED client /\ setup.closeTimeout
      BY <1>2, <2>5 DEF CloseGivesUp
    <3>2. Slot!GivesUp
      BY <2>1, <3>1 DEF Slot!GivesUp, Called
    <3> QED BY <3>2 DEF Slot!Next
  <2>6. CASE CloseClient
    <3>1. close \in {"drained", "gaveUp"} /\ UNCHANGED close /\ ~clientClosed
      BY <1>2, <2>6 DEF CloseClient, IInv, CloseKnows
    <3>2. client = "open" /\ client' \in {"open", "closed"}
      BY <3>1
    <3>3. CASE client' = "closed"
      <4>1. Slot!CloseClient
        BY <2>1, <3>1, <3>2, <3>3 DEF Slot!CloseClient, Called
      <4> QED BY <4>1 DEF Slot!Next
    <3>4. CASE client' = "open"
      BY <1>3, <1>10, <2>1, <3>1, <3>2, <3>4
    <3> QED BY <3>2, <3>3, <3>4
  <2> QED BY <1>10, <2>2, <2>3, <2>4, <2>5, <2>6 DEF Close
<1>11. CASE Close
  <2>1. UNCHANGED <<setup, launched, watchDone, loop, calling>>
    BY <1>11
       DEF Close, CloseStart, CloseCancel, CloseWaits, CloseGivesUp, CloseClient,
           slotVars, loopVars, ctxVars
  <2> QED BY <1>10, <1>11, <2>1
<1> QED BY <1>5, <1>7, <1>8, <1>9, <1>11 DEF Next

\* The Provider implements WatchSlot: one watch at a time, each batch to its own
\* callback and one after the other, and nothing after a Close that has waited,
\* whatever panics, cancels, callbacks that call Close and calls that race with it.
THEOREM SlotRefinement == Spec => SlotSpec
<1>1. Init => Slot!Init
  BY LifecycleAssumption DEF Init, Slot!Init
<1>2. IInv /\ IInv' /\ [Next]_vars => [Slot!Next]_(Slot!slotVars)
  BY SlotStep
<1> QED BY <1>1, <1>2, Invariance, PTL DEF Spec, SlotSpec, Slot!Spec
=============================================================================
