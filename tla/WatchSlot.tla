----------------------------- MODULE WatchSlot ------------------------------
(* What a Provider promises about its watches, without locks, slot fields,   *)
(* channels, contexts and deferred calls: there is one watch at a time;      *)
(* batches go to the callback of that watch, one after the other; a new      *)
(* watch can be started once the last one is finished and until Close is     *)
(* called; and Close returns after the watch has delivered its last batch,   *)
(* or, if it is bounded, gives up on it.  Only then does the client go.      *)
EXTENDS Integers

VARIABLES
  bounded,    \* Close may give up; never changed
  started,    \* watches started so far; they are numbered
  active,     \* the one that is not finished, or 0
  over,       \* it will deliver nothing more
  called,     \* watches whose callbacks are running
  close,      \* "open", "closing", "drained" or "gaveUp"
  client      \* "open" or "closed"

slotVars == <<bounded, started, active, over, called, close, client>>

Init ==
  /\ bounded \in BOOLEAN
  /\ started = 0 /\ active = 0 /\ over = FALSE /\ called = {}
  /\ close = "open" /\ client = "open"

Start ==
  /\ close = "open" /\ active = 0
  /\ started' = started + 1 /\ active' = started'
  /\ UNCHANGED <<bounded, over, called, close, client>>

HandOver ==
  /\ active # 0 /\ ~over /\ called = {}
  /\ called' = {active}
  /\ UNCHANGED <<bounded, started, active, over, close, client>>

Return ==
  /\ called # {}
  /\ called' = {}
  /\ UNCHANGED <<bounded, started, active, over, close, client>>

Stop ==
  /\ active # 0 /\ ~over /\ called = {}
  /\ over' = TRUE
  /\ UNCHANGED <<bounded, started, active, called, close, client>>

Free ==
  /\ over
  /\ active' = 0 /\ over' = FALSE
  /\ UNCHANGED <<bounded, started, called, close, client>>

CloseCalled ==
  /\ close = "open"
  /\ close' = "closing"
  /\ UNCHANGED <<bounded, started, active, over, called, client>>

Drained ==
  /\ close = "closing"
  /\ active = 0 \/ over
  /\ close' = "drained"
  /\ UNCHANGED <<bounded, started, active, over, called, client>>

GivesUp ==
  /\ close = "closing" /\ bounded
  /\ close' = "gaveUp"
  /\ UNCHANGED <<bounded, started, active, over, called, client>>

CloseClient ==
  /\ close \in {"drained", "gaveUp"} /\ client = "open"
  /\ client' = "closed"
  /\ UNCHANGED <<bounded, started, active, over, called, close>>

Next ==
  \/ Start \/ HandOver \/ Return \/ Stop \/ Free
  \/ CloseCalled \/ Drained \/ GivesUp \/ CloseClient

Spec == Init /\ [][Next]_slotVars
=============================================================================
