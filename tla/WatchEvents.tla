---------------------------- MODULE WatchEvents -----------------------------
(* Change events as a watch hands them to the consumer: which of the changes *)
(* in a history of transactions a watched key or prefix, with its event      *)
(* filter, turns into events.  A batch is a set: an event is identified by   *)
(* its key and its revision, and the order inside a batch is the order of    *)
(* the revisions in it.                                                      *)
EXTENDS Integers, Sequences

CONSTANTS
  Watched,    \* keys of the watched key or prefix
  Want,       \* kinds of change the event filter lets through
  NoKey       \* the Key of a Resync event

\* The events of the revisions lo..hi of history h.
Wanted(h, lo, hi) ==
  {e \in [key : Watched, rev : lo..hi] :
     /\ e.rev \in DOMAIN h
     /\ e.key \in DOMAIN h[e.rev]
     /\ h[e.rev][e.key] \in Want}

ResyncEvent(r) == [key |-> NoKey, rev |-> r]
=============================================================================
