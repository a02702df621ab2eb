----------------------------- MODULE ChangeFeed -----------------------------
(* What a consumer is promised by Watch/WatchTyped with revision resume: the *)
(* batches it is handed partition the changes of the watched keys in         *)
(* revision order.  Each batch holds every wanted change of an interval of   *)
(* revisions that starts right after what the consumer was last told about,  *)
(* so nothing is lost, repeated, reordered or torn out of its transaction;   *)
(* the only way to skip is a Resync event, which tells the consumer to take  *)
(* the whole state again.  A watch that was started without a prior Read     *)
(* begins at a point of etcd's choosing and may move it forward until etcd   *)
(* has answered once.                                                        *)
EXTENDS WatchEvents

CONSTANT
  Rewinds     \* whether a Resync may announce an older revision than known

VARIABLES
  hist,       \* the store's history, changed by others
  informed,   \* the consumer knows every wanted change up to this revision
  anchored,   \* the start of the feed is settled
  batch       \* the batch handed over last

feedVars == <<informed, anchored, batch>>

Init == informed = 0 /\ anchored = FALSE /\ batch = {}

Anchor ==
  /\ ~anchored
  /\ informed' \in informed..Len(hist)
  /\ anchored' \in BOOLEAN
  /\ UNCHANGED batch

Deliver ==
  \E upTo \in (informed + 1)..Len(hist) :
    /\ batch' = Wanted(hist, informed + 1, upTo)
    /\ batch' # {}
    /\ informed' = upTo
    /\ anchored' = TRUE

Resync ==
  \E r \in 1..Len(hist) :
    /\ ~Rewinds => r >= informed
    /\ batch' = {ResyncEvent(r)}
    /\ informed' = r
    /\ anchored' = TRUE

Next == Anchor \/ Deliver \/ Resync

Spec == Init /\ [][Next]_feedVars
=============================================================================
