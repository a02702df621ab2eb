---------------------------- MODULE MCWatchLoop -----------------------------
(* Instances of WatchLoop for TLC.  Two watched keys and one outside the     *)
(* watched prefix; a put, a transaction that writes both watched keys, a     *)
(* deletion, and a change the watch does not see.                            *)
EXTENDS WatchLoop, TLC

CONSTANTS a, b, other

MCKeys == {a, b, other}
MCWatched == {a, b}
MCBoth == {"put", "delete"}
MCPuts == {"put"}

PutA == a :> "put"
DeleteA == a :> "delete"
PutBoth == a :> "put" @@ b :> "put"
PutOther == other :> "put"

MCAllChanges == {PutA, DeleteA, PutBoth, PutOther}
MCFewChanges == {PutA, PutOther}
=============================================================================
