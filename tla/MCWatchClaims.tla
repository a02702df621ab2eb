--------------------------- MODULE MCWatchClaims ----------------------------
(* What the repository's documentation says of the watch loop and the code   *)
(* does not do: each is checked by a run of its own and violated.            *)
EXTENDS MCWatchLoop

\* The application has called Read before it calls Watch.
ReadFirstSpec ==
  Init /\ [][Next /\ (pc = "idle" /\ pc' = "start" => revision > 0)]_vars

\* "so no event between Read() and Watch.Start is missed" (options.go): when the
\* loop is about to watch, every change below its start revision has been told.
NoEventMissed ==
  pc = "top" /\ startRev > 0 /\ ~pendingResync =>
    Wanted(hist, informed + 1, startRev - 1) = {}
=============================================================================
