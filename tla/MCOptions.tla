----------------------------- MODULE MCOptions ------------------------------
(* An instance of Options for TLC, and a claim of the documentation that the *)
(* code does not meet.                                                       *)
EXTENDS Options

MCKeys == {<<1>>, <<1, 1>>, <<1, 2>>, <<2>>}
MCNames == {<<>>, <<1>>, <<1, 2>>}
MCBounds == {-1, 0, 1, 2, 3, 5, 6, 7, 12, 15}

\* "Pass WithAutoSync(0) to opt out" (buildClient): then the client that New
\* builds does not sync its endpoints by itself.
AutoSyncOptsOut ==
  pc = "ready" /\ settings.client = "zero" /\ "autoSync" \in given =>
    config.autoSync = "asked"
=============================================================================
