---------------------------- MODULE MCLifecycle -----------------------------
(* Instances of Lifecycle for TLC, and a claim of the documentation that the *)
(* code does not meet.                                                       *)
EXTENDS Lifecycle

\* Callbacks that return or hang, that call Close or not, with and without a
\* close timeout.
MCSetups ==
  [ownsClient : {TRUE}, closeTimeout : BOOLEAN, closeInCallback : BOOLEAN,
   callbacksReturn : BOOLEAN]

\* "You can then start a fresh watch" after the parent context, WithWatchContext's
\* included, has cancelled the last one (README.md): a Watch that is accepted has
\* a context under which its loop can run.
FreshWatchRuns == [][Watch => WatchCtx \notin ctxsDone]_vars
=============================================================================
