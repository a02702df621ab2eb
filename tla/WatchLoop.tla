----------------------------- MODULE WatchLoop ------------------------------
(* The watch goroutine of a Provider (watch.go: watchLoop, consumeWatch,     *)
(* tryHandleCompaction, doResync) against an etcd that answers, lags, fails, *)
(* denies and compacts, and a consumer whose callback may read or panic.     *)
(*                                                                           *)
(* One action is one uninterrupted piece of the goroutine: it ends where the *)
(* goroutine waits (a select, an RPC, a sleep) or where another goroutine    *)
(* can see a difference.  A response is handled in one action, with the      *)
(* append, the forced flush, the timer and the callback it leads to.         *)
(*                                                                           *)
(* Left out: values of keys, error texts, timestamps, the counters no        *)
(* property reads (reconnects, flushes, last batch), and the panic of a hook *)
(* or key transform, which unwinds the loop (module Lifecycle).              *)
EXTENDS Etcd, WatchEvents

CONSTANTS
  Debounce,             \* WithDebounce > 0
  MaxPending,           \* WithMaxPendingEvents, 0 = no limit
  ResumeFromRevision,   \* WithResumeFromRevision
  CreatedNotify,        \* WithCreatedNotify
  ProgressNotify,       \* WithProgressNotify
  FailIfMissing,        \* WithStrict, or blob mode: a read of nothing fails
  ReadRevision,         \* WithReadRevision, 0 = latest
  PartialCatchUp,       \* etcd splits a backlog over several responses
  ConcurrentReads,      \* other goroutines call Read while the watch runs
  CallbackReads,        \* the callback may call Read
  CallbackPanics,       \* the callback may panic
  DenyResync,           \* etcd may deny the read of a resync
  MaxFaults,            \* bound on the failures injected
  MaxAttempt            \* attempt counts saturate here

ASSUME WatchLoopAssumption ==
  /\ Watched \subseteq Keys /\ IsFiniteSet(Watched)
  /\ NoKey \notin Keys /\ Want \subseteq Kinds
  /\ {Debounce, ResumeFromRevision, CreatedNotify, ProgressNotify,
      FailIfMissing, PartialCatchUp, ConcurrentReads, CallbackReads,
      CallbackPanics, DenyResync} \subseteq BOOLEAN
  /\ MaxPending \in Nat /\ ReadRevision \in Nat
  /\ MaxFaults \in Nat /\ MaxAttempt \in Nat \ {0}

VARIABLES
  pc,             \* where the goroutine is
  ctxDone,        \* the watch context is cancelled
  startRev,       \* watchLoop's locals
  attempt,
  pendingResync,
  failedAttempts,
  cursor,         \* the session: first revision etcd still owes it
  doomed,         \*   opened below the compacted revision
  greeted,        \*   no created notification outstanding
  newRev,         \* consumeWatch's locals and results
  madeProgress,
  pending,
  timerOn,
  outcome,        \* how the last session ended
  revision,       \* Provider.stats.revision
  stats,          \* other counters of Provider.stats
  reader,         \* revision a concurrent Read has fetched and not stored, or 0
  informed,       \* ghost: the consumer was told of every change up to here
  batch,          \* ghost: what the callback was last called with
  hook,           \* ghost: class last given to OnWatchError since the session opened
  recovery,       \* ghost: the last OnReconnect call, against the sleeps it ended
  sleeps,         \* ghost: backoff sleeps since progress was last made
  denied,         \* ghost: etcd has refused permission
  faults          \* failures injected so far

loopVars == <<startRev, attempt, pendingResync, failedAttempts>>
sessionVars == <<cursor, doomed, greeted, newRev, madeProgress, pending, timerOn>>
feedVars == <<informed, batch>>
reportVars == <<recovery, sleeps>>
vars == <<hist, compactRev, pc, ctxDone, loopVars, sessionVars, outcome, revision,
          stats, reader, feedVars, hook, reportVars, denied, faults>>

Outcomes == {"none", "drained", "closed", "transient", "auth", "compacted"}
Events == [key : Watched, rev : Nat]
NoStats == [received |-> 0, resyncs |-> 0, delivered |-> 0, errors |-> 0]
NoRecovery == [attempts |-> 0, slept |-> 0]

Bump(n) == IF n < MaxAttempt THEN n + 1 ELSE n

\* Definitions named Bug... are mistakes the properties are tested with; nothing
\* uses them.

\* The watch resumes behind the last revision it has seen.
BugResumeAt(r) == r
ResumeAfter(r) == r + 1

\* initialWatchRevision.
BugInitialTwice == IF ResumeFromRevision /\ revision > 0 THEN revision + 2 ELSE 0
BugInitialAt == IF ResumeFromRevision THEN revision ELSE 0
InitialWatchRevision ==
  IF ResumeFromRevision /\ revision > 0 THEN revision + 1 ELSE 0

\* isFatalRPCError: retrying would only hammer the cluster.
BugNothingFatal(how) == FALSE
FatalRPCError(how) == how = "auth"

\* The forced flush of a buffer that has reached WithMaxPendingEvents.
BugForcedLate(buffer) == MaxPending > 0 /\ Cardinality(buffer) > MaxPending
Forced(buffer) == MaxPending > 0 /\ Cardinality(buffer) >= MaxPending

\* A failed session, or a failed pending resync, is counted before the sleep.
BugCountLate == attempt' = Bump(attempt) /\ failedAttempts' = attempt
CountFailure == attempt' = Bump(attempt) /\ failedAttempts' = attempt'

Init ==
  /\ EtcdInit
  /\ pc = "idle" /\ ctxDone = FALSE
  /\ startRev = 0 /\ attempt = 0 /\ pendingResync = FALSE /\ failedAttempts = 0
  /\ cursor = 1 /\ doomed = FALSE /\ greeted = TRUE
  /\ newRev = 0 /\ madeProgress = FALSE /\ pending = {} /\ timerOn = FALSE
  /\ outcome = "none" /\ revision = 0 /\ stats = NoStats /\ reader = 0
  /\ informed = 0 /\ batch = {} /\ hook = "none"
  /\ recovery = NoRecovery /\ sleeps = 0 /\ denied = FALSE /\ faults = 0

-----------------------------------------------------------------------------
(* The consumer.                                                             *)

\* deliverBatch: count the batch, call the callback, recover its panic.  A
\* callback that reloads stores the revision of its own Read.
Hand(events, upTo, counted, seen) ==
  \E reloads \in {FALSE, CallbackReads}, panics \in {FALSE, CallbackPanics} :
    /\ batch' = events
    /\ informed' = upTo
    /\ revision' = IF reloads THEN Rev ELSE seen
    /\ stats' = [counted EXCEPT !.delivered = @ + Cardinality(events),
                                !.errors = @ + (IF panics THEN 1 ELSE 0)]
    /\ hook' = IF panics THEN "fatal" ELSE hook

\* flush: nothing at all happens for an empty buffer.
Flush(events, upTo, counted, seen) ==
  IF events = {}
  THEN revision' = seen /\ stats' = counted /\ UNCHANGED <<feedVars, hook>>
  ELSE Hand(events, upTo, counted, seen)

\* A Read: the response carries the store's revision, stored when it arrives.
ReadGet ==
  /\ pc = "idle" \/ ConcurrentReads
  /\ reader = 0
  /\ reader' = Rev
  /\ UNCHANGED <<hist, compactRev, pc, ctxDone, loopVars, sessionVars, outcome,
                 revision, stats, feedVars, hook, reportVars, denied, faults>>

ReadStore ==
  /\ reader > 0
  /\ revision' = reader
  /\ reader' = 0
  /\ UNCHANGED <<hist, compactRev, pc, ctxDone, loopVars, sessionVars, outcome,
                 stats, feedVars, hook, reportVars, denied, faults>>

\* The store's other clients.
StoreStep ==
  /\ Commit \/ Compact
  /\ UNCHANGED <<pc, ctxDone, loopVars, sessionVars, outcome, revision, stats,
                 reader, feedVars, hook, reportVars, denied, faults>>

\* Watch or WatchTyped launches the goroutine; a Read before it has returned.
WatchStart ==
  /\ pc = "idle"
  /\ ConcurrentReads \/ reader = 0
  /\ pc' = "start"
  /\ UNCHANGED <<hist, compactRev, ctxDone, loopVars, sessionVars, outcome, revision,
                 stats, reader, feedVars, hook, reportVars, denied, faults>>

\* Close, or the caller's context.
Cancel ==
  /\ pc \notin {"idle", "exit"}
  /\ ~ctxDone
  /\ ctxDone' = TRUE
  /\ UNCHANGED <<hist, compactRev, pc, loopVars, sessionVars, outcome, revision,
                 stats, reader, feedVars, hook, reportVars, denied, faults>>

-----------------------------------------------------------------------------
(* The loop outside a session.                                               *)

\* The goroutine starts.
LoopInit ==
  /\ pc = "start"
  /\ pc' = "top"
  /\ startRev' = InitialWatchRevision
  /\ informed' = IF startRev' > 0 THEN revision ELSE informed
  /\ UNCHANGED <<hist, compactRev, ctxDone, attempt, pendingResync, failedAttempts,
                 sessionVars, outcome, revision, stats, reader, batch, hook,
                 reportVars, denied, faults>>

\* The loop returns when it finds its context cancelled.
Stop ==
  /\ pc = "top"
  /\ ctxDone
  /\ pc' = "exit"
  /\ UNCHANGED <<hist, compactRev, ctxDone, loopVars, sessionVars, outcome, revision,
                 stats, reader, feedVars, hook, reportVars, denied, faults>>

\* A resync that failed before is tried again, without a watch.
RetryResync ==
  /\ pc = "top"
  /\ ~ctxDone /\ pendingResync
  /\ pc' = "resync"
  /\ UNCHANGED <<hist, compactRev, ctxDone, loopVars, sessionVars, outcome, revision,
                 stats, reader, feedVars, hook, reportVars, denied, faults>>

\* client.Watch with watchOpts, at the moment etcd creates the watcher: without
\* WithRev it starts at the next revision.
OpenSession ==
  /\ pc = "top"
  /\ ~ctxDone /\ ~pendingResync
  /\ pc' = "consume"
  /\ cursor' = IF startRev = 0 THEN Rev + 1 ELSE startRev
  /\ informed' = IF startRev = 0 THEN Rev ELSE informed
  /\ doomed' = (startRev > 0 /\ startRev < compactRev)
  /\ greeted' = ~CreatedNotify
  /\ newRev' = 0 /\ madeProgress' = FALSE
  /\ outcome' = "none" /\ hook' = "none"
  /\ UNCHANGED <<hist, compactRev, ctxDone, loopVars, pending, timerOn, revision,
                 stats, reader, batch, reportVars, denied, faults>>

-----------------------------------------------------------------------------
(* A session: consumeWatch.                                                  *)

\* One response with the events of cursor..upTo and revision h in its header.
Receive(h, upTo, events) ==
  LET buffer  == pending \cup events
      counted == [stats EXCEPT !.received = @ + Cardinality(events)]
      seen    == IF h > newRev THEN h ELSE revision
  IN /\ newRev' = IF h > newRev THEN h ELSE newRev
     /\ madeProgress' = TRUE
     /\ cursor' = upTo + 1
     /\ \/ /\ Forced(buffer)
           /\ Flush(buffer, upTo, counted, seen)
           /\ pending' = {} /\ timerOn' = FALSE
        \/ /\ ~Forced(buffer) /\ Debounce
           /\ pending' = buffer /\ timerOn' = TRUE
           /\ revision' = seen /\ stats' = counted
           /\ UNCHANGED <<feedVars, hook>>
        \/ /\ ~Forced(buffer) /\ ~Debounce
           /\ Flush(buffer, upTo, counted, seen)
           /\ pending' = {}
           /\ UNCHANGED timerOn

SessionFrame == UNCHANGED <<hist, compactRev, pc, ctxDone, loopVars, doomed, outcome,
                            reader, reportVars, denied, faults>>

\* The notification that the watch exists, with the store's revision.
CreatedResponse ==
  /\ pc = "consume"
  /\ ~greeted
  /\ greeted' = TRUE
  /\ Receive(Rev, cursor - 1, {})
  /\ SessionFrame

\* Events up to some revision, which the header states.
EventResponse ==
  /\ pc = "consume"
  /\ greeted /\ ~doomed
  /\ \E upTo \in cursor..Rev :
       /\ Wanted(hist, cursor, upTo) # {}
       /\ Receive(upTo, upTo, Wanted(hist, cursor, upTo))
  /\ SessionFrame
  /\ UNCHANGED greeted

\* Part of a long backlog: the header states the store's revision all the same.
CatchUpResponse ==
  /\ PartialCatchUp
  /\ pc = "consume"
  /\ greeted /\ ~doomed
  /\ \E upTo \in cursor..(Rev - 1) :
       /\ Wanted(hist, cursor, upTo) # {}
       /\ Wanted(hist, upTo + 1, Rev) # {}
       /\ Receive(Rev, upTo, Wanted(hist, cursor, upTo))
  /\ SessionFrame
  /\ UNCHANGED greeted

\* A progress notification: the session has seen everything up to the header.
ProgressResponse ==
  /\ ProgressNotify
  /\ pc = "consume"
  /\ greeted /\ ~doomed
  /\ Wanted(hist, cursor, Rev) = {}
  /\ cursor <= Rev + 1
  /\ Receive(Rev, Rev, {})
  /\ SessionFrame
  /\ UNCHANGED greeted

\* The debounce window passes without a response.
BugTimerForgets ==
  /\ pc = "consume"
  /\ timerOn
  /\ timerOn' = FALSE
  /\ UNCHANGED <<hist, compactRev, pc, ctxDone, loopVars, cursor, doomed, greeted,
                 newRev, madeProgress, pending, outcome, revision, stats, reader,
                 feedVars, hook, reportVars, denied, faults>>
FlushOnTimer ==
  /\ pc = "consume"
  /\ timerOn
  /\ timerOn' = FALSE
  /\ pending' = {}
  /\ Flush(pending, cursor - 1, stats, revision)
  /\ UNCHANGED <<hist, compactRev, pc, ctxDone, loopVars, cursor, doomed, greeted,
                 newRev, madeProgress, outcome, reader, reportVars, denied, faults>>

\* consumeWatch returns: its deferred call stops the timer and flushes.
BugNoFinalFlush(how) ==
  /\ pc = "consume"
  /\ pc' = "ended"
  /\ outcome' = how
  /\ timerOn' = FALSE
  /\ pending' = {}
  /\ UNCHANGED <<hist, compactRev, ctxDone, loopVars, cursor, doomed, greeted,
                 newRev, madeProgress, revision, stats, reader, feedVars, hook,
                 reportVars>>
EndSession(how) ==
  /\ pc = "consume"
  /\ pc' = "ended"
  /\ outcome' = how
  /\ timerOn' = FALSE
  /\ pending' = {}
  /\ Flush(pending, cursor - 1, stats, revision)
  /\ UNCHANGED <<hist, compactRev, ctxDone, loopVars, cursor, doomed, greeted,
                 newRev, madeProgress, reader, reportVars>>

Fault == faults < MaxFaults /\ faults' = faults + 1

\* The context is cancelled while the session waits.
BugNoCancelCase == FALSE
SessionCancelled ==
  ctxDone /\ EndSession("drained") /\ UNCHANGED <<denied, faults>>

\* The channel closes: the client gives up, or the context is cancelled.
ChannelClosed ==
  /\ \/ ctxDone /\ UNCHANGED faults
     \/ ~ctxDone /\ Fault
  /\ EndSession("closed")
  /\ UNCHANGED denied

SessionFails == Fault /\ EndSession("transient") /\ UNCHANGED denied

SessionDenied == Fault /\ EndSession("auth") /\ denied' = TRUE

\* etcd cancels a watcher whose next revision is compacted away.
SessionCompacted ==
  /\ doomed \/ cursor < compactRev
  /\ EndSession("compacted")
  /\ UNCHANGED <<denied, faults>>

-----------------------------------------------------------------------------
(* After a session.                                                          *)

\* tryHandleCompaction up to its resync, and the exit on a fatal error.
HandleError ==
  \/ /\ outcome = "compacted"
     /\ hook' = "compaction" /\ pc' = "resync"
     /\ UNCHANGED stats
  \/ /\ FatalRPCError(outcome)
     /\ hook' = "auth" /\ pc' = "exit"
     /\ stats' = [stats EXCEPT !.errors = @ + 2]
  \/ /\ outcome \in {"transient", "auth"} /\ ~FatalRPCError(outcome)
     /\ hook' = "transient" /\ pc' = "retry"
     /\ stats' = [stats EXCEPT !.errors = @ + 1]
  \/ /\ outcome \in {"closed", "drained"}
     /\ pc' = "retry"
     /\ UNCHANGED <<hook, stats>>

\* watchLoop on the results of consumeWatch: any response at all is progress,
\* and progress after failures is a recovery.
Settle ==
  /\ pc = "ended"
  /\ attempt' = IF madeProgress THEN 0 ELSE attempt
  /\ sleeps' = IF madeProgress THEN 0 ELSE sleeps
  /\ failedAttempts' = IF madeProgress THEN 0 ELSE failedAttempts
  /\ recovery' = IF madeProgress /\ failedAttempts > 0
                 THEN [attempts |-> failedAttempts, slept |-> sleeps]
                 ELSE recovery
  /\ HandleError
  /\ UNCHANGED <<hist, compactRev, ctxDone, startRev, pendingResync, sessionVars,
                 outcome, revision, reader, feedVars, denied, faults>>

\* Return, or advance the revision, count the failure and sleep.
Retry ==
  /\ pc = "retry"
  /\ \/ /\ outcome = "drained" \/ ctxDone
        /\ pc' = "exit"
        /\ UNCHANGED <<startRev, attempt, failedAttempts>>
     \/ /\ outcome # "drained" /\ ~ctxDone
        /\ pc' = "backoff"
        /\ startRev' = IF newRev > 0 THEN ResumeAfter(newRev) ELSE startRev
        /\ CountFailure
  /\ UNCHANGED <<hist, compactRev, ctxDone, pendingResync, sessionVars, outcome,
                 revision, stats, reader, feedVars, hook, reportVars, denied, faults>>

\* sleepBackoff: the sleep ends, or the context ends it.
BackoffDone ==
  /\ pc = "backoff"
  /\ pc' = "top"
  /\ sleeps' = Bump(sleeps)
  /\ UNCHANGED <<hist, compactRev, ctxDone, loopVars, sessionVars, outcome, revision,
                 stats, reader, feedVars, hook, recovery, denied, faults>>

BackoffCancelled ==
  /\ pc = "backoff"
  /\ ctxDone
  /\ pc' = "exit"
  /\ UNCHANGED <<hist, compactRev, ctxDone, loopVars, sessionVars, outcome, revision,
                 stats, reader, feedVars, hook, reportVars, denied, faults>>

-----------------------------------------------------------------------------
(* The resync, inline after a compaction or pending from an earlier one.     *)

ReadAt == IF ReadRevision = 0 THEN Rev ELSE ReadRevision
Unreadable == ReadRevision > Rev \/ (ReadRevision > 0 /\ ReadRevision < compactRev)
Missing == FailIfMissing /\ \A k \in Watched : ~PresentAt(k, ReadAt)

\* resync's read stores the revision of its response.
ResyncRead ==
  /\ pc = "resync"
  /\ ~Unreadable /\ ~Missing
  /\ pc' = "resynced"
  /\ revision' = Rev
  /\ UNCHANGED <<hist, compactRev, ctxDone, loopVars, sessionVars, outcome, stats,
                 reader, feedVars, hook, reportVars, denied, faults>>

\* What went wrong with the read; one that finds nothing has stored its revision.
ResyncError ==
  \/ /\ ctxDone \/ Unreadable
     /\ UNCHANGED <<revision, denied, faults>>
  \/ /\ ~Unreadable /\ Missing
     /\ revision' = Rev
     /\ UNCHANGED <<denied, faults>>
  \/ /\ Fault
     /\ denied' \in {denied, denied \/ DenyResync}
     /\ UNCHANGED revision

\* The resync of a compaction fails: from now on it is pending.
BugNotPending ==
  /\ pc = "resync" /\ ~pendingResync
  /\ ResyncError
  /\ pc' = "retry"
  /\ hook' = "transient"
  /\ stats' = [stats EXCEPT !.errors = @ + 1]
  /\ UNCHANGED <<hist, compactRev, ctxDone, loopVars, sessionVars, outcome, reader,
                 feedVars, reportVars>>
ResyncFailsInline ==
  /\ pc = "resync" /\ ~pendingResync
  /\ ResyncError
  /\ pc' = "retry"
  /\ pendingResync' = TRUE
  /\ hook' = "transient"
  /\ stats' = [stats EXCEPT !.errors = @ + 1]
  /\ UNCHANGED <<hist, compactRev, ctxDone, startRev, attempt, failedAttempts,
                 sessionVars, outcome, reader, feedVars, reportVars>>

\* A pending resync fails again.
ResyncFailsPending ==
  /\ pc = "resync" /\ pendingResync
  /\ ResyncError
  /\ pc' = "backoff"
  /\ CountFailure
  /\ hook' = "transient"
  /\ UNCHANGED <<hist, compactRev, ctxDone, startRev, pendingResync, sessionVars,
                 outcome, stats, reader, feedVars, reportVars>>

\* doResync after its read: the revision is loaded once more and announced.
DoResync ==
  Hand({ResyncEvent(revision)}, revision,
       [stats EXCEPT !.resyncs = @ + 1], revision)

\* A resync has succeeded, inline (and then a session has ended, too) or pending.
Resynced ==
  LET ended == IF pendingResync THEN 0 ELSE 1
  IN /\ pc = "resynced"
     /\ pc' = "top"
     /\ DoResync
     /\ startRev' = ResumeAfter(revision)
     /\ recovery' = IF failedAttempts + ended > 0
                    THEN [attempts |-> failedAttempts + ended, slept |-> sleeps + ended]
                    ELSE recovery
     /\ pendingResync' = FALSE
     /\ attempt' = 0 /\ failedAttempts' = 0 /\ sleeps' = 0
     /\ outcome' = "none"
     /\ UNCHANGED <<hist, compactRev, ctxDone, sessionVars, reader, denied, faults>>

-----------------------------------------------------------------------------

Responses == CreatedResponse \/ EventResponse \/ CatchUpResponse \/ ProgressResponse
Endings == SessionCancelled \/ ChannelClosed \/ SessionFails \/ SessionDenied
           \/ SessionCompacted
Outside == ReadGet \/ ReadStore \/ StoreStep \/ WatchStart \/ Cancel
Loop == \/ LoopInit \/ Stop \/ RetryResync \/ OpenSession
        \/ Settle \/ Retry \/ BackoffDone \/ BackoffCancelled
        \/ ResyncRead \/ ResyncFailsInline \/ ResyncFailsPending \/ Resynced

Next == Outside \/ Loop \/ Responses \/ FlushOnTimer \/ Endings

Spec == Init /\ [][Next]_vars

(* Scheduling: the goroutine runs, sleeps and timers end, the debounce       *)
(* window now and then passes without a response, and etcd delivers what it  *)
(* owes a live watcher.  Nobody has to write, compact, fail or cancel.       *)
Fairness ==
  /\ WF_vars(Loop)
  /\ WF_vars(CreatedResponse)
  /\ WF_vars(EventResponse)
  /\ WF_vars(FlushOnTimer)
  /\ WF_vars(SessionCancelled)
  /\ WF_vars(SessionCompacted)

LiveSpec == Spec /\ Fairness

-----------------------------------------------------------------------------
(* Properties.                                                               *)

\* Every variable keeps its type.
TypeOK ==
  /\ EtcdTypeOK
  /\ pc \in {"idle", "start", "top", "consume", "ended", "resync", "resynced",
             "retry", "backoff", "exit"}
  /\ {ctxDone, pendingResync, doomed, greeted, madeProgress, timerOn, denied}
       \subseteq BOOLEAN
  /\ {startRev, newRev, cursor} \subseteq 0..(Rev + 1)
  /\ {revision, reader, informed} \subseteq 0..Rev
  /\ {attempt, failedAttempts, sleeps} \subseteq 0..MaxAttempt
  /\ pending \subseteq [key : Watched, rev : 1..Rev]
  /\ batch \subseteq [key : Watched \cup {NoKey}, rev : 1..Rev]
  /\ outcome \in Outcomes
  /\ stats \in [received : Nat, resyncs : Nat, delivered : Nat, errors : Nat]
  /\ hook \in {"none", "transient", "compaction", "auth", "fatal"}
  /\ recovery \in [attempts : Nat, slept : Nat]
  /\ faults \in 0..MaxFaults

\* Every event counted when it is received (TotalPuts, TotalDeletes) and every
\* resync is counted once more when it is delivered (TotalEventsDelivered), and
\* what separates the counters is in the debounce buffer: no early return,
\* forced flush or end of a session drops or repeats a buffered event.  (The
\* code counts puts on receipt; settings.go:120 calls them delivered.)
Conservation ==
  stats.delivered + Cardinality(pending) = stats.received + stats.resyncs

\* A buffered event waits for a running timer, never without one: the forced
\* flush that stops the timer also empties the buffer, and a session leaves
\* nothing behind.  The buffer stays below WithMaxPendingEvents.
BufferIsDrained ==
  /\ pending # {} => pc = "consume" /\ timerOn /\ Debounce
  /\ MaxPending > 0 => Cardinality(pending) < MaxPending

\* Wherever the loop is about to watch again, the revision it resumes from is
\* right behind the last change the consumer was told of: every wanted change
\* below it has been delivered and none at or above it.
ResumesWhereItStopped ==
  pc = "top" /\ startRev > 0 /\ ~pendingResync =>
    /\ informed < startRev
    /\ Wanted(hist, informed + 1, startRev - 1) = {}

\* OnReconnect's attempt count is at least 1 and equals the number of failures
\* slept off since the watch last worked: of sessions and of pending resyncs
\* alike (options.go:336 speaks of sessions only).  A compaction resynced at once
\* counts on both sides without a sleep, so it is not what this is about.
RecoveryCount ==
  recovery # NoRecovery => recovery.attempts = recovery.slept /\ recovery.slept >= 1

\* After a compaction no watch is opened before a resync has succeeded, however
\* many times the resync fails.
ResyncBeforeRewatch ==
  [][pc = "top" /\ outcome = "compacted" => pc' # "consume"]_vars

\* Whatever etcd's headers say, no change is handed over twice and no batch goes
\* back behind one before it, except after a resync.  Every call of the callback
\* counts as a delivery, so that the same batch handed over again is seen, too.
Delivers == stats'.delivered # stats.delivered
NothingRepeated ==
  [][Delivers => \A e \in batch' : e.key = NoKey \/ e.rev > informed]_vars

\* A refused permission ends the loop: it neither sleeps nor watches again
\* (WatchErrorAuth: "The watch loop does NOT retry").
AuthNeverRetried == denied => pc \notin {"backoff", "top"}

\* The loop implements the change feed: batches partition the wanted changes in
\* revision order, without gap, repetition or torn transaction, up to resyncs.
Anchored == startRev > 0 \/ newRev > 0
Feed == INSTANCE ChangeFeed WITH anchored <- Anchored, Rewinds <- ConcurrentReads
FeedSpec == Feed!Spec

\* Every single change that is committed while the watch lives is eventually
\* delivered, or covered by a resync, in spite of failures, compactions and
\* debouncing.  Once the watch is anchored, by a prior Read or etcd's first answer,
\* there is no excuse but its end.  Before, also with WithResumeFromRevision and
\* without a Read, it owes what is committed while its session lives; a failure
\* makes it start afresh at the revision of then (initialWatchRevision returns
\* 0 and watchOpts sets no revision), and what was not delivered is never told.
Owed(r) == pc # "idle" /\ informed < r /\ Wanted(hist, r, r) # {}
IsTold(r) == Anchored /\ informed >= r
StartsAfresh == pc = "top" /\ ~Anchored /\ ~pendingResync
CatchesUp ==
  \A r \in 1..MaxRev : Owed(r) ~> (IsTold(r) \/ StartsAfresh \/ pc = "exit")

\* A cancelled watch ends, from wherever the cancellation finds it: in a
\* session, a resync or a backoff sleep.
CancelStops == ctxDone ~> pc = "exit"
=============================================================================
