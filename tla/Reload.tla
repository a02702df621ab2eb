------------------------------- MODULE Reload --------------------------------
(* The Provider at work in an application, by the README's "Watch + reload   *)
(* recipe": the configuration is loaded at boot with Read, then Watch is     *)
(* started, and its callback loads the configuration again, keeping the last *)
(* good one if the load fails.  Read is that of PrefixRead, page by page     *)
(* while others write; Watch is the ChangeFeed that WatchLoop implements,    *)
(* held up while its callback reads.  No other goroutine reads, so a Resync  *)
(* announces no older revision than the one known.                           *)
EXTENDS PrefixRead

CONSTANT Prefix     \* of the Provider

Watched == {k \in Keys : IsPrefix(Prefix, k)}

\* Reads of the latest state; different keys get different paths.
ASSUME ReloadAssumption ==
  /\ <<>> \notin Keys
  /\ \A s \in Settings :
       /\ s.prefix = Prefix /\ ~s.unflatten /\ ~s.serializable /\ s.readRevision = 0
       /\ \A j, k \in Watched : s.keyTransform[j] = s.keyTransform[k] => j = k

VARIABLES
  informed, anchored, batch,   \* of the ChangeFeed
  phase,       \* "booting", "booted", "watching", "reloading" (the callback), or
               \* "ended": boot failed, or the watch did
  config,      \* the last good configuration: paths to values
  rejected,    \* the last load failed
  asOf         \* ghost: the revisions the pages of the configuration show

appVars == <<informed, anchored, batch, phase, config, rejected, asOf>>
reloadVars == <<vars, appVars>>

Feed == INSTANCE ChangeFeed WITH Want <- Kinds, NoKey <- <<>>, Rewinds <- FALSE

AppInit ==
  /\ Init /\ Feed!Init
  /\ phase = "booting" /\ config = Nothing /\ rejected = FALSE /\ asOf = {}

\* What compaction does to the watch is the feed's Resync.
Others ==
  /\ Writes
  /\ UNCHANGED <<settings, pc, readVars, nestVars, revision, appVars>>

Boot == phase = "booting" /\ ReadStart /\ UNCHANGED appVars

ReadGoesOn == ReadSteps /\ UNCHANGED appVars

\* The map the next Read starts with.  (Nothing uses the Bug... form.)
BugMapReused == flat
FreshMap == Nothing

\* Read returns, and its local variables are gone.
Returns ==
  /\ pc \in {"done", "failed", "collision"}
  /\ pc' = "idle" /\ from' = settings.prefix /\ flat' = FreshMap
  /\ lastRev' = 0 /\ shown' = {}
  /\ UNCHANGED <<hist, compactRev, settings, nestVars, revision>>

\* The configuration is replaced if Read succeeds and the validator agrees.
Swap == pc = "done" /\ config' = flat /\ asOf' = shown /\ rejected' = FALSE
KeepLastGood == rejected' = TRUE /\ UNCHANGED <<config, asOf>>

Booted ==
  /\ phase = "booting" /\ Returns
  /\ \/ Swap /\ phase' = "booted"
     \/ KeepLastGood /\ phase' = "ended"
  /\ UNCHANGED <<informed, anchored, batch>>

\* initialWatchRevision, less one: the watch goes on from the read's revision.
\* (Nothing uses the Bug... form: the watch starts where etcd is.)
BugNoResume == Rev
InitialRevision == revision

Watch ==
  /\ phase = "booted" /\ phase' = "watching"
  /\ informed' = InitialRevision /\ anchored' = TRUE
  /\ UNCHANGED <<vars, batch, config, rejected, asOf>>

\* The loop hands over a batch, or a Resync, and the callback starts to read.
Called(step) ==
  /\ phase = "watching" /\ phase' = "reloading"
  /\ step /\ ReadStart
  /\ UNCHANGED <<config, rejected, asOf>>

Reloaded ==
  /\ phase = "reloading" /\ phase' = "watching"
  /\ Returns
  /\ Swap \/ KeepLastGood
  /\ UNCHANGED <<informed, anchored, batch>>

\* A permission is refused: the loop ends, and OnWatchError is told.
WatchDenied ==
  /\ phase = "watching" /\ phase' = "ended"
  /\ UNCHANGED <<vars, informed, anchored, batch, config, rejected, asOf>>

AppNext ==
  \/ Others \/ Boot \/ ReadGoesOn \/ Booted \/ Watch
  \/ Called(Feed!Deliver) \/ Called(Feed!Resync) \/ Reloaded \/ WatchDenied

\* Reads end, the application goes on, and the feed hands over what it has
\* (WatchLoop's CatchesUp).  Nobody has to write, and no permission is refused.
AppSpec ==
  /\ AppInit /\ [][AppNext]_reloadVars
  /\ WF_reloadVars(Boot) /\ WF_reloadVars(ReadGoesOn)
  /\ WF_reloadVars(Booted) /\ WF_reloadVars(Watch)
  /\ WF_reloadVars(Called(Feed!Deliver)) /\ WF_reloadVars(Reloaded)

-----------------------------------------------------------------------------
(* Properties.                                                               *)

\* Every variable keeps its type, and Read runs only inside a load.
AppTypeOK ==
  /\ TypeOK
  /\ phase \in {"booting", "booted", "watching", "reloading", "ended"}
  /\ phase \notin {"booting", "reloading"} => pc = "idle"
  /\ informed \in 0..Rev /\ asOf \subseteq 1..Rev
  /\ \A p \in DOMAIN config : config[p] \in Watched \X (1..Rev)

\* After a load that a callback made the configuration shows whatever the callback
\* was called for: no page of it is older than the batch or the Resync.
SeesWhatItWasTold ==
  phase = "watching" /\ batch # {} /\ ~rejected =>
    \A r \in asOf : informed <= r

\* Each configuration is what the store held, key by key, while it was loaded, and
\* none shows anything older than the one before, however many pages, batches,
\* resyncs and failed loads there are.
Live == INSTANCE LiveConfig WITH config <- Range(config),
                                 asOf <- IF asOf = {} THEN 0 ELSE Max(asOf)
LiveSpec == Live!Spec

\* The pages of the load at boot were torn, and no callback has made up for it.
TornAtBoot == batch = {} /\ Cardinality(asOf) > 1

\* While nothing is on its way -- no load is running and the watch has handed over
\* every change there is -- the configuration is what the store holds, unless the
\* last load failed or the load at boot was torn: between the load at boot, the
\* start of the watch, the batches and the reloads no change gets lost.
CurrentWhenSettled ==
  phase = "watching" /\ Feed!Wanted(hist, informed + 1, Rev) = {}
    /\ ~rejected /\ ~TornAtBoot => config = StateAt(Rev)

\* When the store is left alone the configuration ends up as what it holds, unless
\* the application was told otherwise: by an error of its last load, of its boot
\* or of the watch ("no read/watch gap", doc.go).  Only a load at boot that took
\* several pages may leave it behind.
NeverSilentlyStale ==
  <>[](config = StateAt(Rev) \/ rejected \/ phase = "ended" \/ TornAtBoot)
=============================================================================
