# koanf-etcd in TLA+

A TLA+ development kept beside koanf-etcd, a koanf provider that reads
configuration from etcd v3 and watches it for changes. It models the provider's
watch loop, its life cycle, its paginated reads, the options it is built from,
the write helpers, and an application that puts them together; model-checks them
with TLC; and proves with TLAPS, for every value of the constants, all of the
safety properties, and that the watch loop, the Provider's life cycle and the
application implement their abstract specifications.

Paths such as `watch.go:366` are relative to the repository's source.

## 1. The system

| component | state | operations | modelled by |
|---|---|---|---|
| Watch loop (`watch.go`) | locals `startRev`, `attempt`, `pendingResync`, `failedAttempts`; per session `newRev`, `madeProgress`, `pending`, the debounce timer; `stats.revision` and counters | open a session, take a response, flush, end, resync, back off, return | `WatchLoop` |
| Backoff (`watch.go:529`) | `attempt` | a sleep's length from `attempt`, min and max | `Backoff`, within `Options` |
| Life cycle (`etcd.go`, deferred calls of `watch.go`) | `closed`, the slot `watchCancel`, `watchCb`, `watchTypedCb`, `watchDone` under `watchMu` | `Watch`, `WatchTyped`, `Close`, the three deferred calls | `Lifecycle` |
| Reads (`read.go`) | `stats.revision` | single key, paginated prefix, blob | `PrefixRead`; single-key reads as far as the loop depends on them in `WatchLoop`; which keys they ask for in `Options` |
| Prefix range end (`read.go:233`) | none | pure function | `KeyRange`, within all that read or delete a prefix |
| Unflatten (`read.go:277`) | locals `leaves`, `subtrees`, `cleaned` | flat paths to a nested map | `Unflatten`, within `PrefixRead` |
| Key transform (`transform.go`) | none | key to path | `Transform`; any function in `PrefixRead` |
| Options and validation (`options.go`, `settings.go`, `New`) | `settings` and its `...Set` flags, constant after `New` | option functions, validation, `buildClient` | `Options` |
| Write helpers (`write/write.go`) | none | `Put`, `PutAll`, `Delete`, `DeletePrefix` | `Write`, as the writers a read races with |
| An application (`README.md:112-153`) | its configuration | load at boot, watch, reload in the callback | `Reload` |
| etcd and clientv3 (external) | history of transactions, compacted prefix | commit, compact, serve a Get, serve a watch | `Etcd`, and the session part of `WatchLoop` |
| Errors (`errors.go`) | none | classes given to `OnWatchError` | the ghost `hook` of `WatchLoop` |
| SRV lookup, TLS files, value transform, `Stats` | none, copies | I/O and copying | not modelled (section 7) |

**How they interact.** `New` folds its options into `settings`, validates them
and builds a client. `Watch` and `WatchTyped` take the slot and launch the
loop's goroutine with a context that `Close`, or the application, can cancel.
The loop calls the application back (event batches, `OnWatchError`,
`OnReconnect`, `OnResync`) on its own goroutine; those callbacks may call `Read`
and even `Close`. Reads and the loop share one variable, the atomic
`stats.revision`: every read stores the revision of its response there, the
loop stores the revision of every response header, and takes from it the
revision it starts to watch at and the one a resync announces. That variable is
what ties a configuration that was read to the changes that follow.

**What is hard.**

- *Resuming.* A session can end at any moment, with events buffered and with
  headers ahead of events; the next one must start exactly behind what the
  consumer was told.
- *Compaction.* The revision to resume from may be gone; then the whole state
  is read again and a Resync event replaces the lost changes. That read may
  fail too, any number of times, and watching before it succeeds would skip.
- *Shared revision.* Concurrent reads store older or newer revisions at any
  time.
- *Unwinding.* The goroutine's deferred calls touch a slot that `Close` and the
  next `Watch` touch too. The order of the deferred calls is load-bearing, and
  nothing but that order separates two successive watches.
- *Closing.* `Close` waits for a goroutine that may be inside a callback that
  called `Close`.
- *Pages.* A read over several pages is not a snapshot, and a watch resumes from
  the revision of its last page. Each page is a range of byte strings, whose
  bounds have edge cases. Several keys may have one path.
- *Map order.* `unflattenMap` detects collisions during a walk in random order.
- *Reloading.* The callback reads while others write, and its read may fail or
  be torn; it must not leave a configuration older than what it was called for.
- *Options.* They come in any order, several share a flag or a field, and a zero
  argument is sometimes told apart from a missing option and sometimes not.
- *Overflow.* The backoff shifts a 64-bit duration by as much as the failures
  there were.

The hazards are listed with their lines in `PROJECT.json`, each with the
properties that would catch it, or a note why none does.

## 2. Modules

```
Etcd, WatchEvents ----- WatchLoop ---- MCWatchLoop ---- MCWatchClaims
                            |   \
WatchEvents -- ChangeFeed ..:    WatchLoop_proofs
                   :
                   :....................................
                                                       :
Etcd, KeyRange -- Write                                :
                    |                                  :
                    +-- PrefixRead ------------------- Reload ---- MCReload
Unflatten ----------'    |  |  |                       :   |
                         |  |  |        LiveConfig ....:   |
Transform -- MCPrefixRead   |  |                           |
                            |  PrefixReadPages_proofs -- Reload_proofs
           PrefixRead_proofs   (both proof modules use KeyRange_proofs)

KeyRange, Backoff -- Options -- MCOptions, Options_proofs
                   (which also extends Backoff_proofs, and that KeyRange_proofs)

WatchSlot .. Lifecycle -- MCLifecycle, Lifecycle_proofs
```

A line is EXTENDS, from left to right or downwards; a dotted one is an instance:
`WatchLoop`, `Lifecycle` and `Reload` contain the abstract specification they
implement, and `Reload` also the feed it is composed with. `Reload_proofs` also
extends `Transform`.

### `Etcd` (external)

The store: `hist[r]` is what transaction `r` did (a function from keys to `put`
or `delete`), `compactRev` the compaction. `Commit` and `Compact` are other
clients, owed no fairness. A value is identified by the revision that wrote
it, which is all the code looks at. What is assumed of etcd, and only that:
revisions count transactions; a Get carries the store's revision in its header;
a watcher delivers events in revision order, a whole transaction in one
response (the client is opened without fragmenting); a watcher below the
compacted revision is cancelled with `ErrCompacted`; a progress notification is
sent only to a watcher that has everything up to its header.

### `WatchEvents`

`Wanted(h, lo, hi)`: the events the watched keys and the event filter let
through between two revisions (`translateEvent` and the watch options), as a
set of (key, revision). The order within a batch is that of the revisions.

### `WatchLoop`

`watchLoop`, `consumeWatch`, `tryHandleCompaction` and `doResync`, at the grain
at which another goroutine can see a difference: an action ends where the
goroutine waits or makes an RPC. `pc` says where:

| `pc` | place in the code |
|---|---|
| `start` | launched, `initialWatchRevision` not yet evaluated |
| `top` | head of the loop, `watch.go:51` |
| `consume` | the `select` of `consumeWatch` |
| `ended` | `consumeWatch` has returned, `watch.go:95` |
| `resync` | the read of `doResync` is under way |
| `resynced` | its revision is stored, not yet loaded again |
| `retry` | `watch.go:138` |
| `backoff` | `sleepBackoff` |
| `exit` | returned |

`Receive` is the body of the response case: store the header's revision, append
the events, then the forced flush, the timer or the immediate flush. `Flush`
and `Hand` are the closure `flush` and `deliverBatch`, with a callback that may
read (and so store a revision) or panic. Four actions of etcd call `Receive`:
the created notification, events, part of a long backlog
(`PartialCatchUp`: the header states the store's revision, the events do not
reach it) and a progress notification. Five end a session: a cancelled context,
a closed channel, a transient error, a permission error, a compaction. All of
them run the deferred flush of `watch.go:346`.

`Resynced` covers both successes of a resync, the inline one of
`watch.go:107-122` and the pending one of `watch.go:56-69`. They differ in the
failure count they report: inline, the compaction itself counts as a failure.

Ghost variables, read by no guard: `informed` (the consumer knows every wanted
change up to here: it was delivered, covered by a Resync, or precedes the
watch), `batch`, `hook`, `recovery`, `sleeps`, `denied`.

Abstracted: key values, error texts, time stamps, the counters no property
reads, and the backoff duration, which is a wait of unknown length. A hook that
panics unwinds the goroutine and is in `Lifecycle`.

### `ChangeFeed`

What the watch promises its consumer, without goroutine, sessions or buffers:
batches partition the wanted changes in revision order; nothing is lost,
repeated, reordered or torn out of its transaction; the only way to skip is a
Resync. A watch that starts without a prior Read begins where etcd puts it, and
may be moved until etcd has answered once (`Anchor`). `WatchLoop` implements it:
`FeedSpec == Feed!Spec` with `informed`, `hist` and `batch` as themselves and
`anchored <- Anchored`, which is `startRev > 0 \/ newRev > 0`. As a refinement is
up to stuttering, the feed does not see the same batch handed over twice in a
row; `NothingRepeated` does. `Rewinds` admits a Resync that
announces an older revision than the consumer knows, which the code can do only
when a concurrent Read stores its revision between the resync's two accesses to
`stats.revision`; the changes in between are then delivered again, not lost.

### `Lifecycle`, with `WatchSlot`

The slot, `Watch`, `WatchTyped` (whose context check precedes the lock), the
goroutines with their deliveries and their three deferred calls, and the one
`Close` that wins the compare-and-swap, in its five steps. A section under
`watchMu` is one action. The loop between deliveries is abstracted to "delivers,
returns or panics". A slot variable holds the number of the goroutine it belongs
to, so "its own channel" and "its own callback" can be said. `setup`, which never
changes, says what the Provider and the application are like: who owns the
client, whether there is a close timeout, whether callbacks call `Close`, and
whether they return. One run takes them all.

`WatchSlot` is what an application sees of that, without lock, slot fields,
channels, contexts and deferred calls: watches are started one after the other,
each hands over one batch at a time to its own callback, and is over before the
next one can start; none starts once `Close` was called; `Close` drains the watch
or, with a timeout, gives up on it, and only then does the client go. `Lifecycle`
implements it (`SlotSpec`): the watch is the goroutine whose channel is in the
slot, it is over once that channel is closed, and the running callbacks are those
of all goroutines together, so that a goroutine nobody accounts for would show.

### `KeyRange`

What depends on bytes: the order of keys, `InRange` (etcd's half-open range),
`PrefixEnd` (`prefixEnd`) and `Successor` (`lastKey+"\x00"`). A key is a sequence
of bytes `0..Top`. The first page's range, and that of a watch, is clientv3's
`WithPrefix`, which computes the same end.

### `Write`

`Put`, `PutAll`, `Delete` and `DeletePrefix` with their guards, as actions of the
store's other clients. `DeletePrefix` asks etcd for a range of keys, built from
the same `PrefixEnd`; `UnsafePrefix` is its refusal of `""` and `"/"`. An RPC that
returns an error may have been carried out or not, so the error is no action of
its own.

### `PrefixRead`, with `Unflatten` and `Transform`

`readPrefix`: one Get per page, each at the store's revision of its moment, or
at an older one (`WithSerializable`), or pinned (`WithReadRevision`); the
failures; the revision that is stored at the end; the unflattening of the result.

The key transform is a field of `settings`, a function from keys to paths, as
`WithKeyTransform` takes any. Nothing is assumed of it: two keys may have the
same path, and then the later one's value stays (`Flattened`, and the union in
`GetPage`). `Transform` has the default one, byte by byte, which
`MCPrefixRead` gives to every setting. A path is the sequence of its segments,
since splitting at the delimiter and joining again changes nothing.

`Unflatten` has the loop of `unflattenMap`: one step per path, in any order,
`Collides` for its two checks, `CleanPath` for `splitCleanPath`. What
`koanf/maps.Unflatten` builds is determined by the cleaned paths, `cleaned`. An
empty delimiter is `unflatten = FALSE`: the paths stay as they are.

### `Options`, with `Backoff`

The options are applied one by one, in any order and repeatedly; then `Validate`,
then `BuildClient` or its failure. The state is the code's: one field per option,
and the set of `...Set` flags that are up (`wasSet`), which is what the conflict
with `WithClient` is decided by. An argument is `"zero"` or `"some"`, because that
is all `buildClient` and the validation look at, except for keys, prefixes, TLS
files, event kinds and backoff bounds, which have values. `config` is what
`clientv3.New` is called with. What the Provider then does with `settings` is in
operators: `ReadKeys`, `ResyncKeys` and `WatchKeys` for the three places that
dispatch on key, prefix and blob, `FilteredByServer` and `FilteredHere` for the
two places that apply the event filter.

`Backoff` computes a sleep on integers that wrap around at `Half` (2^63 in the
code), with the shift's overflow and the panic of `rand.Int64N`. A ready Provider
sleeps and makes progress in any order.

### `Reload`, with `LiveConfig`

The application of the README's "Watch + reload recipe" (`README.md:112-153`): it
loads the configuration with `Read`, starts `Watch`, and in the callback reads
again, keeping the last good configuration if that fails. `Read` is `PrefixRead`,
page by page with writers in between; `Watch` is `ChangeFeed`, which `WatchLoop`
implements, so the composition is with what is proved of the loop and not with
the loop's own variables. The callback runs on the loop's goroutine: no batch is handed
over while it reads. `Rewinds` is `FALSE`, because only the callback reads.
Compaction shows as the feed's `Resync`. An invalid configuration is a load that
fails (`KeepLastGood`).

`LiveConfig` is what such an application may rely on, with no pages, watches or
callbacks: each configuration was loaded from the store during some interval of
revisions, each key being as it was at a moment of that interval; and the
intervals of successive loads do not overlap backwards. `Reload` implements it,
with `config` mapped to the set of its values and `asOf` to the newest revision
the load showed.

### Definitions named `Bug...`

Each is a plausible mistake in the definition after it (a dropped guard, an
off-by-one, a missing reset). No specification uses one. They document how each
property can fail: putting a `Bug...` in place of its definition makes TLC find
that property violated.

## 3. Runs

Every bound is a constant of the `.cfg`. `MaxFaults` bounds the failures
injected into a behaviour, `MaxRev` the store's history; `MaxAttempt` is where
the attempt counts saturate. `CHECK_DEADLOCK FALSE` is set throughout, because
these systems do stop: a loop exits, a Provider is closed, a read is done, and a
store at its bound has nothing more to commit.

| run | instance | what it shows |
|---|---|---|
| `watch_loop` | two watched keys and one outside, puts, a deletion and a two-key transaction; 3 commits, 2 failures, debounce with a limit of 2, callbacks that read and panic; 3.5 million states | the loop's safety properties and that it implements `ChangeFeed` |
| `watch_loop_live` | reads of other goroutines race the loop | still a gap-free feed; every change owed by an anchored watch, or while a first session lives, is eventually told or covered by a resync; a cancelled watch ends |
| `watch_loop_options` | event filter, no debounce, no resume, created notifications, split backlogs, strict pinned reads, denied resyncs | nothing is repeated and the loop can be stopped, even when headers run ahead of events and resyncs keep failing |
| `lifecycle` | three goroutines, two contexts, eight setups: with and without a close timeout, `Close` from callbacks, callbacks that hang; 116 thousand states | all life-cycle safety, and that it implements `WatchSlot`; when `Close` returns and when a slot is freed |
| `prefix_read` | four keys under a prefix that ends in the largest byte and one behind it, bytes `0..4`, 4 revisions; limits 0 to 2, with and without a pin; a strict, lagging read without unflattening; the default transform; 165 thousand states | what a result spanning revisions still says; that pages lose and invent no key and get on; that the verdict on collisions is right in every order; that deleting and reading a prefix are about the same keys |
| `reload` | two keys under the prefix and one behind, pages of one or all, loads that fail, 4 revisions; 227 thousand states | no configuration is older than its reason or its predecessor; whenever nothing is on its way, and in the end, it is what the store holds, unless an error was reported |
| `options` | any three options in any order, all arguments, the empty key and prefix among them; backoff bounds from -1 to 15 on 5-bit durations, up to seven sleeps; 756 thousand states | nothing that `New` accepts is dropped; read, resync and watch agree on keys, the two filters on kinds; sleeps stay in bounds through overflow |

Why the bounds are enough. A gap in the feed needs one change delivered, one
lost and one ending between them: three commits after the first revision and
one failure. A wrong count needs two failures in a row and a recovery. A resync
that fails twice needs two failures after one compaction. A forced flush needs
a buffer of two, and a late one needs a transaction that jumps over the limit.
Interference between watches needs one that is unwound, one that takes the slot
and one more to show what the second is left with. A page boundary needs three
keys with pages of one or two. A collision that only one order shows needs two
paths, and a third to have two that clean to the same; two keys with one path
need a fourth key to be on the next page. A configuration that goes back needs
two loads and a write between two pages of one of them. A conflict of options
needs two of them, and one with the mode needs the mode's option as a third.
With 5 bits a shift overflows to a negative number, to zero and back into the
range within seven attempts, from some of the bounds.

The properties of `WatchLoop`:

- `Conservation`: events received plus resyncs equal events delivered plus
  events buffered, over every flush, forced flush and end of a session.
- `BufferIsDrained`: a buffered event waits in a live session with a running
  timer, below the limit.
- `ResumesWhereItStopped`: before each session, every wanted change below the
  resume revision has been told, and none at or above it.
- `RecoveryCount`: `OnReconnect` reports exactly the failures slept off since
  the watch last worked, of sessions and of pending resyncs.
- `ResyncBeforeRewatch`: after a compaction no session is opened before a
  resync succeeded.
- `AuthNeverRetried`: after a refused permission the loop neither sleeps nor
  watches (in sessions; for resyncs see the finding).
- `NothingRepeated`: whatever headers say, nothing is handed over twice. It looks
  at every call of the callback (the delivered count moves), not only at those
  that bring a batch different from the last.
- `CatchesUp`: each single wanted change that the consumer does not know while the
  watch lives is eventually told. Once the watch is anchored, by a prior Read or by
  etcd's first answer, only the end of the loop excuses from that. Before, there is
  one more excuse: the loop goes to open a session from scratch (`StartsAfresh`).
  So a watch without a prior Read is told everything committed while its first
  session lives, unless that session fails before etcd has answered once; then
  `initialWatchRevision`'s 0 still stands, the next session starts at the revision
  of then, and what was not delivered is never told. Without `StartsAfresh` TLC
  shows that loss.
- `FeedSpec`, `CancelStops`: refinement, termination.

Of `Lifecycle`:

- `SingleWatcher`, `SignalsItsOwn`, `CallsItsOwn`: one goroutine at a time, which
  finds its own channel and callback in the slot.
- `NoLeak`, `QuietAfterClose`: no goroutine survives `Close` uncancelled, none
  runs when the client is closed, unless `Close` timed out.
- `SlotSpec`: the refinement of `WatchSlot`. Beyond the invariants it sees a batch
  handed over while the one before is still with the callback, or a callback that
  outlives its loop.
- `CloseReturns`: with a timeout always, without one if callbacks return and do
  not call `Close`. `SlotIsFreed`: a cancelled watch gives its slot back.

Of `PrefixRead` and `Write`:

- `EveryKeyWasTrue`: each value of a result was its key's at some revision the
  read saw, no key is from outside the prefix, and a key that was there all along
  has its path in the result, with its value or that of a later key.
- `SnapshotWhereItCan`: one page or a pin gives the state of one revision.
- `NestingIsRight`: `ErrPathCollision` if and only if two paths of the result
  cannot both be placed; otherwise no path is lost.
- `DeletesItsPrefix`: `DeletePrefix` removes what a read of that prefix returns.
- `EveryPageAdvances`: each Get but the last takes a key out of what is unread and
  puts none back, whatever is written meanwhile; so a read takes no more Gets than
  there are keys, and one. `ReadEnds`: it ends.

Of `Reload`: `SeesWhatItWasTold` (a load in the callback shows at least what the
callback was called for), `CurrentWhenSettled` (while no load runs and the watch
has handed over all there is, the configuration is what the store holds, unless
the last load failed or the one at boot was torn: no change falls between the load
at boot, the watch and the reloads), `LiveSpec` (the refinement of `LiveConfig`),
`NeverSilentlyStale` (once the store is quiet, the configuration is what it
holds, or an error was reported, or it was torn at boot: finding `paged_gap`).

Of `Options`: `NoSilentDrop`, `WatchCoversRead`, `DeliversWhatWasAsked`,
`DelayInBounds` (no sleep below the minimum or above the maximum, and no panic of
the random draw with a positive minimum), `CeilingDoubles` (the ceiling is the one
computed without overflow, where the odd part of min times max fits into a
duration, sign bit included, as it does for the defaults: `OverflowShows`).

**Fairness.** `WatchLoop!Fairness`: the goroutine runs and its sleeps end (Go
schedules runnable goroutines); a created notification and owed events arrive
at a live watcher (etcd); the debounce timer fires, which supposes that the
window now and then passes without a response, since each response arms it anew
(`watch.go:394`); a cancelled context is noticed, for which weak fairness is
enough because it stays cancelled; a watcher below the compaction is cancelled.
Nobody has to commit, compact, fail, cancel or read. `Lifecycle!FairSpec`
schedules what can run and lets callbacks hang for ever, except in the setups
where they return; there it adds strong fairness for the end of a cancelled
loop, since Go's `select` picks at random and does not choose an event over a
cancellation for ever. `PrefixRead!Spec` and `Reload!AppSpec` ask that a read that
was started goes on (each Get has a timeout), that the application takes its next
step, and that the feed hands over what it has, which is `WatchLoop`'s
`CatchesUp`. Nobody has to write, and no resync or denial has to come.

## 4. Findings

Five runs are expected to be violated. Each checks what the documentation says and
TLC shows a behaviour of the code that differs; `PROJECT.json` quotes the lines.

- `catch_up_gap`: `newRev` is taken from headers (`watch.go:366`). A header can be
  ahead of the events of its response; if the session ends then, the rest of the
  backlog is skipped. Without `PartialCatchUp` and `CreatedNotify` the feed has no
  gap; that is what the passing runs check.
- `resync_denied`: a permission error of a resync's read is called transient and
  retried.
- `paged_gap`: a change between two pages to a key already read is in neither the
  result nor the watch that follows.
- `stillborn_watch`: `Watch` on a cancelled `WithWatchContext` returns nil and its
  loop ends at once.
- `auto_sync`: `WithAutoSync(0)` is meant to opt out, but `buildClient` replaces a
  zero by the default of 30 s.

Noticed while modelling, not checked by a run of their own. In the watch loop:

- `OnReconnect` is called when the recovered session ends (`watch.go:100`), not
  when it works again, as `options.go:333` has it; a watch that recovers for good
  never reports it.
- A resync reads at `WithReadRevision`, and once that is compacted every resync
  fails, with backoff, for ever.
- `WithCreatedNotify` has the gap of `catch_up_gap` too: the notification's
  header is the store's revision, ahead of the events still owed.
- `stats.revision` goes back when a new session's first header is older
  (`watch.go:366` compares with the session's own `newRev`), or when a Read stores
  late; `ARCHITECTURE.md:164` says the loop's revision "advances monotonically
  across reconnects, resyncs, and debounce windows". With concurrent Reads a
  resync may announce, and the loop resume from, an older revision, too
  (`Rewinds`).
- `README.md:239` says of a `Watch` without a prior `Read`, with
  `WithResumeFromRevision(true)`, that "the loop is waiting at revision 0 and no
  event past that boundary delivers". The code delivers: `initialWatchRevision`
  returns 0 (`watch.go:159-168`), `watchOpts` then sets no revision
  (`watch.go:505`), and etcd starts the watcher at the next one. The run
  `watch_loop_live` includes this case, and `CatchesUp` says the opposite of the
  README: what is committed during that session is told. What is not told is what
  came before the session, or before it failed without an answer.
- `OnReconnect`'s attempt is documented as the number of failed sessions
  (`options.go:336`, `watch.go:47`, `CHANGELOG.md:12`); failed pending resyncs count
  as well (`watch.go:74-78`).
- `TotalPuts` and `TotalDeletes` are documented as events "delivered"
  (`settings.go:119-123`); the code counts them on receipt, before the debounce
  buffer and the callback, so they may be ahead of what was delivered by what
  `pending` holds. `Conservation` is stated of the code's counting. (`Stats`
  promises no consistency between fields.)
- A panic of a callback is reported as `WatchErrorFatal` (`watch.go:563`), whose
  comment in `errors.go` speaks of a loop that ends; the loop goes on.
- A permission error is counted and reported twice (`watch.go:185` and `132`).
- A channel closed without error is retried without any `OnWatchError`.
- `attempt` is reset by any response, an empty progress notification included,
  where the comment at `watch.go:92` says "actually delivered events".
- A failed pending resync calls `OnWatchError` and counts no error; a failed
  inline one counts.
- The bounds of `WithReconnectBackoff` are not validated. A minimum of 0 with the
  largest maximum makes `rand.Int64N` panic; a minimum of 0 or less sleeps not at
  all; a large minimum may overflow into a short sleep that is in bounds.

In the life cycle:

- `Close` returns when `signalWatchDone` has run, before the other two deferred
  calls have. No property of `Lifecycle` depends on their having run.
- The `cancel` function of a watch that ends by itself is dropped, not called.

In reads and reloads:

- A read at `WithReadRevision` stores the revision of the response's header
  (`read.go:159`), not the one it shows, so a watch that resumes skips what lies
  between the two.
- With `WithSerializable` the read of a reload may be served by a member that has
  not seen the change the callback was called for; then the configuration stays
  old until the next change, which may never come ("slightly stale",
  `options.go:217`). `Reload` therefore assumes linearizable reads.
- Two keys with the same path overwrite each other without an error: in
  `readPrefix` the later key wins, in `unflattenMap` a random one of two paths that
  clean to the same. Only a leaf against a sub-tree is `ErrPathCollision`.

In the options:

- `WithBlob` is documented to imply `WithUnflatten(false)` (`README.md:272`); `New`
  returns `ErrOptionConflict` unless that is given too.
- Connection options are documented as ignored with `WithClient` (`WithEndpoints`,
  `WithClientContext`) or without effect (`WithTLSServerName`); they are
  `ErrOptionConflict`.
- A certificate file without its key, or the reverse, is dropped in silence, and so
  is a server name without any TLS. `NoSilentDrop` excepts both.

## 5. Proofs

`Lifecycle_proofs` proves, for any number of goroutines and contexts and for every
setting, that `Lifecycle!Spec` implies `[]TypeOK`, `[]SingleWatcher`,
`[]SignalsItsOwn`, `[]CallsItsOwn`, `[]NoLeak`, `[]QuietAfterClose` and
`SlotSpec`, from `LifecycleAssumption` alone.

None of these is inductive. The invariant says that a live goroutine owns the
whole slot: the channel is its own, `watchCancel` is its own or was taken by
`Close`, exactly one of the two callbacks is its own and the other is empty; and
a slot without a live goroutine is empty. Two live goroutines would then both own
the channel. The one delicate point is that `Close` empties `watchCancel` while
the goroutine lives on, so a free `watchCancel` does not by itself mean that
the slot is free. It is harmless because `closed` was set before, and the guard
of `Watch` and `WatchTyped` tests both. The second half says what `Close`'s
critical section established: from then on the live goroutine is cancelled
and its channel is the one waited for. Hence a closed channel means that the
goroutine has left its loop.

For the refinement (`SlotStep`) the invariant also says that no callback runs on
beside its loop (`NotAside`) and how far `Close` has come; then the callbacks that
run are those of the goroutine in the slot, or none (`CallingIn`), and each action
maps to one of `WatchSlot` or to nothing: a launch to `Start`, for which the slot
must be empty and not only its `watchCancel`; `signalWatchDone` to `Stop`,
`clearWatchState` to `Free`, and the end of `Close`'s wait to `Drained`, for which
the channel waited for must be that of the only watch there can be.

`WatchLoop_proofs` proves of `WatchLoop!Spec`, for any keys, history, options and
bounds (`WatchLoopAssumption` and `EtcdAssumption`):

- unconditionally: `[]TypeOK`, `[]Conservation`, `[]BufferIsDrained`,
  `[]RecoveryCount`, `ResyncBeforeRewatch` and `NothingRepeated`;
- `[]AuthNeverRetried` if resyncs are not denied (`~DenyResync`), which finding
  `resync_denied` shows to be needed;
- `[]ResumesWhereItStopped` and `FeedSpec`, the refinement of `ChangeFeed`, if no
  header is ahead of its events (`NoHeaderAhead`: no created notification and no
  split backlog), which finding `catch_up_gap` shows to be needed.

The invariant has seven parts. `Typing` is `TypeOK` and a little more. `Ordered`
puts what the consumer was told, what is buffered, what etcd owes and where the
watch would resume in this order; with the count of deliveries it gives
`NothingRepeated`, and it makes new events disjoint from buffered ones, so that
cardinalities add up in
`Buffered` (`Conservation`, `BufferIsDrained`). `Counted` ties `failedAttempts`
to the sleeps at each place of the loop. `Settled` says what the last
session's outcome still implies: a compaction leaves `pendingResync` behind.
`Gapless` is the heart: under `NoHeaderAhead` the buffer is exactly the wanted
events from `informed + 1` to `cursor - 1`, the header revision seen is 0 or
`cursor - 1`, and wherever the loop would resume, it is right behind what was
told. `Moored` is what the start of the feed and the announced revision need:
a loop that has seen a header has a revision to resume from.
All responses have one shape (`ResponseShape`), and all endings (`EndingShape`);
what `Flush` and `Receive` do to events and counters is stated once
(`FlushFacts`, `ReceiveFacts`), and so is how intervals of events split and what
a later commit leaves alone (`WantedSplit`, `PastIsStable`). The refinement
maps a delivery to `Deliver`, a resync to `Resync`, and the start, while etcd has
not answered yet, to `Anchor`.

`KeyRange_proofs` proves of any strings over `0..Top` that `Before` is a total
order, that nothing lies between a key and its `Successor`, and `PrefixRange`: the
keys in the range from `p` to `PrefixEnd(p)` are exactly those with prefix `p`,
including where trailing largest bytes are cut off and where no byte can be
raised. It compares a key that does not have the prefix at its first difference.

`PrefixReadPages_proofs` proves of `PrefixRead!Spec`, for any finite set of keys,
any transform, prefix, page size and writers, `[]TypeOK`, `[]EveryKeyWasTrue`,
`[]SnapshotWhereItCan`, `EveryPageAdvances` and `DeletesItsPrefix`. The invariant `Reading` says what
has been read half-way: every key of the prefix that lies before the start of the
next page is `Covered`, because it was absent when some page was served or because
its path has its value or that of a later key; every value of the result was
true when its page was served (`TrueValue`) and belongs to a key before the start
of the next page, so a later page may overwrite it and never the reverse. That
the last page leaves no key uncovered is `PageRange` with the order of keys; that
writers between the pages change nothing of it is `Past`: what a revision showed
is not changed by later ones. If all pages show one revision, coverage and truth
together determine the result (`OneRevision`). A page that is not the last ends
with a key that was unread, and its `Successor` is behind that key and before all
later ones, which is `EveryPageAdvances`. Assumed are `EtcdAssumption`,
`KeyRangeAssumption`, `WriteAssumption` and `PrefixReadAssumption`.

`PrefixRead_proofs` proves `[]NestingIsRight`, for any keys, paths, pages and
order. The invariant: the leaves placed so far are the cleaned paths of the keys
taken, the sub-trees are what lies above them, and the two are disjoint. That
needs paths to be finite and not above themselves (`PathType`,
`ParentsAreShorter`), and so that a set of positions has a least and a greatest
element, got from the well-foundedness of strict inclusion on finite sets.

`Reload_proofs` composes. Its invariant `Loading` contains `Reading`, since the
application's steps are steps of `PrefixRead` or start it afresh, and adds that
`Read` runs only inside a load, that no page is older than what the callback was
told, nor than a page of the load before. From it follow `[]AppTypeOK`,
`[]SeesWhatItWasTold` and `LiveSpec`: that a load that succeeds is a `Load` of
`LiveConfig` is what `Covered` and `TrueValue` say, given that different keys have
different paths. Besides the assumptions above it uses `ReloadAssumption`: reads
of the latest state, without unflattening, under a transform that keeps the
watched keys apart. `PathsDiffer` shows that the default transform does, trimming
or not, for keys without the delimiter behind the prefix.

`CurrentWhenSettled` takes two more parts. `ConfigHeld` is what coverage and truth
of a result become once it is the configuration: each value was its key's at a
revision the load showed, and each key has its path or was absent at one.
`RevisionShown` carries the revision from the read to the watch: it is one that a
page of the load showed, in particular the last one's, and the watch starts there.
So with an untorn boot, or after any reload, every revision the load showed is at
or behind what the watch has handed over; if nothing is left to hand over, the
watched keys have not changed since (`NothingSince`), so what was true at any of
those revisions is true now.

`Options_proofs` proves `[]TypeOK`, `[]NoSilentDrop`, `[]WatchCoversRead`,
`[]DeliversWhatWasAsked`, `[]DelayInBounds` and `[]CeilingDoubles` for any names, bounds, number of
options and width of a duration (`OptionsAssumption`, `BackoffAssumption`,
`KeyRangeAssumption`). The invariant ties the flags to the options given, which is
what makes the validation exact. For the sleeps it needs nothing of the shift
but that `Wrap` stays within the width: the ceiling is positive and at most the
maximum whatever the shift overflows to, and with a positive minimum the range of
the draw cannot overflow.

`[]CeilingDoubles` is about the shift itself, and is proved in `Backoff_proofs`. A
shift multiplies by `PowerOfTwo[n]`, a recursive function; that its definition has a
solution is shown by hand (`PowerRecursion`), and inductions over the exponent go
by the least number that is not in a set (`AllNumbers`), as the library's
induction theorems cannot be instantiated. The argument: min
is `odd * 2^i`, so what is shifted is `odd * 2^k` for some `k`. Below the sign bit
nothing overflows. From there to the width of a duration it wraps to zero or less
(`OverflowIsSeen`, first case). From the width on, `2^k` is above max, since
`odd * max` is below the width (`SmallerFactor`); and wrapping takes multiples of the
width away (`WrapResidue`), a power of two itself, so what is left is a multiple of
`2^k` or of the width, and if it is positive it is above max (`PositiveMultiple`,
`PowerSum`, `Distribute`). All of these the code replaces by max. The assumption that the width is a power
of two (`BackoffAssumption`) is used here, as is `OverflowShows`; without the
latter it is false, and the run `options` has such bounds.

Only model-checked: the liveness properties (`CatchesUp`, `CancelStops`,
`CloseReturns`, `SlotIsFreed`, `ReadEnds`, `NeverSilentlyStale`), as progress under
fairness and `ENABLED` are beyond TLAPS's backends here; `CurrentWhenSettled` and
`EveryPageAdvances` are the safety halves of the last two. Recursive operators are
beyond the installed provers too, so no module that is proved about declares one.

## 6. Plan

Order, the most important behaviour first. All of it is done.

1. `Etcd`, `WatchEvents`, `WatchLoop`, `ChangeFeed`: core and refinement.
2. `Lifecycle` and its proofs.
3. `PrefixRead`, `KeyRange`, `Unflatten`.
4. `WatchLoop_proofs`: safety and the refinement of `ChangeFeed`.
5. `PrefixRead_proofs`: `NestingIsRight`.
6. `Write`, `Transform`: real writers and the real transform for `PrefixRead`.
7. `Reload`, `LiveConfig`: the composition with an application.
8. `Options`, `Backoff` and their proofs.
9. `KeyRange_proofs`, `PrefixReadPages_proofs`, `Reload_proofs`.
10. `Backoff_proofs`; `WatchSlot` and its refinement by `Lifecycle`;
    `CurrentWhenSettled` and `EveryPageAdvances` with their proofs.

What could follow: a `WatchLoop` whose resync reads may lag (`WithSerializable`),
where a resync below the compaction sends the loop round without a backoff
(`watch.go:121`, listed as a hazard); and single-key reads on their own, which
now appear only inside a resync.

## 7. Not modelled, and why

- *The SRV lookup and the loading of TLS files* are I/O; in `Options` they are the
  step `BuildFails`, or what `config` names. The dial and keep-alive durations are
  handed to clientv3 as they are.
- *The value transform* rewrites strings; a value is represented by its key and
  revision. That it may fail is part of `GetFails`.
- *`Stats`* copies counters out; the counters that properties speak of are in
  `WatchLoop`. Time stamps decide nothing.
- *Options that only store a value* (`WithLimit`, `WithDebounce`,
  `WithCloseTimeout` and others) are the constants or settings of the module that
  uses the value, not actions of `Options`.
- *Errors*: wording and wrapping are left out; the classes are the ghost `hook`.
- *Time*: how long a debounce window, a read or a sleep takes is not modelled,
  only that it ends; so a debounce window that is never quiet (`watch.go:394`) is
  outside.
- *Memory-level races* do not arise: shared fields are atomics or under `watchMu`,
  and the model's interleavings are those of such accesses.
