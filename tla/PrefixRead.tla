---------------------------- MODULE PrefixRead -----------------------------
(* readPrefix (read.go): a prefix is read page by page, one Get per page,    *)
(* while other clients commit and compact, and the result is made into a     *)
(* nested map.  Each page is a consistent view of the store at the moment it *)
(* is served; nothing ties the pages of one read to one revision unless      *)
(* WithReadRevision does.  A value is represented by its key and the revision *)
(* that wrote it.  The key transform is a setting, as any function may be    *)
(* given with WithKeyTransform; the default one is in Transform.  The store's *)
(* other clients use the write helpers (Write).                              *)
EXTENDS Write, Unflatten

CONSTANTS
  Settings     \* the settings to consider, of which a Provider has one

ASSUME PrefixReadAssumption ==
  /\ Keys \subseteq Seq(0..Top) /\ IsFiniteSet(Keys)
  /\ Settings \subseteq
       [prefix : Seq(0..Top) \ {<<>>},
        keyTransform : [Keys -> Paths],
        limit : Nat,              \* WithLimit, 0 = one Get for everything
        strict : BOOLEAN,         \* WithStrict
        unflatten : BOOLEAN,      \* WithUnflatten, with a delimiter
        serializable : BOOLEAN,   \* WithSerializable: a lagging member may serve
        readRevision : Nat]       \* WithReadRevision, 0 = latest

VARIABLES
  settings,    \* Provider.settings, never changed
  pc,          \* "idle", "reading", "read" (the last page is in), "nesting",
               \* "done", "failed", "collision"
  from,        \* the next page starts at this key
  flat,        \* the result so far: paths to values
  lastRev,     \* revision in the header of the last page
  shown,       \* ghost: the revisions the pages show
  revision     \* Provider.stats.revision

readVars == <<from, flat, lastRev, shown>>
vars == <<hist, compactRev, settings, pc, readVars, nestVars, revision>>

Path(k) == settings.keyTransform[k]

UnderPrefix(k) == IsPrefix(settings.prefix, k)

\* The value key k has at revision r.
Value(k, r) == <<k, Max({s \in 1..r : k \in DOMAIN hist[s]})>>

\* lastKey after a page.
LastOf(page) == CHOOSE k \in page : \A j \in page : ~Before(k, j)

\* The loop over the keys of a page at revision r: of two keys with the same
\* path the later one stays.
Flattened(page, r) ==
  [p \in {Path(k) : k \in page} |-> Value(LastOf({k \in page : Path(k) = p}), r)]

StateAt(r) == Flattened({k \in Present(r) : UnderPrefix(k)}, r)

Nothing == [p \in {} |-> <<>>]

Init ==
  /\ EtcdInit /\ NestIdle
  /\ settings \in Settings
  /\ pc = "idle" /\ from = settings.prefix /\ flat = Nothing
  /\ lastRev = 0 /\ shown = {}
  /\ revision = 0

StoreStep ==
  /\ Writes \/ Compact
  /\ UNCHANGED <<settings, pc, readVars, nestVars, revision>>

ReadStart ==
  /\ pc = "idle"
  /\ pc' = "reading"
  /\ UNCHANGED <<hist, compactRev, settings, readVars, nestVars, revision>>

\* The keys a Get for the range that starts at key returns at revision r: the
\* first WithLimit of those there are.
Page(key, r) ==
  LET found == {k \in Present(r) : InRange(k, key, PrefixEnd(settings.prefix))}
  IN IF settings.limit = 0 THEN found
     ELSE {k \in found : Cardinality({j \in found : Before(j, k)}) < settings.limit}

\* The revision in the header of a Get, and the one whose state it returns.
\* (Nothing uses the Bug... form: any member answers, whatever the options.)
BugAnyMember == 1..Rev
Headers == IF settings.serializable THEN 1..Rev ELSE {Rev}
ShownAt(header) ==
  IF settings.readRevision = 0 THEN {header}
  ELSE {settings.readRevision} \cap compactRev..header

\* One Get: its keys join the result, which is complete when there are no more.
GetPage ==
  /\ pc = "reading"
  /\ \E header \in Headers : \E at \in ShownAt(header) :
     \E page \in {Page(from, at)} : \E new \in {Flattened(page, at)} :
       /\ flat' = [p \in DOMAIN flat \cup DOMAIN new |->
                     IF p \in DOMAIN new THEN new[p] ELSE flat[p]]
       /\ from' = IF page = {} THEN from ELSE Successor(LastOf(page))
       /\ lastRev' = header
       /\ shown' = shown \cup {at}
       /\ pc' = IF Page(from', at) = {} THEN "read" ELSE "reading"
  /\ UNCHANGED <<hist, compactRev, settings, nestVars, revision>>

\* A Get fails (a timeout, or a revision that is compacted or not there yet), or
\* the value transform does.  The pages before are dropped, nothing is stored.
GetFails ==
  /\ pc = "reading"
  /\ pc' = "failed"
  /\ UNCHANGED <<hist, compactRev, settings, readVars, nestVars, revision>>

\* The revision is stored whether or not the result is an error.
Finish ==
  /\ pc = "read"
  /\ revision' = lastRev
  /\ \/ /\ DOMAIN flat = {}
        /\ pc' = IF settings.strict THEN "failed" ELSE "done"
        /\ UNCHANGED nestVars
     \/ /\ DOMAIN flat # {} /\ ~settings.unflatten
        /\ pc' = "done"
        /\ UNCHANGED nestVars
     \/ /\ DOMAIN flat # {} /\ settings.unflatten
        /\ pc' = "nesting"
        /\ NestStart(DOMAIN flat)
  /\ UNCHANGED <<hist, compactRev, settings, readVars>>

\* unflattenMap takes the next path, whichever that is.
PlacePath ==
  /\ pc = "nesting"
  /\ \E p \in todo :
       \/ Place(p) /\ pc' = IF todo' = {} THEN "done" ELSE "nesting"
       \/ Collides(CleanPath(p)) /\ pc' = "collision" /\ UNCHANGED nestVars
  /\ UNCHANGED <<hist, compactRev, settings, readVars, revision>>

ReadSteps == GetPage \/ GetFails \/ Finish \/ PlacePath

Next == StoreStep \/ ReadStart \/ ReadSteps

\* A read that was started goes on; every page ends further to the right.
Spec == Init /\ [][Next]_vars /\ WF_vars(ReadSteps)

-----------------------------------------------------------------------------
(* Properties.                                                               *)

\* Every variable keeps its type.
TypeOK ==
  /\ EtcdTypeOK
  /\ pc \in {"idle", "reading", "read", "nesting", "done", "failed", "collision"}
  /\ from \in Seq(0..Top)
  /\ DOMAIN flat \subseteq Paths
  /\ \A p \in DOMAIN flat : flat[p] \in Keys \X (1..Rev)
  /\ todo \subseteq DOMAIN flat /\ DOMAIN cleaned = leaves
  /\ {lastRev, revision} \subseteq 0..Rev /\ shown \subseteq 1..Rev
  /\ settings \in Settings

\* What a read of a prefix finds was true at some revision between the oldest and
\* the newest page, for each path by itself: its value was the one its key had
\* then; and a key that was there all along has its path in the result, unless the
\* path is given to a later key.  So pagination skips no key, invents none and
\* takes none from outside the prefix.
EveryKeyWasTrue ==
  pc \in {"done", "collision"} =>
    LET window == Min(shown)..Max(shown)
    IN /\ \A p \in DOMAIN flat :
            LET k == flat[p][1]
            IN /\ UnderPrefix(k) /\ Path(k) = p
               /\ \E r \in window : k \in Present(r) /\ flat[p] = Value(k, r)
       /\ \A k \in Keys :
            \/ ~UnderPrefix(k)
            \/ \E r \in window : k \notin Present(r)
            \/ Path(k) \in DOMAIN flat /\ ~Before(flat[Path(k)][1], k)

\* Nothing lies between what Read returned and what a watch from the stored
\* revision delivers ("no read/watch gap", doc.go).
NoReadWatchGap ==
  pc = "done" => flat = StateAt(revision)

\* There is no gap if the read takes one Get; and a read at a given revision is a
\* snapshot of it, however many Gets it takes ("Reproducible snapshot reads").
SnapshotWhereItCan ==
  /\ settings.limit = 0 /\ settings.readRevision = 0 => NoReadWatchGap
  /\ pc = "done" /\ settings.readRevision > 0 =>
       settings.readRevision <= Rev /\ flat = StateAt(settings.readRevision)

\* In whatever order the paths come, the read fails with ErrPathCollision if and
\* only if two of them cannot both be placed, and a nested map that is returned
\* has lost no path.
NestingIsRight ==
  /\ pc = "collision" => Incompatible(DOMAIN flat)
  /\ pc = "done" /\ settings.unflatten =>
       ~Incompatible(DOMAIN flat) /\ Nests(DOMAIN flat)

\* The keys the next pages of the read may still hold.
Unread == {k \in Keys : InRange(k, from, PrefixEnd(settings.prefix))}

\* Every page but the last passes a key for good, wherever it is served from and
\* whatever others write or delete meanwhile: so a read cannot run after its
\* writers, and takes no more Gets than there are keys, and one.
EveryPageAdvances ==
  [][GetPage /\ pc' = "reading" => Unread' \subseteq Unread /\ Unread' # Unread]_vars

\* A read ends: every page starts behind the last one.
ReadEnds == pc = "reading" ~> pc \in {"done", "failed", "collision"}
=============================================================================
