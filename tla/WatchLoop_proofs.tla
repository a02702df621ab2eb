-------------------------- MODULE WatchLoop_proofs --------------------------
(* Theorems about WatchLoop, for any keys, history, options and bounds.      *)
EXTENDS WatchLoop, FiniteSetTheorems, FunctionTheorems, TLAPS

-----------------------------------------------------------------------------
(* The events of an interval of revisions.                                   *)

\* There are finitely many events between two revisions.
LEMMA FinitelyManyEvents ==
  ASSUME NEW lo \in Int, NEW hi \in Int
  PROVE  IsFiniteSet([key : Watched, rev : lo..hi])
<1> DEFINE E == [key : Watched, rev : lo..hi]
           T == Watched \X (lo..hi)
           f == [e \in E |-> <<e.key, e.rev>>]
<1>1. IsFiniteSet(T)
  BY FS_Interval, FS_Product, WatchLoopAssumption
<1>2. f \in Injection(E, T)
  <2>1. f \in [E -> T]
    OBVIOUS
  <2>2. ASSUME NEW d \in E, NEW e \in E, f[d] = f[e]
        PROVE  d = e
    BY <2>2
  <2> QED BY <2>1, <2>2 DEF Injection, IsInjective
<1> QED BY <1>1, <1>2, FS_Injection

LEMMA SomeEventsFinite ==
  ASSUME NEW lo \in Int, NEW hi \in Int,
         NEW S, S \subseteq [key : Watched, rev : lo..hi]
  PROVE  IsFiniteSet(S)
BY FinitelyManyEvents, FS_Subset

LEMMA WantedType ==
  ASSUME NEW h, NEW lo \in Int, NEW hi \in Int
  PROVE  /\ Wanted(h, lo, hi) \subseteq [key : Watched, rev : lo..hi]
         /\ IsFiniteSet(Wanted(h, lo, hi))
<1>1. Wanted(h, lo, hi) \subseteq [key : Watched, rev : lo..hi]
  BY DEF Wanted
<1> QED BY <1>1, SomeEventsFinite

\* Adjacent intervals add up.
LEMMA WantedSplit ==
  ASSUME NEW h, NEW lo \in Int, NEW mid \in Int, NEW hi \in Int,
         lo <= mid + 1, mid <= hi
  PROVE  Wanted(h, lo, hi) = Wanted(h, lo, mid) \cup Wanted(h, mid + 1, hi)
<1>1. lo..hi = (lo..mid) \cup ((mid + 1)..hi)
  OBVIOUS
<1> QED BY <1>1 DEF Wanted

\* No interval, no events.
LEMMA WantedNone ==
  ASSUME NEW h, NEW lo \in Int, NEW hi \in Int, hi < lo
  PROVE  Wanted(h, lo, hi) = {}
BY DEF Wanted

\* A transaction of another client changes nothing below it.
LEMMA WantedStable ==
  ASSUME NEW S, NEW h \in Seq(S), NEW c \in S, NEW lo \in Int, NEW hi \in Int,
         hi <= Len(h)
  PROVE  Wanted(Append(h, c), lo, hi) = Wanted(h, lo, hi)
<1>1. \A r \in lo..hi : r \in DOMAIN Append(h, c) <=> r \in DOMAIN h
  OBVIOUS
<1>2. \A r \in lo..hi : r \in DOMAIN h => Append(h, c)[r] = h[r]
  OBVIOUS
<1> QED BY <1>1, <1>2 DEF Wanted

-----------------------------------------------------------------------------
(* What the parts of a session do.                                           *)

StatsType == [received : Nat, resyncs : Nat, delivered : Nat, errors : Nat]

\* A batch that is handed over adds its size to the delivered events.
LEMMA HandFacts ==
  ASSUME NEW events, IsFiniteSet(events), NEW upTo, NEW counted \in StatsType,
         NEW seen, Hand(events, upTo, counted, seen)
  PROVE  /\ batch' = events /\ informed' = upTo
         /\ revision' \in {seen, Rev}
         /\ stats' \in StatsType
         /\ stats'.delivered = counted.delivered + Cardinality(events)
         /\ stats'.received = counted.received /\ stats'.resyncs = counted.resyncs
         /\ hook' \in {hook, "fatal"}
<1>1. Cardinality(events) \in Nat
  BY FS_CardinalityType
<1>2. PICK reloads \in {FALSE, CallbackReads}, panics \in {FALSE, CallbackPanics} :
        /\ batch' = events /\ informed' = upTo
        /\ revision' = IF reloads THEN Rev ELSE seen
        /\ stats' = [counted EXCEPT !.delivered = @ + Cardinality(events),
                                    !.errors = @ + (IF panics THEN 1 ELSE 0)]
        /\ hook' = IF panics THEN "fatal" ELSE hook
  BY DEF Hand
<1>3. revision' \in {seen, Rev} /\ hook' \in {hook, "fatal"}
  BY <1>2
<1> DEFINE more == IF panics THEN 1 ELSE 0
<1>4. stats' = [counted EXCEPT !.delivered = @ + Cardinality(events), !.errors = @ + more]
  BY <1>2
<1>5. more \in {0, 1}
  <2>1. CASE panics = TRUE
    BY <2>1
  <2>2. CASE panics = FALSE
    BY <2>2
  <2>3. CallbackPanics \in BOOLEAN
    BY WatchLoopAssumption
  <2>4. panics = TRUE \/ panics = FALSE
    BY <2>3, Zenon
  <2> QED BY <2>1, <2>2, <2>4
<1>6. /\ stats' \in StatsType
      /\ stats'.delivered = counted.delivered + Cardinality(events)
      /\ stats'.received = counted.received /\ stats'.resyncs = counted.resyncs
  <2> DEFINE delivered == counted.delivered + Cardinality(events)
             errors == counted.errors + more
  <2>1. /\ delivered \in Nat /\ errors \in Nat
        /\ counted.received \in Nat /\ counted.resyncs \in Nat
    BY <1>1, <1>5 DEF StatsType
  <2>2. stats' = [received |-> counted.received, resyncs |-> counted.resyncs,
                  delivered |-> delivered, errors |-> errors]
    BY <1>4 DEF StatsType
  <2> HIDE DEF delivered, errors
  <2>3. stats' \in StatsType
    BY <2>1, <2>2 DEF StatsType
  <2> QED BY <2>2, <2>3 DEF delivered
<1> QED BY <1>2, <1>3, <1>6

\* The same of a flush, which leaves the feed alone if the buffer is empty.
LEMMA FlushFacts ==
  ASSUME NEW events, IsFiniteSet(events), NEW upTo, NEW counted \in StatsType,
         NEW seen, Flush(events, upTo, counted, seen)
  PROVE  /\ events = {} => informed' = informed /\ batch' = batch
         /\ events # {} => informed' = upTo /\ batch' = events
         /\ revision' \in {seen, Rev}
         /\ stats' \in StatsType
         /\ stats'.delivered = counted.delivered + Cardinality(events)
         /\ stats'.received = counted.received /\ stats'.resyncs = counted.resyncs
         /\ hook' \in {hook, "fatal"}
<1>1. CASE events = {}
  <2>1. Cardinality(events) = 0
    BY <1>1, FS_EmptySet
  <2> QED BY <1>1, <2>1 DEF Flush, StatsType, feedVars
<1>2. CASE events # {}
  BY <1>2, HandFacts DEF Flush
<1> QED BY <1>1, <1>2

\* A response is buffered or handed over with what was buffered before.
LEMMA ReceiveFacts ==
  ASSUME TypeOK, NEW h, NEW upTo, NEW events, IsFiniteSet(events),
         IsFiniteSet(pending), events \cap pending = {},
         Receive(h, upTo, events)
  PROVE  LET buffer == pending \cup events
         IN /\ newRev' = IF h > newRev THEN h ELSE newRev
            /\ madeProgress' = TRUE /\ cursor' = upTo + 1
            /\ revision' \in {h, revision, Rev}
            /\ timerOn' \in BOOLEAN /\ hook' \in {hook, "fatal"}
            /\ \/ /\ pending' = {} /\ buffer = {}
                  /\ informed' = informed /\ batch' = batch
               \/ /\ pending' = {} /\ buffer # {}
                  /\ informed' = upTo /\ batch' = buffer
               \/ /\ pending' = buffer /\ timerOn' /\ Debounce /\ ~Forced(buffer)
                  /\ informed' = informed /\ batch' = batch
            /\ stats' \in StatsType
            /\ stats'.delivered + Cardinality(pending')
                 = stats.delivered + Cardinality(pending) + Cardinality(events)
            /\ stats'.received = stats.received + Cardinality(events)
            /\ stats'.resyncs = stats.resyncs
<1> DEFINE buffer == pending \cup events
           counted == [stats EXCEPT !.received = @ + Cardinality(events)]
           seen == IF h > newRev THEN h ELSE revision
<1>1. IsFiniteSet(buffer)
  BY FS_Union
<1>2. /\ Cardinality(buffer) = Cardinality(pending) + Cardinality(events)
      /\ Cardinality(pending) \in Nat /\ Cardinality(events) \in Nat
  <2>1. Cardinality(pending) \in Nat /\ Cardinality(events) \in Nat
    BY FS_CardinalityType
  <2>2. pending \cap events = {}
    OBVIOUS
  <2>3. Cardinality(pending \cap events) = 0
    BY <2>2, FS_EmptySet
  <2>4. Cardinality(buffer)
          = Cardinality(pending) + Cardinality(events) - Cardinality(pending \cap events)
    BY FS_Union
  <2> HIDE DEF buffer
  <2> QED BY <2>1, <2>3, <2>4
<1>3. /\ counted \in StatsType
      /\ counted.received = stats.received + Cardinality(events)
      /\ counted.delivered = stats.delivered /\ counted.resyncs = stats.resyncs
  BY <1>2 DEF TypeOK, StatsType
<1>4. Cardinality({}) = 0
  BY FS_EmptySet
<1>5. /\ newRev' = IF h > newRev THEN h ELSE newRev
      /\ madeProgress' = TRUE /\ cursor' = upTo + 1
  BY DEF Receive
<1>6. CASE Flush(buffer, upTo, counted, seen) /\ pending' = {} /\ timerOn' \in BOOLEAN
  <2> HIDE DEF buffer, counted
  <2>1. /\ buffer = {} => informed' = informed /\ batch' = batch
        /\ buffer # {} => informed' = upTo /\ batch' = buffer
        /\ revision' \in {seen, Rev}
        /\ stats' \in StatsType
        /\ stats'.delivered = counted.delivered + Cardinality(buffer)
        /\ stats'.received = counted.received /\ stats'.resyncs = counted.resyncs
        /\ hook' \in {hook, "fatal"}
    BY <1>1, <1>3, <1>6, FlushFacts
  <2>2. revision' \in {h, revision, Rev}
    BY <2>1
  <2>3. stats'.delivered + Cardinality(pending')
          = stats.delivered + Cardinality(pending) + Cardinality(events)
    BY <1>2, <1>3, <1>4, <1>6, <2>1 DEF StatsType, TypeOK
  <2> QED BY <1>3, <1>5, <1>6, <2>1, <2>2, <2>3 DEF buffer
<1>7. CASE /\ ~Forced(buffer) /\ Debounce
           /\ pending' = buffer /\ timerOn' = TRUE
           /\ revision' = seen /\ stats' = counted
           /\ UNCHANGED <<feedVars, hook>>
  <2> HIDE DEF counted
  <2>1. revision' \in {h, revision, Rev}
    BY <1>7
  <2>2. stats'.delivered + Cardinality(pending')
          = stats.delivered + Cardinality(pending) + Cardinality(events)
    BY <1>2, <1>3, <1>7 DEF StatsType, TypeOK
  <2> QED BY <1>3, <1>5, <1>7, <2>1, <2>2 DEF feedVars
<1>8. timerOn \in BOOLEAN
  BY DEF TypeOK
<1> QED BY <1>6, <1>7, <1>8 DEF Receive

\* What the counters say of it.
LEMMA ReceiveCounts ==
  ASSUME TypeOK, NEW h, NEW upTo, NEW events, IsFiniteSet(events),
         IsFiniteSet(pending), events \cap pending = {},
         Receive(h, upTo, events)
  PROVE  /\ stats'.delivered + Cardinality(pending')
              = stats.delivered + Cardinality(pending) + Cardinality(events)
         /\ stats'.received = stats.received + Cardinality(events)
         /\ stats'.resyncs = stats.resyncs
BY ReceiveFacts, Zenon

\* What the feed, the loop's bookkeeping and the reported revision become.
LEMMA ReceiveFeed ==
  ASSUME TypeOK, NEW h, NEW upTo, NEW events, IsFiniteSet(events),
         IsFiniteSet(pending), events \cap pending = {},
         Receive(h, upTo, events)
  PROVE  /\ newRev' = IF h > newRev THEN h ELSE newRev
         /\ madeProgress' = TRUE /\ cursor' = upTo + 1
         /\ revision' \in {h, revision, Rev}
         /\ timerOn' \in BOOLEAN /\ hook' \in {hook, "fatal"}
         /\ stats' \in StatsType
         /\ \/ /\ pending' = {} /\ pending \cup events = {}
               /\ informed' = informed /\ batch' = batch
            \/ /\ pending' = {} /\ pending \cup events # {}
               /\ informed' = upTo /\ batch' = pending \cup events
            \/ /\ pending' = pending \cup events /\ timerOn' /\ Debounce
               /\ ~Forced(pending \cup events)
               /\ informed' = informed /\ batch' = batch
BY ReceiveFacts, Zenon

\* The timer and the end of a session hand over all there is.
LEMMA DrainFacts ==
  ASSUME TypeOK, IsFiniteSet(pending), pending' = {},
         Flush(pending, cursor - 1, stats, revision)
  PROVE  /\ pending = {} => informed' = informed /\ batch' = batch
         /\ pending # {} => informed' = cursor - 1 /\ batch' = pending
         /\ revision' \in {revision, Rev} /\ hook' \in {hook, "fatal"}
         /\ stats' \in StatsType
         /\ stats'.delivered + Cardinality(pending')
              = stats.delivered + Cardinality(pending)
         /\ stats'.received = stats.received /\ stats'.resyncs = stats.resyncs
<1>1. stats \in StatsType
  BY DEF TypeOK, StatsType
<1>2. Cardinality(pending') = 0
  BY FS_EmptySet
<1>3. stats'.delivered = stats.delivered + Cardinality(pending)
  BY <1>1, FlushFacts
<1>4. Cardinality(pending) \in Nat
  BY FS_CardinalityType
<1>5. stats'.delivered + Cardinality(pending') = stats.delivered + Cardinality(pending)
  BY <1>1, <1>2, <1>3, <1>4 DEF StatsType
<1> QED BY <1>1, <1>5, FlushFacts

-----------------------------------------------------------------------------
(* The invariant.                                                            *)

Typing ==
  /\ TypeOK
  /\ cursor >= 1 /\ newRev <= Rev
  /\ pc = "resynced" => revision >= 1

\* A session is over and what it saw is not used yet.
Over == pc \in {"ended", "retry"} \/ (pc = "resync" /\ ~pendingResync)

\* The next session would start at startRev, if that is set.
Resumable ==
  \/ pc \in {"top", "backoff"}
  \/ pc = "resync" /\ pendingResync
  \/ pc \in {"consume", "ended", "resync", "retry"} /\ newRev = 0

\* What the consumer knows, what is buffered, what etcd owes and where the watch
\* would resume follow each other.
Ordered ==
  /\ pc \in {"idle", "start"} => startRev = 0 /\ newRev = 0 /\ informed = 0
  /\ pc # "consume" => pending = {}
  /\ pc \in {"consume", "ended"} => ~pendingResync
  /\ pc = "consume" =>
       /\ informed < cursor
       /\ \A e \in pending : informed < e.rev /\ e.rev < cursor
       /\ newRev > 0 => newRev >= cursor - 1
       /\ newRev = 0 => pending = {}
  /\ Over /\ newRev > 0 => informed <= newRev
  /\ Resumable /\ startRev > 0 => informed < startRev

\* What is buffered is a finite set of events of the past.
LEMMA PendingFinite ==
  ASSUME Typing
  PROVE  IsFiniteSet(pending)
<1>1. Rev \in Int /\ pending \subseteq [key : Watched, rev : 1..Rev]
  BY DEF Typing, TypeOK, EtcdTypeOK
<1> HIDE DEF Rev
<1> QED BY <1>1, SomeEventsFinite

\* All responses have one shape: the events up to some revision, and a header
\* that is not behind them.
LEMMA ResponseShape ==
  ASSUME Typing, Responses
  PROVE  /\ pc = "consume" /\ SessionFrame /\ greeted' \in BOOLEAN
         /\ greeted => greeted'
         /\ \E h \in 1..Rev : \E upTo \in (cursor - 1)..h :
              /\ Receive(h, upTo, Wanted(hist, cursor, upTo))
              /\ ~PartialCatchUp /\ greeted => h = upTo
<1>0. /\ cursor \in 1..(Rev + 1) /\ Rev \in Nat /\ Rev >= 1
      /\ greeted \in BOOLEAN
  BY DEF Typing, TypeOK, EtcdTypeOK
<1>1. CASE CreatedResponse
  <2>1. Wanted(hist, cursor, cursor - 1) = {}
    BY <1>0, WantedNone
  <2>2. Receive(Rev, cursor - 1, Wanted(hist, cursor, cursor - 1))
    BY <1>1, <2>1 DEF CreatedResponse
  <2>3. Rev \in 1..Rev /\ cursor - 1 \in (cursor - 1)..Rev
    BY <1>0
  <2>4. pc = "consume" /\ SessionFrame /\ ~greeted /\ greeted' = TRUE
    BY <1>1 DEF CreatedResponse
  <2> QED BY <2>2, <2>3, <2>4
<1>2. CASE EventResponse
  <2>1. PICK upTo \in cursor..Rev : Receive(upTo, upTo, Wanted(hist, cursor, upTo))
    BY <1>2 DEF EventResponse
  <2>2. upTo \in 1..Rev /\ upTo \in (cursor - 1)..upTo
    BY <1>0
  <2>3. pc = "consume" /\ SessionFrame /\ greeted' = greeted
    BY <1>2 DEF EventResponse
  <2> QED BY <1>0, <2>1, <2>2, <2>3
<1>3. CASE CatchUpResponse
  <2>1. PICK upTo \in cursor..(Rev - 1) : Receive(Rev, upTo, Wanted(hist, cursor, upTo))
    BY <1>3 DEF CatchUpResponse
  <2>2. Rev \in 1..Rev /\ upTo \in (cursor - 1)..Rev
    BY <1>0
  <2>3. pc = "consume" /\ SessionFrame /\ greeted' = greeted /\ PartialCatchUp
    BY <1>3 DEF CatchUpResponse
  <2> QED BY <1>0, <2>1, <2>2, <2>3
<1>4. CASE ProgressResponse
  <2>1. Receive(Rev, Rev, Wanted(hist, cursor, Rev))
    BY <1>4 DEF ProgressResponse
  <2>2. Rev \in 1..Rev /\ Rev \in (cursor - 1)..Rev
    BY <1>0
  <2>3. pc = "consume" /\ SessionFrame /\ greeted' = greeted
    BY <1>4 DEF ProgressResponse
  <2> QED BY <1>0, <2>1, <2>2, <2>3
<1> QED BY <1>1, <1>2, <1>3, <1>4 DEF Responses

\* And so have all endings.
LEMMA EndingShape ==
  ASSUME Typing, Endings
  PROVE  /\ faults' \in 0..MaxFaults /\ denied' \in BOOLEAN
         /\ \E how \in Outcomes :
              /\ EndSession(how)
              /\ denied' # denied => how = "auth"
<1>0. denied \in BOOLEAN /\ faults \in 0..MaxFaults /\ MaxFaults \in Nat
  BY WatchLoopAssumption DEF Typing, TypeOK
<1> USE <1>0 DEF Outcomes, Fault
<1>1. CASE SessionCancelled
  BY <1>1 DEF SessionCancelled
<1>2. CASE ChannelClosed
  BY <1>2 DEF ChannelClosed
<1>3. CASE SessionFails
  BY <1>3 DEF SessionFails
<1>4. CASE SessionDenied
  <2>1. EndSession("auth") /\ denied' = TRUE /\ faults' \in 0..MaxFaults
    BY <1>4 DEF SessionDenied
  <2> QED BY <2>1
<1>5. CASE SessionCompacted
  BY <1>5 DEF SessionCompacted
<1> QED BY <1>1, <1>2, <1>3, <1>4, <1>5 DEF Endings
-----------------------------------------------------------------------------
(* Types.                                                                    *)

\* The store's other clients.
LEMMA StoreTyping ==
  ASSUME EtcdTypeOK, Commit \/ Compact
  PROVE  EtcdTypeOK' /\ Rev' >= Rev /\ Rev' \in Nat /\ Rev \in Nat
<1>1. CASE Commit
  <2>1. PICK c \in Changes : Rev < MaxRev /\ hist' = Append(hist, c) /\ UNCHANGED compactRev
    BY <1>1 DEF Commit
  <2>2. hist' \in Seq(Changes \cup {NoChange}) /\ Rev' = Rev + 1
    BY <2>1 DEF EtcdTypeOK, Rev
  <2>3. Rev \in Nat /\ Rev < MaxRev /\ compactRev \in 0..Rev /\ compactRev' = compactRev
    BY <2>1 DEF EtcdTypeOK
  <2> QED BY EtcdAssumption, <2>2, <2>3 DEF EtcdTypeOK
<1>2. CASE Compact
  BY <1>2 DEF Compact, EtcdTypeOK, Rev
<1> QED BY <1>1, <1>2

\* What a failed read can change.
LEMMA ResyncErrorTyping ==
  ASSUME Typing, ResyncError
  PROVE  /\ revision' \in {revision, Rev} /\ denied' \in BOOLEAN
         /\ faults' \in 0..MaxFaults
<1>1. denied \in BOOLEAN /\ faults \in 0..MaxFaults /\ MaxFaults \in Nat
  BY WatchLoopAssumption DEF Typing, TypeOK
<1>2. (denied \/ DenyResync) \in BOOLEAN
  BY Zenon
<1>3. CASE Fault /\ denied' \in {denied, denied \/ DenyResync} /\ UNCHANGED revision
  <2>1. faults' \in 0..MaxFaults
    BY <1>1, <1>3 DEF Fault
  <2> QED BY <1>1, <1>2, <1>3, <2>1
<1> QED BY <1>1, <1>3 DEF ResyncError

\* A resync is a batch of one event.
LEMMA ResyncFacts ==
  ASSUME Typing, DoResync
  PROVE  /\ batch' = {ResyncEvent(revision)} /\ informed' = revision
         /\ revision' \in {revision, Rev} /\ hook' \in {hook, "fatal"}
         /\ stats' \in StatsType
         /\ stats'.delivered = stats.delivered + 1
         /\ stats'.received = stats.received
         /\ stats'.resyncs = stats.resyncs + 1
<1> DEFINE counted == [stats EXCEPT !.resyncs = @ + 1]
<1>1. /\ counted \in StatsType /\ counted.delivered = stats.delivered
      /\ counted.received = stats.received
      /\ counted.resyncs = stats.resyncs + 1
  BY DEF Typing, TypeOK, StatsType
<1>2. IsFiniteSet({ResyncEvent(revision)}) /\ Cardinality({ResyncEvent(revision)}) = 1
  BY FS_Singleton
<1>3. Hand({ResyncEvent(revision)}, revision, counted, revision)
  BY DEF DoResync
<1> HIDE DEF counted
<1>4. /\ batch' = {ResyncEvent(revision)} /\ informed' = revision
      /\ revision' \in {revision, Rev} /\ hook' \in {hook, "fatal"}
      /\ stats' \in StatsType
      /\ stats'.delivered = counted.delivered + Cardinality({ResyncEvent(revision)})
      /\ stats'.received = counted.received /\ stats'.resyncs = counted.resyncs
  BY <1>1, <1>2, <1>3, HandFacts
<1> QED BY <1>1, <1>2, <1>4

\* The loop counts revisions; these are the numbers it compares.
LEMMA Numbers ==
  ASSUME Typing
  PROVE  /\ Rev \in Nat /\ Rev >= 1 /\ revision \in 0..Rev /\ newRev \in 0..Rev
         /\ startRev \in 0..(Rev + 1) /\ cursor \in 1..(Rev + 1) /\ informed \in 0..Rev
         /\ pendingResync \in BOOLEAN
<1>1. /\ TypeOK /\ EtcdTypeOK /\ cursor >= 1 /\ newRev <= Rev
  BY DEF Typing, TypeOK
<1>2. Rev \in 1..MaxRev
  BY <1>1 DEF EtcdTypeOK
<1>3. /\ {startRev, newRev, cursor} \subseteq 0..(Rev + 1)
      /\ {revision, reader, informed} \subseteq 0..Rev
      /\ pendingResync \in BOOLEAN
  BY <1>1 DEF TypeOK
<1>4. Rev \in Nat /\ Rev >= 1
  BY <1>2, EtcdAssumption
<1> HIDE DEF Rev
<1> QED BY <1>1, <1>3, <1>4

\* Every step keeps the types.
LEMMA TypingStep ==
  ASSUME Typing, Ordered, [Next]_vars
  PROVE  Typing'
<1> USE WatchLoopAssumption DEF Typing, loopVars, sessionVars, feedVars, reportVars
<1>0. /\ Rev \in Nat /\ Rev >= 1 /\ revision \in 0..Rev /\ newRev \in 0..Rev
      /\ startRev \in 0..(Rev + 1) /\ cursor \in 1..(Rev + 1) /\ informed \in 0..Rev
  BY Numbers
<1>a. UNCHANGED hist => Rev' = Rev
  BY DEF Rev
<1>1. CASE ReadGet
  <2>1. reader' \in 0..Rev
    BY <1>0, <1>1 DEF ReadGet
  <2> QED BY <1>0, <1>1, <1>a, <2>1 DEF ReadGet, TypeOK, EtcdTypeOK
<1>2. CASE ReadStore
  BY <1>0, <1>2, <1>a DEF ReadStore, TypeOK, EtcdTypeOK
<1>3. CASE StoreStep
  BY <1>0, <1>3, StoreTyping DEF StoreStep, TypeOK
<1>4. CASE WatchStart
  BY <1>0, <1>4, <1>a DEF WatchStart, TypeOK, EtcdTypeOK
<1>5. CASE Cancel
  BY <1>0, <1>5, <1>a DEF Cancel, TypeOK, EtcdTypeOK
<1>6. CASE LoopInit
  BY <1>0, <1>6, <1>a DEF LoopInit, InitialWatchRevision, TypeOK, EtcdTypeOK
<1>7. CASE Stop
  BY <1>0, <1>7, <1>a DEF Stop, TypeOK, EtcdTypeOK
<1>8. CASE RetryResync
  BY <1>0, <1>8, <1>a DEF RetryResync, TypeOK, EtcdTypeOK
<1>9. CASE OpenSession
  <2>1. /\ cursor' \in 1..(Rev + 1) /\ informed' \in 0..Rev
        /\ doomed' \in BOOLEAN /\ greeted' \in BOOLEAN
    BY <1>0, <1>9 DEF OpenSession
  <2>2. /\ pc' = "consume" /\ newRev' = 0 /\ madeProgress' = FALSE
        /\ outcome' = "none" /\ hook' = "none"
        /\ UNCHANGED <<hist, compactRev, ctxDone, startRev, attempt, pendingResync,
                       failedAttempts, pending, timerOn, revision, stats, reader, batch,
                       recovery, sleeps, denied, faults>>
    BY <1>9 DEF OpenSession
  <2>3. outcome' \in Outcomes
    BY <2>2 DEF Outcomes
  <2>4. /\ EtcdTypeOK' /\ Rev' = Rev
        /\ (batch \subseteq [key : Watched \cup {NoKey}, rev : 1..Rev])'
        /\ (pending \subseteq [key : Watched, rev : 1..Rev])'
    BY <1>a, <2>2 DEF TypeOK, EtcdTypeOK
  <2>5. /\ ({startRev, newRev, cursor} \subseteq 0..(Rev + 1))'
        /\ ({revision, reader, informed} \subseteq 0..Rev)'
        /\ ({attempt, failedAttempts, sleeps} \subseteq 0..MaxAttempt)'
    BY <1>0, <2>1, <2>2, <2>3, <2>4 DEF TypeOK
  <2>6. /\ pc' \in {"top", "consume"} /\ outcome' \in Outcomes
        /\ ({ctxDone, pendingResync, doomed, greeted, madeProgress, timerOn, denied}
             \subseteq BOOLEAN)'
        /\ (stats \in [received : Nat, resyncs : Nat, delivered : Nat, errors : Nat])'
        /\ hook' \in {"none", "transient", "compaction", "auth", "fatal"}
        /\ (recovery \in [attempts : Nat, slept : Nat])'
        /\ faults' \in 0..MaxFaults
    BY <2>1, <2>2, <2>3, <2>4 DEF TypeOK, StatsType
  <2>7. cursor' >= 1 /\ newRev' <= Rev' /\ pc' # "resynced"
    BY <1>0, <2>1, <2>2, <2>3, <2>4
  <2> QED BY <2>4, <2>5, <2>6, <2>7 DEF TypeOK
<1>10. CASE Settle
  <2>1. /\ stats' \in [received : Nat, resyncs : Nat, delivered : Nat, errors : Nat]
        /\ hook' \in {"none", "transient", "compaction", "auth", "fatal"}
        /\ pc' \in {"resync", "exit", "retry"}
    BY <1>10 DEF Settle, HandleError, TypeOK
  <2>2. /\ recovery' \in [attempts : Nat, slept : Nat]
        /\ {attempt', failedAttempts', sleeps'} \subseteq 0..MaxAttempt
    BY <1>10 DEF Settle, TypeOK
  <2> QED BY <1>0, <1>10, <1>a, <2>1, <2>2 DEF Settle, TypeOK, EtcdTypeOK
<1>11. CASE Retry
  <2>1. startRev' \in 0..(Rev + 1) /\ pc' \in {"exit", "backoff"}
    BY <1>0, <1>11 DEF Retry, ResumeAfter
  <2>2. attempt \in 0..MaxAttempt /\ failedAttempts \in 0..MaxAttempt
    BY DEF TypeOK
  <2>3. attempt' \in 0..MaxAttempt /\ failedAttempts' \in 0..MaxAttempt
    BY <1>11, <2>2 DEF Retry, CountFailure, Bump
  <2>4. UNCHANGED <<hist, compactRev, ctxDone, pendingResync, cursor, doomed, greeted,
                    newRev, madeProgress, pending, timerOn, outcome, revision, stats,
                    reader, informed, batch, hook, recovery, sleeps, denied, faults>>
    BY <1>11 DEF Retry
  <2> QED BY <1>0, <1>a, <2>1, <2>3, <2>4 DEF TypeOK, EtcdTypeOK
<1>12. CASE BackoffDone
  <2>1. sleeps' \in 0..MaxAttempt
    BY <1>12 DEF BackoffDone, Bump, TypeOK
  <2> QED BY <1>0, <1>12, <1>a, <2>1 DEF BackoffDone, TypeOK, EtcdTypeOK
<1>13. CASE BackoffCancelled
  BY <1>0, <1>13, <1>a DEF BackoffCancelled, TypeOK, EtcdTypeOK
<1>14. CASE ResyncRead
  BY <1>0, <1>14, <1>a DEF ResyncRead, TypeOK, EtcdTypeOK
<1>15. CASE ResyncFailsInline
  <2>1. stats' \in [received : Nat, resyncs : Nat, delivered : Nat, errors : Nat]
    BY <1>15 DEF ResyncFailsInline, TypeOK
  <2>2. revision' \in {revision, Rev} /\ denied' \in BOOLEAN /\ faults' \in 0..MaxFaults
    BY <1>15, ResyncErrorTyping DEF ResyncFailsInline
  <2>3. revision' \in 0..Rev
    BY <1>0, <2>2
  <2> QED BY <1>0, <1>15, <1>a, <2>1, <2>2, <2>3 DEF ResyncFailsInline, TypeOK, EtcdTypeOK
<1>16. CASE ResyncFailsPending
  <2>1. revision' \in {revision, Rev} /\ denied' \in BOOLEAN /\ faults' \in 0..MaxFaults
    BY <1>16, ResyncErrorTyping DEF ResyncFailsPending
  <2>2. {attempt', failedAttempts'} \subseteq 0..MaxAttempt
    BY <1>16 DEF ResyncFailsPending, CountFailure, Bump, TypeOK
  <2> QED BY <1>0, <1>16, <1>a, <2>1, <2>2 DEF ResyncFailsPending, TypeOK, EtcdTypeOK
<1>17. CASE Resynced
  <2>1. revision \in 1..Rev /\ startRev' \in 1..(Rev + 1)
    BY <1>0, <1>17 DEF Resynced, ResumeAfter
  <2>2. /\ batch' = {ResyncEvent(revision)} /\ informed' = revision
        /\ revision' \in {revision, Rev} /\ hook' \in {hook, "fatal"}
        /\ stats' \in StatsType
    BY <1>17, ResyncFacts DEF Resynced
  <2>3. batch' \subseteq [key : Watched \cup {NoKey}, rev : 1..Rev]
    BY <2>1, <2>2 DEF ResyncEvent
  <2>4. /\ recovery' \in [attempts : Nat, slept : Nat]
        /\ {attempt', failedAttempts', sleeps'} \subseteq 0..MaxAttempt
    BY <1>17 DEF Resynced, TypeOK
  <2>5. /\ revision' \in 0..Rev
        /\ hook' \in {"none", "transient", "compaction", "auth", "fatal"}
    BY <1>0, <2>2 DEF TypeOK
  <2>6. /\ pc' = "top" /\ pendingResync' = FALSE /\ outcome' = "none"
        /\ UNCHANGED <<hist, compactRev, ctxDone, cursor, doomed, greeted, newRev,
                       madeProgress, pending, timerOn, reader, denied, faults>>
    BY <1>17 DEF Resynced
  <2>7. outcome' \in Outcomes
    BY <2>6 DEF Outcomes
  <2>8. /\ EtcdTypeOK' /\ Rev' = Rev
        /\ (batch \subseteq [key : Watched \cup {NoKey}, rev : 1..Rev])'
        /\ (pending \subseteq [key : Watched, rev : 1..Rev])'
    BY <1>a, <2>3, <2>6 DEF TypeOK, EtcdTypeOK
  <2>9. /\ ({startRev, newRev, cursor} \subseteq 0..(Rev + 1))'
        /\ ({revision, reader, informed} \subseteq 0..Rev)'
        /\ ({attempt, failedAttempts, sleeps} \subseteq 0..MaxAttempt)'
    BY <1>0, <2>1, <2>2, <2>4, <2>5, <2>6, <2>7, <2>8 DEF TypeOK
  <2>10. /\ pc' \in {"top", "consume"} /\ outcome' \in Outcomes
        /\ ({ctxDone, pendingResync, doomed, greeted, madeProgress, timerOn, denied}
             \subseteq BOOLEAN)'
        /\ (stats \in [received : Nat, resyncs : Nat, delivered : Nat, errors : Nat])'
        /\ hook' \in {"none", "transient", "compaction", "auth", "fatal"}
        /\ (recovery \in [attempts : Nat, slept : Nat])'
        /\ faults' \in 0..MaxFaults
    BY <2>1, <2>2, <2>4, <2>5, <2>6, <2>7, <2>8 DEF TypeOK, StatsType
  <2>11. cursor' >= 1 /\ newRev' <= Rev' /\ pc' # "resynced"
    BY <1>0, <2>1, <2>2, <2>4, <2>5, <2>6, <2>7, <2>8
  <2> QED BY <2>8, <2>9, <2>10, <2>11 DEF TypeOK
<1>b. IsFiniteSet(pending)
  BY PendingFinite
<1>18. CASE Responses
  <2>0. PICK h \in 1..Rev : \E upTo \in (cursor - 1)..h :
          Receive(h, upTo, Wanted(hist, cursor, upTo))
    BY <1>18, ResponseShape
  <2>1. PICK upTo \in (cursor - 1)..h : Receive(h, upTo, Wanted(hist, cursor, upTo))
    BY <2>0
  <2> DEFINE events == Wanted(hist, cursor, upTo)
             buffer == pending \cup events
  <2>2. events \subseteq [key : Watched, rev : cursor..upTo] /\ IsFiniteSet(events)
    BY <1>0, WantedType
  <2>3. events \cap pending = {} /\ buffer \subseteq [key : Watched, rev : 1..Rev]
    BY <1>0, <1>18, <2>2, ResponseShape DEF Ordered, TypeOK
  <2> HIDE DEF events
  <2>4. /\ newRev' = IF h > newRev THEN h ELSE newRev
        /\ madeProgress' = TRUE /\ cursor' = upTo + 1
        /\ revision' \in {h, revision, Rev}
        /\ timerOn' \in BOOLEAN /\ hook' \in {hook, "fatal"}
        /\ stats' \in StatsType
        /\ pending' \in {{}, buffer}
        /\ informed' \in {informed, upTo} /\ batch' \in {batch, buffer}
    BY <1>b, <2>1, <2>2, <2>3, ReceiveFeed DEF events
  <2>5. buffer \subseteq [key : Watched \cup {NoKey}, rev : 1..Rev]
    BY <2>3
  <2> HIDE DEF buffer
  <2>6. SessionFrame /\ pc = "consume" /\ greeted' \in BOOLEAN
    BY <1>18, ResponseShape
  <2>7. /\ newRev' \in 0..Rev /\ cursor' \in 1..(Rev + 1)
        /\ revision' \in 0..Rev /\ informed' \in 0..Rev
    BY <1>0, <2>4
  <2>8. UNCHANGED <<hist, compactRev, pc, ctxDone, startRev, attempt, pendingResync,
                    failedAttempts, doomed, outcome, reader, recovery, sleeps, denied,
                    faults>>
    BY <2>6 DEF SessionFrame
  <2>9. /\ EtcdTypeOK' /\ Rev' = Rev
        /\ (batch \subseteq [key : Watched \cup {NoKey}, rev : 1..Rev])'
        /\ (pending \subseteq [key : Watched, rev : 1..Rev])'
    BY <1>a, <2>3, <2>4, <2>5, <2>8 DEF TypeOK, EtcdTypeOK
  <2>10. /\ ({startRev, newRev, cursor} \subseteq 0..(Rev + 1))'
         /\ ({revision, reader, informed} \subseteq 0..Rev)'
    BY <1>0, <2>7, <2>8, <2>9 DEF TypeOK
  <2>11. /\ ({attempt, failedAttempts, sleeps} \subseteq 0..MaxAttempt)'
         /\ ({ctxDone, pendingResync, doomed, greeted, madeProgress, timerOn, denied}
              \subseteq BOOLEAN)'
         /\ outcome' \in Outcomes /\ faults' \in 0..MaxFaults
    BY <2>4, <2>6, <2>8 DEF TypeOK
  <2>12. /\ (stats \in [received : Nat, resyncs : Nat, delivered : Nat, errors : Nat])'
         /\ hook' \in {"none", "transient", "compaction", "auth", "fatal"}
         /\ (recovery \in [attempts : Nat, slept : Nat])'
    BY <2>4, <2>8 DEF TypeOK, StatsType
  <2>13. pc' = "consume" /\ cursor' >= 1 /\ newRev' <= Rev'
    BY <1>0, <2>6, <2>7, <2>8, <2>9
  <2> QED BY <2>9, <2>10, <2>11, <2>12, <2>13 DEF TypeOK
<1>c. ASSUME Flush(pending, cursor - 1, stats, revision), pending' = {}
      PROVE  /\ informed' \in 0..Rev /\ revision' \in 0..Rev
             /\ batch' \subseteq [key : Watched \cup {NoKey}, rev : 1..Rev]
             /\ hook' \in {"none", "transient", "compaction", "auth", "fatal"}
             /\ stats' \in StatsType
  <2>1. /\ informed' \in {informed, cursor - 1} /\ batch' \in {batch, pending}
        /\ revision' \in {revision, Rev} /\ hook' \in {hook, "fatal"}
        /\ stats' \in StatsType
    BY <1>b, <1>c, DrainFacts
  <2>2. pending \subseteq [key : Watched \cup {NoKey}, rev : 1..Rev]
    BY DEF TypeOK
  <2> QED BY <1>0, <2>1, <2>2 DEF TypeOK
<1>19. CASE FlushOnTimer
  BY <1>0, <1>19, <1>a, <1>c DEF FlushOnTimer, StatsType, TypeOK, EtcdTypeOK
<1>20. CASE Endings
  <2>1. PICK how \in Outcomes : EndSession(how)
    BY <1>20, EndingShape
  <2>2. faults' \in 0..MaxFaults /\ denied' \in BOOLEAN
    BY <1>20, EndingShape
  <2> QED BY <1>0, <1>a, <1>c, <2>1, <2>2 DEF EndSession, StatsType, TypeOK, EtcdTypeOK
<1>21. CASE UNCHANGED vars
  BY <1>0, <1>21, <1>a DEF vars, TypeOK, EtcdTypeOK
<1> QED BY <1>1, <1>2, <1>3, <1>4, <1>5, <1>6, <1>7, <1>8, <1>9, <1>10, <1>11, <1>12,
           <1>13, <1>14, <1>15, <1>16, <1>17, <1>18, <1>19, <1>20, <1>21
        DEF Next, Outside, Loop
-----------------------------------------------------------------------------
(* Order.                                                                    *)


\* Every step keeps the order.
LEMMA OrderedStep ==
  ASSUME Typing, Ordered, [Next]_vars
  PROVE  Ordered'
<1> USE Numbers DEF Ordered, Over, Resumable, loopVars, sessionVars, feedVars, reportVars
<1>1. CASE Outside
  BY <1>1 DEF Outside, ReadGet, ReadStore, StoreStep, WatchStart, Cancel
<1>6. CASE LoopInit
  BY <1>6 DEF LoopInit, InitialWatchRevision
<1>7. CASE Stop
  BY <1>7 DEF Stop
<1>8. CASE RetryResync
  BY <1>8 DEF RetryResync
<1>9. CASE OpenSession
  BY <1>9 DEF OpenSession
<1>10. CASE Settle
  BY <1>10 DEF Settle, HandleError
<1>11. CASE Retry
  BY <1>11 DEF Retry, ResumeAfter
<1>12. CASE BackoffDone
  BY <1>12 DEF BackoffDone
<1>13. CASE BackoffCancelled
  BY <1>13 DEF BackoffCancelled
<1>14. CASE ResyncRead
  BY <1>14 DEF ResyncRead
<1>15. CASE ResyncFailsInline
  BY <1>15 DEF ResyncFailsInline
<1>16. CASE ResyncFailsPending
  BY <1>16 DEF ResyncFailsPending
<1>17. CASE Resynced
  BY <1>17, ResyncFacts DEF Resynced, ResumeAfter
<1>b. IsFiniteSet(pending)
  BY PendingFinite
<1>18. CASE Responses
  <2>0. PICK h \in 1..Rev : \E upTo \in (cursor - 1)..h :
          Receive(h, upTo, Wanted(hist, cursor, upTo))
    BY <1>18, ResponseShape
  <2>1. PICK upTo \in (cursor - 1)..h : Receive(h, upTo, Wanted(hist, cursor, upTo))
    BY <2>0
  <2> DEFINE events == Wanted(hist, cursor, upTo)
             buffer == pending \cup events
  <2>2. events \subseteq [key : Watched, rev : cursor..upTo] /\ IsFiniteSet(events)
    BY WantedType
  <2>3. events \cap pending = {}
    BY <1>18, <2>2, ResponseShape DEF Typing, TypeOK
  <2>4. pc = "consume" /\ SessionFrame
    BY <1>18, ResponseShape
  <2>5. \A e \in buffer : informed < e.rev /\ e.rev < upTo + 1
    BY <2>2, <2>4 DEF Typing, TypeOK
  <2> HIDE DEF events
  <2>6. /\ newRev' = (IF h > newRev THEN h ELSE newRev) /\ cursor' = upTo + 1
        /\ \/ pending' = {} /\ informed' \in {informed, upTo}
           \/ pending' = buffer /\ informed' = informed
    BY <1>b, <2>1, <2>2, <2>3, ReceiveFeed DEF events, Typing
  <2> HIDE DEF buffer
  <2>7. informed' < cursor' /\ newRev' > 0 /\ newRev' >= cursor' - 1
    BY <2>4, <2>6
  <2>8. \A e \in pending' : informed' < e.rev /\ e.rev < cursor'
    BY <2>5, <2>6
  <2> QED BY <2>4, <2>7, <2>8 DEF SessionFrame
<1>19. CASE FlushOnTimer
  <2>1. informed' \in {informed, cursor - 1}
    BY <1>b, <1>19, DrainFacts DEF FlushOnTimer, Typing
  <2>2. pending = {} => informed' = informed
    BY <1>b, <1>19, DrainFacts DEF FlushOnTimer, Typing
  <2> QED BY <1>19, <2>1, <2>2 DEF FlushOnTimer
<1>20. CASE Endings
  <2>0. PICK how \in Outcomes : EndSession(how)
    BY <1>20, EndingShape
  <2>1. informed' \in {informed, cursor - 1}
    BY <1>b, <2>0, DrainFacts DEF EndSession, Typing
  <2>2. pending = {} => informed' = informed
    BY <1>b, <2>0, DrainFacts DEF EndSession, Typing
  <2> QED BY <2>0, <2>1, <2>2 DEF EndSession
<1>21. CASE UNCHANGED vars
  BY <1>21 DEF vars
<1> QED BY <1>1, <1>6, <1>7, <1>8, <1>9, <1>10, <1>11, <1>12, <1>13, <1>14, <1>15,
           <1>16, <1>17, <1>18, <1>19, <1>20, <1>21 DEF Next, Loop
-----------------------------------------------------------------------------
(* Nothing is dropped between etcd and the callback.                         *)

Buffered == Conservation /\ BufferIsDrained

\* Every step keeps the sum, and the buffer where the timer can reach it.
LEMMA BufferedStep ==
  ASSUME Typing, Ordered, Buffered, [Next]_vars
  PROVE  Buffered'
<1> USE DEF Buffered, Conservation, loopVars, sessionVars, feedVars, reportVars
<1>0. /\ stats \in StatsType /\ MaxPending \in Nat /\ Cardinality({}) = 0
      /\ IsFiniteSet(pending) /\ Cardinality(pending) \in Nat
  BY WatchLoopAssumption, PendingFinite, FS_EmptySet, FS_CardinalityType
     DEF Typing, TypeOK, StatsType
<1>1. CASE Outside
  BY <1>1 DEF Outside, ReadGet, ReadStore, StoreStep, WatchStart, Cancel, BufferIsDrained
<1>2. CASE Loop /\ ~Resynced
  <2>1. pc # "consume" /\ UNCHANGED <<pending, timerOn>>
    BY <1>2 DEF Loop, LoopInit, Stop, RetryResync, OpenSession, Settle, Retry,
         BackoffDone, BackoffCancelled, ResyncRead, ResyncFailsInline, ResyncFailsPending
  <2>2. pending = {} /\ pending' = {}
    BY <2>1 DEF Ordered
  <2>3. stats'.delivered = stats.delivered /\ stats'.received = stats.received
        /\ stats'.resyncs = stats.resyncs
    BY <1>0, <1>2 DEF Loop, LoopInit, Stop, RetryResync, OpenSession, Settle,
         HandleError, Retry, BackoffDone, BackoffCancelled, ResyncRead,
         ResyncFailsInline, ResyncFailsPending, StatsType
  <2> QED BY <1>0, <2>2, <2>3 DEF BufferIsDrained
<1>3. CASE Resynced
  <2>1. pending = {} /\ pending' = {}
    BY <1>3 DEF Resynced, Ordered
  <2>2. /\ stats'.delivered = stats.delivered + 1 /\ stats'.received = stats.received
        /\ stats'.resyncs = stats.resyncs + 1
    BY <1>3, ResyncFacts DEF Resynced
  <2> QED BY <1>0, <2>1, <2>2 DEF BufferIsDrained, StatsType
<1>4. CASE Responses
  <2>0. PICK h \in 1..Rev : \E upTo \in (cursor - 1)..h :
          Receive(h, upTo, Wanted(hist, cursor, upTo))
    BY <1>4, ResponseShape
  <2>1. PICK upTo \in (cursor - 1)..h : Receive(h, upTo, Wanted(hist, cursor, upTo))
    BY <2>0
  <2> DEFINE events == Wanted(hist, cursor, upTo)
             buffer == pending \cup events
  <2>2. events \subseteq [key : Watched, rev : cursor..upTo] /\ IsFiniteSet(events)
    BY Numbers, WantedType
  <2>3. pc = "consume" /\ pc' = "consume"
    BY <1>4, ResponseShape DEF SessionFrame
  <2>4. events \cap pending = {}
    BY <2>2, <2>3, Numbers DEF Ordered
  <2>10. TypeOK /\ Receive(h, upTo, events)
    BY <2>1 DEF Typing
  <2> HIDE DEF events
  <2>5. /\ \/ pending' = {}
           \/ pending' = buffer /\ timerOn' /\ Debounce /\ ~Forced(buffer)
    BY <1>0, <2>2, <2>4, <2>10, ReceiveFeed
  <2>9. /\ stats'.delivered + Cardinality(pending')
             = stats.delivered + Cardinality(pending) + Cardinality(events)
        /\ stats'.received = stats.received + Cardinality(events)
        /\ stats'.resyncs = stats.resyncs
    BY <1>0, <2>2, <2>4, <2>10, ReceiveCounts
  <2>6. IsFiniteSet(buffer) /\ Cardinality(buffer) \in Nat /\ Cardinality(events) \in Nat
    BY <1>0, <2>2, FS_Union, FS_CardinalityType
  <2>7. Conservation'
    BY <1>0, <2>6, <2>9 DEF StatsType
  <2> HIDE DEF buffer
  <2>8. BufferIsDrained'
    <3>1. CASE pending' = {}
      BY <1>0, <3>1 DEF BufferIsDrained
    <3>2. CASE pending' = buffer /\ timerOn' /\ Debounce /\ ~Forced(buffer)
      <4>1. MaxPending > 0 => Cardinality(pending') < MaxPending
        BY <1>0, <2>6, <3>2 DEF Forced
      <4> QED BY <2>3, <3>2, <4>1 DEF BufferIsDrained
    <3> QED BY <2>5, <3>1, <3>2
  <2> QED BY <2>7, <2>8
<1>5. ASSUME Flush(pending, cursor - 1, stats, revision), pending' = {}
      PROVE  Buffered'
  <2>1. /\ stats'.delivered + Cardinality(pending')
             = stats.delivered + Cardinality(pending)
        /\ stats'.received = stats.received /\ stats'.resyncs = stats.resyncs
    BY <1>0, <1>5, DrainFacts DEF Typing
  <2> QED BY <1>0, <1>5, <2>1 DEF BufferIsDrained
<1>6. CASE FlushOnTimer
  BY <1>5, <1>6 DEF FlushOnTimer
<1>7. CASE Endings
  BY <1>5, <1>7, EndingShape DEF EndSession
<1>8. CASE UNCHANGED vars
  BY <1>8 DEF vars, BufferIsDrained
<1> QED BY <1>1, <1>2, <1>3, <1>4, <1>6, <1>7, <1>8 DEF Next

-----------------------------------------------------------------------------
(* Failures, recoveries and resyncs.                                         *)

\* A failure is counted before its sleep, a sleep after it.
Counted ==
  /\ failedAttempts = attempt
  /\ pc = "backoff" => attempt = Bump(sleeps)
  /\ pc \notin {"backoff", "exit"} => attempt = sleeps
  /\ RecoveryCount

\* What became of a compaction, and of a refused permission.
Settled ==
  /\ pc \in {"idle", "start"} => outcome = "none"
  /\ outcome = "compacted" /\ pc \in {"retry", "backoff", "top"} => pendingResync
  /\ ~DenyResync /\ denied => pc = "exit" \/ (pc = "ended" /\ outcome = "auth")

\* What a session does to the loop's own variables.
LEMMA SessionKeeps ==
  ASSUME Typing, Responses \/ FlushOnTimer \/ Endings
  PROVE  /\ pc = "consume" /\ pc' \in {"consume", "ended"}
         /\ UNCHANGED <<attempt, failedAttempts, sleeps, recovery, pendingResync>>
         /\ denied' # denied => pc' = "ended" /\ outcome' = "auth"
<1> USE DEF loopVars, reportVars
<1>1. CASE Responses
  BY <1>1, ResponseShape DEF SessionFrame
<1>2. CASE FlushOnTimer
  BY <1>2 DEF FlushOnTimer
<1>3. CASE Endings
  BY <1>3, EndingShape DEF EndSession
<1> QED BY <1>1, <1>2, <1>3

\* Every step keeps the counts in agreement.
LEMMA CountedStep ==
  ASSUME Typing, Counted, [Next]_vars
  PROVE  Counted'
<1> USE DEF Counted, RecoveryCount, loopVars, sessionVars, reportVars
<1>0. /\ attempt \in Nat /\ failedAttempts \in Nat /\ sleeps \in Nat
      /\ NoRecovery = [attempts |-> 0, slept |-> 0]
  BY WatchLoopAssumption DEF Typing, TypeOK, NoRecovery
<1>1. CASE Outside
  BY <1>1 DEF Outside, ReadGet, ReadStore, StoreStep, WatchStart, Cancel
<1>2. CASE Responses \/ FlushOnTimer \/ Endings
  BY <1>2, SessionKeeps
<1>3. CASE LoopInit \/ Stop \/ RetryResync \/ OpenSession \/ ResyncRead \/ ResyncFailsInline
  BY <1>3 DEF LoopInit, Stop, RetryResync, OpenSession, ResyncRead, ResyncFailsInline
<1>4. CASE Settle
  BY <1>0, <1>4 DEF Settle, HandleError
<1>5. CASE Retry
  BY <1>5 DEF Retry, CountFailure
<1>6. CASE BackoffDone \/ BackoffCancelled
  BY <1>6 DEF BackoffDone, BackoffCancelled
<1>7. CASE ResyncFailsPending
  BY <1>7 DEF ResyncFailsPending, CountFailure
<1>8. CASE Resynced
  BY <1>0, <1>8 DEF Resynced
<1>9. CASE UNCHANGED vars
  BY <1>9 DEF vars
<1> QED BY <1>1, <1>2, <1>3, <1>4, <1>5, <1>6, <1>7, <1>8, <1>9 DEF Next, Loop

\* Every step keeps a failed resync pending and a refused permission final.
LEMMA SettledStep ==
  ASSUME Typing, Settled, [Next]_vars
  PROVE  Settled'
<1> USE DEF Settled, loopVars, sessionVars, reportVars
<1>0. denied \in BOOLEAN /\ DenyResync \in BOOLEAN
  BY WatchLoopAssumption DEF Typing, TypeOK
<1>1. CASE Outside
  BY <1>1 DEF Outside, ReadGet, ReadStore, StoreStep, WatchStart, Cancel
<1>2. CASE Responses \/ FlushOnTimer \/ Endings
  <2>1. CASE denied' = denied
    BY <1>2, <2>1, SessionKeeps
  <2>2. CASE denied' # denied
    BY <1>2, <2>2, SessionKeeps
  <2> QED BY <2>1, <2>2
<1>3. CASE LoopInit \/ Stop \/ RetryResync \/ OpenSession \/ ResyncRead
  <2>1. /\ denied' = denied /\ pc \notin {"ended", "exit"}
        /\ pc' \in {"top", "exit", "resync", "consume", "resynced"}
        /\ pc' = "top" => pc = "start"
    BY <1>3 DEF LoopInit, Stop, RetryResync, OpenSession, ResyncRead
  <2>2. pc = "start" => outcome' = "none"
    BY <1>3 DEF LoopInit, Stop, RetryResync, OpenSession, ResyncRead, Settled
  <2> QED BY <2>1, <2>2
<1>4. CASE Settle
  BY <1>4 DEF Settle, HandleError, FatalRPCError
<1>5. CASE Retry \/ BackoffDone \/ BackoffCancelled \/ Resynced
  BY <1>5 DEF Retry, BackoffDone, BackoffCancelled, Resynced
<1>6. ASSUME ResyncError, ~DenyResync
      PROVE  denied' = denied
  <2>1. (denied \/ DenyResync) = denied
    BY <1>0, <1>6
  <2> QED BY <1>6, <2>1 DEF ResyncError
<1>7. CASE ResyncFailsInline
  BY <1>6, <1>7 DEF ResyncFailsInline
<1>8. CASE ResyncFailsPending
  BY <1>6, <1>8 DEF ResyncFailsPending
<1>9. CASE UNCHANGED vars
  BY <1>9 DEF vars
<1> QED BY <1>1, <1>2, <1>3, <1>4, <1>5, <1>7, <1>8, <1>9 DEF Next, Loop
-----------------------------------------------------------------------------
(* No gaps, as long as no header is ahead of the events before it.           *)

NoHeaderAhead == ~CreatedNotify /\ ~PartialCatchUp

\* The consumer has been told of everything below r.
Told(r) == Wanted(hist, informed + 1, r - 1) = {}

Gapless ==
  /\ ~CreatedNotify => greeted
  /\ NoHeaderAhead =>
       /\ pc = "consume" => /\ pending = Wanted(hist, informed + 1, cursor - 1)
                            /\ newRev > 0 => newRev = cursor - 1
       /\ Over /\ newRev > 0 => Told(newRev + 1)
       /\ Resumable /\ startRev > 0 => Told(startRev)

\* A new transaction changes no event of the past.
LEMMA PastIsStable ==
  ASSUME Typing, StoreStep, NEW lo \in Int, NEW hi \in Int, hi <= Rev
  PROVE  Wanted(hist', lo, hi) = Wanted(hist, lo, hi)
<1>1. CASE Commit
  <2>1. PICK c \in Changes : hist' = Append(hist, c)
    BY <1>1 DEF Commit
  <2>2. hist \in Seq(Changes \cup {NoChange}) /\ c \in Changes \cup {NoChange}
    BY DEF Typing, TypeOK, EtcdTypeOK
  <2> QED BY <2>1, <2>2, WantedStable DEF Rev
<1>2. CASE Compact
  BY <1>2 DEF Compact
<1> QED BY <1>1, <1>2 DEF StoreStep

\* Every step keeps the feed gapless.
LEMMA GaplessStep ==
  ASSUME Typing, Ordered, Gapless, [Next]_vars
  PROVE  Gapless'
<1> USE Numbers DEF Gapless, Over, Resumable, Told, loopVars, sessionVars, feedVars,
        reportVars
<1>1. CASE ReadGet \/ ReadStore \/ WatchStart \/ Cancel
  BY <1>1 DEF ReadGet, ReadStore, WatchStart, Cancel
<1>2. CASE StoreStep
  <2>1. UNCHANGED <<pc, startRev, pendingResync, cursor, greeted, newRev, pending, informed>>
    BY <1>2 DEF StoreStep
  <2>2. /\ Wanted(hist', informed + 1, cursor - 1) = Wanted(hist, informed + 1, cursor - 1)
        /\ Wanted(hist', informed + 1, newRev + 1 - 1)
             = Wanted(hist, informed + 1, newRev + 1 - 1)
        /\ Wanted(hist', informed + 1, startRev - 1)
             = Wanted(hist, informed + 1, startRev - 1)
    BY <1>2, PastIsStable
  <2> QED BY <2>1, <2>2
<1>3. CASE LoopInit
  <2>1. startRev' > 0 => Wanted(hist, informed' + 1, startRev' - 1) = {}
    BY <1>3, WantedNone DEF LoopInit, InitialWatchRevision
  <2> QED BY <1>3, <2>1 DEF LoopInit, Ordered
<1>4. CASE Stop \/ RetryResync \/ Settle \/ BackoffDone \/ BackoffCancelled \/ ResyncRead
  BY <1>4 DEF Stop, RetryResync, Settle, HandleError, BackoffDone, BackoffCancelled,
       ResyncRead, Ordered
<1>5. CASE ResyncFailsInline \/ ResyncFailsPending
  BY <1>5 DEF ResyncFailsInline, ResyncFailsPending
<1>6. CASE OpenSession
  <2>1. pending = {}
    BY <1>6 DEF OpenSession, Ordered
  <2>2. CASE startRev = 0
    <3>1. Wanted(hist, Rev + 1, Rev) = {}
      BY WantedNone
    <3>2. /\ pc' = "consume" /\ newRev' = 0 /\ cursor' = Rev + 1 /\ informed' = Rev
          /\ pending' = {} /\ UNCHANGED <<hist, startRev>>
          /\ ~CreatedNotify => greeted'
      BY <1>6, <2>1, <2>2 DEF OpenSession
    <3>3. cursor' - 1 = Rev /\ informed' + 1 = Rev + 1
      BY <3>2
    <3> QED BY <2>2, <3>1, <3>2, <3>3
  <2>3. CASE startRev > 0
    <3>1. /\ pc' = "consume" /\ newRev' = 0 /\ cursor' = startRev
          /\ pending' = {} /\ UNCHANGED <<hist, startRev, informed>>
          /\ ~CreatedNotify => greeted'
      <4>1. startRev # 0
        BY <2>3
      <4>2. cursor' = startRev /\ informed' = informed /\ pending' = {}
        BY <1>6, <2>1, <4>1 DEF OpenSession
      <4> QED BY <1>6, <4>2 DEF OpenSession
    <3>2. NoHeaderAhead => Told(startRev)
      BY <1>6, <2>3 DEF OpenSession
    <3> QED BY <3>1, <3>2
  <2> QED BY <2>2, <2>3
<1>7. CASE Retry
  BY <1>7 DEF Retry, ResumeAfter
<1>8. CASE Resynced
  <2>1. /\ pc' = "top" /\ startRev' = revision + 1 /\ informed' = revision
        /\ UNCHANGED <<hist, greeted>>
    BY <1>8, ResyncFacts DEF Resynced, ResumeAfter
  <2>2. Wanted(hist, revision + 1, revision + 1 - 1) = {}
    BY WantedNone
  <2> QED BY <2>1, <2>2
<1>b. IsFiniteSet(pending)
  BY PendingFinite
<1>9. CASE Responses
  <2>a. pc = "consume" /\ SessionFrame /\ (greeted => greeted')
    BY <1>9, ResponseShape
  <2>0. PICK h \in 1..Rev : \E upTo \in (cursor - 1)..h :
          /\ Receive(h, upTo, Wanted(hist, cursor, upTo))
          /\ ~PartialCatchUp /\ greeted => h = upTo
    BY <1>9, ResponseShape
  <2>1. PICK upTo \in (cursor - 1)..h :
          /\ Receive(h, upTo, Wanted(hist, cursor, upTo))
          /\ ~PartialCatchUp /\ greeted => h = upTo
    BY <2>0
  <2> DEFINE events == Wanted(hist, cursor, upTo)
             buffer == pending \cup events
  <2>2. events \subseteq [key : Watched, rev : cursor..upTo] /\ IsFiniteSet(events)
    BY WantedType
  <2>3. events \cap pending = {}
    BY <2>a, <2>2 DEF Ordered
  <2>4. NoHeaderAhead => buffer = Wanted(hist, informed + 1, upTo) /\ h = upTo
    <3>1. Wanted(hist, informed + 1, upTo)
            = Wanted(hist, informed + 1, cursor - 1) \cup Wanted(hist, cursor - 1 + 1, upTo)
      BY <2>a, WantedSplit DEF Ordered
    <3>2. cursor - 1 + 1 = cursor
      OBVIOUS
    <3> QED BY <2>a, <2>1, <3>1, <3>2 DEF NoHeaderAhead
  <2>5. Wanted(hist, upTo + 1, upTo) = {}
    BY WantedNone
  <2>6. TypeOK /\ Receive(h, upTo, events)
    BY <2>1 DEF Typing
  <2> HIDE DEF events
  <2>7. /\ newRev' = (IF h > newRev THEN h ELSE newRev) /\ cursor' = upTo + 1
        /\ \/ pending' = {} /\ buffer = {} /\ informed' = informed
           \/ pending' = {} /\ informed' = upTo
           \/ pending' = buffer /\ informed' = informed
    BY <1>b, <2>2, <2>3, <2>6, ReceiveFeed
  <2> HIDE DEF buffer
  <2>8. NoHeaderAhead => newRev' = cursor' - 1 /\ newRev' > 0
    BY <2>a, <2>4, <2>7
  <2>9. NoHeaderAhead => pending' = Wanted(hist, informed' + 1, cursor' - 1)
    <3>1. cursor' - 1 = upTo
      BY <2>7
    <3> QED BY <2>4, <2>5, <2>7, <3>1
  <2> QED BY <2>a, <2>8, <2>9 DEF SessionFrame
<1>c. ASSUME Flush(pending, cursor - 1, stats, revision), pending' = {}, pc = "consume"
      PROVE  /\ NoHeaderAhead => Wanted(hist, informed' + 1, cursor - 1) = {}
             /\ pending = {} => informed' = informed
  <2>1. CASE pending = {}
    BY <1>b, <1>c, <2>1, DrainFacts DEF Typing
  <2>2. CASE pending # {}
    <3>1. informed' = cursor - 1
      BY <1>b, <1>c, <2>2, DrainFacts DEF Typing
    <3> QED BY <2>2, <3>1, WantedNone
  <2> QED BY <2>1, <2>2
<1>10. CASE FlushOnTimer
  BY <1>10, <1>c DEF FlushOnTimer, Ordered
<1>11. CASE Endings
  <2>1. PICK how \in Outcomes : EndSession(how)
    BY <1>11, EndingShape
  <2>2. /\ NoHeaderAhead => Wanted(hist, informed' + 1, cursor - 1) = {}
        /\ pending = {} => informed' = informed
    BY <1>c, <2>1 DEF EndSession
  <2>3. /\ pc = "consume" /\ pc' = "ended"
        /\ UNCHANGED <<hist, startRev, pendingResync, cursor, greeted, newRev>>
    BY <2>1 DEF EndSession
  <2> QED BY <2>2, <2>3 DEF Ordered
<1>12. CASE UNCHANGED vars
  BY <1>12 DEF vars
<1> QED BY <1>1, <1>2, <1>3, <1>4, <1>5, <1>6, <1>7, <1>8, <1>9, <1>10, <1>11, <1>12
        DEF Next, Outside, Loop
-----------------------------------------------------------------------------
(* The refinement of ChangeFeed.                                             *)

\* A start that is settled stays settled, and without concurrent reads nothing
\* comes between a resync's read and its announcement.
Moored ==
  /\ pc \in {"top", "backoff"} \/ (pc = "resync" /\ pendingResync)
       => (newRev > 0 => startRev > 0)
  /\ ~ConcurrentReads /\ pc # "idle" => reader = 0
  /\ ~ConcurrentReads /\ pc = "resynced" => informed <= revision

\* Every step keeps it so.
LEMMA MooredStep ==
  ASSUME Typing, Ordered, Moored, [Next]_vars
  PROVE  Moored'
<1> USE Numbers DEF Moored, loopVars, sessionVars, feedVars, reportVars
<1>1. CASE ReadGet \/ ReadStore \/ StoreStep \/ WatchStart \/ Cancel
  BY <1>1 DEF ReadGet, ReadStore, StoreStep, WatchStart, Cancel, Ordered
<1>2. CASE LoopInit \/ Stop \/ RetryResync
  BY <1>2 DEF LoopInit, Stop, RetryResync, Ordered
<1>3. CASE OpenSession
  BY <1>3 DEF OpenSession
<1>4. CASE Settle
  BY <1>4 DEF Settle, HandleError, Ordered
<1>5. CASE Retry
  BY <1>5 DEF Retry, ResumeAfter
<1>6. CASE BackoffDone \/ BackoffCancelled \/ ResyncRead
  BY <1>6 DEF BackoffDone, BackoffCancelled, ResyncRead
<1>7. CASE ResyncFailsInline \/ ResyncFailsPending
  BY <1>7 DEF ResyncFailsInline, ResyncFailsPending
<1>8. CASE Resynced
  <2>1. pc = "resynced" /\ revision >= 1
    BY <1>8 DEF Resynced, Typing
  <2> QED BY <1>8, <2>1 DEF Resynced, ResumeAfter
<1>9. CASE Responses
  BY <1>9, ResponseShape DEF SessionFrame
<1>10. CASE FlushOnTimer
  BY <1>10 DEF FlushOnTimer
<1>11. CASE Endings
  BY <1>11, EndingShape DEF EndSession
<1>12. CASE UNCHANGED vars
  BY <1>12 DEF vars
<1> QED BY <1>1, <1>2, <1>3, <1>4, <1>5, <1>6, <1>7, <1>8, <1>9, <1>10, <1>11, <1>12
        DEF Next, Outside, Loop

USE DEF Anchored

\* A buffer that is handed over is a delivery of the feed.
LEMMA FeedDelivers ==
  ASSUME Typing, NEW upTo \in 0..Rev, batch' # {}, hist' = hist, informed' = upTo,
         batch' = Wanted(hist, informed + 1, upTo),
         startRev' > 0 \/ newRev' > 0
  PROVE  Feed!Deliver
<1>1. upTo \in (informed + 1)..Len(hist)
  <2>1. informed + 1 <= upTo
    BY Numbers, WantedNone
  <2> QED BY <2>1, Numbers DEF Rev
<1>2. Wanted(hist, informed + 1, upTo) = Feed!Wanted(hist, informed + 1, upTo)
  BY DEF Wanted, Feed!Wanted
<1>3. (startRev' > 0 \/ newRev' > 0) = TRUE
  OBVIOUS
<1> QED BY <1>1, <1>2, <1>3 DEF Feed!Deliver
\* Every step of the loop is a step of the feed or changes nothing there.
LEMMA FeedStep ==
  ASSUME NoHeaderAhead, Typing, Ordered, Gapless, Moored, [Next]_vars
  PROVE  [Feed!Next]_(Feed!feedVars)
<1> USE Numbers DEF loopVars, sessionVars, feedVars, reportVars
<1>a. ASSUME UNCHANGED <<startRev, newRev, informed, batch>>
      PROVE  UNCHANGED Feed!feedVars
  BY <1>a DEF Feed!feedVars
<1>b. ASSUME (startRev > 0 \/ newRev > 0) <=> (startRev' > 0 \/ newRev' > 0),
             UNCHANGED <<informed, batch>>
      PROVE  UNCHANGED Feed!feedVars
  <2>1. (startRev > 0 \/ newRev > 0) = (startRev' > 0 \/ newRev' > 0)
    BY <1>b, Zenon
  <2> QED BY <1>b, <2>1 DEF Feed!feedVars
<1>c. ASSUME ~(startRev > 0 \/ newRev > 0), informed' \in informed..Rev, UNCHANGED batch
      PROVE  Feed!Anchor
  BY <1>c DEF Feed!Anchor, Rev
<1>1. CASE Outside
  BY <1>1, <1>a DEF Outside, ReadGet, ReadStore, StoreStep, WatchStart, Cancel
<1>2. CASE Stop \/ RetryResync \/ Settle \/ BackoffDone \/ BackoffCancelled \/ ResyncRead
           \/ ResyncFailsInline \/ ResyncFailsPending
  BY <1>2, <1>a DEF Stop, RetryResync, Settle, BackoffDone, BackoffCancelled, ResyncRead,
       ResyncFailsInline, ResyncFailsPending
<1>3. CASE LoopInit
  <2>1. startRev = 0 /\ newRev = 0 /\ informed = 0 /\ informed' \in 0..Rev /\ batch' = batch
    BY <1>3 DEF LoopInit, Ordered
  <2> QED BY <1>c, <2>1 DEF Feed!Next
<1>4. CASE OpenSession
  <2>1. batch' = batch /\ startRev' = startRev /\ newRev' = 0 /\ (newRev > 0 => startRev > 0)
    BY <1>4 DEF OpenSession, Moored
  <2>2. CASE startRev = 0
    <3>1. informed' = Rev
      BY <1>4, <2>2 DEF OpenSession
    <3> QED BY <1>c, <2>1, <2>2, <3>1 DEF Feed!Next
  <2>3. CASE startRev # 0
    <3>1. informed' = informed
      BY <1>4, <2>3 DEF OpenSession
    <3> QED BY <1>b, <2>1, <2>3, <3>1
  <2> QED BY <2>2, <2>3
<1>5. CASE Retry
  <2>1. /\ UNCHANGED <<newRev, informed, batch>>
        /\ startRev' = startRev \/ (newRev > 0 /\ startRev' > 0)
    BY <1>5 DEF Retry, ResumeAfter
  <2> QED BY <1>b, <2>1
<1>6. CASE Resynced
  <2>1. /\ batch' = {ResyncEvent(revision)} /\ informed' = revision
        /\ startRev' = revision + 1
        /\ revision >= 1 /\ (~ConcurrentReads => revision >= informed)
    BY <1>6, ResyncFacts DEF Resynced, ResumeAfter, Typing, Moored
  <2>2. ResyncEvent(revision) = Feed!ResyncEvent(revision)
    BY DEF ResyncEvent, Feed!ResyncEvent
  <2>3. (startRev' > 0 \/ newRev' > 0) = TRUE
    BY <2>1
  <2>4. revision \in 1..Len(hist)
    BY <2>1 DEF Rev
  <2>5. Feed!Resync
    BY <2>1, <2>2, <2>3, <2>4 DEF Feed!Resync
  <2> QED BY <2>5 DEF Feed!Next
<1>7. IsFiniteSet(pending)
  BY PendingFinite
<1>8. CASE Responses
  <2>0. PICK h \in 1..Rev : \E upTo \in (cursor - 1)..h :
          /\ Receive(h, upTo, Wanted(hist, cursor, upTo))
          /\ ~PartialCatchUp /\ greeted => h = upTo
    BY <1>8, ResponseShape
  <2>1. PICK upTo \in (cursor - 1)..h :
          /\ Receive(h, upTo, Wanted(hist, cursor, upTo))
          /\ ~PartialCatchUp /\ greeted => h = upTo
    BY <2>0
  <2> DEFINE events == Wanted(hist, cursor, upTo)
             buffer == pending \cup events
  <2>2. pc = "consume" /\ hist' = hist /\ startRev' = startRev
    BY <1>8, ResponseShape DEF SessionFrame
  <2>3. events \subseteq [key : Watched, rev : cursor..upTo] /\ IsFiniteSet(events)
    BY WantedType
  <2>4. events \cap pending = {}
    BY <2>2, <2>3 DEF Ordered
  <2>5. buffer = Wanted(hist, informed + 1, upTo)
    <3>1. Wanted(hist, informed + 1, upTo)
            = Wanted(hist, informed + 1, cursor - 1) \cup Wanted(hist, cursor - 1 + 1, upTo)
      BY <2>2, WantedSplit DEF Ordered
    <3>2. cursor - 1 + 1 = cursor
      OBVIOUS
    <3> QED BY <2>2, <3>1, <3>2 DEF Gapless
  <2>6. TypeOK /\ Receive(h, upTo, events)
    BY <2>1 DEF Typing
  <2> HIDE DEF events
  <2>7. /\ newRev' = (IF h > newRev THEN h ELSE newRev)
        /\ \/ informed' = informed /\ batch' = batch
           \/ informed' = upTo /\ batch' = buffer /\ buffer # {}
    BY <1>7, <2>3, <2>4, <2>6, ReceiveFeed
  <2> HIDE DEF buffer
  <2>8. newRev' > 0
    BY <2>7
  <2>9. CASE informed' = informed /\ batch' = batch
    <3>1. CASE startRev > 0 \/ newRev > 0
      BY <1>b, <2>2, <2>8, <2>9, <3>1
    <3>2. CASE ~(startRev > 0 \/ newRev > 0)
      BY <1>c, <2>9, <3>2 DEF Feed!Next
    <3> QED BY <3>1, <3>2
  <2>10. CASE informed' = upTo /\ batch' = buffer /\ buffer # {}
    BY <2>2, <2>5, <2>8, <2>10, FeedDelivers DEF Feed!Next
  <2> QED BY <2>7, <2>9, <2>10
<1>9. ASSUME Flush(pending, cursor - 1, stats, revision), pending' = {}, pc = "consume",
             UNCHANGED <<hist, startRev, newRev>>
      PROVE  [Feed!Next]_(Feed!feedVars)
  <2>1. CASE pending = {}
    BY <1>7, <1>9, <1>a, <2>1, DrainFacts DEF Typing
  <2>2. CASE pending # {}
    <3>1. informed' = cursor - 1 /\ batch' = pending
      BY <1>7, <1>9, <2>2, DrainFacts DEF Typing
    <3>2. newRev' > 0 /\ pending = Wanted(hist, informed + 1, cursor - 1)
      BY <1>9, <2>2 DEF Ordered, Gapless
    <3> QED BY <1>9, <2>2, <3>1, <3>2, FeedDelivers DEF Feed!Next
  <2> QED BY <2>1, <2>2
<1>10. CASE FlushOnTimer
  BY <1>9, <1>10 DEF FlushOnTimer
<1>11. CASE Endings
  BY <1>9, <1>11, EndingShape DEF EndSession
<1>12. CASE UNCHANGED vars
  BY <1>12, <1>a DEF vars
<1> QED BY <1>1, <1>2, <1>3, <1>4, <1>5, <1>6, <1>8, <1>10, <1>11, <1>12 DEF Next, Loop

\* A delivered batch holds events the consumer was not told of, or a resync.
LEMMA FreshStep ==
  ASSUME Typing, Ordered, [Next]_vars, Delivers, NEW e \in batch'
  PROVE  e.key = NoKey \/ e.rev > informed
<1> USE Numbers
<1>1. IsFiniteSet(pending) /\ TypeOK
  BY PendingFinite DEF Typing
<1>d. Cardinality(pending) \in Nat /\ stats.delivered \in Nat /\ Cardinality({}) = 0
  BY <1>1, FS_CardinalityType, FS_EmptySet DEF TypeOK
<1>2. CASE Responses
  <2>1. PICK h \in 1..Rev : \E upTo \in (cursor - 1)..h :
          Receive(h, upTo, Wanted(hist, cursor, upTo))
    BY <1>2, ResponseShape
  <2>2. PICK upTo \in (cursor - 1)..h : Receive(h, upTo, Wanted(hist, cursor, upTo))
    BY <2>1
  <2> DEFINE events == Wanted(hist, cursor, upTo)
  <2>3. pc = "consume"
    BY <1>2, ResponseShape
  <2>4. events \subseteq [key : Watched, rev : cursor..upTo] /\ IsFiniteSet(events)
    BY WantedType
  <2>5. events \cap pending = {} /\ informed < cursor
    BY <2>3, <2>4 DEF Ordered
  <2>6. Receive(h, upTo, events)
    BY <2>2
  <2> HIDE DEF events
  <2>7. batch' = pending \cup events
    <3>1. \/ batch' = pending \cup events
          \/ pending' = pending \cup events
      BY <1>1, <2>4, <2>5, <2>6, ReceiveFeed, Zenon
    <3>2. stats'.delivered + Cardinality(pending')
            = stats.delivered + Cardinality(pending) + Cardinality(events)
      BY <1>1, <2>4, <2>5, <2>6, ReceiveCounts
    <3>a. stats' \in StatsType
      BY <1>1, <2>4, <2>5, <2>6, ReceiveFeed
    <3>3. CASE pending' = pending \cup events
      <4>1. pending \cap events = {} /\ Cardinality(events) \in Nat
        BY <2>4, <2>5, FS_CardinalityType
      <4>2. Cardinality(pending')
              = Cardinality(pending) + Cardinality(events) - Cardinality(pending \cap events)
        BY <1>1, <2>4, <3>3, FS_Union
      <4>a. Cardinality(pending \cap events) = 0
        BY <1>d, <4>1, Zenon
      <4>3. Cardinality(pending') = Cardinality(pending) + Cardinality(events)
        BY ONLY <1>d, <4>1, <4>2, <4>a
      <4>4. stats'.delivered \in Nat
        BY <3>a DEF StatsType
      <4>5. stats'.delivered = stats.delivered
        BY <1>d, <3>2, <4>1, <4>3, <4>4
      <4> QED BY <4>5 DEF Delivers
    <3> QED BY <3>1, <3>3
  <2>8. CASE e \in pending
    BY <2>3, <2>8 DEF Ordered
  <2>9. CASE e \in events
    BY <2>4, <2>5, <2>9
  <2> QED BY <2>7, <2>8, <2>9
<1>3. ASSUME Flush(pending, cursor - 1, stats, revision), pending' = {}, pc = "consume"
      PROVE  e.rev > informed
  <2>1. /\ pending # {} => batch' = pending
        /\ stats' \in StatsType
        /\ stats'.delivered + Cardinality(pending') = stats.delivered + Cardinality(pending)
    BY <1>1, <1>3, DrainFacts
  <2>2. CASE pending = {}
    <3>1. stats'.delivered \in Nat
      BY <2>1 DEF StatsType
    <3>2. stats'.delivered = stats.delivered
      BY <1>3, <1>d, <2>1, <2>2, <3>1
    <3> QED BY <3>2 DEF Delivers
  <2> QED BY <1>3, <2>1, <2>2 DEF Ordered
<1>4. CASE FlushOnTimer
  BY <1>3, <1>4 DEF FlushOnTimer
<1>5. CASE Endings
  BY <1>3, <1>5, EndingShape DEF EndSession
<1>6. CASE Resynced
  <2>1. batch' = {ResyncEvent(revision)}
    BY <1>6, ResyncFacts DEF Resynced
  <2> QED BY <2>1 DEF ResyncEvent
<1>7. stats'.delivered = stats.delivered \/ Responses \/ FlushOnTimer \/ Endings \/ Resynced
  <2>1. UNCHANGED stats \/ Settle \/ ResyncFailsInline
          \/ Responses \/ FlushOnTimer \/ Endings \/ Resynced
    BY DEF Next, Outside, Loop, ReadGet, ReadStore, StoreStep, WatchStart, Cancel, LoopInit,
       Stop, RetryResync, OpenSession, Retry, BackoffDone, BackoffCancelled,
       ResyncRead, ResyncFailsPending, vars
  <2>2. CASE Settle \/ ResyncFailsInline
    <3>1. stats' = stats \/ \E n \in {1, 2} : stats' = [stats EXCEPT !.errors = @ + n]
      BY <2>2 DEF Settle, HandleError, ResyncFailsInline
    <3> QED BY <1>1, <3>1 DEF TypeOK
  <2> QED BY <2>1, <2>2
<1> QED BY <1>2, <1>4, <1>5, <1>6, <1>7 DEF Delivers

-----------------------------------------------------------------------------
(* The theorems.                                                             *)

IInv == Typing /\ Ordered /\ Buffered /\ Counted /\ Settled /\ Gapless /\ Moored

\* The invariant holds when the Provider is made.
LEMMA InvariantInit == Init => IInv
<1> SUFFICES ASSUME Init PROVE IInv
  OBVIOUS
<1> USE WatchLoopAssumption, EtcdAssumption DEF Init, EtcdInit
<1>1. /\ hist \in Seq(Changes \cup {NoChange}) /\ Rev = 1 /\ Cardinality({}) = 0
  BY FS_EmptySet DEF Rev
<1>2. Typing
  <2>1. EtcdTypeOK
    BY <1>1 DEF EtcdTypeOK
  <2>2. NoStats \in [received : Nat, resyncs : Nat, delivered : Nat, errors : Nat]
    BY DEF NoStats
  <2>3. NoRecovery \in [attempts : Nat, slept : Nat]
    BY DEF NoRecovery
  <2>4. /\ {startRev, newRev, cursor} \subseteq 0..(Rev + 1)
        /\ {revision, reader, informed} \subseteq 0..Rev
        /\ {attempt, failedAttempts, sleeps} \subseteq 0..MaxAttempt
        /\ faults \in 0..MaxFaults
    BY <1>1
  <2>5. outcome \in Outcomes
    BY DEF Outcomes
  <2>6. {ctxDone, pendingResync, doomed, greeted, madeProgress, timerOn, denied}
          \subseteq BOOLEAN
    OBVIOUS
  <2> QED BY <2>1, <2>2, <2>3, <2>4, <2>5, <2>6 DEF Typing, TypeOK
<1>3. Buffered
  BY <1>1 DEF Buffered, Conservation, BufferIsDrained, NoStats
<1>4. Ordered /\ Counted /\ Settled /\ Moored
  BY <1>1 DEF Ordered, Over, Resumable, Counted, RecoveryCount, Settled, Moored
<1>5. Gapless
  BY DEF Gapless, Over, Resumable
<1> QED BY <1>2, <1>3, <1>4, <1>5 DEF IInv

\* Every step of the loop and its environment keeps the invariant.
THEOREM Invariance == Spec => []IInv
<1>1. IInv /\ [Next]_vars => IInv'
  BY TypingStep, OrderedStep, BufferedStep, CountedStep, SettledStep, GaplessStep,
     MooredStep DEF IInv
<1> QED BY <1>1, InvariantInit, PTL DEF Spec

\* Type correctness, for any history, options and bounds.
THEOREM Types == Spec => []TypeOK
<1>1. IInv => TypeOK
  BY DEF IInv, Typing
<1> QED BY <1>1, Invariance, PTL

\* What is received or resynced is delivered or buffered (consumeWatch's flushes).
THEOREM NothingDropped == Spec => []Conservation
<1>1. IInv => Conservation
  BY DEF IInv, Buffered
<1> QED BY <1>1, Invariance, PTL

\* A buffered event has a session and a timer that will hand it over.
THEOREM Drained == Spec => []BufferIsDrained
<1>1. IInv => BufferIsDrained
  BY DEF IInv, Buffered
<1> QED BY <1>1, Invariance, PTL

\* OnReconnect reports the failures that were slept off, and no others.
THEOREM RecoveriesCounted == Spec => []RecoveryCount
<1>1. IInv => RecoveryCount
  BY DEF IInv, Counted
<1> QED BY <1>1, Invariance, PTL

\* A compaction is followed by a successful resync before the next session.
THEOREM CompactionResyncs == Spec => ResyncBeforeRewatch
<1>1. IInv /\ [Next]_vars
        => [pc = "top" /\ outcome = "compacted" => pc' # "consume"]_vars
  <2> SUFFICES ASSUME IInv, [Next]_vars, pc = "top", outcome = "compacted",
                      pc' = "consume"
               PROVE  FALSE
    OBVIOUS
  <2>1. pendingResync
    BY DEF IInv, Settled
  <2>2. ~Responses /\ ~FlushOnTimer /\ ~Endings
    BY SessionKeeps DEF IInv
  <2> QED BY <2>1, <2>2 DEF Next, Outside, Loop, ReadGet, ReadStore, StoreStep, WatchStart,
        Cancel, LoopInit, Stop, RetryResync, OpenSession, Settle, Retry, BackoffDone,
        BackoffCancelled, ResyncRead, ResyncFailsInline, ResyncFailsPending, Resynced, vars
<1> QED BY <1>1, Invariance, PTL DEF Spec, ResyncBeforeRewatch

\* Whatever etcd's headers say, no change is handed over twice or out of order.
THEOREM NoRepetition == Spec => NothingRepeated
<1>1. IInv /\ [Next]_vars
        => [Delivers => \A e \in batch' : e.key = NoKey \/ e.rev > informed]_vars
  BY FreshStep DEF IInv
<1> QED BY <1>1, Invariance, PTL DEF Spec, NothingRepeated

\* Where resyncs are not refused, a refused permission is the end of the loop.
THEOREM AuthIsFinal ==
  ASSUME ~DenyResync
  PROVE  Spec => []AuthNeverRetried
<1>1. IInv => AuthNeverRetried
  BY DEF IInv, Settled, AuthNeverRetried
<1> QED BY <1>1, Invariance, PTL

\* Where no header is ahead of its events, a watch resumes where it stopped.
THEOREM ResumeIsExact ==
  ASSUME NoHeaderAhead
  PROVE  Spec => []ResumesWhereItStopped
<1>1. IInv => ResumesWhereItStopped
  BY DEF IInv, Ordered, Gapless, Resumable, Told, ResumesWhereItStopped
<1> QED BY <1>1, Invariance, PTL

\* Where no header is ahead of its events, the loop implements the change feed,
\* whatever fails, lags, is compacted, panics or reads besides.
THEOREM Refinement ==
  ASSUME NoHeaderAhead
  PROVE  Spec => FeedSpec
<1>1. Init => Feed!Init
  BY DEF Init, Feed!Init
<1>2. IInv /\ [Next]_vars => [Feed!Next]_(Feed!feedVars)
  BY FeedStep DEF IInv
<1> QED BY <1>1, <1>2, Invariance, PTL DEF Spec, FeedSpec, Feed!Spec
=============================================================================
