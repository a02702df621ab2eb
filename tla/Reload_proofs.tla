---------------------------- MODULE Reload_proofs -----------------------------
(* An application that loads its configuration with Read and again in the     *)
(* callback of Watch implements LiveConfig, for any keys, page size and       *)
(* writers.  The argument: a load's pages show the latest revision, so none   *)
(* is older than what the callback was told or than a page of the load        *)
(* before; and what its pages add up to is what PrefixReadPages_proofs says   *)
(* of any read.                                                              *)
EXTENDS Reload, Transform, PrefixReadPages_proofs

-----------------------------------------------------------------------------
(* Different keys get different paths.                                       *)

LEMMA SameLength ==
  ASSUME NEW m \in Nat, NEW n \in Nat, 1..m = 1..n
  PROVE  m = n
<1>1. \A i \in Nat : i \in 1..m <=> i \in 1..n
  OBVIOUS
<1>2. \A i \in Nat \ {0} : i <= m <=> i <= n
  BY <1>1
<1>3. m <= n /\ n <= m
  BY <1>2
<1> QED BY <1>3

\* What is left of a key under the prefix, byte by byte.
LEMMA TrimBytewise ==
  ASSUME NEW p \in Strings, NEW k \in Strings, IsPrefix(p, k)
  PROVE  /\ Len(p) <= Len(k) /\ \A i \in 1..Len(p) : p[i] = k[i]
         /\ Trim(k, p) \in Strings /\ Len(Trim(k, p)) = Len(k) - Len(p)
         /\ \A i \in 1..(Len(k) - Len(p)) : Trim(k, p)[i] = k[Len(p) + i]
<1>1. Len(p) \in Nat /\ Len(k) \in Nat
  BY LenProperties DEF Strings
<1>2. Len(p) <= Len(k) /\ \A i \in 1..Len(p) : p[i] = k[i]
  BY PrefixBytewise
<1>3. Trim(k, p) = SubSeq(k, Len(p) + 1, Len(k))
  BY DEF Trim
<1>4. /\ SubSeq(k, Len(p) + 1, Len(k)) \in Seq(Bytes)
      /\ Len(SubSeq(k, Len(p) + 1, Len(k))) = Len(k) - Len(p)
      /\ \A i \in 1..(Len(k) - Len(p)) :
           SubSeq(k, Len(p) + 1, Len(k))[i] = k[Len(p) + i]
  <2>1. \A i \in (Len(p) + 1)..Len(k) : k[i] \in Bytes
    <3>1. \A i \in (Len(p) + 1)..Len(k) : i \in 1..Len(k)
      BY <1>1
    <3> QED BY <3>1, ElementOfSeq DEF Strings
  <2>2. Len(p) + 1 \in Int /\ Len(k) \in Int
    BY <1>1
  <2>3. /\ SubSeq(k, Len(p) + 1, Len(k)) \in Seq(Bytes)
        /\ Len(SubSeq(k, Len(p) + 1, Len(k)))
             = IF Len(p) + 1 <= Len(k) THEN Len(k) - (Len(p) + 1) + 1 ELSE 0
        /\ \A i \in 1..(Len(k) - (Len(p) + 1) + 1) :
             SubSeq(k, Len(p) + 1, Len(k))[i] = k[Len(p) + 1 + i - 1]
    BY <2>1, <2>2, SubSeqProperties
  <2>4. Len(SubSeq(k, Len(p) + 1, Len(k))) = Len(k) - Len(p)
    BY <1>1, <1>2, <2>3
  <2>5. Len(k) - (Len(p) + 1) + 1 = Len(k) - Len(p)
    BY <1>1
  <2>6. \A i \in 1..(Len(k) - Len(p)) : Len(p) + 1 + i - 1 = Len(p) + i
    BY <1>1
  <2> QED BY <2>3, <2>4, <2>5, <2>6
<1> QED BY <1>2, <1>3, <1>4 DEF Strings

\* Two keys that do not hold the delimiter behind the prefix have different paths,
\* trimmed or not: what the default transform makes of slashes cannot be mistaken
\* for something else.  So ReloadAssumption is met by such keys.  (Keys a.b and a/b
\* do share a path, and Read keeps the later one: see EveryKeyWasTrue.)
THEOREM PathsDiffer ==
  ASSUME NEW p \in Strings, NEW j \in Strings, NEW k \in Strings,
         IsPrefix(p, j), IsPrefix(p, k),
         \A i \in (Len(p) + 1)..Len(j) : j[i] # Delim,
         \A i \in (Len(p) + 1)..Len(k) : k[i] # Delim,
         NEW trimPrefix \in BOOLEAN,
         DefaultKeyTransform(j, p, trimPrefix) = DefaultKeyTransform(k, p, trimPrefix)
  PROVE  j = k
<1> DEFINE Mapped(byte) == IF byte = Slash THEN Delim ELSE byte
           Made(rest) == [i \in DOMAIN rest |-> Mapped(rest[i])]
<1>1. /\ Len(p) \in Nat /\ Len(j) \in Nat /\ Len(k) \in Nat
      /\ DOMAIN j = 1..Len(j) /\ DOMAIN k = 1..Len(k)
  BY StringFacts
<1>2. /\ Len(p) <= Len(j) /\ \A i \in 1..Len(p) : p[i] = j[i]
      /\ Trim(j, p) \in Strings /\ Len(Trim(j, p)) = Len(j) - Len(p)
      /\ \A i \in 1..(Len(j) - Len(p)) : Trim(j, p)[i] = j[Len(p) + i]
  BY TrimBytewise
<1>3. /\ Len(p) <= Len(k) /\ \A i \in 1..Len(p) : p[i] = k[i]
      /\ Trim(k, p) \in Strings /\ Len(Trim(k, p)) = Len(k) - Len(p)
      /\ \A i \in 1..(Len(k) - Len(p)) : Trim(k, p)[i] = k[Len(p) + i]
  BY TrimBytewise
\* Behind the prefix the paths agree, byte by byte.
<1>4. /\ Len(j) = Len(k)
      /\ \A i \in (Len(p) + 1)..Len(j) : Mapped(j[i]) = Mapped(k[i])
  <2>1. CASE ~trimPrefix
    <3>1. Made(j) = Made(k)
      BY <2>1 DEF DefaultKeyTransform
    <3>2. DOMAIN Made(j) = 1..Len(j) /\ DOMAIN Made(k) = 1..Len(k)
      BY <1>1
    <3>3. Len(j) = Len(k)
      <4> HIDE DEF Mapped, Made
      <4>1. 1..Len(j) = 1..Len(k)
        BY <3>1, <3>2
      <4> QED BY <1>1, <4>1, SameLength
    <3>4. \A i \in 1..Len(j) : Made(j)[i] = Mapped(j[i]) /\ Made(k)[i] = Mapped(k[i])
      BY <1>1, <3>3
    <3> HIDE DEF Mapped, Made
    <3>5. \A i \in (Len(p) + 1)..Len(j) : i \in 1..Len(j)
      BY <1>1
    <3> QED BY <3>1, <3>3, <3>4, <3>5
  <2>2. CASE trimPrefix
    <3>1. PICK a : a = Trim(j, p)
      OBVIOUS
    <3>2. PICK b : b = Trim(k, p)
      OBVIOUS
    <3>3. Made(a) = Made(b)
      BY <2>2, <3>1, <3>2 DEF DefaultKeyTransform
    <3>4. DOMAIN a = 1..(Len(j) - Len(p)) /\ DOMAIN b = 1..(Len(k) - Len(p))
      BY <1>2, <1>3, <3>1, <3>2, StringFacts
    <3>5. DOMAIN Made(a) = 1..(Len(j) - Len(p)) /\ DOMAIN Made(b) = 1..(Len(k) - Len(p))
      BY <3>4
    <3>6. Len(j) = Len(k)
      <4> HIDE DEF Mapped, Made
      <4>1. 1..(Len(j) - Len(p)) = 1..(Len(k) - Len(p))
        BY <3>3, <3>5
      <4>2. Len(j) - Len(p) \in Nat /\ Len(k) - Len(p) \in Nat
        BY <1>1, <1>2, <1>3
      <4>3. Len(j) - Len(p) = Len(k) - Len(p)
        BY <4>1, <4>2, SameLength
      <4>4. Len(p) \in Nat /\ Len(j) \in Nat /\ Len(k) \in Nat
        BY <1>1
      <4> QED BY ONLY <4>3, <4>4
    <3>7. \A i \in 1..(Len(j) - Len(p)) :
            Made(a)[i] = Mapped(a[i]) /\ Made(b)[i] = Mapped(b[i])
      BY <3>4, <3>6
    <3> HIDE DEF Mapped, Made
    <3>8. \A i \in 1..(Len(j) - Len(p)) : Mapped(j[Len(p) + i]) = Mapped(k[Len(p) + i])
      BY <1>2, <1>3, <3>1, <3>2, <3>3, <3>6, <3>7
    <3>9. ASSUME NEW i \in (Len(p) + 1)..Len(j)
          PROVE  Mapped(j[i]) = Mapped(k[i])
      <4>1. PICK d : d = i - Len(p)
        OBVIOUS
      <4>2. d \in 1..(Len(j) - Len(p)) /\ Len(p) + d = i
        BY <1>1, <4>1
      <4> QED BY <3>8, <4>2
    <3> QED BY <3>6, <3>9
  <2> QED BY <2>1, <2>2
<1>5. ASSUME NEW i \in 1..Len(j)
      PROVE  j[i] = k[i]
  <2>1. CASE i \in 1..Len(p)
    BY <1>2, <1>3, <2>1
  <2>2. CASE i \in (Len(p) + 1)..Len(j)
    BY <1>4, <2>2
  <2> QED BY <1>1, <2>1, <2>2
<1> QED BY <1>4, <1>5, SeqEqual DEF Strings

-----------------------------------------------------------------------------
(* The invariant.                                                            *)

\* Read runs only inside a load, and a load is not older than its reason.
Loading ==
  /\ Reading /\ NestIdle
  /\ phase \in {"booting", "booted", "watching", "reloading", "ended"}
  /\ phase \notin {"booting", "reloading"} => pc = "idle"
  /\ informed \in 0..Rev /\ asOf \subseteq 1..Rev
  /\ \A p \in DOMAIN config : config[p] \in Watched \X (1..Rev)
  /\ \A a \in asOf : \A r \in shown : a <= r
  /\ phase = "reloading" => \A r \in shown : informed <= r
  /\ phase \in {"booting", "booted"} => batch = {}
  /\ SeesWhatItWasTold

\* What Loading needs of the settings.
LEMMA LatestState ==
  ASSUME settings \in Settings
  PROVE  /\ settings.prefix = Prefix /\ ~settings.unflatten
         /\ ~settings.serializable /\ settings.readRevision = 0
         /\ \A k \in Keys : k \in Watched <=> UnderPrefix(k)
         /\ \A j, k \in Watched : Path(j) = Path(k) => j = k
BY ReloadAssumption DEF Watched, UnderPrefix, Path

LEMMA LoadingInit == AppInit => Loading
<1> SUFFICES ASSUME AppInit
             PROVE  Loading
  OBVIOUS
<1>1. Reading /\ NestIdle
  BY ReadingInit DEF AppInit, Init
<1>2. Rev \in Nat
  BY <1>1 DEF Reading, TypeOK, EtcdTypeOK
<1>3. DOMAIN config = {}
  BY DEF AppInit, Nothing
<1> QED BY <1>1, <1>2, <1>3
        DEF AppInit, Init, Feed!Init, Loading, SeesWhatItWasTold

\* A step of Read shows the latest revision or nothing new.
LEMMA ReadShows ==
  ASSUME Reading, NestIdle, ReadSteps
  PROVE  /\ Reading' /\ NestIdle'
         /\ shown' \subseteq shown \cup {Rev}
         /\ pc # "idle" /\ hist' = hist
<1>1. Reading'
  BY ReadingStep DEF Next
<1>2. settings \in Settings
  BY DEF Reading, TypeOK
<1>3. CASE GetPage
  <2>1. PICK header \in Headers : \E at \in ShownAt(header) : shown' = shown \cup {at}
    BY <1>3 DEF GetPage
  <2>2. shown' = shown \cup {Rev}
    BY <1>2, <2>1, LatestState DEF Headers, ShownAt
  <2> QED BY <1>1, <1>3, <2>2 DEF GetPage, NestIdle, nestVars
<1>4. CASE GetFails
  BY <1>1, <1>4 DEF GetFails, readVars, NestIdle, nestVars
<1>5. CASE Finish
  BY <1>1, <1>2, <1>5, LatestState DEF Finish, readVars, NestIdle, nestVars
<1>6. CASE PlacePath
  BY <1>6 DEF PlacePath, NestIdle
<1> QED BY <1>3, <1>4, <1>5, <1>6 DEF ReadSteps

\* The next Read starts afresh.
LEMMA ReadAfresh ==
  ASSUME Reading, NestIdle, Returns
  PROVE  /\ Reading' /\ NestIdle'
         /\ hist' = hist /\ shown' = {} /\ pc' = "idle"
<1>1. /\ pc' = "idle" /\ from' = settings.prefix /\ flat' = Nothing
      /\ lastRev' = 0 /\ shown' = {}
      /\ hist' = hist /\ compactRev' = compactRev /\ settings' = settings
      /\ UNCHANGED nestVars /\ revision' = revision /\ Rev' = Rev
  BY DEF Returns, FreshMap, Rev
<1>2. TypeOK /\ EtcdTypeOK /\ settings \in Settings /\ Rev \in Nat
  BY DEF Reading, TypeOK, EtcdTypeOK
<1>3. settings.prefix \in Strings /\ \A k \in Keys : k \in Strings
  BY <1>2, PrefixIsString
<1>4. EtcdTypeOK'
  BY <1>1, <1>2 DEF EtcdTypeOK
<1>5. NestIdle' /\ todo' \subseteq DOMAIN flat' /\ DOMAIN cleaned' = leaves'
  BY <1>1 DEF NestIdle, nestVars
<1>6. DOMAIN flat' = {} /\ flat' = [p \in DOMAIN flat' |-> flat'[p]]
  BY <1>1 DEF Nothing
<1>7. {lastRev', revision'} \subseteq 0..Rev'
  <2>1. revision \in 0..Rev
    BY <1>2 DEF TypeOK
  <2> QED BY <1>1, <1>2, <2>1
<1>8. TypeOK'
  BY <1>1, <1>2, <1>3, <1>4, <1>5, <1>6, <1>7 DEF TypeOK, Strings, Bytes
<1>9. ~Before(from', settings'.prefix)
  BY <1>1, <1>3, Irreflexive
<1>10. \A k \in Keys : UnderPrefix(k)' => ~Before(k, from)'
  BY <1>1, <1>3, PrefixIsFirst DEF UnderPrefix
<1> QED BY <1>1, <1>5, <1>6, <1>8, <1>9, <1>10 DEF Reading, OneGet, AllRead

\* What a finished read found is a configuration.
LEMMA ResultType ==
  ASSUME Reading, NEW p \in DOMAIN flat
  PROVE  flat[p] \in Watched \X (1..Rev)
<1>1. TrueValue(p) /\ settings \in Settings
  BY DEF Reading, TypeOK
<1> QED BY <1>1, LatestState DEF TrueValue

-----------------------------------------------------------------------------
(* The invariant is kept.                                                    *)

LEMMA LoadingStep ==
  ASSUME Loading, [AppNext]_reloadVars
  PROVE  Loading'
<1>1. Reading /\ NestIdle /\ EtcdTypeOK /\ Rev \in Nat
  BY DEF Loading, Reading, TypeOK, EtcdTypeOK
<1>2. CASE Others
  <2>1. StoreStep /\ UNCHANGED <<pc, readVars, nestVars, appVars>>
    BY <1>2 DEF Others, StoreStep
  <2>2. Reading'
    BY <1>1, <2>1, ReadingStep DEF Next
  <2>3. Rev' \in {Rev, Rev + 1}
    BY <1>1, <2>1, StoreGrows, HistGrows
  <2>4. NestIdle'
    BY <1>1, <2>1 DEF NestIdle, nestVars
  <2>5. informed' \in 0..Rev' /\ asOf' \subseteq 1..Rev'
        /\ \A p \in DOMAIN config' : config'[p] \in Watched \X (1..Rev')
    BY <1>1, <2>1, <2>3 DEF Loading, appVars
  <2> QED BY <2>1, <2>2, <2>4, <2>5
          DEF Loading, appVars, readVars, SeesWhatItWasTold
<1>3. CASE Boot
  <2>1. Reading'
    BY <1>1, <1>3, ReadingStep DEF Boot, Next
  <2> QED BY <1>1, <1>3, <2>1
          DEF Boot, ReadStart, Loading, appVars, readVars, nestVars, NestIdle, Rev,
              SeesWhatItWasTold
<1>4. CASE ReadGoesOn
  <2>1. /\ Reading' /\ NestIdle' /\ shown' \subseteq shown \cup {Rev} /\ pc # "idle"
        /\ hist' = hist /\ Rev' = Rev /\ UNCHANGED appVars
    BY <1>1, <1>4, ReadShows DEF ReadGoesOn, Rev
  <2>2. phase \in {"booting", "reloading"}
    BY <2>1 DEF Loading
  <2>3. /\ \A a \in asOf : a <= Rev
        /\ informed <= Rev
    BY <1>1 DEF Loading
  <2> QED BY <2>1, <2>2, <2>3 DEF Loading, appVars, SeesWhatItWasTold
<1>5. CASE Booted
  <2>1. /\ Reading' /\ NestIdle' /\ hist' = hist /\ Rev' = Rev
        /\ shown' = {} /\ pc' = "idle"
    BY <1>1, <1>5, ReadAfresh DEF Booted, Rev
  <2>2. \/ config' = flat /\ asOf' = shown
        \/ config' = config /\ asOf' = asOf
    BY <1>5 DEF Booted, Swap, KeepLastGood
  <2>3. /\ \A p \in DOMAIN config' : config'[p] \in Watched \X (1..Rev')
        /\ asOf' \subseteq 1..Rev'
    BY <1>1, <2>1, <2>2, ResultType DEF Loading, Reading, TypeOK
  <2> QED BY <1>5, <2>1, <2>3 DEF Booted, Loading, SeesWhatItWasTold
<1>6. CASE Watch
  <2>1. /\ UNCHANGED vars /\ phase = "booted" /\ phase' = "watching"
        /\ informed' = revision
        /\ UNCHANGED <<batch, config, rejected, asOf>>
    BY <1>6 DEF Watch, InitialRevision
  <2>2. Reading' /\ NestIdle' /\ Rev' = Rev /\ pc' = pc /\ shown' = shown
    BY <1>1, <2>1, ReadingStep DEF vars, NestIdle, nestVars, readVars, Rev
  <2>3. revision \in 0..Rev /\ batch = {} /\ pc = "idle"
    BY <2>1 DEF Loading, Reading, TypeOK
  <2> QED BY <2>1, <2>2, <2>3 DEF Loading, SeesWhatItWasTold
<1>7. ASSUME phase = "watching", phase' = "reloading", ReadStart,
             informed' \in 0..Rev, UNCHANGED <<config, rejected, asOf>>
      PROVE  Loading'
  <2>1. Reading'
    BY <1>1, <1>7, ReadingStep DEF Next
  <2>2. /\ pc = "idle" /\ UNCHANGED <<readVars, nestVars, hist>> /\ Rev' = Rev
    BY <1>7 DEF ReadStart, Rev
  <2>3. shown' = {} /\ NestIdle'
    BY <1>1, <2>2 DEF Reading, readVars, NestIdle, nestVars
  <2> QED BY <1>7, <2>1, <2>2, <2>3 DEF Loading, SeesWhatItWasTold
<1>8. CASE Called(Feed!Deliver)
  <2>1. informed' \in 0..Rev
    BY <1>1, <1>8 DEF Called, Feed!Deliver, Rev, Loading
  <2> QED BY <1>7, <1>8, <2>1 DEF Called
<1>9. CASE Called(Feed!Resync)
  <2>1. informed' \in 0..Rev
    BY <1>1, <1>9 DEF Called, Feed!Resync, Rev
  <2> QED BY <1>7, <1>9, <2>1 DEF Called
<1>10. CASE Reloaded
  <2>1. /\ Reading' /\ NestIdle' /\ hist' = hist /\ Rev' = Rev
        /\ shown' = {} /\ pc' = "idle"
        /\ phase = "reloading" /\ phase' = "watching"
        /\ UNCHANGED <<informed, batch>>
    BY <1>1, <1>10, ReadAfresh DEF Reloaded, Rev
  <2>2. \/ config' = flat /\ asOf' = shown /\ rejected' = FALSE
        \/ config' = config /\ asOf' = asOf /\ rejected' = TRUE
    BY <1>10 DEF Reloaded, Swap, KeepLastGood
  <2>3. /\ \A p \in DOMAIN config' : config'[p] \in Watched \X (1..Rev')
        /\ asOf' \subseteq 1..Rev'
    BY <1>1, <2>1, <2>2, ResultType DEF Loading, Reading, TypeOK
  <2>4. SeesWhatItWasTold'
    BY <2>1, <2>2 DEF Loading, SeesWhatItWasTold
  <2> QED BY <2>1, <2>3, <2>4 DEF Loading
<1>11. CASE WatchDenied \/ UNCHANGED reloadVars
  <2>1. /\ UNCHANGED vars /\ UNCHANGED <<informed, batch, config, rejected, asOf>>
        /\ phase' = phase \/ (phase = "watching" /\ phase' = "ended")
    <3>1. CASE WatchDenied
      BY <3>1 DEF WatchDenied
    <3>2. CASE UNCHANGED reloadVars
      BY <3>2 DEF reloadVars, appVars
    <3> QED BY <1>11, <3>1, <3>2
  <2>2. Reading' /\ NestIdle' /\ Rev' = Rev /\ pc' = pc /\ shown' = shown
    BY <1>1, <2>1, ReadingStep DEF vars, NestIdle, nestVars, readVars, Rev
  <2> QED BY <2>1, <2>2 DEF Loading, SeesWhatItWasTold
<1> QED BY <1>2, <1>3, <1>4, <1>5, <1>6, <1>8, <1>9, <1>10, <1>11 DEF AppNext

-----------------------------------------------------------------------------
(* The abstract specification.                                               *)

\* The value a finished read has for a key is what the store held at a revision
\* one of its pages showed.
LEMMA ValueIsHeld ==
  ASSUME EtcdTypeOK, NEW k \in Keys, NEW r \in 1..Rev, PresentAt(k, r)
  PROVE  \E s \in 1..r : Value(k, r) = <<k, s>> /\ Live!Has(k, s, r)
<1> DEFINE S == {s \in 1..r : k \in DOMAIN hist[s]}
<1>1. PICK s \in 1..r : /\ k \in DOMAIN hist[s] /\ hist[s][k] = "put"
                        /\ \A t \in (s + 1)..r : k \notin DOMAIN hist[t]
  BY DEF PresentAt
<1>2. r \in Nat /\ s \in S
  BY <1>1 DEF EtcdTypeOK
<1>3. Max(S) \in S /\ \A y \in S : Max(S) >= y
  <2>1. S \subseteq 0..r /\ S # {}
    BY <1>2
  <2> HIDE DEF S
  <2> QED BY <1>2, <2>1, GreatestElement
<1>4. Max(S) = s
  BY <1>1, <1>2, <1>3
<1>5. Value(k, r) = <<k, s>>
  BY <1>4 DEF Value
<1> QED BY <1>1, <1>5 DEF Live!Has

\* A load that succeeds is a Load of LiveConfig.
LEMMA SwapLoads ==
  ASSUME Loading, Swap, hist' = hist
  PROVE  Live!Load
<1>1. /\ Reading /\ EtcdTypeOK /\ Rev \in Nat /\ pc = "done" /\ settings \in Settings
      /\ shown \subseteq 1..Rev /\ shown # {} /\ asOf \subseteq 1..Rev
      /\ config' = flat /\ asOf' = shown
  BY DEF Loading, Reading, TypeOK, EtcdTypeOK, AllRead, Swap
<1>2. /\ Min(shown) \in shown /\ \A r \in shown : Min(shown) <= r
      /\ Max(shown) \in shown /\ \A r \in shown : Max(shown) >= r
  <2>1. shown \subseteq Nat /\ shown \subseteq 0..Rev
    BY <1>1
  <2> QED BY <1>1, <2>1, LeastElement, GreatestElement
<1>3. PICK start, end : start = Min(shown) /\ end = Max(shown)
  OBVIOUS
<1>4. /\ start \in 1..Len(hist) /\ end \in start..Len(hist)
      /\ \A r \in shown : r \in start..end
  <2>1. start \in 1..Rev /\ end \in 1..Rev
    BY <1>1, <1>2, <1>3
  <2>2. \A r \in shown : r \in Int /\ start <= r /\ r <= end
    BY <1>1, <1>2, <1>3
  <2>3. start <= end
    BY <1>2, <1>3, <2>2
  <2> QED BY <1>1, <2>1, <2>2, <2>3 DEF Rev
<1>5. (IF asOf = {} THEN 0 ELSE Max(asOf)) <= start
  <2>1. CASE asOf = {}
    BY <1>4, <2>1
  <2>2. CASE asOf # {}
    <3>1. asOf \subseteq 0..Rev
      BY <1>1
    <3>2. Max(asOf) \in asOf
      BY <1>1, <2>2, <3>1, GreatestElement
    <3> QED BY <1>2, <1>3, <2>2, <3>2 DEF Loading
  <2> QED BY <2>1, <2>2
\* The values.
<1>6. ASSUME NEW p \in DOMAIN flat
      PROVE  \E k \in Watched : \E r \in shown : \E s \in 1..r :
               Path(k) = p /\ flat[p] = <<k, s>> /\ Live!Has(k, s, r)
  <2>1. TrueValue(p)
    BY <1>1, <1>6 DEF Reading
  <2>2. PICK k \in Keys : k = flat[p][1] /\ UnderPrefix(k) /\ Path(k) = p
    BY <2>1 DEF TrueValue
  <2>3. PICK r \in shown : PresentAt(k, r) /\ flat[p] = Value(k, r)
    BY <2>1, <2>2 DEF TrueValue
  <2>4. \E s \in 1..r : Value(k, r) = <<k, s>> /\ Live!Has(k, s, r)
    BY <1>1, <2>3, ValueIsHeld
  <2>5. k \in Watched
    BY <1>1, <2>2, LatestState
  <2> QED BY <2>2, <2>3, <2>4, <2>5
<1>7. Range(flat) \subseteq Watched \X (1..end)
  <2> SUFFICES ASSUME NEW p \in DOMAIN flat
               PROVE  flat[p] \in Watched \X (1..end)
    BY DEF Range
  <2>1. PICK k \in Watched : \E r \in shown : \E s \in 1..r : flat[p] = <<k, s>>
    BY <1>6
  <2>2. PICK r \in shown : \E s \in 1..r : flat[p] = <<k, s>>
    BY <2>1
  <2>3. PICK s \in 1..r : flat[p] = <<k, s>>
    BY <2>2
  <2>4. s \in 1..end
    BY <1>1, <1>4
  <2> QED BY <2>3, <2>4
\* Each key.
<1>8. ASSUME NEW k \in Watched
      PROVE  \/ /\ {v \in Range(flat) : v[1] = k} = {}
                /\ \E r \in start..end : Live!Absent(k, r)
             \/ \E r \in start..end : \E s \in 1..r :
                  Live!Has(k, s, r) /\ {v \in Range(flat) : v[1] = k} = {<<k, s>>}
  <2>1. \A p \in DOMAIN flat : Path(flat[p][1]) = p /\ flat[p][1] \in Watched
    BY <1>6
  <2>2. CASE \E p \in DOMAIN flat : flat[p][1] = k
    <3>1. PICK p \in DOMAIN flat : flat[p][1] = k
      BY <2>2
    <3>2. PICK r \in shown : \E s \in 1..r : flat[p] = <<k, s>> /\ Live!Has(k, s, r)
      BY <1>6, <3>1
    <3>3. PICK s \in 1..r : flat[p] = <<k, s>> /\ Live!Has(k, s, r)
      BY <3>2
    <3>4. \A q \in DOMAIN flat : flat[q][1] = k => q = p
      BY <2>1, <3>1
    <3>5. {v \in Range(flat) : v[1] = k} = {<<k, s>>}
      BY <3>3, <3>4 DEF Range
    <3> QED BY <1>4, <3>3, <3>5
  <2>3. CASE ~ \E p \in DOMAIN flat : flat[p][1] = k
    <3>1. {v \in Range(flat) : v[1] = k} = {}
      BY <2>3 DEF Range
    <3>2. Covered(k)
      <4>1. k \in Keys /\ UnderPrefix(k)
        BY <1>1, <1>8, LatestState DEF Watched
      <4> QED BY <1>1, <4>1 DEF Reading, AllRead
    <3>3. Path(k) \notin DOMAIN flat
      BY <1>1, <2>1, <2>3, LatestState
    <3>4. PICK r \in shown : ~PresentAt(k, r)
      BY <3>2, <3>3 DEF Covered
    <3>5. Live!Absent(k, r)
      BY <3>4 DEF Live!Absent, Live!Has, PresentAt
    <3> QED BY <1>4, <3>1, <3>5
  <2> QED BY <2>2, <2>3
<1>9. (IF asOf = {} THEN 0 ELSE Max(asOf))' = end
  BY <1>1, <1>3
<1>10. Range(config)' = Range(flat)
  BY <1>1
<1> QED BY <1>4, <1>5, <1>7, <1>8, <1>9, <1>10 DEF Live!Load

LEMMA Implements ==
  ASSUME Loading, [AppNext]_reloadVars
  PROVE  [Live!Load]_(Live!liveVars)
<1>1. CASE UNCHANGED <<config, asOf>>
  BY <1>1 DEF Live!liveVars
<1>2. CASE Swap /\ hist' = hist
  BY <1>2, SwapLoads
<1>3. CASE Booted
  BY <1>1, <1>2, <1>3 DEF Booted, Returns, KeepLastGood
<1>4. CASE Reloaded
  BY <1>1, <1>2, <1>4 DEF Reloaded, Returns, KeepLastGood
<1>5. CASE Others \/ Boot \/ ReadGoesOn \/ Watch \/ WatchDenied \/ UNCHANGED reloadVars
  BY <1>1, <1>5 DEF Others, Boot, ReadGoesOn, Watch, WatchDenied, reloadVars, appVars
<1>6. CASE Called(Feed!Deliver) \/ Called(Feed!Resync)
  BY <1>1, <1>6 DEF Called
<1> QED BY <1>3, <1>4, <1>5, <1>6 DEF AppNext

-----------------------------------------------------------------------------
(* The configuration while nothing is on its way.                            *)

\* What TrueValue and Covered say of a result stays true of the configuration it
\* became.
ConfigTrue(p) ==
  \E k \in Watched : \E r \in asOf :
    Path(k) = p /\ PresentAt(k, r) /\ config[p] = Value(k, r)

ConfigCovers(k) == (\E r \in asOf : ~PresentAt(k, r)) \/ Path(k) \in DOMAIN config

ConfigHeld ==
  /\ config = [p \in DOMAIN config |-> config[p]]
  /\ \A p \in DOMAIN config : ConfigTrue(p)
  /\ asOf # {} => \A k \in Watched : ConfigCovers(k)

\* The revision a load stores is one its pages show, and the watch starts there.
RevisionShown ==
  /\ pc \in {"reading", "read"} /\ shown # {} => lastRev \in shown
  /\ pc = "done" => revision \in shown
  /\ phase \in {"booted", "watching", "reloading"} => asOf # {}
  /\ phase = "booted" => revision \in asOf
  /\ phase = "watching" /\ batch = {} => informed \in asOf
  /\ phase = "reloading" => batch # {}

LEMMA ConfigStays ==
  ASSUME Loading, ConfigHeld, Grows, UNCHANGED <<settings, config, asOf>>
  PROVE  ConfigHeld'
<1>1. EtcdTypeOK /\ asOf \subseteq 1..Rev
  BY DEF Loading, Reading, TypeOK
<1>2. \A r \in asOf : \A k \in Watched : PresentAt(k, r)' <=> PresentAt(k, r)
  BY <1>1, Past
<1>3. \A r \in asOf : \A k \in Watched : Value(k, r)' = Value(k, r)
  BY <1>1, Past
<1>4. ASSUME NEW p \in DOMAIN config
      PROVE  ConfigTrue(p)'
  <2>1. PICK k \in Watched : \E r \in asOf :
          Path(k) = p /\ PresentAt(k, r) /\ config[p] = Value(k, r)
    BY <1>4 DEF ConfigHeld, ConfigTrue
  <2>2. PICK r \in asOf : Path(k) = p /\ PresentAt(k, r) /\ config[p] = Value(k, r)
    BY <2>1
  <2>3. PresentAt(k, r)' /\ Value(k, r)' = Value(k, r)
    BY <1>2, <1>3, <2>2
  <2> QED BY <2>2, <2>3 DEF ConfigTrue, Path
<1>5. ASSUME asOf # {}, NEW k \in Watched
      PROVE  ConfigCovers(k)'
  <2>1. CASE \E r \in asOf : ~PresentAt(k, r)
    <3>1. PICK r \in asOf : ~PresentAt(k, r)
      BY <2>1
    <3>2. ~PresentAt(k, r)'
      BY <1>2, <3>1
    <3> QED BY <3>1, <3>2 DEF ConfigCovers
  <2>2. CASE Path(k) \in DOMAIN config
    BY <2>2 DEF ConfigCovers, Path
  <2> QED BY <1>5, <2>1, <2>2 DEF ConfigHeld, ConfigCovers
<1> QED BY <1>4, <1>5 DEF ConfigHeld

LEMMA ResultIsHeld ==
  ASSUME Loading, Swap, UNCHANGED <<hist, settings>>
  PROVE  ConfigHeld' /\ asOf' # {}
<1>1. /\ Reading /\ pc = "done" /\ settings \in Settings /\ shown # {}
      /\ config' = flat /\ asOf' = shown
  BY DEF Loading, Reading, TypeOK, AllRead, Swap
<1>2. ASSUME NEW p \in DOMAIN flat
      PROVE  ConfigTrue(p)'
  <2>1. TrueValue(p)
    BY <1>1, <1>2 DEF Reading
  <2>2. PICK k \in Keys : k = flat[p][1] /\ UnderPrefix(k) /\ Path(k) = p
    BY <2>1 DEF TrueValue
  <2>3. PICK r \in shown : PresentAt(k, r) /\ flat[p] = Value(k, r)
    BY <2>1, <2>2 DEF TrueValue
  <2>4. k \in Watched
    BY <1>1, <2>2, LatestState
  <2> QED BY <1>1, <2>2, <2>3, <2>4 DEF ConfigTrue, Path, PresentAt, Value
<1>3. ASSUME NEW k \in Watched
      PROVE  ConfigCovers(k)'
  <2>1. k \in Keys /\ UnderPrefix(k)
    BY <1>1, LatestState DEF Watched
  <2>2. Covered(k)
    BY <1>1, <2>1 DEF Reading, AllRead
  <2> QED BY <1>1, <2>2 DEF Covered, ConfigCovers, Path, PresentAt
<1>4. flat = [p \in DOMAIN flat |-> flat[p]]
  BY <1>1 DEF Reading
<1> QED BY <1>1, <1>2, <1>3, <1>4 DEF ConfigHeld

LEMMA SettlingStep ==
  ASSUME Loading, ConfigHeld, RevisionShown, [AppNext]_reloadVars
  PROVE  ConfigHeld' /\ RevisionShown'
<1>1. Reading /\ NestIdle /\ EtcdTypeOK /\ settings \in Settings
  BY DEF Loading, Reading, TypeOK
<1>2. CASE Others
  <2>1. StoreStep /\ UNCHANGED <<settings, pc, readVars, revision, appVars>>
    BY <1>2 DEF Others, StoreStep
  <2>2. ConfigHeld'
    BY <1>1, <2>1, StoreGrows, ConfigStays DEF appVars
  <2> QED BY <2>1, <2>2 DEF RevisionShown, readVars, appVars
<1>3. CASE Boot
  <2>1. UNCHANGED <<hist, settings, readVars, revision, appVars>> /\ pc' = "reading"
        /\ shown = {}
    BY <1>1, <1>3 DEF Boot, ReadStart, Reading
  <2>2. ConfigHeld'
    BY <2>1, ConfigStays DEF Grows, appVars
  <2> QED BY <2>1, <2>2 DEF RevisionShown, readVars, appVars
<1>4. CASE ReadGoesOn
  <2>1. UNCHANGED <<hist, settings, appVars>>
    BY <1>4 DEF ReadGoesOn, ReadSteps, GetPage, GetFails, Finish, PlacePath
  <2>2. ConfigHeld'
    BY <2>1, ConfigStays DEF Grows, appVars
  <2>3. pc # "idle"
    BY <1>4 DEF ReadGoesOn, ReadSteps, GetPage, GetFails, Finish, PlacePath
  <2>4. phase \in {"booting", "reloading"}
    BY <2>3 DEF Loading
  <2>5. /\ pc' \in {"reading", "read"} /\ shown' # {} => lastRev' \in shown'
        /\ pc' = "done" => revision' \in shown'
    <3>1. CASE GetPage
      <4>1. PICK header \in Headers : \E at \in ShownAt(header) :
              shown' = shown \cup {at} /\ lastRev' = header
        BY <3>1 DEF GetPage
      <4>2. lastRev' \in shown'
        BY <1>1, <4>1, LatestState DEF Headers, ShownAt
      <4> QED BY <3>1, <4>2 DEF GetPage
    <3>2. CASE GetFails
      BY <3>2 DEF GetFails
    <3>3. CASE Finish
      <4>1. pc = "read" /\ shown # {} /\ shown' = shown /\ revision' = lastRev
            /\ pc' \in {"failed", "done"}
        BY <1>1, <3>3, LatestState DEF Finish, readVars, Reading, AllRead
      <4> QED BY <4>1 DEF RevisionShown
    <3>4. CASE PlacePath
      BY <1>1, <3>4 DEF PlacePath, NestIdle
    <3> QED BY <1>4, <3>1, <3>2, <3>3, <3>4 DEF ReadGoesOn, ReadSteps
  <2> QED BY <2>1, <2>2, <2>4, <2>5 DEF RevisionShown, appVars
<1>5. CASE Booted \/ Reloaded
  <2>1. /\ UNCHANGED <<hist, settings, revision>> /\ pc' = "idle"
        /\ UNCHANGED <<informed, anchored, batch>>
    BY <1>5 DEF Booted, Reloaded, Returns
  <2>2. CASE Swap
    <3>1. ConfigHeld' /\ asOf' # {} /\ revision \in asOf'
      BY <2>1, <2>2, ResultIsHeld DEF Swap, RevisionShown
    <3>2. phase' = "watching" => batch # {}
      BY <1>5 DEF Booted, Reloaded, RevisionShown, Loading
    <3> QED BY <1>5, <2>1, <3>1, <3>2 DEF RevisionShown, Booted, Reloaded
  <2>3. CASE KeepLastGood
    <3>1. ConfigHeld'
      BY <2>1, <2>3, ConfigStays DEF Grows, KeepLastGood
    <3>2. phase' = "watching" => batch # {} /\ asOf # {}
      BY <1>5, <2>3 DEF Booted, Reloaded, RevisionShown
    <3>3. phase' \in {"watching", "ended"} \/ (phase' = "booted" /\ Swap)
      BY <1>5 DEF Booted, Reloaded
    <3>4. CASE phase' \in {"watching", "ended"}
      BY <2>1, <2>3, <3>1, <3>2, <3>4 DEF RevisionShown, KeepLastGood
    <3> QED BY <2>2, <3>3, <3>4
  <2> QED BY <1>5, <2>2, <2>3 DEF Booted, Reloaded
<1>6. CASE Watch
  <2>1. /\ UNCHANGED vars /\ UNCHANGED <<batch, config, asOf>>
        /\ phase = "booted" /\ phase' = "watching" /\ informed' = revision
    BY <1>6 DEF Watch, InitialRevision
  <2>2. ConfigHeld'
    BY <2>1, ConfigStays DEF Grows, vars
  <2> QED BY <2>1, <2>2 DEF RevisionShown, vars, readVars
<1>7. ASSUME phase = "watching", phase' = "reloading", ReadStart, batch' # {},
             UNCHANGED <<config, asOf>>
      PROVE  ConfigHeld' /\ RevisionShown'
  <2>1. UNCHANGED <<hist, settings, readVars, revision>> /\ pc' = "reading" /\ shown = {}
    BY <1>1, <1>7 DEF ReadStart, Reading
  <2>2. ConfigHeld'
    BY <1>7, <2>1, ConfigStays DEF Grows
  <2> QED BY <1>7, <2>1, <2>2 DEF RevisionShown, readVars
<1>8. CASE Called(Feed!Deliver)
  BY <1>7, <1>8 DEF Called, Feed!Deliver
<1>9. CASE Called(Feed!Resync)
  BY <1>7, <1>9 DEF Called, Feed!Resync
<1>10. CASE WatchDenied \/ UNCHANGED reloadVars
  <2>1. /\ UNCHANGED vars /\ UNCHANGED <<informed, batch, config, asOf>>
        /\ phase' = phase \/ phase' = "ended"
    BY <1>10 DEF WatchDenied, reloadVars, appVars
  <2>2. ConfigHeld'
    BY <2>1, ConfigStays DEF Grows, vars
  <2> QED BY <2>1, <2>2 DEF RevisionShown, vars, readVars
<1> QED BY <1>2, <1>3, <1>4, <1>5, <1>6, <1>8, <1>9, <1>10 DEF AppNext

\* Nothing changed since: the states of two revisions are the same to a reader.
LEMMA NothingSince ==
  ASSUME EtcdTypeOK, NEW lo \in 0..Rev, NEW k \in Watched, NEW r \in 1..Rev, lo <= r,
         Feed!Wanted(hist, lo + 1, Rev) = {}
  PROVE  /\ PresentAt(k, r) <=> PresentAt(k, Rev)
         /\ Value(k, r) = Value(k, Rev)
<1>1. hist \in Seq(Changes \cup {NoChange}) /\ Rev = Len(hist) /\ Rev \in Nat
  BY DEF EtcdTypeOK, Rev
<1>2. ASSUME NEW s \in (lo + 1)..Rev
      PROVE  k \notin DOMAIN hist[s]
  <2> SUFFICES ASSUME k \in DOMAIN hist[s]
               PROVE  FALSE
    OBVIOUS
  <2>1. s \in 1..Len(hist) /\ DOMAIN hist = 1..Len(hist)
    BY <1>1
  <2>2. hist[s] \in Changes \cup {NoChange}
    BY <1>1, <2>1, ElementOfSeq
  <2>3. hist[s] \in Changes
    BY <2>2 DEF NoChange
  <2>4. hist[s][k] \in Kinds
    <3>1. hist[s] \in UNION {[ks -> Kinds] : ks \in SUBSET Keys}
      BY <2>3, EtcdAssumption
    <3> QED BY <3>1
  <2>5. [key |-> k, rev |-> s] \in Feed!Wanted(hist, lo + 1, Rev)
    BY <2>1, <2>4 DEF Feed!Wanted
  <2> QED BY <2>5
<1>3. \A s \in 1..Rev : k \in DOMAIN hist[s] => s \in 1..r
  <2> SUFFICES ASSUME NEW s \in 1..Rev, s > r
               PROVE  k \notin DOMAIN hist[s]
    BY <1>1
  <2> QED BY <1>1, <1>2
<1>4. {s \in 1..r : k \in DOMAIN hist[s]} = {s \in 1..Rev : k \in DOMAIN hist[s]}
  BY <1>1, <1>3
<1>5. ASSUME NEW s \in 1..r
      PROVE  (\A t \in (s + 1)..r : k \notin DOMAIN hist[t])
               <=> (\A t \in (s + 1)..Rev : k \notin DOMAIN hist[t])
  <2>1. \A t \in (s + 1)..Rev : t \in (s + 1)..r \/ t \in (lo + 1)..Rev
    BY <1>1
  <2>2. \A t \in (s + 1)..r : t \in (s + 1)..Rev
    BY <1>1
  <2> QED BY <1>2, <2>1, <2>2
<1>6. PresentAt(k, r) <=> PresentAt(k, Rev)
  <2>1. 1..r \subseteq 1..Rev
    BY <1>1
  <2> QED BY <1>3, <1>5, <2>1 DEF PresentAt
<1> QED BY <1>4, <1>6 DEF Value

LEMMA SettledIsCurrent ==
  ASSUME Loading, ConfigHeld, RevisionShown
  PROVE  CurrentWhenSettled
<1> SUFFICES ASSUME phase = "watching", Feed!Wanted(hist, informed + 1, Rev) = {},
                    ~rejected, ~TornAtBoot
             PROVE  config = StateAt(Rev)
  BY DEF CurrentWhenSettled
<1>1. /\ EtcdTypeOK /\ settings \in Settings /\ Rev \in 1..Rev /\ Rev \in Nat
      /\ informed \in 0..Rev /\ asOf \subseteq 1..Rev /\ asOf # {}
  BY DEF Loading, Reading, TypeOK, EtcdTypeOK, RevisionShown
<1>2. \A r \in asOf : informed <= r
  <2>1. CASE batch # {}
    BY <2>1 DEF Loading, SeesWhatItWasTold
  <2>2. CASE batch = {}
    <3> SUFFICES ASSUME NEW r \in asOf, r # informed
                 PROVE  FALSE
      BY <1>1
    <3>1. informed \in asOf /\ ~(Cardinality(asOf) > 1)
      BY <2>2 DEF RevisionShown, TornAtBoot
    <3>2. IsFiniteSet(asOf)
      <4>1. IsFiniteSet(1..Rev)
        BY <1>1, FS_Interval
      <4> QED BY <1>1, <4>1, FS_Subset
    <3>3. Cardinality({r, informed}) <= Cardinality(asOf) /\ Cardinality(asOf) \in Nat
      BY <3>1, <3>2, FS_Subset, FS_CardinalityType
    <3>4. Cardinality({r, informed}) = 2
      <4>1. IsFiniteSet({informed}) /\ Cardinality({informed}) = 1
        BY FS_Singleton
      <4>2. Cardinality({informed} \cup {r}) = Cardinality({informed}) + 1
        BY <4>1, FS_AddElement
      <4>3. {informed} \cup {r} = {r, informed}
        OBVIOUS
      <4> QED BY <4>1, <4>2, <4>3
    <3> QED BY <3>1, <3>3, <3>4
  <2> QED BY <2>1, <2>2
<1> DEFINE S == {k \in Present(Rev) : UnderPrefix(k)}
           At(p) == {k \in S : Path(k) = p}
<1>3. S \subseteq Keys /\ \A k \in Keys : k \in S <=> k \in Watched /\ PresentAt(k, Rev)
  BY <1>1, LatestState DEF Present
<1>4. \A k \in Watched : k \in Keys
  BY DEF Watched
<1>5. ASSUME NEW p \in DOMAIN config
      PROVE  \E k \in S : Path(k) = p /\ config[p] = Value(k, Rev)
  <2>1. PICK k \in Watched : \E r \in asOf :
          Path(k) = p /\ PresentAt(k, r) /\ config[p] = Value(k, r)
    BY <1>5 DEF ConfigHeld, ConfigTrue
  <2>2. PICK r \in asOf : Path(k) = p /\ PresentAt(k, r) /\ config[p] = Value(k, r)
    BY <2>1
  <2>3. (PresentAt(k, r) <=> PresentAt(k, Rev)) /\ Value(k, r) = Value(k, Rev)
    BY <1>1, <1>2, NothingSince
  <2> QED BY <1>3, <1>4, <2>2, <2>3
<1>6. ASSUME NEW k \in S
      PROVE  Path(k) \in DOMAIN config
  <2>1. k \in Watched /\ PresentAt(k, Rev)
    BY <1>3
  <2>2. ConfigCovers(k)
    BY <1>1, <2>1 DEF ConfigHeld
  <2>3. ASSUME NEW r \in asOf
        PROVE  PresentAt(k, r)
    BY <1>1, <1>2, <2>1, NothingSince
  <2> QED BY <2>2, <2>3 DEF ConfigCovers
<1>7. DOMAIN config = {Path(k) : k \in S}
  BY <1>5, <1>6
<1>8. ASSUME NEW p \in DOMAIN config
      PROVE  config[p] = Value(LastOf(At(p)), Rev)
  <2>1. PICK k \in S : Path(k) = p /\ config[p] = Value(k, Rev)
    BY <1>5
  <2>2. LastOf(At(p)) \in At(p)
    <3>1. At(p) \subseteq Keys /\ At(p) # {}
      BY <1>3, <2>1
    <3> HIDE DEF At
    <3> QED BY <3>1, LastOfIsLast
  <2>3. LastOf(At(p)) = k
    BY <1>1, <1>3, <2>1, <2>2, LatestState
  <2> QED BY <2>1, <2>3
<1>9. StateAt(Rev) = [p \in {Path(k) : k \in S} |-> Value(LastOf(At(p)), Rev)]
  BY DEF StateAt, Flattened
<1>10. config = [p \in DOMAIN config |-> config[p]]
  BY DEF ConfigHeld
<1> HIDE DEF S, At
<1> QED BY <1>7, <1>8, <1>9, <1>10

-----------------------------------------------------------------------------
(* The theorems.                                                             *)

\* A load is never older than what it was made for, whatever happens meanwhile.
THEOREM LoadsAreFresh == AppSpec => []Loading
<1>1. AppInit => Loading
  BY LoadingInit
<1>2. Loading /\ [AppNext]_reloadVars => Loading'
  BY LoadingStep
<1> QED BY <1>1, <1>2, PTL DEF AppSpec

\* Every variable of the application keeps its type.
THEOREM AppTyping == AppSpec => []AppTypeOK
<1>1. Loading => AppTypeOK
  BY DEF Loading, Reading, AppTypeOK
<1> QED BY <1>1, LoadsAreFresh, PTL

\* No page of the configuration is older than the batch or Resync it was loaded for.
THEOREM Told == AppSpec => []SeesWhatItWasTold
<1>1. Loading => SeesWhatItWasTold
  BY DEF Loading
<1> QED BY <1>1, LoadsAreFresh, PTL

\* The application implements LiveConfig: every configuration is one the store held
\* key by key during its load, and none goes back behind the one before.
THEOREM ConfigIsLive == AppSpec => LiveSpec
<1>1. AppInit => Live!Init
  BY DEF AppInit, Nothing, Live!Init, Range
<1>2. Loading /\ [AppNext]_reloadVars => [Live!Load]_(Live!liveVars)
  BY Implements
<1> QED BY <1>1, <1>2, LoadsAreFresh, PTL DEF AppSpec, LiveSpec, Live!Spec

\* While nothing is on its way the configuration is what the store holds, for any
\* keys, page size, writers, failed reloads and resyncs: the chain from the load at
\* boot over the watch to the reloads has no gap.
THEOREM NoGapAnywhere == AppSpec => []CurrentWhenSettled
<1>1. AppInit => ConfigHeld /\ RevisionShown
  BY DEF AppInit, Init, Nothing, ConfigHeld, RevisionShown, Feed!Init
<1>2. Loading /\ ConfigHeld /\ RevisionShown /\ [AppNext]_reloadVars
        => (ConfigHeld /\ RevisionShown)'
  BY SettlingStep
<1>3. Loading /\ ConfigHeld /\ RevisionShown => CurrentWhenSettled
  BY SettledIsCurrent
<1> QED BY <1>1, <1>2, <1>3, LoadsAreFresh, PTL DEF AppSpec
=============================================================================
