----------------------- MODULE PrefixReadPages_proofs ------------------------
(* What the pages of a prefix read add up to, for any keys, transform, page   *)
(* size and interleaving with writers.  The argument: every key of the prefix *)
(* before the start of the next page is accounted for, because it was absent  *)
(* when its page was served or because its path has a value of this key or a  *)
(* later one; every value was true when its page was served; and what a        *)
(* revision showed is not changed by later ones.                              *)
EXTENDS PrefixRead, KeyRange_proofs

-----------------------------------------------------------------------------
(* The store.                                                                *)

\* Nothing, or one transaction, was added to the history.
Grows == hist' = hist \/ \E c \in Changes : hist' = Append(hist, c)

LEMMA HistGrows ==
  ASSUME EtcdTypeOK, Grows
  PROVE  /\ Rev \in Nat \ {0} /\ Rev' \in {Rev, Rev + 1}
         /\ \A s \in 1..Rev : hist'[s] = hist[s]
<1>1. hist \in Seq(Changes \cup {NoChange}) /\ Rev \in 1..MaxRev /\ MaxRev \in Nat
  BY EtcdAssumption DEF EtcdTypeOK
<1>2. CASE hist' = hist
  BY <1>1, <1>2 DEF Rev
<1>3. CASE \E c \in Changes : hist' = Append(hist, c)
  BY <1>1, <1>3, AppendProperties DEF Rev
<1> QED BY <1>2, <1>3 DEF Grows

\* What a revision showed is not changed by later ones.
LEMMA Past ==
  ASSUME EtcdTypeOK, Grows, NEW k, NEW r \in 1..Rev
  PROVE  /\ r \in 1..Rev'
         /\ PresentAt(k, r)' <=> PresentAt(k, r)
         /\ Value(k, r)' = Value(k, r)
<1>1. /\ Rev \in Nat \ {0} /\ Rev' \in {Rev, Rev + 1}
      /\ \A s \in 1..Rev : hist'[s] = hist[s]
  BY HistGrows
<1>2. \A s \in 1..r : s \in 1..Rev /\ hist'[s] = hist[s]
  BY <1>1
<1>3. \A s \in 1..r : \A t \in (s + 1)..r : t \in 1..r
  BY <1>1
<1>4. PresentAt(k, r)' <=> PresentAt(k, r)
  BY <1>2, <1>3 DEF PresentAt
<1>5. {s \in 1..r : k \in DOMAIN hist'[s]} = {s \in 1..r : k \in DOMAIN hist[s]}
  BY <1>2
<1>6. Value(k, r)' = Value(k, r)
  BY <1>5 DEF Value
<1> QED BY <1>1, <1>4, <1>6

\* A key that is there has a value.
LEMMA ValueType ==
  ASSUME EtcdTypeOK, NEW k \in Keys, NEW r \in 1..Rev, PresentAt(k, r)
  PROVE  Value(k, r) \in Keys \X (1..Rev) /\ Value(k, r)[1] = k
<1> DEFINE S == {s \in 1..r : k \in DOMAIN hist[s]}
<1>1. Rev \in Nat
  BY DEF EtcdTypeOK
<1>2. S # {} /\ S \subseteq 0..r /\ r \in Nat
  BY <1>1 DEF PresentAt
<1>3. Max(S) \in S
  <2> HIDE DEF S
  <2> QED BY <1>2, GreatestElement
<1>4. Max(S) \in 1..Rev
  BY <1>1, <1>3
<1> QED BY <1>4 DEF Value

\* What the write helpers do to the history.
LEMMA WritesShape ==
  ASSUME Writes
  PROVE  /\ Rev < MaxRev /\ UNCHANGED compactRev
         /\ \E keys \in (SUBSET Keys) \ {{}}, kind \in Kinds :
              hist' = Append(hist, [k \in keys |-> kind])
<1>1. ASSUME NEW keys \in SUBSET Keys, NEW kind \in Kinds, Txn(keys, kind)
      PROVE  /\ Rev < MaxRev /\ UNCHANGED compactRev
             /\ \E ks \in (SUBSET Keys) \ {{}}, kd \in Kinds :
                  hist' = Append(hist, [k \in ks |-> kd])
  BY <1>1 DEF Txn
<1>2. CASE Put
  BY <1>1, <1>2, WriteAssumption DEF Put, Kinds
<1>3. CASE PutAll
  BY <1>1, <1>3, WriteAssumption DEF PutAll, Kinds
<1>4. CASE Delete
  <2>1. PICK k \in Singles : Txn({k} \cap Present(Rev), "delete")
    BY <1>4 DEF Delete
  <2>2. {k} \cap Present(Rev) \in SUBSET Keys
    BY DEF Present
  <2> QED BY <1>1, <2>1, <2>2 DEF Kinds
<1>5. CASE \E prefix \in DeletedPrefixes, allowEmptyPrefix \in BOOLEAN :
             DeletePrefix(prefix, allowEmptyPrefix)
  <2>1. PICK prefix \in DeletedPrefixes :
          Txn({k \in Present(Rev) : InRange(k, prefix, PrefixEnd(prefix))}, "delete")
    BY <1>5 DEF DeletePrefix
  <2>2. {k \in Present(Rev) : InRange(k, prefix, PrefixEnd(prefix))} \in SUBSET Keys
    BY DEF Present
  <2> QED BY <1>1, <2>1, <2>2 DEF Kinds
<1> QED BY <1>2, <1>3, <1>4, <1>5 DEF Writes

LEMMA StoreGrows ==
  ASSUME EtcdTypeOK, StoreStep
  PROVE  Grows /\ EtcdTypeOK'
<1>0. hist \in Seq(Changes \cup {NoChange}) /\ Rev \in 1..MaxRev /\ MaxRev \in Nat
      /\ compactRev \in 0..Rev /\ Rev = Len(hist)
  BY EtcdAssumption DEF EtcdTypeOK, Rev
<1>1. CASE Writes
  <2>1. PICK keys \in (SUBSET Keys) \ {{}}, kind \in Kinds :
          hist' = Append(hist, [k \in keys |-> kind])
    BY <1>1, WritesShape
  <2>2. [k \in keys |-> kind] \in Changes
    BY WriteAssumption
  <2>3. hist' \in Seq(Changes \cup {NoChange}) /\ Len(hist') = Len(hist) + 1
    BY <1>0, <2>1, <2>2, AppendProperties
  <2> QED BY <1>0, <1>1, <2>1, <2>2, <2>3, WritesShape DEF Grows, EtcdTypeOK, Rev
<1>2. CASE Compact
  <2>1. hist' = hist /\ compactRev' \in (compactRev + 1)..Rev
    BY <1>2 DEF Compact
  <2> QED BY <1>0, <2>1 DEF Grows, EtcdTypeOK, Rev
<1> QED BY <1>1, <1>2 DEF StoreStep

-----------------------------------------------------------------------------
(* Pages.                                                                    *)

\* The keys a page is cut from.
Found(start, at) ==
  {k \in Keys : PresentAt(k, at) /\ UnderPrefix(k) /\ ~Before(k, start)}

LEMMA PrefixIsString ==
  ASSUME settings \in Settings
  PROVE  settings.prefix \in Strings /\ settings.limit \in Nat
         /\ settings.readRevision \in Nat
         /\ \A k \in Keys : k \in Strings /\ Path(k) \in Paths
BY PrefixReadAssumption DEF Strings, Bytes, Path

LEMMA PageFacts ==
  ASSUME settings \in Settings, NEW start \in Strings, ~Before(start, settings.prefix),
         NEW at
  PROVE  /\ Page(start, at) \subseteq Found(start, at)
         /\ Found(start, at) \subseteq Keys /\ IsFiniteSet(Found(start, at))
         /\ settings.limit = 0 => Page(start, at) = Found(start, at)
         /\ \A last \in Page(start, at) : \A k \in Found(start, at) :
              ~Before(last, k) => k \in Page(start, at)
         /\ Page(start, at) = {} => Found(start, at) = {}
<1> DEFINE F == Found(start, at)
           below(k) == {j \in F : Before(j, k)}
<1>0. settings.limit \in Nat /\ settings.prefix \in Strings /\ \A k \in Keys : k \in Strings
  BY PrefixIsString
<1>1. {k \in Present(at) : InRange(k, start, PrefixEnd(settings.prefix))} = F
  BY <1>0, PageRange DEF Found, Present, UnderPrefix
<1>2. F \subseteq Keys /\ IsFiniteSet(F)
  <2>1. F \subseteq Keys
    BY DEF Found
  <2> QED BY <2>1, PrefixReadAssumption, FS_Subset
<1>3. Page(start, at) = IF settings.limit = 0 THEN F
                        ELSE {k \in F : Cardinality(below(k)) < settings.limit}
  BY <1>1 DEF Page
<1>4. \A k \in F : IsFiniteSet(below(k)) /\ Cardinality(below(k)) \in Nat
  BY <1>2, FS_Subset, FS_CardinalityType
<1> HIDE DEF F
<1>5. ASSUME NEW last \in Page(start, at), NEW k \in F, ~Before(last, k)
      PROVE  k \in Page(start, at)
  <2>1. last \in F /\ last \in Strings /\ k \in Strings
    BY <1>0, <1>2, <1>3
  <2>2. below(k) \subseteq below(last)
    BY <1>0, <1>2, <1>5, <2>1, BeforeNotBefore
  <2>3. Cardinality(below(k)) <= Cardinality(below(last))
    BY <1>4, <2>1, <2>2, FS_Subset
  <2>4. Cardinality(below(k)) \in Nat /\ Cardinality(below(last)) \in Nat
    BY <1>4, <2>1
  <2> HIDE DEF below
  <2> QED BY <1>0, <1>3, <1>5, <2>3, <2>4
<1>6. ASSUME Page(start, at) = {}, F # {}
      PROVE  FALSE
  <2>1. PICK k \in F : \A j \in F : ~Before(j, k)
    <3>1. F \subseteq Strings
      BY <1>0, <1>2
    <3> QED BY <1>2, <1>6, <3>1, FirstKey
  <2>2. below(k) = {}
    BY <2>1
  <2>3. Cardinality(below(k)) = 0
    BY <2>2, FS_EmptySet
  <2> QED BY <1>0, <1>3, <1>6, <2>3
<1> QED BY <1>2, <1>3, <1>5, <1>6 DEF F

\* The last key of a set of keys.
LEMMA LastOfIsLast ==
  ASSUME NEW S, S \subseteq Keys, S # {}
  PROVE  LastOf(S) \in S /\ \A j \in S : ~Before(LastOf(S), j)
<1>1. S \subseteq Strings /\ IsFiniteSet(S)
  BY PrefixReadAssumption, FS_Subset DEF Strings, Bytes
<1>2. \E k \in S : \A j \in S : ~Before(k, j)
  BY <1>1, LastKey
<1> QED BY <1>2 DEF LastOf

\* What the loop over a page makes of it.
LEMMA FlattenedFacts ==
  ASSUME EtcdTypeOK, NEW r \in 1..Rev, NEW page, page \subseteq Keys,
         \A k \in page : PresentAt(k, r),
         NEW p \in DOMAIN Flattened(page, r)
  PROVE  \E n \in page :
           /\ Path(n) = p /\ Flattened(page, r)[p] = Value(n, r)
           /\ Value(n, r)[1] = n /\ Value(n, r) \in Keys \X (1..Rev)
           /\ \A k \in page : Path(k) = p => ~Before(n, k)
<1> DEFINE S == {k \in page : Path(k) = p}
<1>1. S # {} /\ S \subseteq Keys
  BY DEF Flattened
<1>2. LastOf(S) \in S /\ \A j \in S : ~Before(LastOf(S), j)
  <2> HIDE DEF S
  <2> QED BY <1>1, LastOfIsLast
<1>3. Flattened(page, r)[p] = Value(LastOf(S), r)
  BY DEF Flattened
<1>4. LastOf(S) \in Keys /\ PresentAt(LastOf(S), r)
  BY <1>2
<1>5. Value(LastOf(S), r) \in Keys \X (1..Rev) /\ Value(LastOf(S), r)[1] = LastOf(S)
  BY <1>4, ValueType
<1> QED BY <1>2, <1>3, <1>5

-----------------------------------------------------------------------------
(* The invariant.                                                            *)

\* The value of path p was the one of a key with that path, when a page was served.
TrueValue(p) ==
  LET k == flat[p][1]
  IN /\ k \in Keys /\ UnderPrefix(k) /\ Path(k) = p
     /\ flat[p] \in Keys \X (1..Rev)
     /\ \E r \in shown : PresentAt(k, r) /\ flat[p] = Value(k, r)

\* Key k was not there when some page was served, or its path has its value or
\* that of a later key.
Covered(k) ==
  \/ \E r \in shown : ~PresentAt(k, r)
  \/ Path(k) \in DOMAIN flat /\ ~Before(flat[Path(k)][1], k)

AllRead == {"read", "nesting", "done", "collision"}

\* The revision the pages of a read in one Get show.
OneGet ==
  settings.limit = 0 /\ settings.readRevision = 0 =>
    /\ pc = "reading" => shown = {}
    /\ pc = "read" => shown = {lastRev}
    /\ pc \in {"nesting", "done", "collision"} => shown = {revision}

Reading ==
  /\ TypeOK
  /\ ~Before(from, settings.prefix)
  /\ flat = [p \in DOMAIN flat |-> flat[p]]
  /\ \A p \in DOMAIN flat : TrueValue(p) /\ Before(flat[p][1], from)
  /\ \A k \in Keys : UnderPrefix(k) /\ (Before(k, from) \/ pc \in AllRead) => Covered(k)
  /\ pc = "idle" => shown = {}
  /\ pc \in AllRead => shown # {}
  /\ settings.readRevision > 0 => shown \subseteq {settings.readRevision}
  /\ OneGet

-----------------------------------------------------------------------------
(* It holds at first and is kept.                                            *)

LEMMA ReadingInit == Init => Reading
<1> SUFFICES ASSUME Init
             PROVE  Reading
  OBVIOUS
<1> USE DEF Init
<1>1. /\ settings \in Settings /\ settings.prefix \in Strings
      /\ \A k \in Keys : k \in Strings
  BY PrefixIsString
<1>2. hist = <<NoChange>> /\ Rev = 1 /\ compactRev = 0
  BY DEF EtcdInit, Rev
<1>3. EtcdTypeOK
  BY <1>2, EtcdAssumption DEF EtcdTypeOK
<1>4. DOMAIN flat = {} /\ flat = [p \in DOMAIN flat |-> flat[p]]
  BY DEF Nothing
<1>5. TypeOK
  BY <1>1, <1>2, <1>3, <1>4 DEF TypeOK, NestIdle, Strings, Bytes
<1>6. ~Before(from, settings.prefix)
  BY <1>1, Irreflexive
<1>7. \A k \in Keys : UnderPrefix(k) => ~Before(k, from)
  BY <1>1, PrefixIsFirst DEF UnderPrefix
<1> QED BY <1>4, <1>5, <1>6, <1>7 DEF Reading, OneGet, AllRead

\* A step that leaves the read alone keeps what is said of it, whatever it does to
\* the store.
LEMMA ReadUntouched ==
  ASSUME Reading, Grows, EtcdTypeOK', UNCHANGED <<settings, from, flat, shown>>
  PROVE  /\ \A p \in DOMAIN flat : TrueValue(p)'
         /\ \A k \in Keys : Covered(k) => Covered(k)'
<1>1. EtcdTypeOK /\ shown \subseteq 1..Rev
  BY DEF Reading, TypeOK
<1>2. Rev \in Nat /\ Rev' \in {Rev, Rev + 1}
  BY <1>1, HistGrows
<1>3. ASSUME NEW p \in DOMAIN flat
      PROVE  TrueValue(p)'
  <2>1. TrueValue(p)
    BY <1>3 DEF Reading
  <2>2. PICK r \in shown : PresentAt(flat[p][1], r) /\ flat[p] = Value(flat[p][1], r)
    BY <2>1 DEF TrueValue
  <2>3. r \in 1..Rev
    BY <1>1
  <2>4. /\ PresentAt(flat[p][1], r)' <=> PresentAt(flat[p][1], r)
        /\ Value(flat[p][1], r)' = Value(flat[p][1], r)
    <3>1. PICK k : k = flat[p][1]
      OBVIOUS
    <3>2. /\ PresentAt(k, r)' <=> PresentAt(k, r)
          /\ Value(k, r)' = Value(k, r)
      BY <1>1, <2>3, Past
    <3>3. k = (flat[p][1])'
      BY <3>1
    <3> QED BY <3>1, <3>2, <3>3 DEF PresentAt, Value
  <2>5. flat[p] \in Keys \X (1..Rev')
    BY <1>2, <2>1 DEF TrueValue
  <2> QED BY <2>1, <2>2, <2>4, <2>5 DEF TrueValue, UnderPrefix, Path
<1>4. ASSUME NEW k \in Keys, Covered(k)
      PROVE  Covered(k)'
  <2>1. CASE \E r \in shown : ~PresentAt(k, r)
    <3>1. PICK r \in shown : ~PresentAt(k, r)
      BY <2>1
    <3>2. r \in 1..Rev
      BY <1>1
    <3>3. ~PresentAt(k, r)'
      BY <1>1, <3>1, <3>2, Past
    <3> QED BY <3>1, <3>3 DEF Covered
  <2>2. CASE Path(k) \in DOMAIN flat /\ ~Before(flat[Path(k)][1], k)
    BY <2>2 DEF Covered, Path
  <2> QED BY <1>4, <2>1, <2>2 DEF Covered
<1> QED BY <1>3, <1>4

\* A page joins the result.
LEMMA ReadingGetPage ==
  ASSUME Reading, GetPage
  PROVE  Reading'
<1>1. PICK header \in Headers : \E at \in ShownAt(header) :
        \E page \in {Page(from, at)} : \E new \in {Flattened(page, at)} :
          /\ flat' = [p \in DOMAIN flat \cup DOMAIN new |->
                        IF p \in DOMAIN new THEN new[p] ELSE flat[p]]
          /\ from' = IF page = {} THEN from ELSE Successor(LastOf(page))
          /\ lastRev' = header
          /\ shown' = shown \cup {at}
          /\ pc' = IF Page(from', at) = {} THEN "read" ELSE "reading"
  BY DEF GetPage
<1>2. PICK at \in ShownAt(header) :
        \E page \in {Page(from, at)} : \E new \in {Flattened(page, at)} :
          /\ flat' = [p \in DOMAIN flat \cup DOMAIN new |->
                        IF p \in DOMAIN new THEN new[p] ELSE flat[p]]
          /\ from' = IF page = {} THEN from ELSE Successor(LastOf(page))
          /\ lastRev' = header
          /\ shown' = shown \cup {at}
          /\ pc' = IF Page(from', at) = {} THEN "read" ELSE "reading"
  BY <1>1
<1>3. PICK page : page = Page(from, at)
  OBVIOUS
<1>4. PICK new : new = Flattened(page, at)
  OBVIOUS
<1>5. /\ flat' = [p \in DOMAIN flat \cup DOMAIN new |->
                    IF p \in DOMAIN new THEN new[p] ELSE flat[p]]
      /\ from' = IF page = {} THEN from ELSE Successor(LastOf(page))
      /\ lastRev' = header
      /\ shown' = shown \cup {at}
      /\ pc' = IF Page(from', at) = {} THEN "read" ELSE "reading"
  BY <1>2, <1>3, <1>4
<1>6. /\ pc = "reading" /\ UNCHANGED <<hist, compactRev, settings, nestVars, revision>>
      /\ Rev' = Rev
  BY DEF GetPage, Rev
<1> HIDE DEF GetPage
<1>7. /\ TypeOK /\ EtcdTypeOK /\ settings \in Settings /\ from \in Strings
      /\ settings.prefix \in Strings /\ settings.limit \in Nat
      /\ settings.readRevision \in Nat
      /\ Rev \in Nat /\ compactRev \in Nat /\ shown \subseteq 1..Rev
      /\ \A k \in Keys : k \in Strings /\ Path(k) \in Paths
  BY PrefixIsString DEF Reading, TypeOK, EtcdTypeOK, Strings, Bytes
<1>8. header \in 1..Rev /\ at \in 1..Rev
      /\ (settings.readRevision = 0 => at = header)
      /\ (settings.readRevision > 0 => at = settings.readRevision)
  <2>1. header \in 1..Rev
    BY <1>7 DEF Headers, EtcdTypeOK
  <2>2. CASE settings.readRevision = 0
    BY <1>2, <2>1, <2>2 DEF ShownAt
  <2>3. CASE settings.readRevision > 0
    <3>1. at = settings.readRevision /\ at \in compactRev..header
      BY <1>2, <2>3 DEF ShownAt
    <3> QED BY <1>7, <2>1, <2>3, <3>1
  <2> QED BY <1>7, <2>1, <2>2, <2>3
\* The page.
<1>9. /\ page \subseteq Found(from, at) /\ page \subseteq Keys
      /\ settings.limit = 0 => page = Found(from, at)
      /\ \A last \in page : \A k \in Found(from, at) : ~Before(last, k) => k \in page
  BY <1>3, <1>7, PageFacts DEF Reading
<1>10. \A k \in page : PresentAt(k, at) /\ UnderPrefix(k) /\ ~Before(k, from)
  BY <1>9 DEF Found
<1>11. DOMAIN new = {Path(k) : k \in page}
  BY <1>4 DEF Flattened
<1>12. ASSUME NEW p \in DOMAIN new
       PROVE  \E n \in page :
                /\ Path(n) = p /\ new[p] = Value(n, at) /\ new[p][1] = n
                /\ new[p] \in Keys \X (1..Rev)
                /\ \A k \in page : Path(k) = p => ~Before(n, k)
  <2>1. p \in DOMAIN Flattened(page, at)
    BY <1>4, <1>12
  <2> QED BY <1>4, <1>7, <1>8, <1>9, <1>10, <2>1, FlattenedFacts
\* Where the next page starts.
<1>13. /\ from' \in Strings
       /\ \A k \in Strings : Before(k, from) => Before(k, from')
       /\ \A k \in page : Before(k, from')
       /\ \A k \in Found(from, at) : Before(k, from') => k \in page
       /\ ~Before(from', settings.prefix)
  <2>1. CASE page = {}
    <3>1. from' = from
      BY <1>5, <2>1
    <3>2. \A k \in Found(from, at) : ~Before(k, from)
      BY DEF Found
    <3> QED BY <1>7, <2>1, <3>1, <3>2 DEF Reading
  <2>2. CASE page # {}
    <3>1. LastOf(page) \in page /\ \A j \in page : ~Before(LastOf(page), j)
      BY <1>9, <2>2, LastOfIsLast
    <3>2. PICK last \in page : last = LastOf(page) /\ \A j \in page : ~Before(last, j)
      BY <3>1
    <3>3. from' = Successor(last) /\ last \in Strings /\ ~Before(last, from)
          /\ ~Before(last, settings.prefix)
      BY <1>5, <1>7, <1>9, <1>10, <2>2, <3>2, PrefixIsFirst DEF UnderPrefix
    <3>4. from' \in Strings /\ \A j \in Strings : Before(j, from') <=> ~Before(last, j)
      BY <3>3, SuccessorIsNext
    <3>5. \A k \in Strings : Before(k, from) => ~Before(last, k)
      BY <1>7, <3>3, BeforeNotBefore, Transitive, Irreflexive
    <3>6. \A k \in Found(from, at) : Before(k, from') => k \in page
      BY <1>7, <1>9, <3>2, <3>4 DEF Found
    <3>7. ~Before(from', settings.prefix)
      <4>1. Before(last, from')
        BY <3>3, <3>4, Irreflexive
      <4> QED BY <1>7, <3>3, <3>4, <4>1, Transitive
    <3> QED BY <1>7, <1>9, <3>2, <3>4, <3>5, <3>6, <3>7
  <2> QED BY <2>1, <2>2
\* What is covered now.
<1>14. ASSUME NEW k \in Keys, UnderPrefix(k), Before(k, from')
       PROVE  Covered(k)'
  <2>1. CASE ~PresentAt(k, at)
    <3>1. ~PresentAt(k, at)'
      BY <1>6, <2>1 DEF PresentAt
    <3> QED BY <1>5, <3>1 DEF Covered
  <2>2. CASE PresentAt(k, at) /\ ~Before(k, from)
    <3>1. k \in page
      BY <1>13, <1>14, <2>2 DEF Found
    <3>2. Path(k) \in DOMAIN new
      BY <1>11, <3>1
    <3>3. ~Before(new[Path(k)][1], k)
      BY <1>12, <3>1, <3>2
    <3> QED BY <1>5, <1>6, <3>2, <3>3 DEF Covered, Path
  <2>3. CASE Before(k, from)
    <3>1. Covered(k)
      BY <1>14, <2>3 DEF Reading
    <3>2. CASE \E r \in shown : ~PresentAt(k, r)
      <4>1. PICK r \in shown' : ~PresentAt(k, r)
        BY <1>5, <3>2
      <4>2. ~PresentAt(k, r)'
        BY <1>6, <4>1 DEF PresentAt
      <4> QED BY <4>1, <4>2 DEF Covered
    <3>3. CASE Path(k) \in DOMAIN flat /\ ~Before(flat[Path(k)][1], k)
      <4>1. CASE Path(k) \in DOMAIN new
        <5>1. PICK n \in page : new[Path(k)][1] = n
          BY <1>12, <4>1
        <5>2. ~Before(n, from) /\ n \in Strings /\ k \in Strings
          BY <1>7, <1>9, <1>10
        <5>3. ~Before(n, k)
          BY <1>7, <2>3, <5>2, Transitive
        <5> QED BY <1>5, <1>6, <4>1, <5>1, <5>3 DEF Covered, Path
      <4>2. CASE Path(k) \notin DOMAIN new
        BY <1>5, <1>6, <3>3, <4>2 DEF Covered, Path
      <4> QED BY <4>1, <4>2
    <3> QED BY <3>1, <3>2, <3>3 DEF Covered
  <2> QED BY <2>1, <2>2, <2>3
<1>15. ASSUME NEW k \in Keys, UnderPrefix(k), pc' \in AllRead
       PROVE  Covered(k)'
  <2>1. CASE Before(k, from')
    BY <1>14, <1>15, <2>1
  <2>2. CASE ~Before(k, from')
    <3>1. Page(from', at) = {}
      BY <1>5, <1>15 DEF AllRead
    <3>2. Found(from', at) = {}
      BY <1>7, <1>13, <3>1, PageFacts
    <3>3. ~PresentAt(k, at)
      BY <1>15, <2>2, <3>2 DEF Found
    <3>4. ~PresentAt(k, at)'
      BY <1>6, <3>3 DEF PresentAt
    <3> QED BY <1>5, <3>4 DEF Covered
  <2> QED BY <2>1, <2>2
\* What the values say.
<1>16. ASSUME NEW p \in DOMAIN flat'
       PROVE  TrueValue(p)' /\ Before(flat[p][1], from)' /\ flat'[p] \in Keys \X (1..Rev)
              /\ p \in Paths
  <2>1. CASE p \in DOMAIN new
    <3>1. PICK n \in page : /\ Path(n) = p /\ new[p] = Value(n, at) /\ new[p][1] = n
                            /\ new[p] \in Keys \X (1..Rev)
      BY <1>12, <2>1
    <3>2. flat'[p] = new[p]
      BY <1>5, <2>1
    <3>3. PresentAt(n, at)' /\ Value(n, at)' = Value(n, at)
      BY <1>6, <1>10 DEF PresentAt, Value
    <3>4. n \in Keys /\ UnderPrefix(n) /\ at \in shown'
      BY <1>5, <1>9, <1>10
    <3>5. TrueValue(p)'
      <4>1. flat'[p] = Value(n, at)' /\ flat'[p][1] = n
        BY <3>1, <3>2, <3>3
      <4>2. UnderPrefix(n)' /\ (Path(n) = p)'
        BY <1>6, <3>1, <3>4 DEF UnderPrefix, Path
      <4>3. flat'[p] \in Keys \X (1..Rev')
        BY <1>6, <3>1, <3>2
      <4>4. PICK k : k = flat'[p][1]
        OBVIOUS
      <4>5. k = n
        BY <4>1, <4>4
      <4>6. PresentAt(k, at)' /\ flat'[p] = Value(k, at)'
        BY <3>3, <4>1, <4>5
      <4>7. /\ flat'[p][1] \in Keys /\ at \in shown'
            /\ PresentAt(flat[p][1], at)' /\ flat'[p] = Value(flat[p][1], at)'
        BY <3>4, <4>4, <4>5, <4>6 DEF PresentAt, Value
      <4>8. UnderPrefix(flat[p][1])' /\ (Path(flat[p][1]) = p)'
        BY <4>2, <4>4, <4>5 DEF UnderPrefix, Path
      <4> QED BY <4>3, <4>7, <4>8 DEF TrueValue
    <3> QED BY <1>7, <1>13, <3>1, <3>2, <3>4, <3>5
  <2>2. CASE p \notin DOMAIN new
    <3>1. p \in DOMAIN flat /\ flat'[p] = flat[p]
      BY <1>5, <1>16, <2>2
    <3>2. TrueValue(p) /\ Before(flat[p][1], from) /\ p \in Paths
      BY <3>1 DEF Reading, TypeOK
    <3>3. flat[p][1] \in Strings /\ flat[p] \in Keys \X (1..Rev)
      BY <1>7, <3>2 DEF TrueValue
    <3>4. TrueValue(p)'
      <4>1. PICK r \in shown : PresentAt(flat[p][1], r) /\ flat[p] = Value(flat[p][1], r)
        BY <3>2 DEF TrueValue
      <4> QED BY <1>5, <1>6, <3>1, <3>2, <4>1
              DEF TrueValue, UnderPrefix, Path, PresentAt, Value
    <3> QED BY <1>13, <3>1, <3>2, <3>3, <3>4
  <2> QED BY <2>1, <2>2
<1>17. TypeOK'
  <2>1. EtcdTypeOK'
    BY <1>6, <1>7 DEF EtcdTypeOK
  <2>2. /\ todo' = todo /\ leaves' = leaves /\ cleaned' = cleaned
        /\ DOMAIN flat \subseteq DOMAIN flat'
    BY <1>5, <1>6 DEF nestVars
  <2>3. /\ pc' \in {"idle", "reading", "read", "nesting", "done", "failed", "collision"}
        /\ {lastRev', revision'} \subseteq 0..Rev'
        /\ shown' \subseteq 1..Rev'
    <3>1. lastRev' \in 0..Rev'
      BY <1>5, <1>6, <1>7, <1>8
    <3>2. revision' \in 0..Rev'
      BY <1>6, <1>7 DEF TypeOK
    <3>3. shown' \subseteq 1..Rev'
      BY <1>5, <1>6, <1>7, <1>8
    <3> QED BY <1>5, <3>1, <3>2, <3>3
  <2>4. from' \in Seq(0..Top)
    BY <1>13 DEF Strings, Bytes
  <2> QED BY <1>6, <1>7, <1>16, <2>1, <2>2, <2>3, <2>4 DEF TypeOK
<1>18. OneGet'
  <2>1. SUFFICES ASSUME settings.limit = 0, settings.readRevision = 0
                 PROVE  pc' = "read" /\ shown' = {lastRev'}
    BY <1>5, <1>6 DEF OneGet
  <2>2. shown = {} /\ at = header
    BY <1>6, <1>8, <2>1 DEF Reading, OneGet
  <2>3. Found(from', at) = {}
    <3> SUFFICES ASSUME NEW k \in Found(from', at)
                 PROVE  FALSE
      OBVIOUS
    <3>1. k \in Keys /\ PresentAt(k, at) /\ UnderPrefix(k) /\ ~Before(k, from')
      BY DEF Found
    <3>2. k \in Found(from, at)
      BY <1>7, <1>13, <3>1 DEF Found
    <3> QED BY <1>9, <1>13, <2>1, <3>1, <3>2
  <2>4. Page(from', at) = {}
    BY <1>7, <1>13, <2>3, PageFacts
  <2> QED BY <1>5, <2>2, <2>4
<1>19. flat' = [p \in DOMAIN flat' |-> flat'[p]]
  BY <1>5
<1>20. /\ \A p \in DOMAIN flat' : TrueValue(p)' /\ Before(flat[p][1], from)'
       /\ \A k \in Keys : UnderPrefix(k)' /\ (Before(k, from)' \/ pc' \in AllRead)
            => Covered(k)'
  BY <1>6, <1>14, <1>15, <1>16 DEF UnderPrefix
<1>21. pc' # "idle" /\ shown' # {}
       /\ (settings'.readRevision > 0 => shown' \subseteq {settings'.readRevision})
       /\ ~Before(from', settings'.prefix)
  BY <1>5, <1>6, <1>8, <1>13 DEF Reading
<1> QED BY <1>17, <1>18, <1>19, <1>20, <1>21 DEF Reading

\* A step of the store or of the read that adds nothing to the result.
LEMMA ReadingKept ==
  ASSUME Reading, Grows, EtcdTypeOK', UNCHANGED <<settings, from, flat, lastRev, shown>>,
         revision' \in {revision, lastRev},
         pc' \in {"idle", "reading", "read", "nesting", "done", "failed", "collision"},
         todo' \subseteq DOMAIN flat, DOMAIN cleaned' = leaves',
         pc' \in AllRead => pc \in AllRead, pc' = "idle" => pc = "idle",
         OneGet'
  PROVE  Reading'
<1>1. EtcdTypeOK /\ Rev \in Nat /\ Rev' \in {Rev, Rev + 1}
  BY HistGrows DEF Reading, TypeOK
<1>2. /\ \A p \in DOMAIN flat : TrueValue(p)'
      /\ \A k \in Keys : Covered(k) => Covered(k)'
  BY ReadUntouched
<1>3. \A p \in DOMAIN flat' : (flat[p] \in Keys \X (1..Rev))'
  <2>1. \A p \in DOMAIN flat : TrueValue(p)
    BY DEF Reading
  <2>2. \A p \in DOMAIN flat : flat[p] \in Keys \X (1..Rev)
    BY <2>1 DEF TrueValue
  <2> QED BY <1>1, <2>2
<1>4. {lastRev', revision'} \subseteq 0..Rev' /\ shown' \subseteq 1..Rev'
  <2>1. lastRev \in 0..Rev /\ revision \in 0..Rev /\ shown \subseteq 1..Rev
    BY DEF Reading, TypeOK
  <2> QED BY <1>1, <2>1
<1>5. /\ DOMAIN flat \subseteq Paths /\ from \in Seq(0..Top) /\ settings \in Settings
      /\ flat' = flat /\ from' = from /\ settings' = settings
  BY DEF Reading, TypeOK
<1>6. TypeOK'
  BY <1>3, <1>4, <1>5 DEF TypeOK
<1>7. \A p \in DOMAIN flat' : TrueValue(p)' /\ Before(flat[p][1], from)'
  BY <1>2, <1>5 DEF Reading
<1>8. \A k \in Keys : UnderPrefix(k)' /\ (Before(k, from)' \/ pc' \in AllRead)
        => Covered(k)'
  BY <1>2, <1>5 DEF Reading, UnderPrefix
<1>9. /\ flat' = [p \in DOMAIN flat' |-> flat'[p]]
      /\ ~Before(from', settings'.prefix)
      /\ pc' = "idle" => shown' = {}
      /\ pc' \in AllRead => shown' # {}
      /\ settings'.readRevision > 0 => shown' \subseteq {settings'.readRevision}
  BY <1>5 DEF Reading
<1> QED BY <1>6, <1>7, <1>8, <1>9 DEF Reading

LEMMA ReadingStep ==
  ASSUME Reading, [Next]_vars
  PROVE  Reading'
<1>1. TypeOK /\ EtcdTypeOK /\ OneGet
  BY DEF Reading, TypeOK
<1>2. CASE StoreStep
  <2>1. Grows /\ EtcdTypeOK'
    BY <1>1, <1>2, StoreGrows
  <2>2. UNCHANGED <<settings, pc, readVars, nestVars, revision>>
    BY <1>2 DEF StoreStep
  <2>3. OneGet'
    BY <1>1, <2>2 DEF OneGet, readVars
  <2> QED BY <1>1, <2>1, <2>2, <2>3, ReadingKept DEF TypeOK, readVars, nestVars
<1>3. ASSUME hist' = hist, compactRev' = compactRev
      PROVE  Grows /\ EtcdTypeOK'
  BY <1>1, <1>3 DEF Grows, EtcdTypeOK, Rev
<1>4. CASE ReadStart
  <2>1. /\ pc = "idle" /\ pc' = "reading"
        /\ UNCHANGED <<hist, compactRev, settings, readVars, nestVars, revision>>
    BY <1>4 DEF ReadStart
  <2>2. OneGet'
    BY <2>1 DEF OneGet, readVars, Reading
  <2> QED BY <1>1, <1>3, <2>1, <2>2, ReadingKept DEF TypeOK, readVars, nestVars, AllRead
<1>5. CASE GetPage
  BY <1>5, ReadingGetPage
<1>6. CASE GetFails
  <2>1. /\ pc' = "failed"
        /\ UNCHANGED <<hist, compactRev, settings, readVars, nestVars, revision>>
    BY <1>6 DEF GetFails
  <2>2. OneGet'
    BY <2>1 DEF OneGet
  <2> QED BY <1>1, <1>3, <2>1, <2>2, ReadingKept DEF TypeOK, readVars, nestVars, AllRead
<1>7. CASE Finish
  <2>1. /\ pc = "read" /\ revision' = lastRev
        /\ pc' \in {"failed", "done", "nesting"}
        /\ UNCHANGED <<hist, compactRev, settings, readVars>>
    BY <1>7 DEF Finish
  <2>2. OneGet'
    BY <1>1, <2>1 DEF OneGet, readVars
  <2>3. todo' \subseteq DOMAIN flat /\ DOMAIN cleaned' = leaves'
    BY <1>1, <1>7 DEF Finish, NestStart, nestVars, TypeOK
  <2> QED BY <1>1, <1>3, <2>1, <2>2, <2>3, ReadingKept DEF readVars, AllRead
<1>8. CASE PlacePath
  <2>1. /\ pc = "nesting" /\ pc' \in {"done", "nesting", "collision"}
        /\ UNCHANGED <<hist, compactRev, settings, readVars, revision>>
    BY <1>8 DEF PlacePath
  <2>2. OneGet'
    BY <1>1, <2>1 DEF OneGet, readVars
  <2>3. todo' \subseteq DOMAIN flat /\ DOMAIN cleaned' = leaves'
    <3>1. CASE UNCHANGED nestVars
      BY <1>1, <3>1 DEF nestVars, TypeOK
    <3>2. CASE \E p \in todo : Place(p)
      BY <1>1, <3>2 DEF Place, TypeOK
    <3> QED BY <1>8, <3>1, <3>2 DEF PlacePath
  <2> QED BY <1>1, <1>3, <2>1, <2>2, <2>3, ReadingKept DEF readVars, AllRead
<1>9. CASE UNCHANGED vars
  <2>1. UNCHANGED <<hist, compactRev, settings, pc, readVars, nestVars, revision>>
    BY <1>9 DEF vars
  <2>2. OneGet'
    BY <1>1, <2>1 DEF OneGet, readVars
  <2> QED BY <1>1, <1>3, <2>1, <2>2, ReadingKept DEF TypeOK, readVars, nestVars
<1> QED BY <1>2, <1>4, <1>5, <1>6, <1>7, <1>8, <1>9 DEF Next, ReadSteps

-----------------------------------------------------------------------------
(* The theorems.                                                             *)

\* What is covered and what the values say is invariant, whatever the store's
\* other clients do between the pages.
THEOREM Invariance == Spec => []Reading
<1>1. Init => Reading
  BY ReadingInit
<1>2. Reading /\ [Next]_vars => Reading'
  BY ReadingStep
<1> QED BY <1>1, <1>2, PTL DEF Spec

\* Every variable of the read and of the store keeps its type.
THEOREM Typing == Spec => []TypeOK
<1>1. Reading => TypeOK
  BY DEF Reading
<1> QED BY <1>1, Invariance, PTL

\* Pagination skips no key, invents none and takes none from outside the prefix,
\* for any number of pages and whatever is written between them.
THEOREM PagesSkipNoKey == Spec => []EveryKeyWasTrue
<1>1. ASSUME Reading, pc \in {"done", "collision"}
      PROVE  EveryKeyWasTrue
  <2>1. shown \subseteq 1..Rev /\ shown # {} /\ Rev \in Nat
    BY <1>1 DEF Reading, TypeOK, EtcdTypeOK, AllRead
  <2>2. /\ Min(shown) \in shown /\ \A r \in shown : Min(shown) <= r
        /\ Max(shown) \in shown /\ \A r \in shown : Max(shown) >= r
    <3>1. shown \subseteq Nat /\ shown \subseteq 0..Rev
      BY <2>1
    <3> QED BY <2>1, <3>1, LeastElement, GreatestElement
  <2>3. shown \subseteq Min(shown)..Max(shown)
    <3>1. \A r \in shown : r \in Int
      BY <2>1
    <3> QED BY <2>2, <3>1
  <2>4. ASSUME NEW p \in DOMAIN flat
        PROVE  /\ UnderPrefix(flat[p][1]) /\ Path(flat[p][1]) = p
               /\ \E r \in Min(shown)..Max(shown) :
                    flat[p][1] \in Present(r) /\ flat[p] = Value(flat[p][1], r)
    <3>1. TrueValue(p)
      BY <1>1, <2>4 DEF Reading
    <3> QED BY <2>3, <3>1 DEF TrueValue, Present
  <2>5. ASSUME NEW k \in Keys, UnderPrefix(k)
        PROVE  \/ \E r \in Min(shown)..Max(shown) : k \notin Present(r)
               \/ Path(k) \in DOMAIN flat /\ ~Before(flat[Path(k)][1], k)
    <3>1. Covered(k)
      BY <1>1, <2>5 DEF Reading, AllRead
    <3> QED BY <2>3, <3>1 DEF Covered, Present
  <2> QED BY <2>4, <2>5 DEF EveryKeyWasTrue
<1>2. Reading => EveryKeyWasTrue
  BY <1>1 DEF EveryKeyWasTrue
<1> QED BY <1>2, Invariance, PTL

\* If all pages show one revision the result is its state.
LEMMA OneRevision ==
  ASSUME Reading, pc \in AllRead, NEW r, shown = {r}
  PROVE  flat = StateAt(r)
<1> DEFINE S == {k \in Present(r) : UnderPrefix(k)}
           At(p) == {k \in S : Path(k) = p}
<1>1. \A k \in Keys : k \in Strings
  BY PrefixReadAssumption DEF Strings, Bytes
<1>2. \A p \in DOMAIN flat :
        flat[p][1] \in S /\ Path(flat[p][1]) = p /\ flat[p] = Value(flat[p][1], r)
  <2>1. \A p \in DOMAIN flat : TrueValue(p)
    BY DEF Reading
  <2> QED BY <2>1 DEF TrueValue, Present
<1>3. \A k \in S : Path(k) \in DOMAIN flat /\ ~Before(flat[Path(k)][1], k)
  <2>1. \A k \in S : Covered(k)
    BY DEF Reading, Present
  <2> QED BY <2>1 DEF Covered, Present
<1>4. DOMAIN flat = {Path(k) : k \in S}
  BY <1>2, <1>3
<1>5. ASSUME NEW p \in DOMAIN flat
      PROVE  flat[p] = Value(LastOf(At(p)), r)
  <2>1. flat[p][1] \in At(p)
    BY <1>2, <1>5
  <2>2. At(p) \subseteq Keys /\ At(p) # {} /\ At(p) \subseteq S
    BY <2>1 DEF Present
  <2>3. LastOf(At(p)) \in At(p) /\ \A j \in At(p) : ~Before(LastOf(At(p)), j)
    <3> HIDE DEF At
    <3> QED BY <2>2, LastOfIsLast
  <2>4. ~Before(flat[p][1], LastOf(At(p)))
    BY <1>3, <2>3
  <2>5. flat[p][1] \in Strings /\ LastOf(At(p)) \in Strings
    BY <1>1, <2>1, <2>2, <2>3
  <2>6. flat[p][1] = LastOf(At(p))
    BY <2>1, <2>3, <2>4, <2>5, Total
  <2> QED BY <1>2, <1>5, <2>6
<1>6. StateAt(r) = [p \in {Path(k) : k \in S} |-> Value(LastOf(At(p)), r)]
  BY DEF StateAt, Flattened
<1>7. flat = [p \in DOMAIN flat |-> flat[p]]
  BY DEF Reading
<1> HIDE DEF S, At
<1> QED BY <1>4, <1>5, <1>6, <1>7

\* A read in one Get leaves no gap to a watch from its revision, and a read at a
\* given revision is a snapshot of it however many pages it takes.
THEOREM Snapshots == Spec => []SnapshotWhereItCan
<1>1. ASSUME Reading
      PROVE  SnapshotWhereItCan
  <2>1. ASSUME settings.limit = 0, settings.readRevision = 0, pc = "done"
        PROVE  flat = StateAt(revision)
    <3>1. shown = {revision}
      BY <1>1, <2>1 DEF Reading, OneGet
    <3> QED BY <1>1, <2>1, <3>1, OneRevision DEF AllRead
  <2>2. ASSUME pc = "done", settings.readRevision > 0
        PROVE  settings.readRevision <= Rev /\ flat = StateAt(settings.readRevision)
    <3>1. shown = {settings.readRevision}
      BY <1>1, <2>2 DEF Reading, AllRead
    <3>2. settings.readRevision \in 1..Rev /\ Rev \in Nat
      BY <1>1, <3>1 DEF Reading, TypeOK, EtcdTypeOK
    <3> QED BY <1>1, <2>2, <3>1, <3>2, OneRevision DEF AllRead
  <2> QED BY <2>1, <2>2 DEF SnapshotWhereItCan, NoReadWatchGap
<1>2. Reading => SnapshotWhereItCan
  BY <1>1
<1> QED BY <1>2, Invariance, PTL

\* DeletePrefix removes the keys under its prefix and no other, for any keys and
\* prefixes: the range end prefixEnd computes is right.
THEOREM DeletionIsExact == Spec => DeletesItsPrefix
<1>1. ASSUME EtcdTypeOK, NEW prefix \in DeletedPrefixes, NEW allowEmptyPrefix \in BOOLEAN,
             DeletePrefix(prefix, allowEmptyPrefix)
      PROVE  Present(Rev)' = {k \in Present(Rev) : ~IsPrefix(prefix, k)}
  <2> DEFINE K == {k \in Present(Rev) : InRange(k, prefix, PrefixEnd(prefix))}
  <2>1. hist' = Append(hist, [k \in K |-> "delete"])
    BY <1>1 DEF DeletePrefix, Txn
  <2>2. /\ Rev' = Rev + 1 /\ Rev \in Nat \ {0} /\ hist'[Rev + 1] = [k \in K |-> "delete"]
        /\ \A s \in 1..Rev : hist'[s] = hist[s]
    <3>1. hist \in Seq(Changes \cup {NoChange}) /\ Rev = Len(hist) /\ Rev \in Nat \ {0}
      BY <1>1, EtcdAssumption DEF EtcdTypeOK, Rev
    <3>2. [k \in K |-> "delete"] \in Changes \/ K = {}
      BY WriteAssumption DEF Kinds, Present
    <3>3. K # {}
      BY <1>1 DEF DeletePrefix, Txn
    <3> HIDE DEF K
    <3>4. [k \in K |-> "delete"] \in Changes \cup {NoChange}
      BY <3>2, <3>3
    <3> QED BY <2>1, <3>1, <3>4, AppendProperties DEF Rev
  <2>3. ASSUME NEW k \in Keys
        PROVE  PresentAt(k, Rev)' <=> PresentAt(k, Rev) /\ k \notin K
    <3> HIDE DEF K
    <3>1. ASSUME PresentAt(k, Rev)'
          PROVE  PresentAt(k, Rev) /\ k \notin K
      <4>1. PICK s \in 1..(Rev + 1) :
              /\ k \in DOMAIN hist'[s] /\ hist'[s][k] = "put"
              /\ \A t \in (s + 1)..(Rev + 1) : k \notin DOMAIN hist'[t]
        BY <2>2, <3>1 DEF PresentAt
      <4>2. s # Rev + 1
        BY <2>2, <4>1
      <4>3. s \in 1..Rev /\ Rev + 1 \in (s + 1)..(Rev + 1)
        BY <2>2, <4>2
      <4>4. k \notin K
        BY <2>2, <4>1, <4>3
      <4>5. \A t \in (s + 1)..Rev : k \notin DOMAIN hist[t]
        <5>1. \A t \in (s + 1)..Rev : t \in (s + 1)..(Rev + 1) /\ t \in 1..Rev
          BY <2>2, <4>3
        <5> QED BY <2>2, <4>1, <5>1
      <4> QED BY <2>2, <4>1, <4>3, <4>4, <4>5 DEF PresentAt
    <3>2. ASSUME PresentAt(k, Rev), k \notin K
          PROVE  PresentAt(k, Rev)'
      <4>1. PICK s \in 1..Rev :
              /\ k \in DOMAIN hist[s] /\ hist[s][k] = "put"
              /\ \A t \in (s + 1)..Rev : k \notin DOMAIN hist[t]
        BY <3>2 DEF PresentAt
      <4>2. \A t \in (s + 1)..(Rev + 1) : k \notin DOMAIN hist'[t]
        <5> SUFFICES ASSUME NEW t \in (s + 1)..(Rev + 1)
                     PROVE  k \notin DOMAIN hist'[t]
          OBVIOUS
        <5>1. CASE t = Rev + 1
          BY <2>2, <3>2, <5>1
        <5>2. CASE t # Rev + 1
          <6>1. t \in (s + 1)..Rev /\ t \in 1..Rev
            BY <2>2, <5>2
          <6> QED BY <2>2, <4>1, <6>1
        <5> QED BY <5>1, <5>2
      <4>3. s \in 1..(Rev + 1)
        BY <2>2
      <4> QED BY <2>2, <4>1, <4>2, <4>3 DEF PresentAt
    <3> QED BY <3>1, <3>2
  <2>4. \A k \in Keys : InRange(k, prefix, PrefixEnd(prefix)) <=> IsPrefix(prefix, k)
    <3>1. prefix \in Strings /\ \A k \in Keys : k \in Strings
      BY WriteAssumption, PrefixReadAssumption DEF Strings, Bytes
    <3> QED BY <3>1, PrefixRange
  <2> QED BY <2>3, <2>4 DEF Present
<1>2. TypeOK => EtcdTypeOK
  BY DEF TypeOK
<1>3. EtcdTypeOK => [\A prefix \in DeletedPrefixes, allowEmptyPrefix \in BOOLEAN :
                       DeletePrefix(prefix, allowEmptyPrefix) =>
                         Present(Rev)' = {k \in Present(Rev) : ~IsPrefix(prefix, k)}]_etcdVars
  BY <1>1
<1> QED BY <1>2, <1>3, Typing, PTL DEF DeletesItsPrefix
\* A page that is not the last takes at least one key out of what is unread, and
\* puts none back: the key it ends with lies behind the start of the next one.
THEOREM PagesAdvance == Spec => EveryPageAdvances
<1>1. ASSUME Reading, GetPage, pc' = "reading"
      PROVE  Unread' \subseteq Unread /\ Unread' # Unread
  <2>1. PICK header \in Headers : \E at \in ShownAt(header) :
          /\ from' = IF Page(from, at) = {} THEN from ELSE Successor(LastOf(Page(from, at)))
          /\ pc' = IF Page(from', at) = {} THEN "read" ELSE "reading"
    BY <1>1 DEF GetPage
  <2>2. PICK at \in ShownAt(header) :
          /\ from' = IF Page(from, at) = {} THEN from ELSE Successor(LastOf(Page(from, at)))
          /\ pc' = IF Page(from', at) = {} THEN "read" ELSE "reading"
    BY <2>1
  <2>3. /\ settings \in Settings /\ settings' = settings
        /\ from \in Strings /\ ~Before(from, settings.prefix)
        /\ \A k \in Keys : k \in Strings
    BY <1>1, PrefixIsString DEF Reading, TypeOK, GetPage, Strings, Bytes
  <2>4. Page(from, at) # {}
    <3> SUFFICES ASSUME Page(from, at) = {}
                 PROVE  FALSE
      OBVIOUS
    <3>1. from' = from
      BY <2>2
    <3>2. pc' = "read"
      BY <2>2, <3>1
    <3> QED BY <1>1, <3>2
  <2>5. PICK last : last = LastOf(Page(from, at))
    OBVIOUS
  <2>6. last \in Found(from, at)
    <3>1. Page(from, at) \subseteq Found(from, at) /\ Found(from, at) \subseteq Keys
      BY <2>3, PageFacts
    <3> QED BY <2>4, <2>5, <3>1, LastOfIsLast
  <2>7. last \in Keys /\ last \in Strings /\ last \in Unread /\ ~Before(last, from)
    <3>1. last \in Keys /\ last \in Strings /\ UnderPrefix(last) /\ ~Before(last, from)
      BY <2>3, <2>6 DEF Found
    <3>2. settings.prefix \in Strings
      BY <2>3, PrefixIsString
    <3>3. InRange(last, from, PrefixEnd(settings.prefix))
      BY <2>3, <3>1, <3>2, PageRange DEF UnderPrefix
    <3> QED BY <3>1, <3>3 DEF Unread
  <2>8. PICK next : next = from'
    OBVIOUS
  <2>9. next = Successor(last)
    BY <2>2, <2>4, <2>5, <2>8
  <2>10. next \in Strings /\ Before(last, next) /\ \A k \in Keys : ~Before(k, next) => Before(last, k)
    BY <2>3, <2>7, <2>9, SuccessorIsNext, Irreflexive
  <2>11. Unread' = {k \in Keys : InRange(k, next, PrefixEnd(settings.prefix))}
    BY <2>3, <2>8 DEF Unread
  <2>12. last \notin Unread'
    BY <2>10, <2>11 DEF InRange
  <2>13. ASSUME NEW k \in Unread'
         PROVE  k \in Unread
    <3>1. k \in Keys /\ ~Before(k, next) /\ (PrefixEnd(settings.prefix) = NoEnd
            \/ Before(k, PrefixEnd(settings.prefix)))
      BY <2>11 DEF InRange
    <3>2. Before(last, k)
      BY <2>10, <3>1
    <3>3. ~Before(k, from)
      BY <2>3, <2>7, <3>1, <3>2, Transitive
    <3> QED BY <3>1, <3>3 DEF Unread, InRange
  <2> QED BY <2>7, <2>12, <2>13
<1>2. Reading /\ [Next]_vars
        => [GetPage /\ pc' = "reading" => Unread' \subseteq Unread /\ Unread' # Unread]_vars
  BY <1>1
<1> QED BY <1>2, Invariance, PTL DEF Spec, EveryPageAdvances
=============================================================================
