--------------------------- MODULE KeyRange_proofs ---------------------------
(* The order of keys is total, and the range prefixEnd gives is exactly the   *)
(* prefix, for any size of a byte: which is why a read that filters nothing   *)
(* returns the keys under its prefix, and why pages that start behind the     *)
(* last key skip none.                                                        *)
EXTENDS KeyRange, WellFoundedInduction, FiniteSetTheorems, SequenceTheorems, TLAPS

Bytes == 0..Top
Strings == Seq(Bytes)

-----------------------------------------------------------------------------
(* Least and greatest elements.                                              *)

\* A set of natural numbers has a least element, and a bounded one a greatest.
LEMMA LeastElement ==
  ASSUME NEW S, S \subseteq Nat, S # {}
  PROVE  Min(S) \in S /\ \A y \in S : Min(S) <= y
<1> DEFINE T == {0..x : x \in S}
<1>1. T \subseteq FiniteSubsetsOf(Nat) /\ T # {}
  <2>1. \A x \in S : 0..x \subseteq Nat /\ IsFiniteSet(0..x)
    BY FS_Interval
  <2> QED BY <2>1 DEF FiniteSubsetsOf
<1>2. PICK t \in T : \A u \in T : ~(<<u, t>> \in StrictSubsetOrdering(Nat))
  <2> HIDE DEF T
  <2> QED BY <1>1, FS_StrictSubsetOrderingWellFounded, WFMin
<1>3. PICK x \in S : t = 0..x
  BY <1>2
<1>4. ASSUME NEW y \in S, y < x
      PROVE  FALSE
  <2>1. 0..y \subseteq 0..x /\ 0..y # 0..x /\ 0..y \in SUBSET Nat /\ 0..x \in SUBSET Nat
    <3>1. x \in 0..x /\ x \notin 0..y
      BY <1>4
    <3> QED BY <1>4, <3>1
  <2>2. <<0..y, 0..x>> \in StrictSubsetOrdering(Nat)
    BY <2>1 DEF StrictSubsetOrdering
  <2> QED BY <1>2, <1>3, <2>2
<1>5. \A y \in S : x <= y
  BY <1>4
<1> QED BY <1>5 DEF Min

LEMMA GreatestElement ==
  ASSUME NEW n \in Nat, NEW S, S \subseteq 0..n, S # {}
  PROVE  Max(S) \in S /\ \A y \in S : Max(S) >= y
<1> DEFINE T == {n - x : x \in S}
<1>1. T \subseteq Nat /\ T # {}
  <2>1. \A x \in S : n - x \in Nat
    OBVIOUS
  <2> QED BY <2>1
<1>2. Min(T) \in T /\ \A y \in T : Min(T) <= y
  BY <1>1, LeastElement
<1>3. PICK x \in S : Min(T) = n - x
  BY <1>2
<1>4. \A y \in S : x >= y
  BY <1>2, <1>3
<1> QED BY <1>4 DEF Max

-----------------------------------------------------------------------------
(* The order of keys, byte by byte.                                          *)

LEMMA StringFacts ==
  ASSUME NEW a \in Strings
  PROVE  /\ Top \in Int /\ Len(a) \in Nat /\ DOMAIN a = 1..Len(a)
         /\ \A i \in 1..Len(a) : a[i] \in Int /\ 0 <= a[i] /\ a[i] <= Top
<1>1. \A i \in 1..Len(a) : a[i] \in Bytes
  BY ElementOfSeq DEF Strings
<1> QED BY <1>1, KeyRangeAssumption, LenProperties DEF Strings, Bytes

LEMMA PrefixBytewise ==
  ASSUME NEW p \in Strings, NEW k \in Strings
  PROVE  IsPrefix(p, k) <=> /\ Len(p) <= Len(k)
                            /\ \A i \in 1..Len(p) : p[i] = k[i]
<1> USE DEF Strings
<1>1. CASE Len(p) <= Len(k)
  <2>1. SubSeq(p, 1, Len(p)) = p
    BY SubSeqFull
  <2>2. SubSeq(k, 1, Len(p)) \in Seq(Bytes) /\ Len(SubSeq(k, 1, Len(p))) = Len(p)
    BY <1>1, SubSeqProperties, LenProperties
  <2>3. \A i \in 1..Len(p) : SubSeq(k, 1, Len(p))[i] = k[i]
    BY <1>1
  <2>4. (p = SubSeq(k, 1, Len(p))) <=> \A i \in 1..Len(p) : p[i] = k[i]
    BY <2>2, <2>3, SeqEqual
  <2> QED BY <1>1, <2>1, <2>4 DEF IsPrefix
<1>2. CASE ~(Len(p) <= Len(k))
  BY <1>2 DEF IsPrefix
<1> QED BY <1>1, <1>2

\* a comes before b because of position i: they agree up to there, and a ends or
\* is smaller.
BeforeAt(a, b, i) ==
  /\ Len(a) >= i - 1
  /\ \A j \in 1..(i - 1) : a[j] = b[j]
  /\ Len(a) = i - 1 \/ a[i] < b[i]

LEMMA BeforeBytewise ==
  ASSUME NEW a \in Strings, NEW b \in Strings
  PROVE  Before(a, b) <=> \E i \in 1..Len(b) : BeforeAt(a, b, i)
<1> USE DEF Strings
<1>1. ASSUME NEW i \in 1..Len(b)
      PROVE  IsPrefix(SubSeq(b, 1, i - 1), a)
               <=> Len(a) >= i - 1 /\ \A j \in 1..(i - 1) : a[j] = b[j]
  <2>1. /\ SubSeq(b, 1, i - 1) \in Strings /\ Len(SubSeq(b, 1, i - 1)) = i - 1
        /\ \A j \in 1..(i - 1) : SubSeq(b, 1, i - 1)[j] = b[j]
    <3>0. Len(b) \in Nat /\ \A j \in 1..(i - 1) : b[j] \in Bytes
      OBVIOUS
    <3> QED BY <3>0, SubSeqProperties
  <2> QED BY <2>1, PrefixBytewise
<1> QED BY <1>1 DEF Before, BeforeAt

\* The first position at which two keys differ decides.
LEMMA FirstDifference ==
  ASSUME NEW p \in Strings, NEW k \in Strings, ~IsPrefix(p, k)
  PROVE  \E i \in 1..Len(p) :
           /\ Len(k) >= i - 1 /\ \A j \in 1..(i - 1) : k[j] = p[j]
           /\ Len(k) = i - 1 \/ (Len(k) >= i /\ k[i] # p[i])
<1> USE DEF Strings
<1> DEFINE D == {i \in 1..Len(p) : i > Len(k) \/ k[i] # p[i]}
<1>0. Len(p) \in Nat /\ Len(k) \in Nat
  OBVIOUS
<1>1. D # {} /\ D \subseteq Nat
  <2>1. CASE Len(p) <= Len(k)
    BY <2>1, PrefixBytewise
  <2>2. CASE Len(k) < Len(p)
    BY <1>0, <2>2
  <2> QED BY <1>0, <2>1, <2>2
<1>2. Min(D) \in D /\ \A y \in D : Min(D) <= y
  <2> HIDE DEF D
  <2> QED BY <1>1, LeastElement
<1>3. PICK i \in D : \A y \in D : i <= y
  BY <1>2
<1>4. \A j \in 1..(i - 1) : j \notin D /\ j \in 1..Len(p)
  BY <1>0, <1>3
<1>5. \A j \in 1..(i - 1) : j <= Len(k) /\ k[j] = p[j]
  BY <1>0, <1>4
<1>6. Len(k) >= i - 1
  <2>1. i > 1 => i - 1 \in 1..(i - 1)
    BY <1>3
  <2> QED BY <1>0, <1>3, <1>5, <2>1
<1> QED BY <1>0, <1>3, <1>5, <1>6

-----------------------------------------------------------------------------
(* The order is strict and total.                                            *)

LEMMA Irreflexive ==
  ASSUME NEW a \in Strings
  PROVE  ~Before(a, a)
<1>1. \A i \in 1..Len(a) : ~BeforeAt(a, a, i)
  BY StringFacts DEF BeforeAt
<1> QED BY <1>1, BeforeBytewise

LEMMA Transitive ==
  ASSUME NEW a \in Strings, NEW b \in Strings, NEW c \in Strings,
         Before(a, b), Before(b, c)
  PROVE  Before(a, c)
<1>5. /\ \A j \in 1..Len(a) : a[j] \in Int
      /\ \A j \in 1..Len(b) : b[j] \in Int
      /\ \A j \in 1..Len(c) : c[j] \in Int
  BY StringFacts
<1> USE DEF Strings, Bytes
<1>1. PICK i \in 1..Len(b) : BeforeAt(a, b, i)
  BY BeforeBytewise
<1>2. PICK m \in 1..Len(c) : BeforeAt(b, c, m)
  BY BeforeBytewise
<1>0. Len(a) \in Nat /\ Len(b) \in Nat /\ Len(c) \in Nat
  OBVIOUS
<1>3. CASE i < m
  <2>1. i \in 1..Len(c) /\ b[i] = c[i]
    BY <1>2, <1>3 DEF BeforeAt
  <2>2. BeforeAt(a, c, i)
    BY <1>1, <1>2, <1>3, <2>1 DEF BeforeAt
  <2> QED BY <2>1, <2>2, BeforeBytewise
<1>4. CASE m <= i
  <2>1. Len(a) >= m - 1 /\ \A j \in 1..(m - 1) : a[j] = c[j]
    BY <1>0, <1>1, <1>2, <1>4 DEF BeforeAt
  <2>2. Len(a) = m - 1 \/ a[m] < c[m]
    <3>1. Len(b) >= m
      BY <1>1, <1>4
    <3>2. b[m] < c[m]
      BY <1>0, <1>2, <3>1 DEF BeforeAt
    <3>3. CASE m < i
      <4>1. a[m] = b[m]
        BY <1>1, <1>2, <3>3 DEF BeforeAt
      <4> QED BY <3>2, <4>1
    <3>4. CASE m = i
      <4>1. CASE Len(a) = m - 1
        BY <4>1
      <4>2. CASE a[m] < b[m] /\ Len(a) >= m
        <5>1. a[m] \in Int /\ b[m] \in Int /\ c[m] \in Int
          BY <1>0, <1>5, <3>1, <4>2
        <5>2. a[m] < c[m]
          BY <3>2, <4>2, <5>1
        <5> QED BY <5>2
      <4> QED BY <1>0, <1>1, <3>4, <4>1, <4>2, <2>1 DEF BeforeAt
    <3> QED BY <1>4, <3>3, <3>4
  <2> QED BY <2>1, <2>2, BeforeBytewise DEF BeforeAt
<1> QED BY <1>3, <1>4

LEMMA Total ==
  ASSUME NEW a \in Strings, NEW b \in Strings, a # b
  PROVE  Before(a, b) \/ Before(b, a)
<1> USE DEF Strings, Bytes
<1>0. Len(a) \in Nat /\ Len(b) \in Nat
  OBVIOUS
<1>1. CASE IsPrefix(a, b)
  <2>1. Len(a) <= Len(b) /\ \A i \in 1..Len(a) : a[i] = b[i]
    BY <1>1, PrefixBytewise
  <2>2. Len(a) # Len(b)
    BY <2>1, SeqEqual
  <2>3. Len(a) + 1 \in 1..Len(b) /\ BeforeAt(a, b, Len(a) + 1)
    BY <1>0, <2>1, <2>2 DEF BeforeAt
  <2> QED BY <2>3, BeforeBytewise
<1>2. CASE ~IsPrefix(a, b)
  <2>1. PICK i \in 1..Len(a) :
           /\ Len(b) >= i - 1 /\ \A j \in 1..(i - 1) : b[j] = a[j]
           /\ Len(b) = i - 1 \/ (Len(b) >= i /\ b[i] # a[i])
    BY <1>2, FirstDifference
  <2>2. CASE Len(b) = i - 1 \/ b[i] < a[i]
    BY <2>1, <2>2, BeforeBytewise DEF BeforeAt
  <2>3. CASE Len(b) >= i /\ ~(b[i] < a[i])
    <3>1. a[i] \in Int /\ b[i] \in Int /\ i \in 1..Len(b)
      BY <1>0, <2>1, <2>3, StringFacts
    <3>2. a[i] < b[i]
      BY <1>0, <2>1, <2>3, <3>1
    <3> QED BY <1>0, <2>1, <3>1, <3>2, BeforeBytewise DEF BeforeAt
  <2> QED BY <1>0, <2>1, <2>2, <2>3
<1> QED BY <1>1, <1>2

\* Behind a key that is not behind another.
LEMMA NotBeforeBefore ==
  ASSUME NEW a \in Strings, NEW b \in Strings, NEW c \in Strings,
         ~Before(b, a), Before(b, c)
  PROVE  Before(a, c)
BY Total, Transitive

LEMMA BeforeNotBefore ==
  ASSUME NEW a \in Strings, NEW b \in Strings, NEW c \in Strings,
         Before(a, b), ~Before(c, b)
  PROVE  Before(a, c)
BY Total, Transitive

LEMMA NotBeforeNotBefore ==
  ASSUME NEW a \in Strings, NEW b \in Strings, NEW c \in Strings,
         ~Before(b, a), ~Before(c, b)
  PROVE  ~Before(c, a)
BY Total, Transitive, Irreflexive

-----------------------------------------------------------------------------
(* Ranges.                                                                   *)

\* The next page starts right behind the last key.
LEMMA SuccessorIsNext ==
  ASSUME NEW k \in Strings, NEW j \in Strings
  PROVE  Successor(k) \in Strings /\ (Before(j, Successor(k)) <=> ~Before(k, j))
<1> USE DEF Strings, Bytes
<1>0. Len(k) \in Nat /\ Len(j) \in Nat /\ 0 \in 0..Top
  BY KeyRangeAssumption
<1>1. /\ Successor(k) \in Seq(0..Top) /\ Len(Successor(k)) = Len(k) + 1
      /\ \A i \in 1..Len(k) : Successor(k)[i] = k[i]
      /\ Successor(k)[Len(k) + 1] = 0
  BY <1>0, AppendProperties DEF Successor
<1>2. Before(k, Successor(k))
  <2>1. BeforeAt(k, Successor(k), Len(k) + 1) /\ Len(k) + 1 \in 1..Len(Successor(k))
    BY <1>0, <1>1 DEF BeforeAt
  <2> QED BY <1>1, <2>1, BeforeBytewise
<1>3. ~Before(k, j) => Before(j, Successor(k))
  BY <1>1, <1>2, NotBeforeBefore
<1>4. ASSUME Before(j, Successor(k)), Before(k, j)
      PROVE  FALSE
  <2>1. PICK i \in 1..Len(Successor(k)) : BeforeAt(j, Successor(k), i)
    BY <1>1, <1>4, BeforeBytewise
  <2>2. PICK m \in 1..Len(j) : BeforeAt(k, j, m)
    BY <1>4, BeforeBytewise
  <2>3. CASE i <= Len(k)
    <3>1. BeforeAt(j, k, i)
      BY <1>0, <1>1, <2>1, <2>3 DEF BeforeAt
    <3>2. Before(j, k)
      BY <1>0, <2>3, <3>1, BeforeBytewise
    <3> QED BY <1>4, <3>2, Transitive, Irreflexive
  <2>4. CASE i = Len(k) + 1
    <3>1. \A l \in 1..Len(k) : j[l] = k[l]
      BY <1>0, <1>1, <2>1, <2>4 DEF BeforeAt
    <3>2. Len(j) = Len(k)
      <4>1. CASE Len(j) >= Len(k) + 1
        <5>1. j[Len(k) + 1] \in Int /\ 0 <= j[Len(k) + 1]
          BY <1>0, <4>1, StringFacts
        <5>2. j[Len(k) + 1] < 0
          BY <1>0, <1>1, <2>1, <2>4, <4>1 DEF BeforeAt
        <5> QED BY <5>1, <5>2
      <4> QED BY <1>0, <2>1, <2>4, <4>1 DEF BeforeAt
    <3>3. j = k
      BY <3>1, <3>2, SeqEqual
    <3> QED BY <1>4, <3>3, Irreflexive
  <2> QED BY <1>0, <1>1, <2>1, <2>3, <2>4
<1> QED BY <1>1, <1>3, <1>4

\* A key under a prefix is not before it.
LEMMA PrefixIsFirst ==
  ASSUME NEW p \in Strings, NEW k \in Strings, IsPrefix(p, k)
  PROVE  ~Before(k, p)
<1> USE DEF Strings, Bytes
<1>1. Len(p) <= Len(k) /\ \A i \in 1..Len(p) : p[i] = k[i]
  BY PrefixBytewise
<1>2. SUFFICES ASSUME NEW i \in 1..Len(p), BeforeAt(k, p, i)
               PROVE  FALSE
  BY BeforeBytewise
<1>3. Len(k) # i - 1 /\ p[i] \in Int /\ k[i] = p[i]
  BY <1>1, <1>2, StringFacts
<1> QED BY <1>2, <1>3 DEF BeforeAt

\* prefixEnd: the keys from a prefix up to its end are those under the prefix
\* ("the smallest byte string strictly greater than every key with the given
\* prefix", read.go:231), a prefix of 0xff bytes and the empty one included.
THEOREM PrefixRange ==
  ASSUME NEW p \in Strings, NEW k \in Strings
  PROVE  InRange(k, p, PrefixEnd(p)) <=> IsPrefix(p, k)
<1> DEFINE raisable == {i \in DOMAIN p : p[i] < Top}
<1>0. /\ Top \in Int /\ Len(p) \in Nat /\ Len(k) \in Nat /\ DOMAIN p = 1..Len(p)
      /\ \A i \in 1..Len(p) : p[i] \in Int /\ 0 <= p[i] /\ p[i] <= Top
      /\ \A i \in 1..Len(k) : k[i] \in Int /\ 0 <= k[i] /\ k[i] <= Top
  BY StringFacts
<1>1. CASE raisable = {}
  <2>1. PrefixEnd(p) = NoEnd
    BY <1>1 DEF PrefixEnd
  <2>2. \A i \in 1..Len(p) : p[i] = Top
    BY <1>0, <1>1
  <2>3. ASSUME ~IsPrefix(p, k)
        PROVE  Before(k, p)
    <3>1. PICK i \in 1..Len(p) :
            /\ Len(k) >= i - 1 /\ \A j \in 1..(i - 1) : k[j] = p[j]
            /\ Len(k) = i - 1 \/ (Len(k) >= i /\ k[i] # p[i])
      BY <2>3, FirstDifference
    <3>2. Len(k) >= i /\ k[i] # p[i] => k[i] < p[i]
      BY <1>0, <2>2, <3>1
    <3>3. BeforeAt(k, p, i)
      BY <3>1, <3>2 DEF BeforeAt
    <3> QED BY <3>3, BeforeBytewise
  <2> QED BY <2>1, <2>3, PrefixIsFirst DEF InRange
<1>2. CASE raisable # {}
  <2> DEFINE m == Max(raisable)
             e == PrefixEnd(p)
  <2>1. m \in raisable /\ \A i \in raisable : m >= i
    <3>1. raisable \subseteq 0..Len(p)
      BY <1>0
    <3> HIDE DEF raisable
    <3> QED BY <1>0, <1>2, <3>1, GreatestElement
  <2> HIDE DEF m
  <2>2. m \in 1..Len(p) /\ p[m] < Top /\ \A i \in 1..Len(p) : i > m => ~(p[i] < Top)
    BY <1>0, <2>1
  <2>3. e = Raised(p, m)
    BY <1>2 DEF PrefixEnd, m
  <2> HIDE DEF e
  <2>4. /\ e \in Strings /\ Len(e) = m
        /\ \A i \in 1..(m - 1) : e[i] = p[i]
        /\ e[m] = p[m] + 1
    <3>1. /\ SubSeq(p, 1, m) \in Strings /\ Len(SubSeq(p, 1, m)) = m
          /\ \A i \in 1..m : SubSeq(p, 1, m)[i] = p[i]
      BY <1>0, <2>2, SubSeqProperties DEF Strings
    <3>2. p[m] + 1 \in Bytes
      BY <1>0, <2>2 DEF Bytes
    <3>3. e = [SubSeq(p, 1, m) EXCEPT ![m] = p[m] + 1]
      BY <2>2, <2>3, <3>1 DEF Raised
    <3>4. e \in Strings /\ Len(e) = m
      BY <2>2, <3>1, <3>2, <3>3, ExceptSeq DEF Strings
    <3>5. \A i \in 1..m : e[i] = IF i = m THEN p[m] + 1 ELSE p[i]
      <4>1. DOMAIN SubSeq(p, 1, m) = 1..m
        BY <3>1, StringFacts
      <4> QED BY <3>1, <3>3, <4>1
    <3> QED BY <1>0, <2>2, <3>4, <3>5
  <2>5. e # NoEnd
    <3>1. e = NoEnd => e[m] = 0 /\ m = 1
      BY <2>4 DEF NoEnd
    <3> QED BY <1>0, <2>2, <2>4, <3>1
  <2>6. InRange(k, p, e) <=> ~Before(k, p) /\ Before(k, e)
    BY <2>5 DEF InRange
  <2>7. ASSUME IsPrefix(p, k)
        PROVE  Before(k, e)
    <3>1. Len(p) <= Len(k) /\ \A i \in 1..Len(p) : p[i] = k[i]
      BY <2>7, PrefixBytewise
    <3>2. BeforeAt(k, e, m)
      BY <1>0, <2>2, <2>4, <3>1 DEF BeforeAt
    <3> QED BY <2>2, <2>4, <3>2, BeforeBytewise
  <2>8. ASSUME ~Before(k, p), Before(k, e), ~IsPrefix(p, k)
        PROVE  FALSE
    <3>1. PICK i \in 1..Len(p) :
            /\ Len(k) >= i - 1 /\ \A j \in 1..(i - 1) : k[j] = p[j]
            /\ Len(k) = i - 1 \/ (Len(k) >= i /\ k[i] # p[i])
      BY <2>8, FirstDifference
    <3>2. ~BeforeAt(k, p, i)
      BY <2>8, BeforeBytewise
    <3>3. Len(k) >= i /\ k[i] > p[i]
      BY <1>0, <3>1, <3>2 DEF BeforeAt
    <3>4. i <= m
      BY <1>0, <2>2, <3>3
    <3>5. PICK w \in 1..Len(e) : BeforeAt(k, e, w)
      BY <2>4, <2>8, BeforeBytewise
    <3>6. CASE w < i
      BY <1>0, <2>4, <3>1, <3>3, <3>4, <3>5, <3>6 DEF BeforeAt
    <3>7. CASE w = i
      <4>1. k[i] < e[i]
        BY <3>3, <3>5, <3>7 DEF BeforeAt
      <4>2. CASE i < m
        BY <1>0, <2>4, <3>3, <4>1, <4>2
      <4>3. CASE i = m
        BY <1>0, <2>4, <3>3, <4>1, <4>3
      <4> QED BY <1>0, <2>2, <3>4, <4>2, <4>3
    <3>8. CASE w > i
      <4>1. k[i] = e[i]
        BY <3>5, <3>8 DEF BeforeAt
      <4>2. e[i] = p[i]
        BY <2>4, <3>5, <3>8
      <4> QED BY <1>0, <3>3, <4>1, <4>2
    <3> QED BY <3>5, <3>6, <3>7, <3>8
  <2> QED BY <2>6, <2>7, <2>8, PrefixIsFirst DEF e
<1> QED BY <1>1, <1>2

\* What a page that starts behind the prefix is about.
LEMMA PageRange ==
  ASSUME NEW p \in Strings, NEW start \in Strings, ~Before(start, p), NEW k \in Strings
  PROVE  InRange(k, start, PrefixEnd(p)) <=> IsPrefix(p, k) /\ ~Before(k, start)
<1>1. ~Before(k, start) => ~Before(k, p)
  BY NotBeforeNotBefore
<1> QED BY <1>1, PrefixRange DEF InRange

-----------------------------------------------------------------------------
(* Finite sets of keys have a last and a first one.                          *)

LEMMA LastKey ==
  ASSUME NEW S, S \subseteq Strings, IsFiniteSet(S), S # {}
  PROVE  \E k \in S : \A j \in S : ~Before(k, j)
<1> DEFINE Above(k) == {j \in S : Before(k, j)}
           T == {Above(k) : k \in S}
<1>1. T \subseteq FiniteSubsetsOf(S) /\ T # {}
  <2>1. \A k \in S : Above(k) \subseteq S /\ IsFiniteSet(Above(k))
    BY FS_Subset
  <2> QED BY <2>1 DEF FiniteSubsetsOf
<1>2. PICK t \in T : \A u \in T : ~(<<u, t>> \in StrictSubsetOrdering(S))
  <2> HIDE DEF T
  <2> QED BY <1>1, FS_StrictSubsetOrderingWellFounded, WFMin
<1>3. PICK k \in S : t = Above(k)
  BY <1>2
<1>4. ASSUME NEW j \in S, Before(k, j)
      PROVE  FALSE
  <2>1. j \in Above(k) /\ j \notin Above(j)
    BY <1>4, Irreflexive
  <2>2. Above(j) \subseteq Above(k)
    BY <1>4, Transitive
  <2>3. <<Above(j), Above(k)>> \in StrictSubsetOrdering(S)
    BY <2>1, <2>2 DEF StrictSubsetOrdering
  <2> QED BY <1>2, <1>3, <2>3
<1> QED BY <1>4

LEMMA FirstKey ==
  ASSUME NEW S, S \subseteq Strings, IsFiniteSet(S), S # {}
  PROVE  \E k \in S : \A j \in S : ~Before(j, k)
<1> DEFINE Below(k) == {j \in S : Before(j, k)}
           T == {Below(k) : k \in S}
<1>1. T \subseteq FiniteSubsetsOf(S) /\ T # {}
  <2>1. \A k \in S : Below(k) \subseteq S /\ IsFiniteSet(Below(k))
    BY FS_Subset
  <2> QED BY <2>1 DEF FiniteSubsetsOf
<1>2. PICK t \in T : \A u \in T : ~(<<u, t>> \in StrictSubsetOrdering(S))
  <2> HIDE DEF T
  <2> QED BY <1>1, FS_StrictSubsetOrderingWellFounded, WFMin
<1>3. PICK k \in S : t = Below(k)
  BY <1>2
<1>4. ASSUME NEW j \in S, Before(j, k)
      PROVE  FALSE
  <2>1. j \in Below(k) /\ j \notin Below(j)
    BY <1>4, Irreflexive
  <2>2. Below(j) \subseteq Below(k)
    BY <1>4, Transitive
  <2>3. <<Below(j), Below(k)>> \in StrictSubsetOrdering(S)
    BY <2>1, <2>2 DEF StrictSubsetOrdering
  <2> QED BY <1>2, <1>3, <2>3
<1> QED BY <1>4
=============================================================================
