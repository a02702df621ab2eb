---------------------------- MODULE Backoff_proofs ----------------------------
(* The arithmetic of the backoff, for any width of a duration.  The shift     *)
(* multiplies with a power of two, and so does the wrap-around: what is left  *)
(* of a product that has overflowed is not positive, or still has all the     *)
(* factors of two that were shifted in, and then it is above the maximum.     *)
EXTENDS Backoff, KeyRange_proofs

-----------------------------------------------------------------------------
(* Powers of two.                                                            *)

\* A set of numbers that has 0, and with every number the next, has all.
LEMMA AllNumbers ==
  ASSUME NEW S, S \subseteq Nat, 0 \in S, \A n \in S : n + 1 \in S
  PROVE  S = Nat
<1> SUFFICES ASSUME Nat \ S # {}
             PROVE  FALSE
  OBVIOUS
<1> DEFINE m == Min(Nat \ S)
<1>1. m \in Nat \ S /\ \A y \in Nat \ S : m <= y
  BY LeastElement
<1> HIDE DEF m
<1>2. m - 1 \in Nat /\ m - 1 \notin Nat \ S
  BY <1>1
<1> QED BY <1>1, <1>2

\* The recursion has a solution: tables of any length agree and make up one.
LEMMA PowerRecursion ==
  PowerOfTwo = [n \in Nat |-> IF n = 0 THEN 1 ELSE 2 * PowerOfTwo[n - 1]]
<1> DEFINE Entry(g, i) == IF i = 0 THEN 1 ELSE 2 * g[i - 1]
           Table(n) == {g \in [0..n -> Nat] : \A i \in 0..n : g[i] = Entry(g, i)}
           Filled == {n \in Nat : Table(n) # {}}
           Pick(n) == CHOOSE g \in Table(n) : TRUE
           f == [n \in Nat |-> Pick(n)[n]]
<1>1. Filled = Nat
  <2>1. 0 \in Filled
    <3>1. [i \in 0..0 |-> 1] \in Table(0)
      OBVIOUS
    <3> QED BY <3>1
  <2>2. ASSUME NEW n \in Filled
        PROVE  n + 1 \in Filled
    <3>1. PICK g \in Table(n) : TRUE
      BY <2>2
    <3> DEFINE h == [i \in 0..(n + 1) |-> IF i = n + 1 THEN 2 * g[n] ELSE g[i]]
    <3>2. n \in Nat /\ n \in 0..n /\ g \in [0..n -> Nat] /\ g[n] \in Nat
      BY <2>2, <3>1
    <3>3. h \in [0..(n + 1) -> Nat]
      BY <3>2
    <3>4. ASSUME NEW i \in 0..(n + 1)
          PROVE  h[i] = Entry(h, i)
      <4>1. CASE i = n + 1
        BY <3>2, <4>1
      <4>2. CASE i # n + 1
        <5>1. i \in 0..n /\ g[i] = Entry(g, i) /\ h[i] = g[i]
          BY <3>1, <3>2, <4>2
        <5>2. i # 0 => i - 1 \in 0..(n + 1) /\ h[i - 1] = g[i - 1]
          BY <3>2, <5>1
        <5> QED BY <5>1, <5>2
      <4> QED BY <4>1, <4>2
    <3>5. h \in Table(n + 1)
      BY <3>3, <3>4
    <3> HIDE DEF Table, h
    <3> QED BY <3>2, <3>5
  <2> HIDE DEF Filled
  <2>3. Filled \subseteq Nat
    BY DEF Filled
  <2> QED BY <2>1, <2>2, <2>3, AllNumbers
<1>2. ASSUME NEW m \in Nat, NEW n \in Nat, NEW g \in Table(m), NEW h \in Table(n)
      PROVE  \A i \in Nat : i <= m /\ i <= n => g[i] = h[i]
  <2> DEFINE Same == {i \in Nat : i <= m /\ i <= n => g[i] = h[i]}
  <2>1. 0 \in Same
    <3>1. 0 \in 0..m /\ 0 \in 0..n
      OBVIOUS
    <3>2. g[0] = 1 /\ h[0] = 1
      BY <3>1
    <3> QED BY <3>2
  <2>2. ASSUME NEW i \in Same
        PROVE  i + 1 \in Same
    <3>1. CASE i + 1 <= m /\ i + 1 <= n
      <4>1. i + 1 \in 0..m /\ i + 1 \in 0..n /\ i + 1 # 0 /\ (i + 1) - 1 = i
        BY <2>2, <3>1
      <4>2. g[i + 1] = 2 * g[i] /\ h[i + 1] = 2 * h[i]
        BY <4>1
      <4> QED BY <3>1, <4>2
    <3> QED BY <3>1
  <2> HIDE DEF Same
  <2>3. Same \subseteq Nat
    BY DEF Same
  <2>4. Same = Nat
    BY <2>1, <2>2, <2>3, AllNumbers
  <2> QED BY <2>4 DEF Same
<1>3. ASSUME NEW n \in Nat
      PROVE  Pick(n)[n] = IF n = 0 THEN 1 ELSE 2 * f[n - 1]
  <2>1. \A k \in Nat : Pick(k) \in Table(k)
    BY <1>1
  <2> HIDE DEF Pick
  <2>2. n \in 0..n /\ Pick(n) \in Table(n)
    BY <2>1
  <2>3. Pick(n)[n] = Entry(Pick(n), n)
    BY <2>2
  <2>4. CASE n # 0
    <3>1. n - 1 \in Nat /\ n - 1 <= n
      BY <2>4
    <3>2. Pick(n - 1) \in Table(n - 1) /\ f[n - 1] = Pick(n - 1)[n - 1]
      BY <2>1, <3>1
    <3> HIDE DEF Table
    <3>3. Pick(n)[n - 1] = Pick(n - 1)[n - 1]
      BY <1>2, <2>2, <3>1, <3>2
    <3> QED BY <2>3, <2>4, <3>2, <3>3
  <2> QED BY <2>3, <2>4
<1>4. f = [n \in Nat |-> IF n = 0 THEN 1 ELSE 2 * f[n - 1]]
  <2> HIDE DEF Pick
  <2> QED BY <1>3
<1> HIDE DEF f
<1> QED BY <1>4 DEF PowerOfTwo

LEMMA PowerFacts ==
  /\ PowerOfTwo[0] = 1
  /\ \A n \in Nat : PowerOfTwo[n + 1] = 2 * PowerOfTwo[n]
  /\ \A n \in Nat : PowerOfTwo[n] \in Nat \ {0}
<1>1. PowerOfTwo[0] = 1
  BY PowerRecursion
<1>2. \A n \in Nat : PowerOfTwo[n + 1] = 2 * PowerOfTwo[n]
  BY PowerRecursion
<1> DEFINE S == {n \in Nat : PowerOfTwo[n] \in Nat \ {0}}
<1>3. 0 \in S
  BY <1>1
<1>4. \A n \in S : n + 1 \in S
  BY <1>2
<1> HIDE DEF S
<1>5. S \subseteq Nat
  BY DEF S
<1>6. S = Nat
  BY <1>3, <1>4, <1>5, AllNumbers
<1> QED BY <1>1, <1>2, <1>6 DEF S

LEMMA Distribute ==
  ASSUME NEW a \in Int, NEW b \in Int, NEW c \in Int
  PROVE  /\ a * (b + c) = a * b + a * c /\ a * (b - c) = a * b - a * c
         /\ a * (b * c) = (a * b) * c /\ a * b = b * a
         /\ a * b \in Int
OBVIOUS

\* Shifting twice is shifting by the sum.
LEMMA PowerSum ==
  ASSUME NEW m \in Nat, NEW n \in Nat
  PROVE  PowerOfTwo[m + n] = PowerOfTwo[m] * PowerOfTwo[n]
<1> DEFINE S == {i \in Nat : PowerOfTwo[m + i] = PowerOfTwo[m] * PowerOfTwo[i]}
<1>1. 0 \in S
  BY PowerFacts
<1>2. ASSUME NEW i \in S
      PROVE  i + 1 \in S
  <2>1. m + i \in Nat /\ m + (i + 1) = (m + i) + 1
    OBVIOUS
  <2>2. PowerOfTwo[m + (i + 1)] = 2 * (PowerOfTwo[m] * PowerOfTwo[i])
    BY <2>1, PowerFacts
  <2>3. PowerOfTwo[i + 1] = 2 * PowerOfTwo[i]
    BY PowerFacts
  <2>4. PowerOfTwo[m] \in Int /\ PowerOfTwo[i] \in Int
    BY PowerFacts
  <2>5. PowerOfTwo[m] * (2 * PowerOfTwo[i]) = 2 * (PowerOfTwo[m] * PowerOfTwo[i])
    BY <2>4, Distribute
  <2> QED BY <2>2, <2>3, <2>5
<1> HIDE DEF S
<1>3. S \subseteq Nat
  BY DEF S
<1>4. S = Nat
  BY <1>1, <1>2, <1>3, AllNumbers
<1> QED BY <1>4 DEF S

-----------------------------------------------------------------------------
(* The arithmetic of durations.                                              *)

\* A duration wraps into its range, and stays what it is if it is there already.
LEMMA WrapRange ==
  ASSUME NEW n \in Int
  PROVE  /\ Wrap(n) \in (-Half)..(Half - 1)
         /\ n \in (-Half)..(Half - 1) => Wrap(n) = n
<1>1. Half \in Nat \ {0} /\ 2 * Half \in Nat \ {0}
  BY BackoffAssumption
<1>2. (n + Half) % (2 * Half) \in 0..(2 * Half - 1)
  BY <1>1
<1>3. n \in (-Half)..(Half - 1) => (n + Half) % (2 * Half) = n + Half
  BY <1>1
<1> QED BY <1>1, <1>2, <1>3 DEF Wrap

\* The ceiling is a duration, and not above the maximum.
LEMMA CeilingRange ==
  ASSUME NEW n \in Nat \ {0},
         {reconnectMin, reconnectMax} \subseteq (-Half)..(Half - 1)
  PROVE  Ceiling(n) \in (-Half)..(Half - 1) /\ Ceiling(n) <= reconnectMax
<1>1. Half \in Nat \ {0} /\ reconnectMin \in Int /\ reconnectMax \in Int
  BY BackoffAssumption
<1>2. PowerOfTwo[n - 1] \in Int
  BY PowerFacts
<1>3. reconnectMin * PowerOfTwo[n - 1] \in Int
  BY <1>1, <1>2
<1>4. Shifted(n) \in (-Half)..(Half - 1)
  BY <1>3, WrapRange DEF Shifted
<1> QED BY <1>1, <1>4 DEF Ceiling

\* A sleep keeps the types and the bounds.
LEMMA SleepInBounds ==
  ASSUME Sleep, {reconnectMin, reconnectMax} \subseteq (-Half)..(Half - 1),
         delay \in (-Half)..(Half - 1), attempt \in 0..MaxAttempts,
         panicked \in BOOLEAN
  PROVE  /\ DelayInBounds'
         /\ delay' \in (-Half)..(Half - 1) /\ attempt' \in 0..MaxAttempts
         /\ panicked' \in BOOLEAN
<1>1. /\ Half \in Nat \ {0} /\ MaxAttempts \in Nat /\ attempt' \in Nat \ {0}
      /\ attempt' \in 0..MaxAttempts /\ ~panicked
      /\ reconnectMin \in Int /\ reconnectMax \in Int
      /\ reconnectMin' = reconnectMin /\ reconnectMax' = reconnectMax
  BY BackoffAssumption DEF Sleep, boundVars
<1> DEFINE c == Ceiling(attempt')
<1>2. c \in (-Half)..(Half - 1) /\ c <= reconnectMax
  BY <1>1, CeilingRange
<1> HIDE DEF c
<1>3. CASE c <= reconnectMin /\ delay' = reconnectMin /\ panicked' = panicked
  BY <1>1, <1>2, <1>3 DEF DelayInBounds
<1>4. CASE /\ c > reconnectMin /\ DrawFrom(attempt') > 0 /\ panicked' = panicked
           /\ delay' \in {Wrap(reconnectMin + n) : n \in 0..(DrawFrom(attempt') - 1)}
  <2>1. PICK n \in 0..(DrawFrom(attempt') - 1) : delay' = Wrap(reconnectMin + n)
    BY <1>4
  <2>2. DrawFrom(attempt') \in Int
    <3>1. Wrap(c - reconnectMin) \in Int
      BY <1>1, <1>2, WrapRange
    <3> QED BY <3>1, WrapRange DEF DrawFrom, c
  <2>3. n \in Int /\ n >= 0
    BY <2>2
  <2>4. delay' \in (-Half)..(Half - 1)
    BY <1>1, <2>1, <2>3, WrapRange
  <2>5. ASSUME reconnectMin > 0
        PROVE  reconnectMin <= delay' /\ delay' <= reconnectMax
    <3>1. c - reconnectMin \in (-Half)..(Half - 1) /\ c - reconnectMin + 1 \in (-Half)..(Half - 1)
      BY <1>1, <1>2, <1>4, <2>5
    <3>2. DrawFrom(attempt') = c - reconnectMin + 1
      BY <3>1, WrapRange DEF DrawFrom, c
    <3>3. reconnectMin + n <= c /\ reconnectMin + n \in (-Half)..(Half - 1)
      BY <1>1, <1>2, <2>3, <2>5, <3>2
    <3> QED BY <1>1, <1>2, <2>1, <2>3, <3>3, WrapRange
  <2> QED BY <1>1, <1>4, <2>4, <2>5 DEF DelayInBounds
<1>5. CASE c > reconnectMin /\ DrawFrom(attempt') <= 0 /\ panicked' = TRUE /\ delay' = delay
  <2>1. ASSUME reconnectMin > 0
        PROVE  FALSE
    <3>1. c - reconnectMin \in (-Half)..(Half - 1) /\ c - reconnectMin + 1 \in (-Half)..(Half - 1)
      BY <1>1, <1>2, <1>5, <2>1
    <3>2. DrawFrom(attempt') = c - reconnectMin + 1
      BY <3>1, WrapRange DEF DrawFrom, c
    <3> QED BY <1>1, <1>2, <1>5, <3>2
  <2> QED BY <1>1, <1>5, <2>1 DEF DelayInBounds
<1> QED BY <1>3, <1>4, <1>5 DEF Sleep, c

-----------------------------------------------------------------------------
(* An overflow shows.                                                        *)

LEMMA PositiveMultiple ==
  ASSUME NEW a \in Nat \ {0}, NEW c \in Int, a * c > 0
  PROVE  c >= 1 /\ a * c >= a
<1>1. c >= 1
  <2> SUFFICES ASSUME c <= 0
               PROVE  FALSE
    OBVIOUS
  <2> QED OBVIOUS
<1>2. a * (c - 1) >= 0
  BY <1>1
<1>3. a * (c - 1) = a * c - a * 1
  BY Distribute
<1> QED BY <1>1, <1>2, <1>3

LEMMA SmallerFactor ==
  ASSUME NEW c \in Nat, NEW x \in Int, NEW y \in Int, c * x < c * y
  PROVE  x < y
<1> SUFFICES ASSUME x >= y
             PROVE  FALSE
  OBVIOUS
<1>1. c * (x - y) >= 0
  OBVIOUS
<1>2. c * (x - y) = c * x - c * y
  BY Distribute
<1>3. c * x \in Int /\ c * y \in Int
  OBVIOUS
<1> QED BY <1>1, <1>2, <1>3

\* Wrapping takes away a multiple of the width.
LEMMA WrapResidue ==
  ASSUME NEW n \in Int
  PROVE  \E q \in Int : Wrap(n) = n - (2 * Half) * q
<1> DEFINE w == 2 * Half
           q == (n + Half) \div w
<1>1. Half \in Nat \ {0} /\ w \in Nat \ {0}
  BY BackoffAssumption
<1> HIDE DEF w
<1>2. n + Half = w * q + ((n + Half) % w)
  BY <1>1
<1>3. q \in Int /\ (n + Half) % w \in Int /\ w * q \in Int
  BY <1>1
<1>4. Wrap(n) = n - w * q
  <2>1. Wrap(n) = ((n + Half) % w) - Half
    BY DEF Wrap, w
  <2> HIDE DEF q
  <2> QED BY <1>1, <1>2, <1>3, <2>1
<1> QED BY <1>3, <1>4 DEF w

\* A product of a small number and a power of two that overflows is not positive
\* any more, or above everything the small number may be multiplied with.
LEMMA OverflowIsSeen ==
  ASSUME NEW odd \in Nat \ {0}, NEW k \in Nat, NEW max \in Nat,
         max < Half, odd * max < 2 * Half, odd * PowerOfTwo[k] >= Half,
         Wrap(odd * PowerOfTwo[k]) > 0
  PROVE  Wrap(odd * PowerOfTwo[k]) > max
<1>1. PICK h \in Nat : Half = PowerOfTwo[h]
  BY BackoffAssumption
<1> DEFINE a == PowerOfTwo[k]
           s == odd * a
           w == 2 * Half
<1>2. /\ Half \in Nat \ {0} /\ w \in Nat \ {0} /\ w = PowerOfTwo[h + 1]
      /\ a \in Nat \ {0} /\ s \in Int
  <2>1. Half \in Nat \ {0}
    BY BackoffAssumption
  <2>2. PowerOfTwo[h + 1] = 2 * Half
    BY <1>1, PowerFacts
  <2>3. a \in Nat \ {0}
    BY PowerFacts
  <2> HIDE DEF a
  <2> QED BY <2>1, <2>2, <2>3
<1>3. PICK q \in Int : Wrap(s) = s - w * q
  BY <1>2, WrapResidue
<1>4. Wrap(s) \in (-Half)..(Half - 1)
  BY <1>2, WrapRange
<1>5. w * q \in Int /\ w = Half + Half /\ s >= Half /\ odd * max < w /\ Wrap(s) > 0
  BY <1>2
<1> HIDE DEF w, s, a
<1>6. CASE s < w
  <2>1. w * q > 0
    BY <1>2, <1>3, <1>4, <1>5
  <2>2. w * q >= w
    BY <1>2, <2>1, PositiveMultiple
  <2> QED BY <1>2, <1>3, <1>5, <1>6, <2>2
<1>7. CASE s >= w
  <2>1. max < a
    <3>1. odd * max < odd * a
      <4>1. odd * max \in Int /\ odd * a \in Int
        BY <1>2
      <4> QED BY <1>2, <1>5, <1>7, <4>1 DEF s
    <3> QED BY <1>2, <3>1, SmallerFactor
  <2>2. CASE k >= h + 1
    <3> DEFINE d == PowerOfTwo[k - (h + 1)]
    <3>1. k - (h + 1) \in Nat /\ (h + 1) + (k - (h + 1)) = k /\ h + 1 \in Nat
      BY <2>2
    <3>2. a = w * d /\ d \in Int
      <4>1. d \in Int
        BY <3>1, PowerFacts
      <4>2. PowerOfTwo[(h + 1) + (k - (h + 1))] = PowerOfTwo[h + 1] * d
        BY <3>1, PowerSum
      <4> QED BY <1>2, <3>1, <4>1, <4>2 DEF a
    <3> HIDE DEF d
    <3>3. s = w * (odd * d) /\ odd * d \in Int
      <4>1. odd * (w * d) = (odd * w) * d /\ odd * w = w * odd /\ (w * odd) * d = w * (odd * d)
        BY <1>2, <3>2, Distribute
      <4> QED BY <3>2, <4>1 DEF s
    <3>4. Wrap(s) = w * (odd * d - q)
      BY <1>2, <1>3, <3>3, Distribute
    <3>5. Wrap(s) >= w
      BY <1>2, <1>5, <3>3, <3>4, PositiveMultiple
    <3> QED BY <1>2, <1>4, <1>5, <3>5
  <2>3. CASE k < h + 1
    <3> DEFINE b == PowerOfTwo[(h + 1) - k]
    <3>1. (h + 1) - k \in Nat /\ k + ((h + 1) - k) = h + 1
      BY <2>3
    <3>2. w = a * b /\ b \in Int
      <4>1. b \in Int
        BY <3>1, PowerFacts
      <4>2. PowerOfTwo[k + ((h + 1) - k)] = PowerOfTwo[k] * b
        BY <3>1, PowerSum
      <4> QED BY <1>2, <3>1, <4>1, <4>2 DEF a
    <3> HIDE DEF b
    <3>3. w * q = a * (b * q) /\ b * q \in Int /\ s = a * odd
      BY <1>2, <3>2, Distribute DEF s
    <3>4. Wrap(s) = a * (odd - b * q)
      BY <1>2, <1>3, <3>3, Distribute
    <3>5. Wrap(s) >= a
      BY <1>2, <1>5, <3>3, <3>4, PositiveMultiple
    <3> QED BY <1>2, <1>4, <2>1, <3>5 DEF s, a
  <2> QED BY <2>2, <2>3
<1> QED BY <1>2, <1>5, <1>6, <1>7

\* The ceiling is the power of two times min, up to the maximum.
LEMMA CeilingIsExact ==
  ASSUME {reconnectMin, reconnectMax} \subseteq (-Half)..(Half - 1), attempt \in Nat
  PROVE  CeilingDoubles
<1> SUFFICES ASSUME attempt > 0, 0 < reconnectMin, reconnectMin <= reconnectMax,
                    OverflowShows
             PROVE  Ceiling(attempt) =
                      LET exp == reconnectMin * PowerOfTwo[attempt - 1]
                      IN IF exp > reconnectMax THEN reconnectMax ELSE exp
  BY DEF CeilingDoubles
<1>1. PICK i \in 0..reconnectMin : \E odd \in 1..reconnectMin :
        reconnectMin = odd * PowerOfTwo[i] /\ odd * reconnectMax < 2 * Half
  BY DEF OverflowShows
<1>2. PICK odd \in 1..reconnectMin :
        reconnectMin = odd * PowerOfTwo[i] /\ odd * reconnectMax < 2 * Half
  BY <1>1
<1>3. /\ Half \in Nat \ {0} /\ reconnectMin \in Nat \ {0} /\ reconnectMax \in Nat
      /\ reconnectMax < Half /\ odd \in Nat \ {0} /\ i \in Nat /\ attempt - 1 \in Nat
  BY <1>1, <1>2, BackoffAssumption
<1> DEFINE k == i + (attempt - 1)
           exp == reconnectMin * PowerOfTwo[attempt - 1]
<1>4. k \in Nat /\ PowerOfTwo[k] = PowerOfTwo[i] * PowerOfTwo[attempt - 1]
  BY <1>3, PowerSum
<1>5. /\ PowerOfTwo[i] \in Nat \ {0} /\ PowerOfTwo[attempt - 1] \in Nat \ {0}
      /\ PowerOfTwo[k] \in Nat \ {0}
  BY <1>3, <1>4, PowerFacts
<1>6. exp = odd * PowerOfTwo[k] /\ exp \in Int
  BY <1>2, <1>3, <1>4, <1>5, Distribute
<1>7. exp > 0
  BY <1>3, <1>5
<1>8. Shifted(attempt) = Wrap(exp) /\ Wrap(exp) \in Int
  BY <1>6, WrapRange DEF Shifted
<1> HIDE DEF k, exp
<1>9. CASE exp < Half
  <2>1. Wrap(exp) = exp
    BY <1>3, <1>6, <1>7, <1>9, WrapRange
  <2> QED BY <1>7, <1>8, <2>1 DEF Ceiling, exp
<1>10. CASE exp >= Half
  <2>1. Wrap(exp) > 0 => Wrap(exp) > reconnectMax
    BY <1>2, <1>3, <1>4, <1>6, <1>10, OverflowIsSeen
  <2>2. Ceiling(attempt) = reconnectMax
    BY <1>3, <1>8, <2>1 DEF Ceiling
  <2>3. exp > reconnectMax
    BY <1>3, <1>6, <1>10
  <2> QED BY <2>2, <2>3 DEF exp
<1> QED BY <1>3, <1>6, <1>9, <1>10
=============================================================================
