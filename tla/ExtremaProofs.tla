---------------------------- MODULE ExtremaProofs ----------------------------
(***************************************************************************)
(* What detectExtrema returns, for every series of candles, of any length, *)
(* and all three methods.                                                  *)
(***************************************************************************)
EXTENDS Extrema, FiniteSetTheorems, SequenceTheorems, TLAPS

(* Induction, as a fact about sets.                                        *)
LEMMA Induction ==
  ASSUME NEW S, 0 \in S, \A n \in Nat : n \in S => n + 1 \in S
  PROVE  Nat \subseteq S
<1> SUFFICES ASSUME ~(Nat \subseteq S) PROVE FALSE
  OBVIOUS
<1> DEFINE Bad == Nat \ S
<1>1. PICK n \in Bad : \A m \in Bad : ~(<<m, n>> \in OpToRel(<, Nat))
  <2>1. Bad \subseteq Nat /\ Bad # {}
    OBVIOUS
  <2> HIDE DEF Bad
  <2> QED
    BY <2>1, NatLessThanWellFounded, WFMin
<1>2. n # 0 /\ n \in Nat /\ n - 1 \in Nat /\ (n - 1) + 1 = n
  OBVIOUS
<1>3. ~(n - 1 \in Bad)
  <2>1. n - 1 \in Bad => ~(n - 1 < n)
    BY <1>1, <1>2 DEF OpToRel
  <2> QED
    BY <1>2, <2>1
<1> QED
  BY <1>2, <1>3

LEMMA InductionFrom ==
  ASSUME NEW S, NEW a \in Int, a \in S, \A n \in Int : n >= a /\ n \in S => n + 1 \in S
  PROVE  \A n \in Int : n >= a => n \in S
<1> DEFINE T == {k \in Nat : a + k \in S}
<1>1. 0 \in T
  OBVIOUS
<1>2. \A k \in Nat : k \in T => k + 1 \in T
  <2> SUFFICES ASSUME NEW k \in Nat, k \in T PROVE k + 1 \in T
    OBVIOUS
  <2>1. a + k \in Int /\ a + k >= a /\ a + k \in S
    OBVIOUS
  <2>2. (a + k) + 1 \in S
    BY <2>1
  <2>3. (a + k) + 1 = a + (k + 1)
    OBVIOUS
  <2> QED
    BY <2>2, <2>3
<1>3. Nat \subseteq T
  <2> HIDE DEF T
  <2> QED
    BY <1>1, <1>2, Induction
<1>4. ASSUME NEW n \in Int, n >= a PROVE n \in S
  <2>1. n - a \in Nat /\ a + (n - a) = n
    BY <1>4
  <2>2. n - a \in T
    BY <1>3, <2>1
  <2> QED
    BY <2>1, <2>2
<1> QED
  BY <1>4

-----------------------------------------------------------------------------
(* The recursive functions are what their equations say: a solution up to  *)
(* one candle extends to the next.                                         *)
LEMMA PassUnfolds ==
  ASSUME NEW series, NEW s, NEW atr,
         FirstCandle(s) \in Nat, Count(series) \in Nat, FirstCandle(s) < Count(series)
  PROVE  LET pass == ReversalPass(series, s, atr)
             a    == FirstCandle(s)
         IN  /\ pass[a] = [high |-> HighAt(series, s, atr, a), low |-> LowAt(series, s, atr, a),
                           searching |-> "UNKNOWN", points |-> <<>>]
             /\ \A i \in a + 1 .. Count(series) - 1 :
                  pass[i] = Iteration(series, s, atr, pass[i - 1], i)
<1> DEFINE a == FirstCandle(s)
           e(f, i) ==
             IF i = FirstCandle(s)
               THEN [high |-> HighAt(series, s, atr, i), low |-> LowAt(series, s, atr, i),
                     searching |-> "UNKNOWN", points |-> <<>>]
               ELSE Iteration(series, s, atr, f[i - 1], i)
           S == {n \in Int : \E f : f = [i \in a .. n |-> e(f, i)]}
<1>1. a \in S
  <2> DEFINE g == [i \in a .. a |-> e(<<>>, i)]
  <2>1. g = [i \in a .. a |-> e(g, i)]
    OBVIOUS
  <2> HIDE DEF e, g
  <2> QED
    BY <2>1
<1>2. ASSUME NEW n \in Int, n >= a, n \in S PROVE n + 1 \in S
  <2>1. PICK f : f = [i \in a .. n |-> e(f, i)]
    BY <1>2
  <2> DEFINE g == [i \in a .. n + 1 |-> IF i = n + 1 THEN e(f, n + 1) ELSE f[i]]
  <2>2. \A i \in a .. n : g[i] = f[i]
    OBVIOUS
  <2>3. ASSUME NEW i \in a .. n + 1 PROVE g[i] = e(g, i)
    <3>1. CASE i = a
      <4>1. f[a] = e(f, a) /\ a \in a .. n /\ a # n + 1
        BY <1>2, <2>1
      <4> QED
        BY <3>1, <4>1
    <3>2. CASE i # a
      <4>1. i - 1 \in a .. n /\ g[i - 1] = f[i - 1]
        BY <3>2
      <4>2. e(g, i) = e(f, i)
        BY <4>1
      <4>3. i # n + 1 => f[i] = e(f, i)
        <5>1. i # n + 1 => i \in a .. n
          OBVIOUS
        <5> QED
          BY <2>1, <5>1
      <4> HIDE DEF e
      <4> QED
        BY <4>2, <4>3
    <3> QED
      BY <3>1, <3>2
  <2>4. g = [i \in a .. n + 1 |-> e(g, i)]
    <3> HIDE DEF e
    <3> QED
      BY <2>3
  <2> HIDE DEF e, g
  <2> QED
    BY <2>4
<1>3. Count(series) - 1 \in S
  <2> HIDE DEF S
  <2> QED
    BY <1>1, <1>2, InductionFrom
<1>4. ReversalPass(series, s, atr) =
        CHOOSE f : f = [i \in a .. Count(series) - 1 |-> e(f, i)]
  BY DEF ReversalPass
<1>5. ReversalPass(series, s, atr) =
        [i \in a .. Count(series) - 1 |-> e(ReversalPass(series, s, atr), i)]
  <2> HIDE DEF e, a
  <2> QED
    BY <1>3, <1>4
<1> QED
  BY <1>5

(* FlattenSeq appends the sequences one after another.                     *)
LEMMA FlattenUnfolds ==
  ASSUME NEW seqs, Len(seqs) \in Nat \ {0}
  PROVE  \E F : /\ FlattenSeq(seqs) = F[Len(seqs)]
                /\ F[1] = seqs[1]
                /\ \A i \in 2 .. Len(seqs) : F[i] = F[i - 1] \o seqs[i]
<1> DEFINE e(f, i) == IF i = 1 THEN seqs[i] ELSE f[i - 1] \o seqs[i]
           S == {n \in Int : \E f : f = [i \in 1 .. n |-> e(f, i)]}
           F == CHOOSE f : f = [i \in 1 .. Len(seqs) |-> e(f, i)]
<1>1. 1 \in S
  <2> DEFINE g == [i \in 1 .. 1 |-> e(<<>>, i)]
  <2>1. g = [i \in 1 .. 1 |-> e(g, i)]
    OBVIOUS
  <2> HIDE DEF e, g
  <2> QED
    BY <2>1
<1>2. ASSUME NEW n \in Int, n >= 1, n \in S PROVE n + 1 \in S
  <2>1. PICK f : f = [i \in 1 .. n |-> e(f, i)]
    BY <1>2
  <2> DEFINE g == [i \in 1 .. n + 1 |-> IF i = n + 1 THEN e(f, n + 1) ELSE f[i]]
  <2>3. ASSUME NEW i \in 1 .. n + 1 PROVE g[i] = e(g, i)
    <3>1. CASE i = 1
      <4>1. f[1] = e(f, 1) /\ 1 \in 1 .. n /\ 1 # n + 1
        BY <1>2, <2>1
      <4> QED
        BY <3>1, <4>1
    <3>2. CASE i # 1
      <4>1. i - 1 \in 1 .. n /\ g[i - 1] = f[i - 1]
        BY <3>2
      <4>2. e(g, i) = e(f, i)
        BY <4>1
      <4>3. i # n + 1 => f[i] = e(f, i)
        <5>1. i # n + 1 => i \in 1 .. n
          OBVIOUS
        <5> QED
          BY <2>1, <5>1
      <4> HIDE DEF e
      <4> QED
        BY <4>2, <4>3
    <3> QED
      BY <3>1, <3>2
  <2>4. g = [i \in 1 .. n + 1 |-> e(g, i)]
    <3> HIDE DEF e
    <3> QED
      BY <2>3
  <2> HIDE DEF e, g
  <2> QED
    BY <2>4
<1>3. Len(seqs) \in S
  <2> HIDE DEF S
  <2> QED
    BY <1>1, <1>2, InductionFrom
<1>4. FlattenSeq(seqs) = F[Len(seqs)]
  BY DEF FlattenSeq
<1>5. F = [i \in 1 .. Len(seqs) |-> e(F, i)]
  <2> HIDE DEF e
  <2> QED
    BY <1>3
<1>6. F[1] = e(F, 1) /\ \A i \in 2 .. Len(seqs) : F[i] = e(F, i)
  <2> HIDE DEF e, F
  <2> QED
    BY <1>5
<1>7. F[1] = seqs[1] /\ \A i \in 2 .. Len(seqs) : F[i] = F[i - 1] \o seqs[i]
  <2>1. ASSUME NEW f PROVE e(f, 1) = seqs[1]
    OBVIOUS
  <2>2. ASSUME NEW f, NEW i \in 2 .. Len(seqs) PROVE e(f, i) = f[i - 1] \o seqs[i]
    <3>1. i # 1
      OBVIOUS
    <3> QED
      BY <3>1
  <2> HIDE DEF e, F
  <2> QED
    BY <1>6, <2>1, <2>2
<1> HIDE DEF F
<1> QED
  BY <1>4, <1>7

TrueRangeAt(series, i) == Wilder!TrueRange(series[i], series[i - 1].close)

LEMMA LastOfRange ==
  ASSUME NEW n \in Nat \ {0}
  PROVE  Max(0 .. n - 1) = n - 1
<1>1. n - 1 \in 0 .. n - 1 /\ \A k \in 0 .. n - 1 : n - 1 >= k
  OBVIOUS
<1>2. \A x \in 0 .. n - 1 : (\A y \in 0 .. n - 1 : x >= y) => x = n - 1
  <2> SUFFICES ASSUME NEW x \in 0 .. n - 1, \A y \in 0 .. n - 1 : x >= y PROVE x = n - 1
    OBVIOUS
  <2>1. x >= n - 1
    BY <1>1
  <2> QED
    BY <2>1
<1> QED
  BY <1>1, <1>2 DEF Max

LEMMA SequenceUnfolds ==
  ASSUME NEW series, NEW n \in Nat, DOMAIN series = 0 .. n - 1,
         NEW period \in Nat \ {0}, period < n
  PROVE  LET atr == Wilder!ATRSequenceOf(series, period)
         IN  \E sum :
               /\ sum[0] = 0
               /\ \A i \in 1 .. period : sum[i] = sum[i - 1] + TrueRangeAt(series, i)
               /\ atr[period] = Divide(sum[period], period)
               /\ \A i \in period + 1 .. n - 1 :
                    atr[i] = Divide(atr[i - 1] * (period - 1) + TrueRangeAt(series, i), period)
<1> DEFINE tr(i) == Wilder!TrueRange(series[i], series[i - 1].close)
           d(f, i) == IF i = 0 THEN 0 ELSE f[i - 1] + tr(i)
           sum == CHOOSE f : f = [i \in 0 .. period |-> d(f, i)]
           e(f, i) == IF i = period THEN Divide(sum[period], period)
                      ELSE Divide(f[i - 1] * (period - 1) + tr(i), period)
           S == {m \in Int : \E f : f = [i \in 0 .. m |-> d(f, i)]}
           T == {m \in Int : \E f : f = [i \in period .. m |-> e(f, i)]}
           atr == CHOOSE f : f = [i \in period .. n - 1 |-> e(f, i)]
<1>1. Wilder!ATRSequenceOf(series, period) = atr
  <2>1. Wilder!ATRSequenceOf(series, period) =
          CHOOSE f : f = [i \in period .. Wilder!Max(DOMAIN series) |-> e(f, i)]
    BY DEF Wilder!ATRSequenceOf
  <2>2. Wilder!Max(DOMAIN series) = Max(0 .. n - 1)
    BY DEF Wilder!Max, Max
  <2>3. Max(0 .. n - 1) = n - 1
    BY LastOfRange
  <2> QED
    BY <2>1, <2>2, <2>3
<1>2. 0 \in S
  <2> DEFINE g == [i \in 0 .. 0 |-> d(<<>>, i)]
  <2>1. g = [i \in 0 .. 0 |-> d(g, i)]
    OBVIOUS
  <2> HIDE DEF d, g
  <2> QED
    BY <2>1
<1>3. ASSUME NEW m \in Int, m >= 0, m \in S PROVE m + 1 \in S
  <2>1. PICK f : f = [i \in 0 .. m |-> d(f, i)]
    BY <1>3
  <2> DEFINE g == [i \in 0 .. m + 1 |-> IF i = m + 1 THEN d(f, m + 1) ELSE f[i]]
  <2>2. ASSUME NEW i \in 0 .. m + 1 PROVE g[i] = d(g, i)
    <3>1. i # m + 1 => i \in 0 .. m
      OBVIOUS
    <3>2. g[i] = d(f, i)
      <4> HIDE DEF d
      <4> QED
        BY <2>1, <3>1
    <3>3. d(g, i) = d(f, i)
      <4>1. i # 0 => i - 1 \in 0 .. m /\ i - 1 # m + 1
        OBVIOUS
      <4>2. i # 0 => g[i - 1] = f[i - 1]
        <5> HIDE DEF d
        <5> QED
          BY <4>1
      <4> HIDE DEF g, tr
      <4> QED
        BY <4>2
    <3> QED
      BY <3>2, <3>3
  <2>3. g = [i \in 0 .. m + 1 |-> d(g, i)]
    <3> HIDE DEF d
    <3> QED
      BY <2>2
  <2> HIDE DEF d, g
  <2> QED
    BY <2>3
<1>4. period \in T
  <2> DEFINE g == [i \in period .. period |-> e(<<>>, i)]
  <2>1. g = [i \in period .. period |-> e(g, i)]
    <3> HIDE DEF sum, tr
    <3> QED
      OBVIOUS
  <2> HIDE DEF e, g
  <2> QED
    BY <2>1
<1>5. ASSUME NEW m \in Int, m >= period, m \in T PROVE m + 1 \in T
  <2>1. PICK f : f = [i \in period .. m |-> e(f, i)]
    BY <1>5
  <2> DEFINE g == [i \in period .. m + 1 |-> IF i = m + 1 THEN e(f, m + 1) ELSE f[i]]
  <2>2. ASSUME NEW i \in period .. m + 1 PROVE g[i] = e(g, i)
    <3>1. i # m + 1 => i \in period .. m
      OBVIOUS
    <3>2. g[i] = e(f, i)
      <4> HIDE DEF e
      <4> QED
        BY <2>1, <3>1
    <3>3. e(g, i) = e(f, i)
      <4>1. i # period => i - 1 \in period .. m /\ i - 1 # m + 1
        OBVIOUS
      <4>2. i # period => g[i - 1] = f[i - 1]
        <5> HIDE DEF e
        <5> QED
          BY <4>1
      <4> HIDE DEF g, tr, sum
      <4> QED
        BY <4>2
    <3> QED
      BY <3>2, <3>3
  <2>3. g = [i \in period .. m + 1 |-> e(g, i)]
    <3> HIDE DEF e
    <3> QED
      BY <2>2
  <2> HIDE DEF e, g
  <2> QED
    BY <2>3
<1>6. period \in S /\ n - 1 \in T
  <2> HIDE DEF S, T
  <2> QED
    BY <1>2, <1>3, <1>4, <1>5, InductionFrom, SMTT(30)
<1>7. sum = [i \in 0 .. period |-> d(sum, i)] /\ atr = [i \in period .. n - 1 |-> e(atr, i)]
  <2> HIDE DEF d, e
  <2> QED
    BY <1>6
<1>8. /\ \A i \in 0 .. period : sum[i] = d(sum, i)
      /\ \A i \in period .. n - 1 : atr[i] = e(atr, i)
  <2> HIDE DEF d, e, sum, atr
  <2> QED
    BY <1>7
<1>9. /\ sum[0] = 0
      /\ \A i \in 1 .. period : sum[i] = sum[i - 1] + TrueRangeAt(series, i)
  <2> HIDE DEF sum, atr, e
  <2> QED
    BY <1>8 DEF TrueRangeAt
<1>10. /\ atr[period] = Divide(sum[period], period)
       /\ \A i \in period + 1 .. n - 1 :
            atr[i] = Divide(atr[i - 1] * (period - 1) + TrueRangeAt(series, i), period)
  <2> HIDE DEF sum, atr, d
  <2> QED
    BY <1>8 DEF TrueRangeAt
<1> HIDE DEF sum, atr
<1> QED
  BY <1>1, <1>9, <1>10
-----------------------------------------------------------------------------
(* A series that ends earlier.                                             *)
LEMMA PrefixIsSeries ==
  ASSUME NEW series, SoundSeries(series), NEW m \in 1 .. Count(series)
  PROVE  /\ Count(series) \in Nat /\ m \in Nat \ {0}
         /\ DOMAIN series = 0 .. Count(series) - 1
         /\ DOMAIN Prefix(series, m) = 0 .. m - 1
         /\ Count(Prefix(series, m)) = m
         /\ \A k \in 0 .. m - 1 : Prefix(series, m)[k] = series[k]
<1>1. Count(series) \in Nat /\ DOMAIN series = 0 .. Count(series) - 1
  BY DEF SoundSeries
<1>2. DOMAIN Prefix(series, m) = 0 .. m - 1 /\ m \in Nat \ {0}
  BY <1>1 DEF Prefix
<1>3. Cardinality(0 .. m - 1) = m
  BY <1>2, FS_Interval
<1> QED
  BY <1>1, <1>2, <1>3 DEF Prefix, Count

(* Later candles change no ATR.                                            *)
LEMMA SequenceIsFinal ==
  ASSUME NEW series, SoundSeries(series), NEW period \in Nat \ {0},
         NEW m \in period + 1 .. Count(series)
  PROVE  \A i \in period .. m - 1 :
           Wilder!ATRSequenceOf(Prefix(series, m), period)[i]
             = Wilder!ATRSequenceOf(series, period)[i]
<1> DEFINE n    == Count(series)
           cut  == Prefix(series, m)
           atr  == Wilder!ATRSequenceOf(series, period)
           atrC == Wilder!ATRSequenceOf(cut, period)
<1>1. /\ n \in Nat /\ m \in Nat /\ m <= n /\ m \in 1 .. n
      /\ DOMAIN series = 0 .. n - 1 /\ DOMAIN cut = 0 .. m - 1
      /\ \A k \in 0 .. m - 1 : cut[k] = series[k]
  <2>1. n \in Nat
    BY DEF SoundSeries
  <2>2. m \in 1 .. n
    BY <2>1
  <2> QED
    BY <2>1, <2>2, PrefixIsSeries
<1> HIDE DEF n, cut
<1>2. \A i \in 1 .. m - 1 : TrueRangeAt(cut, i) = TrueRangeAt(series, i)
  <2> SUFFICES ASSUME NEW i \in 1 .. m - 1 PROVE TrueRangeAt(cut, i) = TrueRangeAt(series, i)
    OBVIOUS
  <2>1. cut[i] = series[i] /\ cut[i - 1] = series[i - 1]
    BY <1>1
  <2> QED
    BY <2>1 DEF TrueRangeAt
<1>3. PICK sum :
        /\ sum[0] = 0
        /\ \A i \in 1 .. period : sum[i] = sum[i - 1] + TrueRangeAt(series, i)
        /\ atr[period] = Divide(sum[period], period)
        /\ \A i \in period + 1 .. n - 1 :
             atr[i] = Divide(atr[i - 1] * (period - 1) + TrueRangeAt(series, i), period)
  <2>1. period < n
    BY <1>1
  <2> QED
    BY <1>1, <2>1, SequenceUnfolds
<1>4. PICK sumC :
        /\ sumC[0] = 0
        /\ \A i \in 1 .. period : sumC[i] = sumC[i - 1] + TrueRangeAt(cut, i)
        /\ atrC[period] = Divide(sumC[period], period)
        /\ \A i \in period + 1 .. m - 1 :
             atrC[i] = Divide(atrC[i - 1] * (period - 1) + TrueRangeAt(cut, i), period)
  <2>1. period < m
    BY <1>1
  <2> QED
    BY <1>1, <2>1, SequenceUnfolds
<1> HIDE DEF atr, atrC
<1>5. sumC[period] = sum[period]
  <2> DEFINE S == {i \in Int : i <= period => sumC[i] = sum[i]}
  <2>1. 0 \in S
    BY <1>3, <1>4
  <2>2. ASSUME NEW i \in Int, i >= 0, i \in S PROVE i + 1 \in S
    <3> SUFFICES ASSUME i + 1 <= period PROVE sumC[i + 1] = sum[i + 1]
      OBVIOUS
    <3>1. i + 1 \in 1 .. period /\ i + 1 \in 1 .. m - 1 /\ (i + 1) - 1 = i
      BY <1>1, <2>2
    <3>2. sumC[i] = sum[i]
      BY <2>2
    <3>3. sum[i + 1] = sum[i] + TrueRangeAt(series, i + 1)
      BY <1>3, <3>1
    <3>4. sumC[i + 1] = sumC[i] + TrueRangeAt(cut, i + 1)
      BY <1>4, <3>1
    <3> QED
      BY <1>2, <3>1, <3>2, <3>3, <3>4
  <2>3. period \in S
    <3> HIDE DEF S
    <3> QED
      BY <2>1, <2>2, InductionFrom
  <2> QED
    BY <2>3
<1> DEFINE T == {i \in Int : i <= m - 1 => atrC[i] = atr[i]}
<1>6. period \in T
  BY <1>3, <1>4, <1>5
<1>7. ASSUME NEW i \in Int, i >= period, i \in T PROVE i + 1 \in T
  <2> SUFFICES ASSUME i + 1 <= m - 1 PROVE atrC[i + 1] = atr[i + 1]
    OBVIOUS
  <2>1. /\ i + 1 \in period + 1 .. m - 1 /\ i + 1 \in period + 1 .. n - 1
        /\ i + 1 \in 1 .. m - 1 /\ (i + 1) - 1 = i
    BY <1>1, <1>7
  <2>2. atrC[i] = atr[i]
    BY <1>7, <1>1
  <2>3. atr[i + 1] = Divide(atr[i] * (period - 1) + TrueRangeAt(series, i + 1), period)
    BY <1>3, <2>1
  <2>4. atrC[i + 1] = Divide(atrC[i] * (period - 1) + TrueRangeAt(cut, i + 1), period)
    BY <1>4, <2>1
  <2> QED
    BY <1>2, <2>1, <2>2, <2>3, <2>4
<1>8. \A i \in Int : i >= period => i \in T
  <2> HIDE DEF T
  <2> QED
    BY <1>6, <1>7, InductionFrom
<1>9. \A i \in period .. m - 1 : atrC[i] = atr[i]
  BY <1>1, <1>8
<1> QED
  BY <1>9 DEF atr, atrC, cut

(* Nor where the reversal pass stood.                                      *)
LEMMA PassIsFinal ==
  ASSUME NEW series, SoundSeries(series), NEW s, FirstCandle(s) \in Nat,
         NEW m \in FirstCandle(s) + 1 .. Count(series), NEW atr, NEW atrC,
         \A i \in FirstCandle(s) .. m - 1 :
           /\ HighAt(Prefix(series, m), s, atrC, i) = HighAt(series, s, atr, i)
           /\ LowAt(Prefix(series, m), s, atrC, i) = LowAt(series, s, atr, i)
  PROVE  \A i \in FirstCandle(s) .. m - 1 :
           ReversalPass(Prefix(series, m), s, atrC)[i] = ReversalPass(series, s, atr)[i]
<1> DEFINE a     == FirstCandle(s)
           n     == Count(series)
           cut   == Prefix(series, m)
           pass  == ReversalPass(series, s, atr)
           passC == ReversalPass(cut, s, atrC)
<1>1. n \in Nat /\ m \in Nat /\ a < m /\ m <= n /\ Count(cut) = m
  <2>1. n \in Nat
    BY DEF SoundSeries
  <2>2. m \in 1 .. n
    BY <2>1
  <2> QED
    BY <2>1, <2>2, PrefixIsSeries
<1>2. /\ pass[a] = [high |-> HighAt(series, s, atr, a), low |-> LowAt(series, s, atr, a),
                    searching |-> "UNKNOWN", points |-> <<>>]
      /\ \A i \in a + 1 .. n - 1 : pass[i] = Iteration(series, s, atr, pass[i - 1], i)
  <2>1. a < n
    BY <1>1
  <2> QED
    BY <1>1, <2>1, PassUnfolds
<1>3. /\ passC[a] = [high |-> HighAt(cut, s, atrC, a), low |-> LowAt(cut, s, atrC, a),
                     searching |-> "UNKNOWN", points |-> <<>>]
      /\ \A i \in a + 1 .. m - 1 : passC[i] = Iteration(cut, s, atrC, passC[i - 1], i)
  <2>1. a < Count(cut) /\ Count(cut) \in Nat
    BY <1>1
  <2>2. /\ passC[a] = [high |-> HighAt(cut, s, atrC, a), low |-> LowAt(cut, s, atrC, a),
                       searching |-> "UNKNOWN", points |-> <<>>]
        /\ \A i \in a + 1 .. Count(cut) - 1 :
             passC[i] = Iteration(cut, s, atrC, passC[i - 1], i)
    <3> HIDE DEF cut
    <3> QED
      BY <2>1, PassUnfolds
  <2> QED
    BY <1>1, <2>2
<1>4. \A i \in a .. m - 1 :
        /\ HighAt(cut, s, atrC, i) = HighAt(series, s, atr, i)
        /\ LowAt(cut, s, atrC, i) = LowAt(series, s, atr, i)
  OBVIOUS
<1> DEFINE T == {i \in Int : i <= m - 1 => passC[i] = pass[i]}
<1> HIDE DEF n, cut, pass, passC
<1>5. a \in T
  <2>1. a \in a .. m - 1
    BY <1>1
  <2> QED
    BY <1>2, <1>3, <1>4, <2>1
<1>6. ASSUME NEW i \in Int, i >= a, i \in T PROVE i + 1 \in T
  <2> SUFFICES ASSUME i + 1 <= m - 1 PROVE passC[i + 1] = pass[i + 1]
    OBVIOUS
  <2>1. /\ i + 1 \in a + 1 .. m - 1 /\ i + 1 \in a + 1 .. n - 1 /\ i + 1 \in a .. m - 1
        /\ (i + 1) - 1 = i
    BY <1>1, <1>6
  <2>2. passC[i] = pass[i]
    BY <1>1, <1>6
  <2>3. passC[i + 1] = Iteration(cut, s, atrC, pass[i], i + 1)
    BY <1>3, <2>1, <2>2
  <2>4. Iteration(cut, s, atrC, pass[i], i + 1) = Iteration(series, s, atr, pass[i], i + 1)
    BY <1>4, <2>1 DEF Iteration
  <2> QED
    BY <1>2, <2>1, <2>3, <2>4
<1>7. \A i \in Int : i >= a => i \in T
  <2> HIDE DEF T, a
  <2> QED
    BY <1>5, <1>6, InductionFrom DEF a
<1>8. \A i \in a .. m - 1 : passC[i] = pass[i]
  BY <1>1, <1>7
<1> QED
  BY <1>8 DEF pass, passC, cut
-----------------------------------------------------------------------------
(* A point has the price of its own candle.                                *)
FromCandle(series, source, p) ==
  /\ p.kind \in {"HIGH", "LOW"} /\ p.index \in DOMAIN series
  /\ p.price = IF p.kind = "HIGH" THEN HighPrice(series[p.index], source)
                                  ELSE LowPrice(series[p.index], source)
  /\ p.confirmation \in Nat

HighCandidates(series, s, atr) == {HighAt(series, s, atr, i) : i \in DOMAIN series}
LowCandidates(series, s, atr)  == {LowAt(series, s, atr, i) : i \in DOMAIN series}

Reversals(series, s, atr) ==
  UNION { {ConfirmedPoint("HIGH", c, i) : c \in HighCandidates(series, s, atr)}
          \cup {ConfirmedPoint("LOW", c, i) : c \in LowCandidates(series, s, atr)}
            : i \in DOMAIN series }

PassStates(series, s, atr) ==
  [high : HighCandidates(series, s, atr), low : LowCandidates(series, s, atr),
   searching : {"UNKNOWN", "LOW", "HIGH"}, points : Seq(Reversals(series, s, atr))]

LEMMA ReversalsAreFromCandles ==
  ASSUME NEW series, SoundSeries(series), NEW s, NEW atr,
         NEW p \in Reversals(series, s, atr)
  PROVE  FromCandle(series, s.source, p)
<1>1. DOMAIN series \subseteq Nat
  BY DEF SoundSeries
<1>2. PICK i \in DOMAIN series :
        \/ \E c \in HighCandidates(series, s, atr) : p = ConfirmedPoint("HIGH", c, i)
        \/ \E c \in LowCandidates(series, s, atr) : p = ConfirmedPoint("LOW", c, i)
  BY DEF Reversals
<1>3. CASE \E c \in HighCandidates(series, s, atr) : p = ConfirmedPoint("HIGH", c, i)
  <2>1. PICK j \in DOMAIN series : p = ConfirmedPoint("HIGH", HighAt(series, s, atr, j), i)
    BY <1>3 DEF HighCandidates
  <2>2. /\ p.kind = "HIGH" /\ p.index = j /\ p.confirmation = i
        /\ p.price = HighPrice(series[j], s.source)
    BY <2>1 DEF ConfirmedPoint, HighAt, Candidate
  <2> QED
    BY <1>1, <2>2 DEF FromCandle
<1>4. CASE \E c \in LowCandidates(series, s, atr) : p = ConfirmedPoint("LOW", c, i)
  <2>1. PICK j \in DOMAIN series : p = ConfirmedPoint("LOW", LowAt(series, s, atr, j), i)
    BY <1>4 DEF LowCandidates
  <2>2. /\ p.kind = "LOW" /\ p.index = j /\ p.confirmation = i
        /\ p.price = LowPrice(series[j], s.source)
    BY <2>1 DEF ConfirmedPoint, LowAt, Candidate
  <2> QED
    BY <1>1, <2>2 DEF FromCandle
<1> QED
  BY <1>2, <1>3, <1>4

(* A sequence that begins as another, and what is confirmed at i after it. *)
Lengthens(before, after, i) ==
  /\ Len(before) <= Len(after)
  /\ \A k \in 1 .. Len(before) : after[k] = before[k]
  /\ \A k \in Len(before) + 1 .. Len(after) : after[k].confirmation = i

LEMMA AppendLengthens ==
  ASSUME NEW S, NEW before \in Seq(S), NEW p \in S, NEW i, p.confirmation = i
  PROVE  Append(before, p) \in Seq(S) /\ Lengthens(before, Append(before, p), i)
<1>1. /\ Append(before, p) \in Seq(S) /\ Len(before) \in Nat
      /\ Len(Append(before, p)) = Len(before) + 1
      /\ Append(before, p)[Len(before) + 1] = p
      /\ \A k \in 1 .. Len(before) : Append(before, p)[k] = before[k]
  OBVIOUS
<1>2. \A k \in Len(before) + 1 .. Len(before) + 1 : k = Len(before) + 1
  BY <1>1
<1> QED
  BY <1>1, <1>2 DEF Lengthens

LEMMA IterationKeeps ==
  ASSUME NEW series, SoundSeries(series), NEW s, NEW atr,
         NEW t \in PassStates(series, s, atr), NEW i \in DOMAIN series
  PROVE  /\ Iteration(series, s, atr, t, i) \in PassStates(series, s, atr)
         /\ Lengthens(t.points, Iteration(series, s, atr, t, i).points, i)
<1> DEFINE Highs == HighCandidates(series, s, atr)
           Lows  == LowCandidates(series, s, atr)
           P     == Reversals(series, s, atr)
           highest == HighAt(series, s, atr, i)
           lowest  == LowAt(series, s, atr, i)
           high == IF t.searching # "LOW" /\ highest.price >= t.high.price THEN highest ELSE t.high
           low  == IF t.searching # "HIGH" /\ lowest.price <= t.low.price THEN lowest ELSE t.low
           confirmHigh == t.searching # "LOW" /\ Confirmed(high, i, high.price - lowest.price)
           confirmLow  == t.searching # "HIGH" /\ Confirmed(low, i, highest.price - low.price)
           new == Iteration(series, s, atr, t, i)
<1>1. /\ t.high \in Highs /\ t.low \in Lows /\ t.points \in Seq(P)
      /\ t.searching \in {"UNKNOWN", "LOW", "HIGH"}
      /\ t = [high |-> t.high, low |-> t.low, searching |-> t.searching, points |-> t.points]
  BY DEF PassStates
<1>2. highest \in Highs /\ lowest \in Lows
  BY DEF HighCandidates, LowCandidates
<1>3. high \in Highs /\ low \in Lows
  <2> HIDE DEF Highs, Lows, highest, lowest
  <2> QED
    BY <1>1, <1>2
<1>4. new = IF confirmHigh = confirmLow
              THEN [t EXCEPT !.high = high, !.low = low]
            ELSE IF confirmHigh
              THEN [high |-> high, low |-> lowest, searching |-> "LOW",
                    points |-> Append(t.points, ConfirmedPoint("HIGH", high, i))]
              ELSE [high |-> highest, low |-> low, searching |-> "HIGH",
                    points |-> Append(t.points, ConfirmedPoint("LOW", low, i))]
  BY DEF Iteration
<1> HIDE DEF highest, lowest, high, low, confirmHigh, confirmLow, new
<1>5. /\ ConfirmedPoint("HIGH", high, i) \in P /\ ConfirmedPoint("HIGH", high, i).confirmation = i
      /\ ConfirmedPoint("LOW", low, i) \in P /\ ConfirmedPoint("LOW", low, i).confirmation = i
  <2>1. ConfirmedPoint("HIGH", high, i) \in P /\ ConfirmedPoint("LOW", low, i) \in P
    BY <1>3 DEF Reversals
  <2> QED
    BY <2>1 DEF ConfirmedPoint
<1> HIDE DEF Highs, Lows, P
<1>6. /\ Append(t.points, ConfirmedPoint("HIGH", high, i)) \in Seq(P)
      /\ Lengthens(t.points, Append(t.points, ConfirmedPoint("HIGH", high, i)), i)
      /\ Append(t.points, ConfirmedPoint("LOW", low, i)) \in Seq(P)
      /\ Lengthens(t.points, Append(t.points, ConfirmedPoint("LOW", low, i)), i)
  BY <1>1, <1>5, AppendLengthens
<1>7. Lengthens(t.points, t.points, i)
  <2>1. Len(t.points) \in Nat
    BY <1>1
  <2> QED
    BY <2>1 DEF Lengthens
<1>8. /\ new \in [high : Highs, low : Lows, searching : {"UNKNOWN", "LOW", "HIGH"}, points : Seq(P)]
      /\ Lengthens(t.points, new.points, i)
  <2>1. CASE confirmHigh = confirmLow
    <3>1. new = [t EXCEPT !.high = high, !.low = low]
      BY <1>4, <2>1
    <3>2. new = [high |-> high, low |-> low, searching |-> t.searching, points |-> t.points]
      BY <1>1, <3>1
    <3> QED
      BY <1>1, <1>3, <1>7, <3>2
  <2>2. CASE confirmHigh # confirmLow /\ confirmHigh
    <3>1. new = [high |-> high, low |-> lowest, searching |-> "LOW",
                 points |-> Append(t.points, ConfirmedPoint("HIGH", high, i))]
      BY <1>4, <2>2
    <3> QED
      BY <1>2, <1>3, <1>6, <3>1
  <2>3. CASE confirmHigh # confirmLow /\ ~confirmHigh
    <3>1. new = [high |-> highest, low |-> low, searching |-> "HIGH",
                 points |-> Append(t.points, ConfirmedPoint("LOW", low, i))]
      BY <1>4, <2>3
    <3> QED
      BY <1>2, <1>3, <1>6, <3>1
  <2> QED
    BY <2>1, <2>2, <2>3
<1> QED
  BY <1>8 DEF PassStates, new, Highs, Lows, P

LEMMA PassIsTyped ==
  ASSUME NEW series, SoundSeries(series), NEW s, NEW atr,
         FirstCandle(s) \in Nat, FirstCandle(s) < Count(series)
  PROVE  LET pass == ReversalPass(series, s, atr)
             a    == FirstCandle(s)
         IN  /\ pass[a].points = <<>>
             /\ \A i \in a .. Count(series) - 1 : pass[i] \in PassStates(series, s, atr)
             /\ \A i \in a + 1 .. Count(series) - 1 :
                  Lengthens(pass[i - 1].points, pass[i].points, i)
<1> DEFINE a    == FirstCandle(s)
           n    == Count(series)
           pass == ReversalPass(series, s, atr)
           T    == {i \in Int : i <= n - 1 => pass[i] \in PassStates(series, s, atr)}
<1>1. n \in Nat /\ DOMAIN series = 0 .. n - 1 /\ a \in DOMAIN series
  BY DEF SoundSeries
<1>2. /\ pass[a] = [high |-> HighAt(series, s, atr, a), low |-> LowAt(series, s, atr, a),
                    searching |-> "UNKNOWN", points |-> <<>>]
      /\ \A i \in a + 1 .. n - 1 : pass[i] = Iteration(series, s, atr, pass[i - 1], i)
  BY <1>1, PassUnfolds
<1> HIDE DEF pass, n
<1>3. a \in T
  <2>1. HighAt(series, s, atr, a) \in HighCandidates(series, s, atr)
    BY <1>1 DEF HighCandidates
  <2>2. LowAt(series, s, atr, a) \in LowCandidates(series, s, atr)
    BY <1>1 DEF LowCandidates
  <2>3. <<>> \in Seq(Reversals(series, s, atr))
    OBVIOUS
  <2>4. pass[a] \in PassStates(series, s, atr)
    BY <1>2, <2>1, <2>2, <2>3 DEF PassStates
  <2>5. a \in Int
    OBVIOUS
  <2> QED
    BY <2>4, <2>5
<1>4. ASSUME NEW i \in Int, i >= a, i \in T PROVE i + 1 \in T
  <2> SUFFICES ASSUME i + 1 <= n - 1 PROVE pass[i + 1] \in PassStates(series, s, atr)
    OBVIOUS
  <2>1. i + 1 \in a + 1 .. n - 1 /\ i + 1 \in DOMAIN series /\ (i + 1) - 1 = i
    BY <1>1, <1>4
  <2>2. pass[i] \in PassStates(series, s, atr)
    BY <1>1, <1>4
  <2>3. pass[i + 1] = Iteration(series, s, atr, pass[i], i + 1)
    BY <1>2, <2>1
  <2> QED
    BY <2>1, <2>2, <2>3, IterationKeeps
<1>5. \A i \in Int : i >= a => i \in T
  <2> HIDE DEF T, a
  <2> QED
    BY <1>3, <1>4, InductionFrom DEF a
<1>6. \A i \in a .. n - 1 : pass[i] \in PassStates(series, s, atr)
  BY <1>1, <1>5
<1>7. ASSUME NEW i \in a + 1 .. n - 1
      PROVE  Lengthens(pass[i - 1].points, pass[i].points, i)
  <2>1. i - 1 \in a .. n - 1 /\ i \in DOMAIN series
    BY <1>1
  <2> QED
    BY <1>2, <1>6, <2>1, IterationKeeps
<1>8. pass[a].points = <<>>
  BY <1>2
<1> QED
  BY <1>6, <1>7, <1>8 DEF pass, n

(* What the first m candles confirm, of all that is confirmed.             *)
Begins(cut, all, m) ==
  /\ Len(cut) \in 0 .. Len(all)
  /\ {k \in DOMAIN all : all[k].confirmation < m} = 1 .. Len(cut)
  /\ cut = SubSeq(all, 1, Len(cut))

(* Sequences that grow by what is confirmed at each step.                  *)
Growing(F, S, a, b, d) ==
  /\ \A i \in a .. b : F[i] \in Seq(S)
  /\ \A k \in 1 .. Len(F[a]) : F[a][k].confirmation = a + d
  /\ \A i \in a + 1 .. b : Lengthens(F[i - 1], F[i], i + d)

(* An earlier one is what was confirmed by then of a later one.            *)
LEMMA Beginnings ==
  ASSUME NEW S, NEW F, NEW a \in Int, NEW b \in Int, NEW d \in Int,
         Growing(F, S, a, b, d), NEW m \in a .. b
  PROVE  Begins(F[m], F[b], m + d + 1)
<1> DEFINE U == {i \in Int : i <= b =>
                   \A k \in 1 .. Len(F[i]) : /\ F[i][k].confirmation \in Int
                                             /\ F[i][k].confirmation <= i + d}
           V == {i \in Int : i <= b =>
                   /\ Len(F[m]) <= Len(F[i])
                   /\ \A k \in 1 .. Len(F[m]) : F[i][k] = F[m][k]
                   /\ \A k \in Len(F[m]) + 1 .. Len(F[i]) :
                        F[i][k].confirmation \in Int /\ F[i][k].confirmation > m + d}
<1>0. /\ \A i \in a .. b : F[i] \in Seq(S)
      /\ \A k \in 1 .. Len(F[a]) : F[a][k].confirmation = a + d
      /\ \A i \in a + 1 .. b : Lengthens(F[i - 1], F[i], i + d)
  BY DEF Growing
<1>1. \A i \in a .. b : Len(F[i]) \in Nat /\ DOMAIN F[i] = 1 .. Len(F[i])
  BY <1>0
<1>2. a \in U
  BY <1>0
<1>3. ASSUME NEW i \in Int, i >= a, i \in U PROVE i + 1 \in U
  <2> SUFFICES ASSUME i + 1 <= b, NEW k \in 1 .. Len(F[i + 1])
               PROVE  /\ F[i + 1][k].confirmation \in Int
                      /\ F[i + 1][k].confirmation <= i + 1 + d
    OBVIOUS
  <2>1. i + 1 \in a + 1 .. b /\ i \in a .. b /\ i + 1 \in a .. b /\ (i + 1) - 1 = i
    BY <1>3
  <2>2. Lengthens(F[i], F[i + 1], i + 1 + d)
    BY <1>0, <2>1
  <2>3. CASE k <= Len(F[i])
    <3>1. k \in 1 .. Len(F[i])
      BY <1>1, <2>1, <2>3
    <3>2. F[i + 1][k] = F[i][k]
      BY <2>2, <3>1 DEF Lengthens
    <3>3. F[i][k].confirmation \in Int /\ F[i][k].confirmation <= i + d
      BY <1>3, <2>1, <3>1
    <3> QED
      BY <3>2, <3>3
  <2>4. CASE k > Len(F[i])
    <3>1. k \in Len(F[i]) + 1 .. Len(F[i + 1])
      BY <1>1, <2>1, <2>4
    <3>2. F[i + 1][k].confirmation = i + 1 + d
      BY <2>2, <3>1 DEF Lengthens
    <3> QED
      BY <3>2
  <2> QED
    BY <1>1, <2>1, <2>3, <2>4
<1>4. \A i \in Int : i >= a => i \in U
  <2> HIDE DEF U
  <2> QED
    BY <1>2, <1>3, InductionFrom
<1>5. \A k \in 1 .. Len(F[m]) : F[m][k].confirmation \in Int /\ F[m][k].confirmation <= m + d
  <2>1. m \in U /\ m <= b
    BY <1>4
  <2> QED
    BY <2>1
<1>6. m \in V
  BY <1>1
<1>7. ASSUME NEW i \in Int, i >= m, i \in V PROVE i + 1 \in V
  <2> SUFFICES ASSUME i + 1 <= b PROVE i + 1 \in V
    OBVIOUS
  <2>1. i + 1 \in a + 1 .. b /\ i \in a .. b /\ i + 1 \in a .. b /\ (i + 1) - 1 = i
    BY <1>7
  <2>2. Lengthens(F[i], F[i + 1], i + 1 + d)
    BY <1>0, <2>1
  <2>3. /\ Len(F[m]) <= Len(F[i])
        /\ \A k \in 1 .. Len(F[m]) : F[i][k] = F[m][k]
        /\ \A k \in Len(F[m]) + 1 .. Len(F[i]) :
             F[i][k].confirmation \in Int /\ F[i][k].confirmation > m + d
    BY <1>7, <2>1
  <2>4. Len(F[m]) \in Nat /\ Len(F[i]) \in Nat /\ Len(F[i + 1]) \in Nat /\ Len(F[i]) <= Len(F[i + 1])
    BY <1>1, <2>1, <2>2 DEF Lengthens
  <2>5. ASSUME NEW k \in 1 .. Len(F[m]) PROVE F[i + 1][k] = F[m][k]
    <3>1. k \in 1 .. Len(F[i])
      BY <2>3, <2>4
    <3> QED
      BY <2>2, <2>3, <3>1 DEF Lengthens
  <2>6. ASSUME NEW k \in Len(F[m]) + 1 .. Len(F[i + 1])
        PROVE  F[i + 1][k].confirmation \in Int /\ F[i + 1][k].confirmation > m + d
    <3>1. CASE k <= Len(F[i])
      <4>1. k \in 1 .. Len(F[i]) /\ k \in Len(F[m]) + 1 .. Len(F[i])
        BY <2>4, <3>1
      <4> QED
        BY <2>2, <2>3, <4>1 DEF Lengthens
    <3>2. CASE k > Len(F[i])
      <4>1. k \in Len(F[i]) + 1 .. Len(F[i + 1])
        BY <2>4, <3>2
      <4>2. F[i + 1][k].confirmation = i + 1 + d
        BY <2>2, <4>1 DEF Lengthens
      <4> QED
        BY <1>7, <4>2
    <3> QED
      BY <2>4, <3>1, <3>2
  <2> QED
    BY <2>3, <2>4, <2>5, <2>6
<1>8. \A i \in Int : i >= m => i \in V
  <2> HIDE DEF V
  <2> QED
    BY <1>6, <1>7, InductionFrom
<1>9. /\ Len(F[m]) <= Len(F[b])
      /\ \A k \in 1 .. Len(F[m]) : F[b][k] = F[m][k]
      /\ \A k \in Len(F[m]) + 1 .. Len(F[b]) :
           F[b][k].confirmation \in Int /\ F[b][k].confirmation > m + d
  <2>1. b \in V
    BY <1>8
  <2> QED
    BY <2>1, SMTT(30)
<1>10. /\ Len(F[m]) \in Nat /\ Len(F[b]) \in Nat
       /\ F[m] \in Seq(S) /\ F[b] \in Seq(S) /\ DOMAIN F[b] = 1 .. Len(F[b])
  <2>1. b \in a .. b
    OBVIOUS
  <2> QED
    BY <1>0, <1>1, <2>1
<1>11. ASSUME NEW k \in DOMAIN F[b]
       PROVE  F[b][k].confirmation < m + d + 1 <=> k \in 1 .. Len(F[m])
  <2>1. CASE k <= Len(F[m])
    <3>1. k \in 1 .. Len(F[m])
      BY <1>10, <2>1
    <3>2. F[b][k].confirmation \in Int /\ F[b][k].confirmation <= m + d
      BY <1>5, <1>9, <3>1
    <3> QED
      BY <3>1, <3>2
  <2>2. CASE k > Len(F[m])
    <3>1. k \in Len(F[m]) + 1 .. Len(F[b]) /\ k \notin 1 .. Len(F[m])
      BY <1>10, <2>2
    <3>2. F[b][k].confirmation \in Int /\ F[b][k].confirmation > m + d
      BY <1>9, <3>1
    <3> QED
      BY <3>1, <3>2
  <2> QED
    BY <1>10, <2>1, <2>2
<1>12. {k \in DOMAIN F[b] : F[b][k].confirmation < m + d + 1} = 1 .. Len(F[m])
  <2>1. 1 .. Len(F[m]) \subseteq DOMAIN F[b]
    BY <1>9, <1>10
  <2> QED
    BY <1>11, <2>1
<1>13. F[m] = SubSeq(F[b], 1, Len(F[m]))
  <2> DEFINE t == SubSeq(F[b], 1, Len(F[m]))
  <2>1. \A k \in 1 .. Len(F[m]) : F[b][k] \in S
    BY <1>9, <1>10
  <2>2. /\ t \in Seq(S)
        /\ Len(t) = IF 1 <= Len(F[m]) THEN Len(F[m]) - 1 + 1 ELSE 0
        /\ \A k \in 1 .. Len(F[m]) - 1 + 1 : t[k] = F[b][1 + k - 1]
    <3>1. 1 \in Int /\ Len(F[m]) \in Int
      BY <1>10
    <3> HIDE DEF t
    <3> QED
      BY <2>1, <3>1, SubSeqProperties DEF t
  <2>3. Len(t) = Len(F[m]) /\ \A k \in 1 .. Len(F[m]) : t[k] = F[b][k]
    <3> HIDE DEF t
    <3> QED
      BY <1>10, <2>2
  <2>4. \A k \in 1 .. Len(F[m]) : F[m][k] = t[k]
    <3> HIDE DEF t
    <3> QED
      BY <1>9, <2>3
  <2> HIDE DEF t
  <2>5. F[m] = t
    BY <1>10, <2>2, <2>3, <2>4, SeqEqual
  <2> QED
    BY <2>5 DEF t
<1> QED
  BY <1>9, <1>10, <1>12, <1>13 DEF Begins
-----------------------------------------------------------------------------
LocalPointsOf(series, source, span) ==
  {PointAt("HIGH", i, HighPrice(series[i], source), span) : i \in DOMAIN series}
    \cup {PointAt("LOW", i, LowPrice(series[i], source), span) : i \in DOMAIN series}

LEMMA LocalPointsAreFromCandles ==
  ASSUME NEW series, SoundSeries(series), NEW source, NEW span \in Nat,
         NEW p \in LocalPointsOf(series, source, span)
  PROVE  FromCandle(series, source, p)
<1>1. DOMAIN series \subseteq Nat
  BY DEF SoundSeries
<1>2. CASE \E i \in DOMAIN series : p = PointAt("HIGH", i, HighPrice(series[i], source), span)
  <2>1. PICK i \in DOMAIN series : p = PointAt("HIGH", i, HighPrice(series[i], source), span)
    BY <1>2
  <2>2. /\ p.kind = "HIGH" /\ p.index = i /\ p.confirmation = i + span
        /\ p.price = HighPrice(series[i], source)
    BY <2>1 DEF PointAt
  <2>3. i + span \in Nat
    BY <1>1
  <2> QED
    BY <2>2, <2>3 DEF FromCandle
<1>3. CASE \E i \in DOMAIN series : p = PointAt("LOW", i, LowPrice(series[i], source), span)
  <2>1. PICK i \in DOMAIN series : p = PointAt("LOW", i, LowPrice(series[i], source), span)
    BY <1>3
  <2>2. /\ p.kind = "LOW" /\ p.index = i /\ p.confirmation = i + span
        /\ p.price = LowPrice(series[i], source)
    BY <2>1 DEF PointAt
  <2>3. i + span \in Nat
    BY <1>1
  <2> QED
    BY <2>2, <2>3 DEF FromCandle
<1> QED
  BY <1>2, <1>3 DEF LocalPointsOf

LEMMA PointsOfCandle ==
  ASSUME NEW series, NEW source, NEW span \in Nat, NEW i \in DOMAIN series
  PROVE  /\ PointsAt(series, source, span, i) \in Seq(LocalPointsOf(series, source, span))
         /\ \A k \in 1 .. Len(PointsAt(series, source, span, i)) :
              PointsAt(series, source, span, i)[k].confirmation = i + span
<1> DEFINE S == LocalPointsOf(series, source, span)
           high == PointAt("HIGH", i, HighPrice(series[i], source), span)
           low  == PointAt("LOW", i, LowPrice(series[i], source), span)
           atHigh == IF IsHigh(series, source, span, i) THEN <<high>> ELSE <<>>
           atLow  == IF IsLow(series, source, span, i) THEN <<low>> ELSE <<>>
           E == {p \in S : p.confirmation = i + span}
<1>1. high \in S /\ low \in S
  BY DEF LocalPointsOf
<1>2. high.confirmation = i + span /\ low.confirmation = i + span
  BY DEF PointAt
<1>3. high \in E /\ low \in E
  BY <1>1, <1>2
<1> HIDE DEF S, high, low, E
<1>4. atHigh \in Seq(E) /\ atLow \in Seq(E)
  BY <1>3
<1>5. PointsAt(series, source, span, i) = atHigh \o atLow
  BY DEF PointsAt, high, low
<1>6. atHigh \o atLow \in Seq(E)
  <2> HIDE DEF atHigh, atLow
  <2> QED
    BY <1>4
<1> HIDE DEF atHigh, atLow
<1>7. \A e \in Seq(E) : e \in Seq(S) /\ \A k \in 1 .. Len(e) : e[k].confirmation = i + span
  <2>1. E \subseteq S /\ \A p \in E : p.confirmation = i + span
    BY DEF E
  <2>2. ASSUME NEW e \in Seq(E) PROVE e \in Seq(S)
    BY <2>1, SeqMonotonic
  <2> QED
    BY <2>1, <2>2
<1>8. atHigh \o atLow \in Seq(S)
      /\ \A k \in 1 .. Len(atHigh \o atLow) : (atHigh \o atLow)[k].confirmation = i + span
  BY <1>6, <1>7
<1> QED
  BY <1>5, <1>8 DEF S

(* The points up to each candle.                                           *)
Grows(F, series, source, span) ==
  /\ F[1] = PointsAt(series, source, span, span)
  /\ \A i \in 2 .. Count(series) - 2 * span :
       F[i] = F[i - 1] \o PointsAt(series, source, span, i + span - 1)

LEMMA LocalUnfolds ==
  ASSUME NEW series, SoundSeries(series), NEW source, NEW span \in Nat \ {0},
         Count(series) >= 2 * span + 1
  PROVE  \E F : /\ LocalPoints(series, source, span) = F[Count(series) - 2 * span]
               /\ Grows(F, series, source, span)
<1> DEFINE last == Count(series) - 2 * span
           seqs == [k \in 1 .. last |-> PointsAt(series, source, span, k + span - 1)]
<1>1. last \in Nat \ {0}
  BY DEF SoundSeries
<1> HIDE DEF last
<1>2. Len(seqs) = last
  BY <1>1
<1>3. LocalPoints(series, source, span) = FlattenSeq(seqs)
  BY DEF LocalPoints, last
<1>4. PICK F : /\ FlattenSeq(seqs) = F[Len(seqs)]
               /\ F[1] = seqs[1]
               /\ \A i \in 2 .. Len(seqs) : F[i] = F[i - 1] \o seqs[i]
  <2>1. Len(seqs) \in Nat \ {0}
    BY <1>1, <1>2
  <2> HIDE DEF seqs
  <2> QED
    BY <2>1, FlattenUnfolds
<1>5. seqs[1] = PointsAt(series, source, span, span)
  <2>1. 1 \in 1 .. last /\ 1 + span - 1 = span
    BY <1>1
  <2>2. seqs[1] = PointsAt(series, source, span, 1 + span - 1)
    BY <2>1
  <2> QED
    BY <2>1, <2>2
<1>6. \A i \in 2 .. last : seqs[i] = PointsAt(series, source, span, i + span - 1)
  <2>1. \A i \in 2 .. last : i \in 1 .. last
    OBVIOUS
  <2> QED
    BY <2>1
<1> HIDE DEF seqs
<1>7. /\ LocalPoints(series, source, span) = F[last]
      /\ F[1] = PointsAt(series, source, span, span)
      /\ \A i \in 2 .. last : F[i] = F[i - 1] \o PointsAt(series, source, span, i + span - 1)
  BY <1>2, <1>3, <1>4, <1>5, <1>6
<1> QED
  BY <1>7 DEF last, Grows

LEMMA ConcatLengthens ==
  ASSUME NEW S, NEW before \in Seq(S), NEW new \in Seq(S), NEW i,
         \A k \in 1 .. Len(new) : new[k].confirmation = i
  PROVE  before \o new \in Seq(S) /\ Lengthens(before, before \o new, i)
<1>1. /\ before \o new \in Seq(S) /\ Len(before) \in Nat /\ Len(new) \in Nat
      /\ Len(before \o new) = Len(before) + Len(new)
      /\ \A k \in 1 .. Len(before) + Len(new) :
           (before \o new)[k] = IF k <= Len(before) THEN before[k] ELSE new[k - Len(before)]
  BY ConcatProperties
<1> DEFINE after == before \o new
<1> HIDE DEF after
<1>2. \A k \in 1 .. Len(before) : after[k] = before[k]
  BY <1>1 DEF after
<1>3. ASSUME NEW k \in Len(before) + 1 .. Len(after) PROVE after[k].confirmation = i
  <2>1. k - Len(before) \in 1 .. Len(new) /\ k \in 1 .. Len(before) + Len(new)
        /\ ~(k <= Len(before))
    BY <1>1 DEF after
  <2>2. after[k] = new[k - Len(before)]
    BY <1>1, <2>1 DEF after
  <2> QED
    BY <2>1, <2>2
<1>4. Len(before) <= Len(after)
  BY <1>1 DEF after
<1> QED
  BY <1>1, <1>2, <1>3, <1>4 DEF Lengthens, after

LEMMA LocalGrows ==
  ASSUME NEW series, SoundSeries(series), NEW source, NEW span \in Nat \ {0},
         Count(series) >= 2 * span + 1, NEW F, Grows(F, series, source, span)
  PROVE  Growing(F, LocalPointsOf(series, source, span),
                 1, Count(series) - 2 * span, 2 * span - 1)
<1> DEFINE n == Count(series)
           b == n - 2 * span
           S == LocalPointsOf(series, source, span)
           P(i) == PointsAt(series, source, span, i + span - 1)
           T == {i \in Int : i <= b => F[i] \in Seq(S)}
<1>1. n \in Nat /\ DOMAIN series = 0 .. n - 1
  BY DEF SoundSeries
<1>2. ASSUME NEW i \in 1 .. b
      PROVE  /\ P(i) \in Seq(S)
             /\ \A k \in 1 .. Len(P(i)) : P(i)[k].confirmation = i + (2 * span - 1)
  <2>1. i + span - 1 \in DOMAIN series /\ (i + span - 1) + span = i + (2 * span - 1)
    BY <1>1
  <2> DEFINE j == i + span - 1
             p == PointsAt(series, source, span, j)
  <2>2. p \in Seq(S) /\ \A k \in 1 .. Len(p) : p[k].confirmation = j + span
    <3>1. j \in DOMAIN series /\ span \in Nat
      BY <2>1
    <3> HIDE DEF j
    <3> QED
      BY <3>1, PointsOfCandle
  <2>3. P(i) = p /\ j + span = i + (2 * span - 1)
    BY <2>1
  <2> HIDE DEF p, j, P, S
  <2> QED
    BY <2>2, <2>3
<1>3. F[1] = P(1)
  <2>1. 1 + span - 1 = span
    OBVIOUS
  <2> QED
    BY <2>1 DEF Grows
<1>4. \A i \in 2 .. b : F[i] = F[i - 1] \o P(i)
  BY DEF Grows
<1>5. 1 \in 1 .. b /\ b \in Int
  BY <1>1
<1> HIDE DEF n, b, S, P
<1>6. 1 \in T
  BY <1>2, <1>3, <1>5
<1>7. ASSUME NEW i \in Int, i >= 1, i \in T PROVE i + 1 \in T
  <2> SUFFICES ASSUME i + 1 <= b PROVE F[i + 1] \in Seq(S)
    OBVIOUS
  <2>1. i + 1 \in 2 .. b /\ i + 1 \in 1 .. b /\ (i + 1) - 1 = i /\ i <= b
    BY <1>5, <1>7
  <2>2. F[i] \in Seq(S) /\ P(i + 1) \in Seq(S)
    BY <1>2, <1>7, <2>1
  <2>3. F[i + 1] = F[i] \o P(i + 1)
    BY <1>4, <2>1
  <2> QED
    BY <2>2, <2>3, ConcatProperties
<1>8. \A i \in Int : i >= 1 => i \in T
  <2> HIDE DEF T
  <2> QED
    BY <1>6, <1>7, InductionFrom
<1>9. \A i \in 1 .. b : F[i] \in Seq(S)
  BY <1>5, <1>8
<1>10. ASSUME NEW i \in 2 .. b PROVE Lengthens(F[i - 1], F[i], i + (2 * span - 1))
  <2>1. i - 1 \in 1 .. b /\ i \in 1 .. b
    BY <1>5
  <2>2. F[i - 1] \in Seq(S)
    BY <1>9, <2>1
  <2>3. P(i) \in Seq(S) /\ \A k \in 1 .. Len(P(i)) : P(i)[k].confirmation = i + (2 * span - 1)
    BY <1>2, <2>1
  <2>4. Lengthens(F[i - 1], F[i - 1] \o P(i), i + (2 * span - 1))
    BY <2>2, <2>3, ConcatLengthens
  <2> QED
    BY <1>4, <2>4
<1>11. \A k \in 1 .. Len(F[1]) : F[1][k].confirmation = 1 + (2 * span - 1)
  BY <1>2, <1>3, <1>5
<1>12. \A i \in 1 + 1 .. b : Lengthens(F[i - 1], F[i], i + (2 * span - 1))
  BY <1>10
<1>13. Growing(F, S, 1, b, 2 * span - 1)
  BY <1>9, <1>11, <1>12 DEF Growing
<1> QED
  BY <1>13 DEF b, n, S

(* Whether a candle is an extreme lies within its window.                  *)
LEMMA PointsOfCandleAreFinal ==
  ASSUME NEW series, SoundSeries(series), NEW source, NEW span \in Nat,
         NEW m \in 1 .. Count(series), NEW i \in span .. m - 1 - span
  PROVE  PointsAt(Prefix(series, m), source, span, i) = PointsAt(series, source, span, i)
<1> DEFINE cut == Prefix(series, m)
<1>1. m \in Nat /\ \A k \in 0 .. m - 1 : cut[k] = series[k]
  BY PrefixIsSeries
<1> HIDE DEF cut
<1>2. \A j \in (i - span .. i + span) : cut[j] = series[j]
  <2>1. \A j \in (i - span .. i + span) : j \in 0 .. m - 1
    BY <1>1
  <2> QED
    BY <1>1, <2>1
<1>3. i \in (i - span .. i + span)
  BY <1>1
<1>4. IsHigh(cut, source, span, i) <=> IsHigh(series, source, span, i)
  BY <1>2, <1>3 DEF IsHigh
<1>5. IsLow(cut, source, span, i) <=> IsLow(series, source, span, i)
  BY <1>2, <1>3 DEF IsLow
<1>6. cut[i] = series[i]
  BY <1>2, <1>3
<1> QED
  BY <1>4, <1>5, <1>6 DEF PointsAt, cut

LEMMA LocalIsFinal ==
  ASSUME NEW series, SoundSeries(series), NEW source, NEW span \in Nat \ {0},
         NEW m \in 2 * span + 1 .. Count(series)
  PROVE  /\ LocalPoints(series, source, span) \in Seq(LocalPointsOf(series, source, span))
         /\ Begins(LocalPoints(Prefix(series, m), source, span),
                   LocalPoints(series, source, span), m)
<1> DEFINE n    == Count(series)
           cut  == Prefix(series, m)
           b    == n - 2 * span
           c    == m - 2 * span
           d    == 2 * span - 1
           P(i) == PointsAt(series, source, span, i + span - 1)
           Q(i) == PointsAt(cut, source, span, i + span - 1)
           S    == LocalPointsOf(series, source, span)
           A    == LocalPoints(series, source, span)
           C    == LocalPoints(cut, source, span)
<1>1. /\ n \in Nat /\ m \in Nat /\ m \in 1 .. n /\ m <= n
      /\ m >= 2 * span + 1 /\ n >= 2 * span + 1
  BY DEF SoundSeries
<1>2. SoundSeries(cut) /\ Count(cut) = m
  <2>1. /\ Count(cut) = m /\ DOMAIN cut = 0 .. m - 1
        /\ \A k \in 0 .. m - 1 : cut[k] = series[k] /\ k \in DOMAIN series
    BY <1>1, PrefixIsSeries
  <2> HIDE DEF cut
  <2> QED
    BY <1>1, <2>1 DEF SoundSeries
<1>3. PICK F : A = F[b] /\ Grows(F, series, source, span)
  <2>1. Count(series) >= 2 * span + 1
    BY <1>1
  <2> QED
    BY <2>1, LocalUnfolds
<1>4. PICK G : C = G[c] /\ Grows(G, cut, source, span)
  <2>1. Count(cut) >= 2 * span + 1
    BY <1>1, <1>2
  <2> HIDE DEF cut
  <2> QED
    BY <1>2, <2>1, LocalUnfolds
<1>5. /\ PointsAt(cut, source, span, span) = PointsAt(series, source, span, span)
      /\ \A i \in 2 .. c : Q(i) = P(i)
  <2>1. span \in span .. m - 1 - span
    BY <1>1
  <2>2. \A i \in 2 .. c : i + span - 1 \in span .. m - 1 - span
    BY <1>1
  <2> QED
    BY <1>1, <2>1, <2>2, PointsOfCandleAreFinal
<1>6. /\ F[1] = PointsAt(series, source, span, span)
      /\ \A i \in 2 .. b : F[i] = F[i - 1] \o P(i)
  BY <1>3 DEF Grows
<1>7. /\ G[1] = PointsAt(cut, source, span, span)
      /\ \A i \in 2 .. c : G[i] = G[i - 1] \o Q(i)
  <2> DEFINE k == Count(cut)
  <2>1. /\ G[1] = PointsAt(cut, source, span, span)
        /\ \A i \in 2 .. k - 2 * span : G[i] = G[i - 1] \o Q(i)
    <3> HIDE DEF cut
    <3> QED
      BY <1>4 DEF Grows
  <2>2. k = m
    BY <1>2
  <2> HIDE DEF k, Q, cut
  <2> QED
    BY <2>1, <2>2
<1>8. Growing(F, S, 1, b, d)
  <2>1. Count(series) >= 2 * span + 1
    BY <1>1
  <2> QED
    BY <1>3, <2>1, LocalGrows
<1>9. /\ b \in Int /\ c \in Int /\ d \in Int /\ 1 <= c /\ c <= b /\ c + d + 1 = m
  BY <1>1
<1> HIDE DEF n, cut, b, c, d, P, Q, S, A, C
<1> DEFINE T == {i \in Int : i <= c => G[i] = F[i]}
<1>10. G[c] = F[c]
  <2>1. 1 \in T
    BY <1>5, <1>6, <1>7
  <2>2. ASSUME NEW i \in Int, i >= 1, i \in T PROVE i + 1 \in T
    <3> SUFFICES ASSUME i + 1 <= c PROVE G[i + 1] = F[i + 1]
      OBVIOUS
    <3>1. i + 1 \in 2 .. c /\ i + 1 \in 2 .. b /\ (i + 1) - 1 = i /\ i <= c
      BY <1>9, <2>2
    <3>2. G[i] = F[i]
      BY <2>2, <3>1
    <3>3. F[i + 1] = F[i] \o P(i + 1)
      BY <1>6, <3>1
    <3>4. G[i + 1] = G[i] \o Q(i + 1)
      BY <1>7, <3>1
    <3> QED
      BY <1>5, <3>1, <3>2, <3>3, <3>4
  <2>3. \A i \in Int : i >= 1 => i \in T
    <3> HIDE DEF T
    <3> QED
      BY <2>1, <2>2, InductionFrom
  <2> QED
    BY <1>9, <2>3
<1>11. Begins(F[c], F[b], c + d + 1)
  <2>1. 1 \in Int /\ c \in 1 .. b
    BY <1>9
  <2> QED
    BY <1>8, <1>9, <2>1, Beginnings
<1>12. A \in Seq(S)
  <2>1. b \in 1 .. b
    BY <1>9
  <2> QED
    BY <1>3, <1>8, <2>1 DEF Growing
<1>13. Begins(C, A, m)
  BY <1>3, <1>4, <1>9, <1>10, <1>11
<1> QED
  BY <1>12, <1>13 DEF A, C, S, cut

LEMMA ReversalIsFinal ==
  ASSUME NEW series, SoundSeries(series), NEW s, FirstCandle(s) \in Nat,
         NEW m \in FirstCandle(s) + 1 .. Count(series), NEW atr, NEW atrC,
         \A i \in FirstCandle(s) .. m - 1 :
           /\ HighAt(Prefix(series, m), s, atrC, i) = HighAt(series, s, atr, i)
           /\ LowAt(Prefix(series, m), s, atrC, i) = LowAt(series, s, atr, i)
  PROVE  /\ ReversalPoints(series, s, atr) \in Seq(Reversals(series, s, atr))
         /\ Begins(ReversalPoints(Prefix(series, m), s, atrC),
                   ReversalPoints(series, s, atr), m)
<1> DEFINE a     == FirstCandle(s)
           n     == Count(series)
           cut   == Prefix(series, m)
           pass  == ReversalPass(series, s, atr)
           passC == ReversalPass(cut, s, atrC)
           S     == Reversals(series, s, atr)
           F     == [i \in a .. n - 1 |-> pass[i].points]
<1>1. n \in Nat /\ m \in Nat /\ a < m /\ m <= n /\ m \in 1 .. n /\ a < n
  BY DEF SoundSeries
<1>2. Count(cut) = m
  BY <1>1, PrefixIsSeries
<1>3. \A i \in a .. m - 1 : passC[i] = pass[i]
  BY PassIsFinal
<1>4. /\ pass[a].points = <<>>
      /\ \A i \in a .. n - 1 : pass[i] \in PassStates(series, s, atr)
      /\ \A i \in a + 1 .. n - 1 : Lengthens(pass[i - 1].points, pass[i].points, i)
  BY <1>1, PassIsTyped
<1>5. \A i \in a .. n - 1 : pass[i].points \in Seq(S)
  BY <1>4 DEF PassStates
<1>6. /\ ReversalPoints(series, s, atr) = pass[n - 1].points
      /\ ReversalPoints(cut, s, atrC) = pass[m - 1].points
  <2>1. m - 1 \in a .. m - 1
    BY <1>1
  <2>2. ReversalPoints(cut, s, atrC) = passC[m - 1].points
    BY <1>2 DEF ReversalPoints
  <2> HIDE DEF pass, passC
  <2>3. ReversalPoints(cut, s, atrC) = pass[m - 1].points
    BY <1>3, <2>1, <2>2
  <2> QED
    BY <2>3 DEF ReversalPoints, pass
<1> HIDE DEF n, cut, pass, passC, S
<1>7. \A i \in a .. n - 1 : F[i] = pass[i].points
  OBVIOUS
<1>8. a \in a .. n - 1 /\ m - 1 \in a .. n - 1 /\ n - 1 \in a .. n - 1
  BY <1>1
<1>9. \A i \in a .. n - 1 : F[i] \in Seq(S)
  BY <1>5, <1>7
<1>10. \A k \in 1 .. Len(F[a]) : F[a][k].confirmation = a + 0
  <2>1. F[a] = <<>>
    BY <1>4, <1>7, <1>8
  <2>2. Len(F[a]) = 0
    BY <2>1
  <2> HIDE DEF F
  <2> QED
    BY <2>2
<1>11. \A i \in a + 1 .. n - 1 : Lengthens(F[i - 1], F[i], i + 0)
  <2> SUFFICES ASSUME NEW i \in a + 1 .. n - 1 PROVE Lengthens(F[i - 1], F[i], i + 0)
    OBVIOUS
  <2>1. i - 1 \in a .. n - 1 /\ i \in a .. n - 1 /\ i + 0 = i
    BY <1>1
  <2> HIDE DEF F
  <2> QED
    BY <1>4, <1>7, <2>1
<1>12. Begins(F[m - 1], F[n - 1], (m - 1) + 0 + 1)
  <2>1. a \in Int /\ n - 1 \in Int /\ 0 \in Int
    BY <1>1
  <2>2. Growing(F, S, a, n - 1, 0)
    <3> HIDE DEF F
    <3> QED
      BY <1>9, <1>10, <1>11 DEF Growing
  <2> HIDE DEF F, a
  <2> QED
    BY <1>8, <2>1, <2>2, Beginnings
<1>13. (m - 1) + 0 + 1 = m
  BY <1>1
<1> HIDE DEF F
<1>14. Begins(F[m - 1], F[n - 1], m)
  BY <1>12, <1>13
<1> QED
  BY <1>6, <1>7, <1>8, <1>9, <1>14 DEF cut, S

(* All three methods together: the points are those of candles, and later  *)
(* candles only add to them.                                               *)
LEMMA DetectionIsFinal ==
  ASSUME NEW series, SoundSeries(series), NEW s, SoundSettings(s),
         NEW m \in MinimumCount(s) .. Count(series)
  PROVE  /\ \E S : /\ DetectExtrema(series, s, NoSequence) \in Seq(S)
                  /\ \A p \in S : FromCandle(series, s.source, p)
         /\ Begins(DetectExtrema(Prefix(series, m), s, NoSequence),
                   DetectExtrema(series, s, NoSequence), m)
<1> DEFINE cut == Prefix(series, m)
           found == DetectExtrema(series, s, NoSequence)
           Goal == /\ \E S : found \in Seq(S) /\ \A p \in S : FromCandle(series, s.source, p)
                   /\ Begins(DetectExtrema(cut, s, NoSequence), found, m)
<1>1. ASSUME s.method = "local" PROVE Goal
  <2>1. s.span \in Nat \ {0} /\ MinimumCount(s) = 2 * s.span + 1
    BY <1>1 DEF SoundSettings, MinimumCount
  <2>2. /\ found = LocalPoints(series, s.source, s.span)
        /\ DetectExtrema(cut, s, NoSequence) = LocalPoints(cut, s.source, s.span)
    BY <1>1 DEF DetectExtrema
  <2>3. /\ LocalPoints(series, s.source, s.span) \in Seq(LocalPointsOf(series, s.source, s.span))
        /\ Begins(LocalPoints(cut, s.source, s.span), LocalPoints(series, s.source, s.span), m)
    BY <2>1, LocalIsFinal
  <2>4. \A p \in LocalPointsOf(series, s.source, s.span) : FromCandle(series, s.source, p)
    BY <2>1, LocalPointsAreFromCandles
  <2> HIDE DEF cut
  <2> QED
    BY <2>2, <2>3, <2>4
<1>2. ASSUME NEW atr, NEW atrC, s.method # "local",
             found = ReversalPoints(series, s, atr),
             DetectExtrema(cut, s, NoSequence) = ReversalPoints(cut, s, atrC),
             FirstCandle(s) \in Nat, m \in FirstCandle(s) + 1 .. Count(series),
             \A i \in FirstCandle(s) .. m - 1 : s.method = "atr" => atrC[i] = atr[i]
      PROVE  Goal
  <2>1. m \in 1 .. Count(series)
    BY <1>2 DEF SoundSeries
  <2>2. \A k \in 0 .. m - 1 : cut[k] = series[k]
    BY <2>1, PrefixIsSeries
  <2>3. ASSUME NEW i \in FirstCandle(s) .. m - 1
        PROVE  /\ HighAt(cut, s, atrC, i) = HighAt(series, s, atr, i)
               /\ LowAt(cut, s, atrC, i) = LowAt(series, s, atr, i)
    <3>1. cut[i] = series[i]
      <4>1. i \in 0 .. m - 1
        BY <1>2
      <4> QED
        BY <2>2, <4>1
    <3>2. \A price : Evidence(s, atrC, i, price) = Evidence(s, atr, i, price)
      <4>1. s.method # "percent" => s.method = "atr"
        BY <1>2 DEF SoundSettings
      <4>2. s.method = "atr" => atrC[i] = atr[i]
        BY <1>2
      <4> QED
        BY <4>1, <4>2 DEF Evidence
    <3> HIDE DEF cut
    <3> QED
      BY <3>1, <3>2 DEF HighAt, LowAt, Candidate
  <2>4. /\ ReversalPoints(series, s, atr) \in Seq(Reversals(series, s, atr))
        /\ Begins(ReversalPoints(cut, s, atrC), ReversalPoints(series, s, atr), m)
    BY <1>2, <2>3, ReversalIsFinal
  <2>5. \A p \in Reversals(series, s, atr) : FromCandle(series, s.source, p)
    BY ReversalsAreFromCandles
  <2> HIDE DEF cut, found
  <2> QED
    BY <1>2, <2>4, <2>5
<1>3. Count(series) \in Nat
  BY DEF SoundSeries
<1>4. ASSUME s.method = "percent" PROVE Goal
  <2>1. MinimumCount(s) = 2 /\ FirstCandle(s) = 0
    BY <1>4 DEF MinimumCount, FirstCandle
  <2>2. m \in 1 .. Count(series) /\ 0 + 1 = 1
    BY <1>3, <2>1
  <2>3. /\ found = ReversalPoints(series, s, <<>>)
        /\ DetectExtrema(cut, s, NoSequence) = ReversalPoints(cut, s, <<>>)
    BY <1>4 DEF DetectExtrema
  <2> HIDE DEF cut, found, Goal
  <2> QED
    BY <1>2, <1>4, <2>1, <2>2, <2>3
<1>5. ASSUME s.method = "atr" PROVE Goal
  <2> DEFINE atr  == Wilder!ATRSequenceOf(series, s.period)
             atrC == Wilder!ATRSequenceOf(cut, s.period)
  <2>1. s.period \in Nat \ {0} /\ MinimumCount(s) = s.period + 2 /\ FirstCandle(s) = s.period
    BY <1>5 DEF MinimumCount, FirstCandle, SoundSettings
  <2>2. m \in s.period + 1 .. Count(series)
    BY <1>3, <2>1
  <2>3. \A i \in s.period .. m - 1 : atrC[i] = atr[i]
    BY <2>1, <2>2, SequenceIsFinal
  <2>4. /\ SequenceFor(series, s, NoSequence).values = atr
        /\ SequenceFor(cut, s, NoSequence).values = atrC
    BY <2>1 DEF SequenceFor, NoSequence, SequenceOf
  <2>5. /\ found = ReversalPoints(series, s, atr)
        /\ DetectExtrema(cut, s, NoSequence) = ReversalPoints(cut, s, atrC)
    <3>1. /\ found = ReversalPoints(series, s, SequenceFor(series, s, NoSequence).values)
          /\ DetectExtrema(cut, s, NoSequence)
               = ReversalPoints(cut, s, SequenceFor(cut, s, NoSequence).values)
      BY <1>5 DEF DetectExtrema
    <3> HIDE DEF found, cut, atr, atrC
    <3> QED
      BY <2>4, <3>1
  <2> HIDE DEF cut, found, Goal, atr, atrC
  <2> QED
    BY <1>2, <1>5, <2>1, <2>2, <2>3, <2>5
<1>6. Goal
  <2> HIDE DEF Goal
  <2> QED
    BY <1>1, <1>4, <1>5 DEF SoundSettings
<1> QED
  BY <1>6
-----------------------------------------------------------------------------
(* A finite set of integers has a largest and a smallest element.          *)
LEMMA FiniteExtremes ==
  ASSUME NEW S \in SUBSET Int, IsFiniteSet(S), S # {}
  PROVE  /\ Max(S) \in S /\ \A x \in S : x <= Max(S)
         /\ Min(S) \in S /\ \A x \in S : Min(S) <= x
<1> DEFINE Bounded(U) == /\ \E x \in U : \A y \in U : x >= y
                         /\ \E x \in U : \A y \in U : x <= y
           T == {n \in Nat : \A U \in SUBSET Int :
                   IsFiniteSet(U) /\ U # {} /\ Cardinality(U) = n => Bounded(U)}
<1>1. 0 \in T
  <2>1. \A U \in SUBSET Int : ~(IsFiniteSet(U) /\ U # {} /\ Cardinality(U) = 0)
    BY FS_EmptySet
  <2> QED
    BY <2>1
<1>2. \A n \in Nat : n \in T => n + 1 \in T
  <2> SUFFICES ASSUME NEW n \in Nat, n \in T, NEW U \in SUBSET Int,
                      IsFiniteSet(U), U # {}, Cardinality(U) = n + 1
               PROVE  Bounded(U)
    OBVIOUS
  <2>1. PICK x \in U : TRUE
    OBVIOUS
  <2> DEFINE V == U \ {x}
  <2>2. IsFiniteSet(V) /\ Cardinality(V) = (n + 1) - 1
    BY FS_RemoveElement
  <2>3. Cardinality(V) = n
    BY <2>2
  <2>4. CASE V = {}
    <3>1. U = {x}
      BY <2>4
    <3> QED
      BY <3>1
  <2>5. CASE V # {}
    <3>1. V \in SUBSET Int
      OBVIOUS
    <3>2. Bounded(V)
      <4> HIDE DEF V, Bounded
      <4> QED
        BY <2>2, <2>3, <2>5, <3>1
    <3>3. PICK a \in V : \A y \in V : a >= y
      BY <3>2
    <3>4. PICK b \in V : \A y \in V : b <= y
      BY <3>2
    <3>5. \E z \in U : \A y \in U : z >= y
      <4>1. CASE x >= a
        <5>1. \A y \in U : x >= y
          BY <3>3, <4>1
        <5> QED
          BY <5>1
      <4>2. CASE a >= x
        <5>1. a \in U /\ \A y \in U : a >= y
          BY <3>3, <4>2
        <5> QED
          BY <5>1
      <4> QED
        BY <4>1, <4>2
    <3>6. \E z \in U : \A y \in U : z <= y
      <4>1. CASE x <= b
        <5>1. \A y \in U : x <= y
          BY <3>4, <4>1
        <5> QED
          BY <5>1
      <4>2. CASE b <= x
        <5>1. b \in U /\ \A y \in U : b <= y
          BY <3>4, <4>2
        <5> QED
          BY <5>1
      <4> QED
        BY <4>1, <4>2
    <3> QED
      BY <3>5, <3>6
  <2> QED
    BY <2>4, <2>5
<1>3. Cardinality(S) \in Nat
  BY FS_CardinalityType
<1>4. Cardinality(S) \in T
  <2> HIDE DEF T
  <2> QED
    BY <1>1, <1>2, <1>3, Induction
<1>5. Bounded(S)
  <2> HIDE DEF Bounded
  <2> QED
    BY <1>4
<1>6. /\ Max(S) \in S /\ \A x \in S : Max(S) >= x
      /\ Min(S) \in S /\ \A x \in S : Min(S) <= x
  BY <1>5 DEF Max, Min
<1> QED
  BY <1>6

LEMMA PricesAreOrdered ==
  ASSUME NEW series, SoundSeries(series), NEW source, NEW k \in DOMAIN series
  PROVE  /\ HighPrice(series[k], source) \in Nat /\ LowPrice(series[k], source) \in Nat
         /\ LowPrice(series[k], source) <= HighPrice(series[k], source)
BY DEF SoundSeries, HighPrice, LowPrice

-----------------------------------------------------------------------------
(* Points in order of time; of two on one candle the high comes first.     *)
Precedes(p, q) ==
  \/ p.index < q.index
  \/ p.index = q.index /\ p.kind = "HIGH" /\ q.kind = "LOW"

InTimeOrder(ps) ==
  \A j, k \in 1 .. Len(ps) : j < k => Precedes(ps[j], ps[k])

(* Where a reversal pass stands after candle i: the candidates are of      *)
(* candles it has read, and the one it will confirm next is younger than   *)
(* every point.                                                            *)
Timely(t, i) ==
  /\ t.high.index \in 0 .. i /\ t.low.index \in 0 .. i
  /\ \A k \in 1 .. Len(t.points) :
       /\ t.points[k].index \in Nat /\ t.points[k].confirmation \in 0 .. i
       /\ t.points[k].index < t.points[k].confirmation
       /\ t.searching # "UNKNOWN"
       /\ t.searching = "LOW" => t.points[k].index < t.low.index
       /\ t.searching = "HIGH" => t.points[k].index < t.high.index
  /\ \A j, k \in 1 .. Len(t.points) : j < k => t.points[j].index < t.points[k].index

LEMMA IterationIsTimely ==
  ASSUME NEW series, SoundSeries(series), NEW s, NEW atr,
         NEW t \in PassStates(series, s, atr), NEW i \in DOMAIN series, i > 0,
         Timely(t, i - 1)
  PROVE  Timely(Iteration(series, s, atr, t, i), i)
<1> DEFINE highest == HighAt(series, s, atr, i)
           lowest  == LowAt(series, s, atr, i)
           high == IF t.searching # "LOW" /\ highest.price >= t.high.price THEN highest ELSE t.high
           low  == IF t.searching # "HIGH" /\ lowest.price <= t.low.price THEN lowest ELSE t.low
           confirmHigh == t.searching # "LOW" /\ Confirmed(high, i, high.price - lowest.price)
           confirmLow  == t.searching # "HIGH" /\ Confirmed(low, i, highest.price - low.price)
           new == Iteration(series, s, atr, t, i)
           P   == Reversals(series, s, atr)
<1>1. /\ t.points \in Seq(P) /\ t.searching \in {"UNKNOWN", "LOW", "HIGH"}
      /\ t = [high |-> t.high, low |-> t.low, searching |-> t.searching, points |-> t.points]
      /\ Len(t.points) \in Nat
  BY DEF PassStates
<1>2. i \in Nat /\ i - 1 \in Nat
  BY DEF SoundSeries
<1>3. highest.index = i /\ lowest.index = i
  BY DEF HighAt, LowAt, Candidate
<1>4. new = IF confirmHigh = confirmLow
              THEN [t EXCEPT !.high = high, !.low = low]
            ELSE IF confirmHigh
              THEN [high |-> high, low |-> lowest, searching |-> "LOW",
                    points |-> Append(t.points, ConfirmedPoint("HIGH", high, i))]
              ELSE [high |-> highest, low |-> low, searching |-> "HIGH",
                    points |-> Append(t.points, ConfirmedPoint("LOW", low, i))]
  BY DEF Iteration
<1>5. /\ confirmHigh => t.searching # "LOW" /\ high.index < i
      /\ confirmLow => t.searching # "HIGH" /\ low.index < i
  BY DEF Confirmed
<1>6. /\ t.high.index \in 0 .. i - 1 /\ t.low.index \in 0 .. i - 1
      /\ \A k \in 1 .. Len(t.points) :
           /\ t.points[k].index \in Nat /\ t.points[k].confirmation \in 0 .. i - 1
           /\ t.points[k].index < t.points[k].confirmation
           /\ t.searching # "UNKNOWN"
           /\ t.searching = "LOW" => t.points[k].index < t.low.index
           /\ t.searching = "HIGH" => t.points[k].index < t.high.index
      /\ \A j, k \in 1 .. Len(t.points) : j < k => t.points[j].index < t.points[k].index
  BY DEF Timely
<1>7. /\ high = highest \/ high = t.high
      /\ low = lowest \/ low = t.low
  OBVIOUS
<1> HIDE DEF highest, lowest, high, low, confirmHigh, confirmLow, new, P
<1>8. high.index \in 0 .. i /\ low.index \in 0 .. i
  BY <1>2, <1>3, <1>6, <1>7
<1>9. \A k \in 1 .. Len(t.points) :
        /\ t.searching # "LOW" => t.points[k].index < high.index
        /\ t.searching # "HIGH" => t.points[k].index < low.index
  <2> SUFFICES ASSUME NEW k \in 1 .. Len(t.points)
               PROVE  /\ t.searching # "LOW" => t.points[k].index < high.index
                      /\ t.searching # "HIGH" => t.points[k].index < low.index
    OBVIOUS
  <2>1. t.points[k].index \in Nat /\ t.points[k].index < i
    <3>1. /\ t.points[k].index \in Nat /\ t.points[k].confirmation \in 0 .. i - 1
          /\ t.points[k].index < t.points[k].confirmation
      BY <1>6
    <3> QED
      BY ONLY <1>2, <3>1
  <2>2. /\ t.searching \in {"LOW", "HIGH"}
        /\ t.searching = "LOW" => t.points[k].index < t.low.index
        /\ t.searching = "HIGH" => t.points[k].index < t.high.index
    BY <1>1, <1>6
  <2> QED
    BY <1>3, <1>7, <2>1, <2>2
<1>10. ASSUME NEW p, p \in P, p.index \in Nat, p.confirmation = i, p.index < i,
              \A k \in 1 .. Len(t.points) : t.points[k].index < p.index,
              NEW after, after = Append(t.points, p)
       PROVE  \A k \in 1 .. Len(after) :
                /\ after[k].index \in Nat /\ after[k].confirmation \in 0 .. i
                /\ after[k].index < after[k].confirmation
                /\ after[k].index <= p.index
                /\ \A j \in 1 .. Len(after) : j < k => after[j].index < after[k].index
  <2>1. /\ Len(after) = Len(t.points) + 1 /\ after[Len(t.points) + 1] = p
        /\ \A k \in 1 .. Len(t.points) : after[k] = t.points[k]
    BY <1>1, <1>10
  <2>2. ASSUME NEW k \in 1 .. Len(after)
        PROVE  \/ k \in 1 .. Len(t.points) /\ after[k] = t.points[k]
               \/ k = Len(t.points) + 1 /\ after[k] = p
    BY <1>1, <2>1
  <2>3. ASSUME NEW k \in 1 .. Len(after)
        PROVE  /\ after[k].index \in Nat /\ after[k].confirmation \in 0 .. i
               /\ after[k].index < after[k].confirmation
               /\ after[k].index <= p.index
    BY <1>2, <1>6, <1>10, <2>2, SMTT(30)
  <2>4. ASSUME NEW k \in 1 .. Len(after), NEW j \in 1 .. Len(after), j < k
        PROVE  after[j].index < after[k].index
    <3>1. j \in 1 .. Len(t.points) /\ after[j] = t.points[j]
      BY <1>1, <2>1, <2>2, <2>4
    <3>2. CASE k \in 1 .. Len(t.points) /\ after[k] = t.points[k]
      BY <1>6, <2>4, <3>1, <3>2
    <3>3. CASE after[k] = p
      BY <1>10, <3>1, <3>3
    <3> QED
      BY <2>2, <3>2, <3>3
  <2> QED
    BY <2>3, <2>4
<1>11. ASSUME confirmHigh = confirmLow PROVE Timely(new, i)
  <2>1. new = [high |-> high, low |-> low, searching |-> t.searching, points |-> t.points]
    <3>1. new = [t EXCEPT !.high = high, !.low = low]
      BY <1>4, <1>11
    <3> QED
      BY <1>1, <3>1
  <2>2. new.high = high /\ new.low = low /\ new.searching = t.searching /\ new.points = t.points
    BY <2>1
  <2>3. \A k \in 1 .. Len(t.points) :
          /\ t.points[k].confirmation \in 0 .. i
          /\ t.searching = "LOW" => t.points[k].index < low.index
          /\ t.searching = "HIGH" => t.points[k].index < high.index
    BY <1>2, <1>6, <1>9
  <2> QED
    BY <1>6, <1>8, <2>2, <2>3 DEF Timely
<1>12. ASSUME NEW kind \in {"HIGH", "LOW"}, NEW c, NEW other,
              c.index \in 0 .. i, c.index < i, other.index = i,
              \A k \in 1 .. Len(t.points) : t.points[k].index < c.index,
              ConfirmedPoint(kind, c, i) \in P,
              new.points = Append(t.points, ConfirmedPoint(kind, c, i)),
              new.searching = IF kind = "HIGH" THEN "LOW" ELSE "HIGH",
              new.high = IF kind = "HIGH" THEN c ELSE other,
              new.low = IF kind = "HIGH" THEN other ELSE c
       PROVE  Timely(new, i)
  <2> DEFINE p == ConfirmedPoint(kind, c, i)
  <2>1. p.index = c.index /\ p.confirmation = i
    BY DEF ConfirmedPoint
  <2>2. p \in P /\ new.points = Append(t.points, p)
    BY <1>12
  <2> HIDE DEF p
  <2>3. \A k \in 1 .. Len(new.points) :
          /\ new.points[k].index \in Nat /\ new.points[k].confirmation \in 0 .. i
          /\ new.points[k].index < new.points[k].confirmation
          /\ new.points[k].index <= p.index
          /\ \A j \in 1 .. Len(new.points) : j < k => new.points[j].index < new.points[k].index
    <3>1. p.index \in Nat /\ p.index < i
      BY <1>2, <1>12, <2>1
    <3>2. \A k \in 1 .. Len(t.points) : t.points[k].index < p.index
      BY <1>12, <2>1
    <3> QED
      BY <1>10, <2>1, <2>2, <3>1, <3>2
  <2>4. new.high.index \in 0 .. i /\ new.low.index \in 0 .. i
    BY <1>2, <1>12
  <2>5. \A k \in 1 .. Len(new.points) :
          /\ new.searching # "UNKNOWN"
          /\ new.searching = "LOW" => new.points[k].index < new.low.index
          /\ new.searching = "HIGH" => new.points[k].index < new.high.index
    BY <1>2, <1>12, <2>1, <2>3, SMTT(30)
  <2> QED
    BY <2>3, <2>4, <2>5 DEF Timely
<1>13. /\ high \in HighCandidates(series, s, atr) /\ low \in LowCandidates(series, s, atr)
  BY <1>7 DEF PassStates, HighCandidates, LowCandidates, highest, lowest
<1>14. ConfirmedPoint("HIGH", high, i) \in P /\ ConfirmedPoint("LOW", low, i) \in P
  BY <1>13 DEF P, Reversals
<1>15. ASSUME confirmHigh # confirmLow, confirmHigh PROVE Timely(new, i)
  <2>1. new = [high |-> high, low |-> lowest, searching |-> "LOW",
               points |-> Append(t.points, ConfirmedPoint("HIGH", high, i))]
    BY <1>4, <1>15
  <2>2. /\ new.high = high /\ new.low = lowest /\ new.searching = "LOW"
        /\ new.points = Append(t.points, ConfirmedPoint("HIGH", high, i))
    BY <2>1
  <2>3. \A k \in 1 .. Len(t.points) : t.points[k].index < high.index
    BY <1>5, <1>9, <1>15
  <2> QED
    BY <1>3, <1>5, <1>8, <1>12, <1>14, <1>15, <2>2, <2>3
<1>16. ASSUME confirmHigh # confirmLow, ~confirmHigh PROVE Timely(new, i)
  <2>0. confirmLow
    BY <1>16 DEF confirmHigh, confirmLow, Confirmed
  <2>1. new = [high |-> highest, low |-> low, searching |-> "HIGH",
               points |-> Append(t.points, ConfirmedPoint("LOW", low, i))]
    BY <1>4, <1>16
  <2>2. /\ new.high = highest /\ new.low = low /\ new.searching = "HIGH"
        /\ new.points = Append(t.points, ConfirmedPoint("LOW", low, i))
    BY <2>1
  <2>3. \A k \in 1 .. Len(t.points) : t.points[k].index < low.index
    BY <1>5, <1>9, <2>0
  <2> QED
    BY <1>3, <1>5, <1>8, <1>12, <1>14, <2>0, <2>2, <2>3
<1> QED
  BY <1>11, <1>15, <1>16 DEF new

LEMMA PassIsTimely ==
  ASSUME NEW series, SoundSeries(series), NEW s, NEW atr,
         FirstCandle(s) \in Nat, FirstCandle(s) < Count(series)
  PROVE  \A i \in FirstCandle(s) .. Count(series) - 1 : Timely(ReversalPass(series, s, atr)[i], i)
<1> DEFINE a    == FirstCandle(s)
           n    == Count(series)
           pass == ReversalPass(series, s, atr)
           T    == {i \in Int : i <= n - 1 => Timely(pass[i], i)}
<1>1. n \in Nat /\ DOMAIN series = 0 .. n - 1 /\ a \in DOMAIN series
  BY DEF SoundSeries
<1>2. /\ pass[a] = [high |-> HighAt(series, s, atr, a), low |-> LowAt(series, s, atr, a),
                    searching |-> "UNKNOWN", points |-> <<>>]
      /\ \A i \in a + 1 .. n - 1 : pass[i] = Iteration(series, s, atr, pass[i - 1], i)
  BY <1>1, PassUnfolds
<1>3. \A i \in a .. n - 1 : pass[i] \in PassStates(series, s, atr)
  BY <1>1, PassIsTyped
<1> HIDE DEF pass, n
<1>4. a \in T
  <2>1. /\ pass[a].points = <<>> /\ Len(pass[a].points) = 0
        /\ pass[a].high.index = a /\ pass[a].low.index = a
    BY <1>2 DEF HighAt, LowAt, Candidate
  <2>2. a \in 0 .. a /\ a \in Int
    OBVIOUS
  <2> HIDE DEF a
  <2> QED
    BY <2>1, <2>2 DEF Timely
<1>5. ASSUME NEW i \in Int, i >= a, i \in T PROVE i + 1 \in T
  <2> SUFFICES ASSUME i + 1 <= n - 1 PROVE Timely(pass[i + 1], i + 1)
    OBVIOUS
  <2>1. /\ i + 1 \in a + 1 .. n - 1 /\ i + 1 \in DOMAIN series /\ (i + 1) - 1 = i
        /\ i \in a .. n - 1 /\ i + 1 > 0
    BY <1>1, <1>5
  <2>2. Timely(pass[i], i) /\ pass[i] \in PassStates(series, s, atr)
    BY <1>1, <1>3, <1>5, <2>1
  <2>3. pass[i + 1] = Iteration(series, s, atr, pass[i], i + 1)
    BY <1>2, <2>1
  <2> QED
    BY <2>1, <2>2, <2>3, IterationIsTimely
<1>6. \A i \in Int : i >= a => i \in T
  <2> HIDE DEF T, a
  <2> QED
    BY <1>4, <1>5, InductionFrom DEF a
<1>7. \A i \in a .. n - 1 : Timely(pass[i], i)
  BY <1>1, <1>6
<1> QED
  BY <1>7 DEF pass, n

(* The points of one candle, tightened.                                    *)
LEMMA PointsOfCandleInOrder ==
  ASSUME NEW series, NEW source, NEW span \in Nat, NEW i
  PROVE  LET ps == PointsAt(series, source, span, i)
         IN  /\ Len(ps) \in Nat
             /\ \A k \in 1 .. Len(ps) : ps[k].index = i /\ ps[k].confirmation = i + span
             /\ InTimeOrder(ps)
<1> DEFINE high == PointAt("HIGH", i, HighPrice(series[i], source), span)
           low  == PointAt("LOW", i, LowPrice(series[i], source), span)
           ps   == PointsAt(series, source, span, i)
<1>1. /\ high.index = i /\ high.confirmation = i + span /\ high.kind = "HIGH"
      /\ low.index = i /\ low.confirmation = i + span /\ low.kind = "LOW"
  BY DEF PointAt
<1>2. ps = (IF IsHigh(series, source, span, i) THEN <<high>> ELSE <<>>)
           \o (IF IsLow(series, source, span, i) THEN <<low>> ELSE <<>>)
  BY DEF PointsAt
<1> HIDE DEF high, low, ps
<1>3. \/ ps = <<>> \/ ps = <<high>> \/ ps = <<low>>
      \/ Len(ps) = 2 /\ ps[1] = high /\ ps[2] = low
  <2>1. /\ Len(<<high>> \o <<low>>) = 2
        /\ (<<high>> \o <<low>>)[1] = high /\ (<<high>> \o <<low>>)[2] = low
    <3>1. <<high>> \in Seq({high, low}) /\ <<low>> \in Seq({high, low})
      OBVIOUS
    <3>2. Len(<<high>>) = 1 /\ Len(<<low>>) = 1 /\ <<high>>[1] = high /\ <<low>>[1] = low
      OBVIOUS
    <3> QED
      BY <3>1, <3>2, ConcatProperties
  <2>2. <<high>> \o <<>> = <<high>> /\ <<>> \o <<low>> = <<low>>
    OBVIOUS
  <2>3. <<>> \o <<>> = <<>>
    OBVIOUS
  <2>4. CASE IsHigh(series, source, span, i)
    <3>1. ps = <<high>> \o <<low>> \/ ps = <<high>> \o <<>>
      BY <1>2, <2>4
    <3> QED
      BY <2>1, <2>2, <3>1
  <2>5. CASE ~IsHigh(series, source, span, i)
    <3>1. ps = <<>> \o <<low>> \/ ps = <<>> \o <<>>
      BY <1>2, <2>5
    <3> QED
      BY <2>2, <2>3, <3>1
  <2> QED
    BY <2>4, <2>5
<1>4. /\ Len(ps) \in Nat
      /\ \A k \in 1 .. Len(ps) : ps[k].index = i /\ ps[k].confirmation = i + span
      /\ \A j, k \in 1 .. Len(ps) : j < k => ps[j].index = ps[k].index
                                             /\ ps[j].kind = "HIGH" /\ ps[k].kind = "LOW"
  <2>1. CASE ps = <<>>
    BY <2>1
  <2>2. CASE ps = <<high>>
    <3>1. Len(ps) = 1 /\ ps[1] = high
      BY <2>2
    <3> QED
      BY <1>1, <3>1
  <2>3. CASE ps = <<low>>
    <3>1. Len(ps) = 1 /\ ps[1] = low
      BY <2>3
    <3> QED
      BY <1>1, <3>1
  <2>4. CASE Len(ps) = 2 /\ ps[1] = high /\ ps[2] = low
    <3>1. \A k \in 1 .. 2 : k = 1 \/ k = 2
      OBVIOUS
    <3> QED
      BY <1>1, <2>4, <3>1
  <2> QED
    BY <1>3, <2>1, <2>2, <2>3, <2>4
<1> QED
  BY <1>4 DEF InTimeOrder, Precedes, ps

LEMMA LocalInOrder ==
  ASSUME NEW series, SoundSeries(series), NEW source, NEW span \in Nat \ {0},
         Count(series) >= 2 * span + 1
  PROVE  LET ps == LocalPoints(series, source, span)
         IN  /\ \A k \in 1 .. Len(ps) : /\ ps[k].confirmation \in DOMAIN series
                                        /\ ps[k].index <= ps[k].confirmation
             /\ InTimeOrder(ps)
<1> DEFINE n == Count(series)
           b == n - 2 * span
           S == LocalPointsOf(series, source, span)
           P(i) == PointsAt(series, source, span, i + span - 1)
           Good(ps, i) == /\ \A k \in 1 .. Len(ps) :
                               /\ ps[k].index \in span .. i + span - 1
                               /\ ps[k].confirmation = ps[k].index + span
                          /\ InTimeOrder(ps)
<1>1. n \in Nat /\ DOMAIN series = 0 .. n - 1 /\ b \in Nat /\ 1 <= b /\ n = b + 2 * span
  BY DEF SoundSeries
<1>2. PICK F : LocalPoints(series, source, span) = F[b] /\ Grows(F, series, source, span)
  BY LocalUnfolds
<1>3. \A i \in 1 .. b : F[i] \in Seq(S)
  BY <1>2, LocalGrows DEF Growing
<1>4. /\ F[1] = PointsAt(series, source, span, span)
      /\ \A i \in 2 .. b : F[i] = F[i - 1] \o P(i)
  BY <1>2 DEF Grows
<1>5. ASSUME NEW i \in 1 .. b
      PROVE  /\ P(i) \in Seq(S) /\ Len(P(i)) \in Nat
             /\ \A k \in 1 .. Len(P(i)) : /\ P(i)[k].index = i + span - 1
                                          /\ P(i)[k].confirmation = i + span - 1 + span
             /\ InTimeOrder(P(i))
  <2> DEFINE c == i + span - 1
  <2>1. c \in DOMAIN series /\ span \in Nat
    BY <1>1
  <2> HIDE DEF c
  <2>2. /\ PointsAt(series, source, span, c) \in Seq(S)
        /\ Len(PointsAt(series, source, span, c)) \in Nat
        /\ \A k \in 1 .. Len(PointsAt(series, source, span, c)) :
             /\ PointsAt(series, source, span, c)[k].index = c
             /\ PointsAt(series, source, span, c)[k].confirmation = c + span
        /\ InTimeOrder(PointsAt(series, source, span, c))
    BY <2>1, PointsOfCandle, PointsOfCandleInOrder
  <2> QED
    BY <2>2 DEF c
<1> DEFINE T == {i \in Int : i <= b => Good(F[i], i)}
<1>6. F[1] = P(1)
  <2>1. 1 + span - 1 = span
    OBVIOUS
  <2> QED
    BY <1>4, <2>1
<1> HIDE DEF n, b, S, P
<1>7. 1 \in T
  <2>1. 1 \in 1 .. b
    BY <1>1
  <2>2. 1 + span - 1 = span /\ span \in span .. span /\ 1 \in Int
    OBVIOUS
  <2>3. \A k \in 1 .. Len(F[1]) : F[1][k].index = span /\ F[1][k].confirmation = span + span
    BY <1>5, <1>6, <2>1, <2>2
  <2>4. InTimeOrder(F[1])
    BY <1>5, <1>6, <2>1
  <2> QED
    BY <2>2, <2>3, <2>4
<1>8. ASSUME NEW i \in Int, i >= 1, i \in T PROVE i + 1 \in T
  <2> SUFFICES ASSUME i + 1 <= b PROVE Good(F[i + 1], i + 1)
    OBVIOUS
  <2>1. i + 1 \in 2 .. b /\ i + 1 \in 1 .. b /\ (i + 1) - 1 = i /\ i \in 1 .. b
    BY <1>1, <1>8
  <2> DEFINE before == F[i]
             new    == P(i + 1)
             after  == F[i + 1]
  <2>2. before \in Seq(S) /\ new \in Seq(S) /\ after = before \o new
    BY <1>3, <1>4, <1>5, <2>1
  <2>3. Good(before, i)
    BY <1>1, <1>8, <2>1
  <2>4. /\ \A k \in 1 .. Len(new) : /\ new[k].index = i + span
                                    /\ new[k].confirmation = i + span + span
        /\ InTimeOrder(new)
    <3>1. (i + 1) + span - 1 = i + span
      OBVIOUS
    <3> QED
      BY <1>5, <2>1, <3>1
  <2> HIDE DEF before, new, after
  <2>5. /\ Len(before) \in Nat /\ Len(new) \in Nat /\ Len(after) = Len(before) + Len(new)
        /\ \A k \in 1 .. Len(before) + Len(new) :
             after[k] = IF k <= Len(before) THEN before[k] ELSE new[k - Len(before)]
    BY <2>2, ConcatProperties
  <2>6. ASSUME NEW k \in 1 .. Len(after)
        PROVE  \/ /\ k <= Len(before) /\ k \in 1 .. Len(before) /\ after[k] = before[k]
                  /\ after[k].index \in span .. i + span - 1
                  /\ after[k].confirmation = after[k].index + span
               \/ /\ k > Len(before) /\ k - Len(before) \in 1 .. Len(new)
                  /\ after[k] = new[k - Len(before)]
                  /\ after[k].index = i + span
                  /\ after[k].confirmation = after[k].index + span
    <3>1. CASE k <= Len(before)
      <4>1. k \in 1 .. Len(before) /\ after[k] = before[k]
        BY <2>5, <3>1
      <4> QED
        BY <2>3, <3>1, <4>1
    <3>2. CASE k > Len(before)
      <4>1. k - Len(before) \in 1 .. Len(new) /\ after[k] = new[k - Len(before)]
        BY <2>5, <3>2
      <4> QED
        BY <2>4, <3>2, <4>1
    <3> QED
      BY <2>5, <3>1, <3>2
  <2>7. ASSUME NEW k \in 1 .. Len(after)
        PROVE  /\ after[k].index \in span .. (i + 1) + span - 1
               /\ after[k].confirmation = after[k].index + span
    BY <2>1, <2>6
  <2>8. ASSUME NEW j \in 1 .. Len(after), NEW k \in 1 .. Len(after), j < k
        PROVE  Precedes(after[j], after[k])
    <3>1. CASE k <= Len(before)
      <4>1. j \in 1 .. Len(before) /\ k \in 1 .. Len(before)
            /\ after[j] = before[j] /\ after[k] = before[k]
        BY <2>5, <2>6, <2>8, <3>1
      <4> QED
        BY <2>3, <2>8, <4>1 DEF InTimeOrder
    <3>2. CASE j <= Len(before) /\ k > Len(before)
      <4>1. after[j].index \in span .. i + span - 1 /\ after[k].index = i + span
        BY <2>5, <2>6, <3>2
      <4> QED
        BY <4>1 DEF Precedes
    <3>3. CASE j > Len(before) /\ k > Len(before)
      <4>1. /\ j - Len(before) \in 1 .. Len(new) /\ k - Len(before) \in 1 .. Len(new)
            /\ j - Len(before) < k - Len(before)
            /\ after[j] = new[j - Len(before)] /\ after[k] = new[k - Len(before)]
        BY <2>5, <2>6, <2>8, <3>3
      <4> QED
        BY <2>4, <4>1 DEF InTimeOrder
    <3> QED
      BY <2>5, <3>1, <3>2, <3>3
  <2> QED
    BY <2>7, <2>8 DEF after, InTimeOrder
<1>9. \A i \in Int : i >= 1 => i \in T
  <2> HIDE DEF T
  <2> QED
    BY <1>7, <1>8, InductionFrom
<1>10. Good(F[b], b)
  <2>1. b \in T /\ b <= b
    BY <1>1, <1>9
  <2> QED
    BY <2>1
<1> DEFINE ps == LocalPoints(series, source, span)
<1>11. Good(ps, b)
  BY <1>2, <1>10
<1> HIDE DEF ps
<1>12. ASSUME NEW k \in 1 .. Len(ps)
       PROVE  ps[k].confirmation \in DOMAIN series /\ ps[k].index <= ps[k].confirmation
  <2>1. ps[k].index \in span .. b + span - 1 /\ ps[k].confirmation = ps[k].index + span
    BY <1>11
  <2> QED
    BY <1>1, <2>1, SMTT(30)
<1> QED
  BY <1>11, <1>12 DEF ps

(* What a response relies on in a point of a series.                       *)
Shown(series, s, p) ==
  /\ FromCandle(series, s.source, p)
  /\ p.confirmation \in DOMAIN series /\ p.index <= p.confirmation
  /\ "reversal" \in DOMAIN p <=> s.method # "local"
  /\ s.method = "atr" => "atr" \in DOMAIN p.reversal

LEMMA ReversalsHaveEvidence ==
  ASSUME NEW series, NEW s, NEW atr, NEW p \in Reversals(series, s, atr)
  PROVE  "reversal" \in DOMAIN p /\ (s.method = "atr" => "atr" \in DOMAIN p.reversal)
<1>1. PICK j \in DOMAIN series, i \in DOMAIN series :
        \/ p = ConfirmedPoint("HIGH", HighAt(series, s, atr, j), i)
        \/ p = ConfirmedPoint("LOW", LowAt(series, s, atr, j), i)
  BY DEF Reversals, HighCandidates, LowCandidates
<1>2. PICK kind, price, e : p = ConfirmedPoint(kind, [index |-> j, price |-> price,
                                                      evidence |-> Evidence(s, atr, j, price)], i)
  BY <1>1 DEF HighAt, LowAt, Candidate
<1>3. "reversal" \in DOMAIN p /\ p.reversal = Evidence(s, atr, j, price)
  BY <1>2 DEF ConfirmedPoint
<1>4. s.method = "atr" => Evidence(s, atr, j, price) = [threshold |-> atr[j] * s.multiplier, atr |-> atr[j]]
  BY DEF Evidence
<1>5. s.method = "atr" => "atr" \in DOMAIN Evidence(s, atr, j, price)
  BY <1>4
<1> QED
  BY <1>3, <1>5

(* detectExtrema, for any settings that are accepted and whatever ATR      *)
(* sequence is at hand: each point is that of a candle of the series,      *)
(* confirmed at a candle of the series and not before its own, with the    *)
(* evidence of its method; and the points come in order of time, no two of *)
(* them alike.                                                             *)
THEOREM DetectionIsSound ==
  ASSUME NEW series, SoundSeries(series), NEW s, SoundSettings(s), NEW sequence,
         Count(series) >= MinimumCount(s)
  PROVE  LET found == DetectExtrema(series, s, sequence)
         IN  /\ \E S : found \in Seq(S) /\ \A p \in S : FromCandle(series, s.source, p)
             /\ \A k \in 1 .. Len(found) : Shown(series, s, found[k])
             /\ InTimeOrder(found)
<1> DEFINE found == DetectExtrema(series, s, sequence)
           Goal == /\ \E S : found \in Seq(S) /\ \A p \in S : FromCandle(series, s.source, p)
                   /\ \A k \in 1 .. Len(found) : Shown(series, s, found[k])
                   /\ InTimeOrder(found)
<1>1. Count(series) \in Nat /\ DOMAIN series = 0 .. Count(series) - 1
  BY DEF SoundSeries
<1>2. ASSUME s.method = "local" PROVE Goal
  <2> DEFINE S == LocalPointsOf(series, s.source, s.span)
  <2>1. s.span \in Nat \ {0} /\ Count(series) >= 2 * s.span + 1 /\ s.span \in Nat
    BY <1>2 DEF SoundSettings, MinimumCount
  <2>2. found = LocalPoints(series, s.source, s.span)
    BY <1>2 DEF DetectExtrema
  <2> DEFINE n == Count(series)
  <2>3. found \in Seq(S)
    <3>1. n \in 2 * s.span + 1 .. n
      BY <1>1, <2>1
    <3> QED
      BY <2>1, <2>2, <3>1, LocalIsFinal
  <2>4. \A p \in S : FromCandle(series, s.source, p) /\ "reversal" \notin DOMAIN p
    <3>1. \A p \in S : FromCandle(series, s.source, p)
      BY <2>1, LocalPointsAreFromCandles
    <3>2. \A p \in S : "reversal" \notin DOMAIN p
      BY DEF LocalPointsOf, PointAt
    <3> QED
      BY <3>1, <3>2
  <2>5. /\ \A k \in 1 .. Len(found) : /\ found[k].confirmation \in DOMAIN series
                                      /\ found[k].index <= found[k].confirmation
        /\ InTimeOrder(found)
    <3> HIDE DEF found
    <3> QED
      BY <2>1, <2>2, LocalInOrder
  <2> HIDE DEF S, found
  <2>6. \A k \in 1 .. Len(found) : found[k] \in S
    BY <2>3
  <2>7. \A k \in 1 .. Len(found) : Shown(series, s, found[k])
    BY <1>2, <2>4, <2>5, <2>6 DEF Shown
  <2> QED
    BY <2>3, <2>4, <2>5, <2>7
<1>3. ASSUME NEW atr, s.method # "local", found = ReversalPoints(series, s, atr),
             FirstCandle(s) \in Nat, FirstCandle(s) < Count(series)
      PROVE  Goal
  <2> DEFINE S == Reversals(series, s, atr)
             n == Count(series) - 1
             t == ReversalPass(series, s, atr)[n]
  <2>1. n \in FirstCandle(s) .. Count(series) - 1 /\ n \in Nat
    BY <1>1, <1>3
  <2>2. t \in PassStates(series, s, atr) /\ Timely(t, n)
    BY <1>3, <2>1, PassIsTyped, PassIsTimely
  <2>3. found = t.points
    BY <1>3 DEF ReversalPoints
  <2> HIDE DEF S, t, found
  <2>4. found \in Seq(S)
    BY <2>2, <2>3 DEF PassStates, S
  <2>5. \A p \in S : /\ FromCandle(series, s.source, p)
                     /\ "reversal" \in DOMAIN p /\ (s.method = "atr" => "atr" \in DOMAIN p.reversal)
    BY ReversalsAreFromCandles, ReversalsHaveEvidence DEF S
  <2>6. /\ \A k \in 1 .. Len(found) :
             /\ found[k].index \in Nat /\ found[k].confirmation \in 0 .. n
             /\ found[k].index < found[k].confirmation
        /\ \A j, k \in 1 .. Len(found) : j < k => found[j].index < found[k].index
    BY <2>2, <2>3 DEF Timely
  <2>7. \A k \in 1 .. Len(found) : found[k] \in S
    BY <2>4
  <2>8. \A k \in 1 .. Len(found) : Shown(series, s, found[k])
    <3> SUFFICES ASSUME NEW k \in 1 .. Len(found) PROVE Shown(series, s, found[k])
      OBVIOUS
    <3>1. found[k].confirmation \in DOMAIN series /\ found[k].index <= found[k].confirmation
      BY <1>1, <2>1, <2>6
    <3> QED
      BY <1>3, <2>5, <2>7, <3>1 DEF Shown
  <2>9. InTimeOrder(found)
    BY <2>6 DEF InTimeOrder, Precedes
  <2> QED
    BY <2>4, <2>5, <2>8, <2>9
<1>4. ASSUME s.method = "percent" PROVE Goal
  <2>1. FirstCandle(s) = 0 /\ Count(series) >= 2
    BY <1>4 DEF MinimumCount, FirstCandle
  <2>2. found = ReversalPoints(series, s, <<>>)
    BY <1>4 DEF DetectExtrema
  <2> HIDE DEF found, Goal
  <2> QED
    BY <1>1, <1>3, <1>4, <2>1, <2>2
<1>5. ASSUME s.method = "atr" PROVE Goal
  <2>1. /\ FirstCandle(s) = s.period /\ s.period \in Nat \ {0}
        /\ Count(series) >= s.period + 2
    BY <1>5 DEF MinimumCount, FirstCandle, SoundSettings
  <2>2. found = ReversalPoints(series, s, SequenceFor(series, s, sequence).values)
    BY <1>5 DEF DetectExtrema
  <2> HIDE DEF found, Goal
  <2> QED
    BY <1>1, <1>3, <1>5, <2>1, <2>2
<1>6. Goal
  <2> HIDE DEF Goal
  <2> QED
    BY <1>2, <1>4, <1>5 DEF SoundSettings
<1> QED
  BY <1>6

(* The ATR sequence of the zones saves work, and changes no point.         *)
LEMMA SequenceAtHand ==
  ASSUME NEW series, NEW s, SoundSettings(s), NEW period
  PROVE  DetectExtrema(series, s, SequenceOf(series, period))
           = DetectExtrema(series, s, NoSequence)
<1>1. s.method = "atr" =>
        SequenceFor(series, s, SequenceOf(series, period)) = SequenceOf(series, s.period)
  BY DEF SequenceFor, SequenceOf
<1>2. s.method = "atr" => SequenceFor(series, s, NoSequence) = SequenceOf(series, s.period)
  <2>1. s.method = "atr" => NoSequence.period # s.period
    BY DEF NoSequence, SoundSettings
  <2> QED
    BY <2>1 DEF SequenceFor
<1> QED
  BY <1>1, <1>2 DEF DetectExtrema

-----------------------------------------------------------------------------
(* A true range is a distance, and its average no less than 0.             *)
LEMMA TrueRangeIsNatural ==
  ASSUME NEW series, SoundSeries(series), NEW i \in 1 .. Count(series) - 1
  PROVE  TrueRangeAt(series, i) \in Nat
<1> DEFINE h == series[i].high
           l == series[i].low
           p == series[i - 1].close
           S == {h - l, h - p, p - h, l - p, p - l}
<1>1. i \in DOMAIN series /\ i - 1 \in DOMAIN series
  BY DEF SoundSeries
<1>2. h \in Nat /\ l \in Nat /\ p \in Nat /\ l <= h
  <2>1. /\ series[i].high \in Nat /\ series[i].low \in Nat /\ series[i].close \in Nat
        /\ series[i - 1].close \in Nat
        /\ series[i].low <= series[i].close /\ series[i].close <= series[i].high
    BY <1>1 DEF SoundSeries
  <2> QED
    BY <2>1
<1>3. TrueRangeAt(series, i) = CHOOSE x \in S : \A y \in S : x >= y
  BY DEF TrueRangeAt, Wilder!TrueRange, Wilder!Max
<1> HIDE DEF h, l, p
<1>4. \E x \in S : \A y \in S : x >= y
  <2>1. \A a, b \in Int : a >= b \/ b >= a
    OBVIOUS
  <2> QED
    BY <1>2
<1>5. PICK x \in S : x = TrueRangeAt(series, i) /\ \A y \in S : x >= y
  BY <1>3, <1>4
<1>6. x \in Int /\ x >= h - l
  BY <1>2, <1>5
<1> QED
  BY <1>2, <1>5, <1>6

QuotientsAreNatural == \A x \in Nat, y \in Nat \ {0} : Divide(x, y) \in Nat

LEMMA SequenceIsNatural ==
  ASSUME QuotientsAreNatural, NEW series, SoundSeries(series), NEW period \in Nat \ {0}, period < Count(series)
  PROVE  \A i \in period .. Count(series) - 1 : Wilder!ATRSequenceOf(series, period)[i] \in Nat
<1> DEFINE n   == Count(series)
           atr == Wilder!ATRSequenceOf(series, period)
<1>1. n \in Nat /\ DOMAIN series = 0 .. n - 1
  BY DEF SoundSeries
<1>2. PICK sum :
        /\ sum[0] = 0
        /\ \A i \in 1 .. period : sum[i] = sum[i - 1] + TrueRangeAt(series, i)
        /\ atr[period] = Divide(sum[period], period)
        /\ \A i \in period + 1 .. n - 1 :
             atr[i] = Divide(atr[i - 1] * (period - 1) + TrueRangeAt(series, i), period)
  BY <1>1, SequenceUnfolds
<1>3. \A i \in 1 .. n - 1 : TrueRangeAt(series, i) \in Nat
  BY TrueRangeIsNatural
<1> HIDE DEF atr, n
<1> DEFINE S == {i \in Int : i <= period => sum[i] \in Nat}
<1>4. 0 \in S
  BY <1>2
<1>5. ASSUME NEW i \in Int, i >= 0, i \in S PROVE i + 1 \in S
  <2> SUFFICES ASSUME i + 1 <= period PROVE sum[i + 1] \in Nat
    OBVIOUS
  <2>1. i + 1 \in 1 .. period /\ i + 1 \in 1 .. n - 1 /\ (i + 1) - 1 = i
    BY <1>1, <1>5 DEF n
  <2>2. sum[i] \in Nat /\ TrueRangeAt(series, i + 1) \in Nat
    BY <1>3, <1>5, <2>1
  <2>3. sum[i + 1] = sum[i] + TrueRangeAt(series, i + 1)
    BY <1>2, <2>1
  <2> QED
    BY <2>2, <2>3
<1>6. sum[period] \in Nat
  <2>1. \A i \in Int : i >= 0 => i \in S
    <3> HIDE DEF S
    <3> QED
      BY <1>4, <1>5, InductionFrom
  <2> QED
    BY <2>1
<1> HIDE DEF S
<1> DEFINE T == {i \in Int : i <= n - 1 => atr[i] \in Nat}
<1>7. period \in T
  BY <1>2, <1>6 DEF QuotientsAreNatural
<1>8. ASSUME NEW i \in Int, i >= period, i \in T PROVE i + 1 \in T
  <2> SUFFICES ASSUME i + 1 <= n - 1 PROVE atr[i + 1] \in Nat
    OBVIOUS
  <2>1. i + 1 \in period + 1 .. n - 1 /\ i + 1 \in 1 .. n - 1 /\ (i + 1) - 1 = i
    BY <1>1, <1>8
  <2>2. atr[i] \in Nat /\ TrueRangeAt(series, i + 1) \in Nat /\ period - 1 \in Nat
    <3>1. i <= n - 1
      BY <1>1
    <3>2. atr[i] \in Nat
      BY <1>8, <3>1
    <3> QED
      BY <1>3, <2>1, <3>2
  <2>3. atr[i] * (period - 1) + TrueRangeAt(series, i + 1) \in Nat
    <3>1. \A x, y \in Nat : x * y \in Nat
      OBVIOUS
    <3>2. atr[i] * (period - 1) \in Nat
      BY <2>2, <3>1
    <3> QED
      BY <2>2, <3>2
  <2>4. atr[i + 1] = Divide(atr[i] * (period - 1) + TrueRangeAt(series, i + 1), period)
    BY <1>2, <2>1
  <2> QED
    BY <2>3, <2>4 DEF QuotientsAreNatural
<1>9. \A i \in Int : i >= period => i \in T
  <2> HIDE DEF T
  <2> QED
    BY <1>7, <1>8, InductionFrom
<1>10. \A i \in period .. n - 1 : atr[i] \in Nat
  BY <1>1, <1>9
<1> QED
  BY <1>10 DEF atr, n

=============================================================================
