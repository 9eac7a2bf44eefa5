----------------------- MODULE ReversalExtremaProofs -----------------------
(***************************************************************************)
(* The invariants of ReversalExtrema hold for every set of candles, every  *)
(* series length, either method and price source, and every quotient and   *)
(* ATR sequence with natural values.                                       *)
(***************************************************************************)
EXTENDS ReversalResponse, FiniteSetTheorems, TLAPS

Detected == INSTANCE ExtremaProofs

(* Where the search for the next point began.                              *)
LastConfirmation ==
  IF points = <<>> THEN Start ELSE points[Len(points)].confirmation

(* A candidate is made from its own candle, which has been read.           *)
IsHighCandidate(c, next) == c.index \in Start .. next - 1 /\ c = HighCandidate(c.index)
IsLowCandidate(c, next)  == c.index \in Start .. next - 1 /\ c = LowCandidate(c.index)

CandidatesInv ==
  /\ IsHighCandidate(high, i)
  /\ IsLowCandidate(low, i)

(* The kind searched for is the opposite of the last point's.              *)
SearchInv ==
  /\ searching = "UNKNOWN" <=> points = <<>>
  /\ points # <<>> => points[Len(points)].kind # searching
  /\ LastConfirmation \in Start .. i - 1

(* An active candidate is the extreme of its window so far, and the last.  *)
IsHighest(c, next) ==
  /\ c.index >= LastConfirmation
  /\ \A j \in LastConfirmation .. next - 1 :
       HighPrice(j) <= c.price /\ (j > c.index => HighPrice(j) < c.price)

IsLowest(c, next) ==
  /\ c.index >= LastConfirmation
  /\ \A j \in LastConfirmation .. next - 1 :
       LowPrice(j) >= c.price /\ (j > c.index => LowPrice(j) > c.price)

WindowInv ==
  /\ searching # "LOW" => IsHighest(high, i)
  /\ searching # "HIGH" => IsLowest(low, i)

(* The open candidate is already a threshold away from the last point.     *)
SwingInv ==
  points # <<>> =>
    LET p == points[Len(points)] IN
    IF p.kind = "HIGH" THEN p.price - low.price >= p.threshold
                       ELSE high.price - p.price >= p.threshold

IInv ==
  /\ TypeOK
  /\ CandidatesInv
  /\ SearchInv
  /\ WindowInv
  /\ SwingInv
  /\ OpenCandidateNotReversed
  /\ EvidenceExplainsReversal
  /\ PointsAlternate
  /\ SwingsReachThreshold
  /\ PointsAreWindowExtremes
  /\ ConfirmedAtFirstReversal
-----------------------------------------------------------------------------
(* The scan starts within the shortest series the settings allow.          *)
LEMMA StartIsEarly ==
  /\ Start \in Nat
  /\ MinimumCount \in Nat
  /\ Start + 2 <= MinimumCount
<1>1. CASE Method = "atr"
  BY <1>1, SettingsAssumption DEF Start, MinimumCount
<1>2. CASE Method # "atr"
  BY <1>2 DEF Start, MinimumCount
<1> QED
  BY <1>1, <1>2

LEMMA CountIsNat ==
  ASSUME TypeOK
  PROVE  /\ count \in Nat
         /\ i \in Nat
         /\ Start + 1 <= i
         /\ i <= count
<1>1. count \in MinimumCount .. MaxCandles /\ i \in Start + 1 .. count
  BY DEF TypeOK
<1> QED
  BY <1>1, StartIsEarly, SettingsAssumption

(* The selected prices of a candle are two of its prices.                  *)
LEMMA SelectedPrices ==
  ASSUME TypeOK, NEW k \in 0 .. count - 1
  PROVE  /\ HighPrice(k) \in Prices(series[k])
         /\ LowPrice(k) \in Prices(series[k])
         /\ HighPrice(k) \in Nat
         /\ LowPrice(k) \in Nat
<1>1. series[k] \in Candles
  BY DEF TypeOK, SeriesOf
<1>2. Prices(series[k]) \subseteq Nat
  BY <1>1, CandleAssumption
<1> QED
  BY <1>2 DEF HighPrice, LowPrice, Prices

(* A candidate made from a candle the scan may read is well formed.        *)
LEMMA CandidatesAreTyped ==
  ASSUME TypeOK, NEW k \in Start .. count - 1
  PROVE  /\ HighCandidate(k) \in Candidate
         /\ LowCandidate(k) \in Candidate
<1>1. k \in 0 .. count - 1 /\ k \in Nat
  BY StartIsEarly, CountIsNat
<1>2. series[k] \in Candles
  BY <1>1 DEF TypeOK, SeriesOf
<1>3. ASSUME NEW p \in Prices(series[k]) PROVE Threshold(k, p) \in Nat
  <2>1. CASE Method = "percent"
    BY <1>2, <2>1, ArithmeticAssumption DEF Threshold
  <2>2. CASE Method = "atr"
    <3>1. atr[k] \in Nat
      BY <2>2 DEF TypeOK, Start
    <3> QED
      BY <2>2, <3>1, SettingsAssumption DEF Threshold
  <2> QED
    BY <2>1, <2>2, SettingsAssumption
<1> QED
  BY <1>1, <1>3, SelectedPrices
     DEF HighCandidate, LowCandidate, NewCandidate, Candidate

(* The initial candidates, both made from the starting candle.             *)
LEMMA InitHolds == Init => IInv
<1> SUFFICES ASSUME Init PROVE IInv
  OBVIOUS
<1>0. count \in MinimumCount .. MaxCandles
  BY DEF Init
<1>1. /\ count \in Nat
      /\ Start \in Nat
      /\ Start + 1 \in Start + 1 .. count
      /\ Start \in Start .. count - 1
      /\ Start \in 0 .. count - 1
  BY <1>0, StartIsEarly, SettingsAssumption
<1>2. Method = "atr" => atr \in [ATRPeriod .. count - 1 -> Nat]
  BY ArithmeticAssumption DEF Init
<1>3. series[Start] \in Candles
  BY <1>1 DEF Init, SeriesOf
<1>4. HighPrice(Start) \in Prices(series[Start]) /\ LowPrice(Start) \in Prices(series[Start])
  BY DEF HighPrice, LowPrice, Prices
<1>5. ASSUME NEW p \in Prices(series[Start]) PROVE p \in Nat /\ Threshold(Start, p) \in Nat
  <2>1. p \in Nat
    BY <1>3, CandleAssumption
  <2>2. CASE Method = "percent"
    BY <1>3, <2>1, <2>2, ArithmeticAssumption DEF Threshold
  <2>3. CASE Method = "atr"
    <3>1. atr[Start] \in Nat
      BY <1>1, <1>2, <2>3 DEF Start
    <3> QED
      BY <2>1, <2>3, <3>1, SettingsAssumption DEF Threshold
  <2> QED
    BY <2>2, <2>3, SettingsAssumption
<1>6. HighCandidate(Start) \in Candidate /\ LowCandidate(Start) \in Candidate
  BY <1>1, <1>4, <1>5 DEF HighCandidate, LowCandidate, NewCandidate, Candidate
<1>7. TypeOK
  BY <1>1, <1>2, <1>6 DEF Init, TypeOK
<1>8. CandidatesInv
  BY <1>1 DEF Init, CandidatesInv, IsHighCandidate, IsLowCandidate,
              HighCandidate, LowCandidate, NewCandidate
<1>9. SearchInv
  BY <1>1 DEF Init, SearchInv, LastConfirmation
<1>10. WindowInv
  BY <1>1, <1>4, <1>5 DEF Init, WindowInv, IsHighest, IsLowest, LastConfirmation,
              HighCandidate, LowCandidate, NewCandidate
<1>11. points = <<>> /\ Len(points) = 0 /\ searching = "UNKNOWN"
  BY DEF Init
<1> QED
  BY <1>7, <1>8, <1>9, <1>10, <1>11
     DEF IInv, SwingInv, OpenCandidateNotReversed, EvidenceExplainsReversal,
         PointsAlternate, SwingsReachThreshold, PointsAreWindowExtremes,
         ConfirmedAtFirstReversal
-----------------------------------------------------------------------------
(* What candle i makes of the candidates.                                  *)
LEMMA UpdatedCandidates ==
  ASSUME IInv, i < count
  PROVE  /\ i \in Start .. count - 1
         /\ UpdatedHigh \in Candidate /\ IsHighCandidate(UpdatedHigh, i + 1)
         /\ UpdatedLow \in Candidate /\ IsLowCandidate(UpdatedLow, i + 1)
         /\ searching # "LOW" => IsHighest(UpdatedHigh, i + 1)
         /\ searching # "HIGH" => IsLowest(UpdatedLow, i + 1)
         /\ searching = "LOW" => UpdatedHigh = high
         /\ searching = "HIGH" => UpdatedLow = low
         /\ UpdatedHigh.price >= high.price
         /\ UpdatedLow.price <= low.price
         /\ UpdatedHigh.index < i => UpdatedHigh = high
         /\ UpdatedLow.index < i => UpdatedLow = low
<1>1. TypeOK /\ i \in Nat /\ Start \in Nat /\ count \in Nat /\ Start + 1 <= i
  BY StartIsEarly, CountIsNat DEF IInv
<1>2. i \in Start .. count - 1 /\ i \in 0 .. count - 1
  BY <1>1
<1>3. /\ HighCandidate(i) \in Candidate /\ HighCandidate(i).index = i
      /\ HighCandidate(i).price = HighPrice(i)
      /\ LowCandidate(i) \in Candidate /\ LowCandidate(i).index = i
      /\ LowCandidate(i).price = LowPrice(i)
  BY <1>1, <1>2, CandidatesAreTyped DEF HighCandidate, LowCandidate, NewCandidate
<1>4. /\ high \in Candidate /\ IsHighCandidate(high, i)
      /\ low \in Candidate /\ IsLowCandidate(low, i)
  BY DEF IInv, TypeOK, CandidatesInv
<1>5. /\ high.index \in Nat /\ high.price \in Nat /\ high.index < i
      /\ low.index \in Nat /\ low.price \in Nat /\ low.index < i
  BY <1>1, <1>4 DEF Candidate, IsHighCandidate, IsLowCandidate
<1>6. LastConfirmation \in Start .. i - 1
  BY DEF IInv, SearchInv
<1>7. \A j \in LastConfirmation .. i : HighPrice(j) \in Nat /\ LowPrice(j) \in Nat
  BY <1>1, <1>2, <1>6, SelectedPrices
<1>8. /\ UpdatedHigh \in Candidate
      /\ IsHighCandidate(UpdatedHigh, i + 1)
      /\ searching = "LOW" => UpdatedHigh = high
      /\ UpdatedHigh.price >= high.price
      /\ UpdatedHigh.index < i => UpdatedHigh = high
  <2>1. CASE searching # "LOW" /\ HighPrice(i) >= high.price
    BY <1>1, <1>2, <1>3, <1>5, <2>1 DEF UpdatedHigh, IsHighCandidate
  <2>2. CASE ~(searching # "LOW" /\ HighPrice(i) >= high.price)
    BY <1>1, <1>4, <1>5, <2>2 DEF UpdatedHigh, IsHighCandidate
  <2> QED
    BY <2>1, <2>2
<1>9. /\ UpdatedLow \in Candidate
      /\ IsLowCandidate(UpdatedLow, i + 1)
      /\ searching = "HIGH" => UpdatedLow = low
      /\ UpdatedLow.price <= low.price
      /\ UpdatedLow.index < i => UpdatedLow = low
  <2>1. CASE searching # "HIGH" /\ LowPrice(i) <= low.price
    BY <1>1, <1>2, <1>3, <1>5, <2>1 DEF UpdatedLow, IsLowCandidate
  <2>2. CASE ~(searching # "HIGH" /\ LowPrice(i) <= low.price)
    BY <1>1, <1>4, <1>5, <2>2 DEF UpdatedLow, IsLowCandidate
  <2> QED
    BY <2>1, <2>2
<1>10. ASSUME searching # "LOW" PROVE IsHighest(UpdatedHigh, i + 1)
  <2>1. IsHighest(high, i)
    BY <1>10 DEF IInv, WindowInv
  <2>2. CASE HighPrice(i) >= high.price
    <3>1. UpdatedHigh = HighCandidate(i)
      BY <1>10, <2>2 DEF UpdatedHigh
    <3> QED
      BY <1>1, <1>3, <1>5, <1>6, <1>7, <2>1, <2>2, <3>1 DEF IsHighest
  <2>3. CASE HighPrice(i) < high.price
    <3>1. UpdatedHigh = high
      BY <1>2, <1>5, <1>6, <1>7, <2>3 DEF UpdatedHigh
    <3> QED
      BY <1>1, <1>5, <1>6, <1>7, <2>1, <2>3, <3>1 DEF IsHighest
  <2> QED
    BY <1>1, <1>5, <1>6, <1>7, <2>2, <2>3
<1>11. ASSUME searching # "HIGH" PROVE IsLowest(UpdatedLow, i + 1)
  <2>1. IsLowest(low, i)
    BY <1>11 DEF IInv, WindowInv
  <2>2. CASE LowPrice(i) <= low.price
    <3>1. UpdatedLow = LowCandidate(i)
      BY <1>11, <2>2 DEF UpdatedLow
    <3> QED
      BY <1>1, <1>3, <1>5, <1>6, <1>7, <2>1, <2>2, <3>1 DEF IsLowest
  <2>3. CASE LowPrice(i) > low.price
    <3>1. UpdatedLow = low
      BY <1>2, <1>5, <1>6, <1>7, <2>3 DEF UpdatedLow
    <3> QED
      BY <1>1, <1>5, <1>6, <1>7, <2>1, <2>3, <3>1 DEF IsLowest
  <2> QED
    BY <1>1, <1>5, <1>6, <1>7, <2>2, <2>3
<1> QED
  BY <1>2, <1>8, <1>9, <1>10, <1>11

(* Appending a point keeps the others and makes it the last.               *)
LEMMA AppendPoint ==
  ASSUME points \in Seq(Point), NEW p \in Point, points' = Append(points, p)
  PROVE  /\ points' \in Seq(Point)
         /\ points' # <<>>
         /\ Len(points) \in Nat
         /\ Len(points') = Len(points) + 1
         /\ \A k \in 1 .. Len(points) : points'[k] = points[k]
         /\ points'[Len(points) + 1] = p
OBVIOUS

(* The inputs do not change, so neither do the values read from them.      *)
LEMMA InputsAreStable ==
  ASSUME UNCHANGED <<series, atr>>
  PROVE  /\ \A k : HighPrice(k)' = HighPrice(k) /\ LowPrice(k)' = LowPrice(k)
         /\ \A k, p : Threshold(k, p)' = Threshold(k, p)
         /\ \A k : HighCandidate(k)' = HighCandidate(k) /\ LowCandidate(k)' = LowCandidate(k)
         /\ \A kind, c, j : Retraced(kind, c, j)' = Retraced(kind, c, j)
BY DEF HighPrice, LowPrice, Threshold, HighCandidate, LowCandidate, NewCandidate, Retraced
-----------------------------------------------------------------------------
LEMMA KeepSearchingPreserves ==
  ASSUME IInv, KeepSearching
  PROVE  IInv'
<1>1. /\ i < count /\ i' = i + 1
      /\ UNCHANGED <<count, series, atr, outcome, searching, points>>
      /\ high' = UpdatedHigh /\ low' = UpdatedLow
      /\ ConfirmsHigh(UpdatedHigh) = ConfirmsLow(UpdatedLow)
  BY DEF KeepSearching, Reading
<1>2. i \in Nat /\ Start \in Nat /\ count \in Nat /\ i \in Start .. count - 1
  BY <1>1, StartIsEarly, CountIsNat, UpdatedCandidates DEF IInv
<1>3. /\ \A k : HighPrice(k)' = HighPrice(k) /\ LowPrice(k)' = LowPrice(k)
      /\ \A k, p : Threshold(k, p)' = Threshold(k, p)
      /\ \A k : HighCandidate(k)' = HighCandidate(k) /\ LowCandidate(k)' = LowCandidate(k)
      /\ \A kind, c, j : Retraced(kind, c, j)' = Retraced(kind, c, j)
  BY <1>1, InputsAreStable
<1>4. LastConfirmation' = LastConfirmation /\ LastConfirmation \in Start .. i - 1
  BY <1>1 DEF LastConfirmation, IInv, SearchInv
<1>5. TypeOK'
  BY <1>1, <1>2, UpdatedCandidates DEF IInv, TypeOK
<1>6. CandidatesInv'
  BY <1>1, <1>3, UpdatedCandidates DEF CandidatesInv, IsHighCandidate, IsLowCandidate
<1>7. SearchInv'
  BY <1>1, <1>2, <1>4 DEF IInv, SearchInv
<1>8. WindowInv'
  BY <1>1, <1>3, <1>4, UpdatedCandidates DEF WindowInv, IsHighest, IsLowest
<1>9. SwingInv'
  <2> SUFFICES ASSUME points # <<>>
               PROVE  LET p == points[Len(points)] IN
                      IF p.kind = "HIGH" THEN p.price - UpdatedLow.price >= p.threshold
                                         ELSE UpdatedHigh.price - p.price >= p.threshold
    BY <1>1 DEF SwingInv
  <2>1. points[Len(points)] \in Point
    BY DEF IInv, TypeOK
  <2>2. /\ UpdatedHigh.price \in Nat /\ UpdatedLow.price \in Nat
        /\ high.price \in Nat /\ low.price \in Nat
    BY <1>1, UpdatedCandidates DEF IInv, TypeOK, Candidate
  <2>3. UpdatedHigh.price >= high.price /\ UpdatedLow.price <= low.price
    BY <1>1, UpdatedCandidates
  <2> DEFINE p == points[Len(points)]
  <2>4. IF p.kind = "HIGH" THEN p.price - low.price >= p.threshold
                           ELSE high.price - p.price >= p.threshold
    BY DEF IInv, SwingInv
  <2>5. p.price \in Nat /\ p.threshold \in Nat
    BY <2>1 DEF Point
  <2>6. IF p.kind = "HIGH" THEN p.price - UpdatedLow.price >= p.threshold
                           ELSE UpdatedHigh.price - p.price >= p.threshold
    <3> HIDE DEF p
    <3>1. CASE p.kind = "HIGH"
      BY ONLY <2>2, <2>3, <2>4, <2>5, <3>1
    <3>2. CASE p.kind # "HIGH"
      BY ONLY <2>2, <2>3, <2>4, <2>5, <3>2
    <3> QED
      BY <3>1, <3>2
  <2> QED
    BY <2>6
<1>10. OpenCandidateNotReversed'
  <2>1. ASSUME searching = "HIGH", NEW j \in UpdatedHigh.index + 1 .. i
        PROVE  ~Retraced("HIGH", UpdatedHigh, j)
    <3>1. UpdatedHigh = high /\ high.index < i /\ high.index \in Nat
      BY <1>1, <1>2, <2>1, UpdatedCandidates DEF Candidate
    <3>2. CASE j = i
      <4>1. ~ConfirmsHigh(UpdatedHigh)
        BY <1>1, <2>1 DEF ConfirmsLow
      <4> QED
        BY <2>1, <3>1, <3>2, <4>1 DEF ConfirmsHigh, Retraced
    <3>3. CASE j # i
      BY <1>2, <2>1, <3>1, <3>3 DEF IInv, OpenCandidateNotReversed
    <3> QED
      BY <3>2, <3>3
  <2>2. ASSUME searching = "LOW", NEW j \in UpdatedLow.index + 1 .. i
        PROVE  ~Retraced("LOW", UpdatedLow, j)
    <3>1. UpdatedLow = low /\ low.index < i /\ low.index \in Nat
      BY <1>1, <1>2, <2>2, UpdatedCandidates DEF Candidate
    <3>2. CASE j = i
      <4>1. ~ConfirmsLow(UpdatedLow)
        BY <1>1, <2>2 DEF ConfirmsHigh
      <4> QED
        BY <2>2, <3>1, <3>2, <4>1 DEF ConfirmsLow, Retraced
    <3>3. CASE j # i
      BY <1>2, <2>2, <3>1, <3>3 DEF IInv, OpenCandidateNotReversed
    <3> QED
      BY <3>2, <3>3
  <2> QED
    BY <1>1, <1>2, <1>3, <2>1, <2>2 DEF OpenCandidateNotReversed
<1>11. EvidenceExplainsReversal'
  <2> SUFFICES ASSUME NEW k \in 1 .. Len(points)
               PROVE  points[k].confirmation < i + 1
    BY <1>1, <1>3 DEF IInv, EvidenceExplainsReversal
  <2>1. points[k] \in Point
    BY DEF IInv, TypeOK
  <2> QED
    BY <1>2, <2>1 DEF IInv, EvidenceExplainsReversal, Point
<1>12. PointsAlternate' /\ SwingsReachThreshold'
  BY <1>1 DEF IInv, PointsAlternate, SwingsReachThreshold
<1>13. PointsAreWindowExtremes'
  BY <1>1, <1>3 DEF IInv, PointsAreWindowExtremes, WindowStart
<1>14. ConfirmedAtFirstReversal'
  BY <1>1, <1>3 DEF IInv, ConfirmedAtFirstReversal
<1> QED
  BY <1>5, <1>6, <1>7, <1>8, <1>9, <1>10, <1>11, <1>12, <1>13, <1>14 DEF IInv
-----------------------------------------------------------------------------
LEMMA ConfirmHighPreserves ==
  ASSUME IInv, ConfirmHigh
  PROVE  IInv'
<1> DEFINE p == ConfirmedPoint("HIGH", UpdatedHigh, LowPrice(i))
           n == Len(points)
<1>1. /\ i < count /\ i' = i + 1
      /\ UNCHANGED <<count, series, atr, outcome>>
      /\ ConfirmsHigh(UpdatedHigh)
      /\ points' = Append(points, p)
      /\ searching' = "LOW"
      /\ high' = UpdatedHigh
      /\ low' = LowCandidate(i)
  BY DEF ConfirmHigh, Reading
<1>2. /\ i \in Nat /\ Start \in Nat /\ count \in Nat
      /\ i \in Start .. count - 1 /\ i \in 0 .. count - 1 /\ Start < i
  BY <1>1, StartIsEarly, CountIsNat, UpdatedCandidates DEF IInv
<1>3. /\ \A k : HighPrice(k)' = HighPrice(k) /\ LowPrice(k)' = LowPrice(k)
      /\ \A k, q : Threshold(k, q)' = Threshold(k, q)
      /\ \A k : HighCandidate(k)' = HighCandidate(k) /\ LowCandidate(k)' = LowCandidate(k)
      /\ \A kind, c, j : Retraced(kind, c, j)' = Retraced(kind, c, j)
  BY <1>1, InputsAreStable
<1>4. /\ searching # "LOW"
      /\ UpdatedHigh = high /\ high \in Candidate
      /\ high.index \in Start .. i - 1
      /\ high = HighCandidate(high.index)
      /\ Retraced("HIGH", high, i)
  BY <1>1, <1>2, UpdatedCandidates
     DEF ConfirmsHigh, Retraced, IInv, CandidatesInv, IsHighCandidate, TypeOK
<1>5. HighPrice(i) \in Nat /\ LowPrice(i) \in Nat
  BY <1>2, SelectedPrices DEF IInv
<1>6. p \in Point /\ points \in Seq(Point)
  BY <1>2, <1>4, <1>5 DEF ConfirmedPoint, Point, Candidate, Kinds, IInv, TypeOK
<1>7. /\ p.kind = "HIGH" /\ p.index = high.index /\ p.price = high.price
      /\ p.threshold = high.threshold /\ p.confirmation = i
      /\ p.confirmationPrice = LowPrice(i)
  BY <1>4 DEF ConfirmedPoint
<1>8. /\ points' \in Seq(Point) /\ points' # <<>>
      /\ n \in Nat /\ Len(points') = n + 1
      /\ \A k \in 1 .. n : points'[k] = points[k]
      /\ points'[n + 1] = p
  BY <1>1, <1>6, AppendPoint
<1>9. LastConfirmation' = i
  BY <1>7, <1>8 DEF LastConfirmation
<1>10. /\ LastConfirmation \in Start .. i - 1
       /\ IsHighest(high, i + 1)
       /\ points # <<>> => searching = "HIGH" /\ points[n].kind = "LOW"
  <2>1. points # <<>> => points[n] \in Point
    BY <1>6, <1>8
  <2> QED
    BY <1>4, <2>1, UpdatedCandidates, <1>1
       DEF IInv, SearchInv, TypeOK, Kinds, Point
<1>11. LowCandidate(i) \in Candidate /\ LowCandidate(i).index = i
       /\ LowCandidate(i).price = LowPrice(i)
  BY <1>2, CandidatesAreTyped DEF IInv, LowCandidate, NewCandidate
<1>12. TypeOK'
  BY <1>1, <1>2, <1>4, <1>8, <1>11 DEF IInv, TypeOK, Kinds
<1>13. CandidatesInv'
  <2>1. IsHighCandidate(high, i + 1) /\ IsLowCandidate(LowCandidate(i), i + 1)
    BY <1>2, <1>4, <1>11 DEF IsHighCandidate, IsLowCandidate
  <2> QED
    BY <1>1, <1>3, <1>4, <2>1 DEF CandidatesInv, IsHighCandidate, IsLowCandidate
<1>14. SearchInv'
  BY <1>1, <1>2, <1>7, <1>8, <1>9 DEF SearchInv
<1>15. WindowInv'
  BY <1>1, <1>2, <1>3, <1>5, <1>9, <1>11 DEF WindowInv, IsHighest, IsLowest
<1>16. SwingInv'
  BY <1>1, <1>4, <1>5, <1>7, <1>8, <1>11 DEF SwingInv, Retraced
<1>17. OpenCandidateNotReversed'
  BY <1>1, <1>2, <1>11 DEF OpenCandidateNotReversed
<1>18. EvidenceExplainsReversal'
  <2> SUFFICES ASSUME NEW k \in 1 .. n + 1
               PROVE  LET q == points'[k] IN
                      /\ q.index < q.confirmation
                      /\ q.confirmation < i + 1
                      /\ q.index >= Start
                      /\ q.price = IF q.kind = "HIGH" THEN HighPrice(q.index) ELSE LowPrice(q.index)
                      /\ q.threshold = Threshold(q.index, q.price)
                      /\ q.confirmationPrice =
                           IF q.kind = "HIGH" THEN LowPrice(q.confirmation) ELSE HighPrice(q.confirmation)
                      /\ Retraced(q.kind, q, q.confirmation)
    BY <1>1, <1>3, <1>8 DEF EvidenceExplainsReversal
  <2>1. CASE k = n + 1
    <3>1. Retraced("HIGH", p, i)
      BY <1>4, <1>7 DEF Retraced
    <3>2. high.price = HighPrice(high.index) /\ high.threshold = Threshold(high.index, high.price)
      BY <1>4 DEF HighCandidate, NewCandidate
    <3> QED
      BY <1>2, <1>4, <1>7, <1>8, <2>1, <3>1, <3>2
  <2>2. CASE k \in 1 .. n
    <3>1. points'[k] = points[k] /\ points[k] \in Point
      BY <1>6, <1>8, <2>2
    <3>2. points[k].confirmation < i + 1
      BY <1>2, <2>2, <3>1 DEF IInv, EvidenceExplainsReversal, Point
    <3> QED
      BY <2>2, <3>1, <3>2 DEF IInv, EvidenceExplainsReversal
  <2> QED
    BY <1>8, <2>1, <2>2
<1>19. PointsAlternate'
  <2> SUFFICES ASSUME NEW k \in 2 .. n + 1
               PROVE  /\ points'[k].kind # points'[k - 1].kind
                      /\ points'[k].index >= points'[k - 1].confirmation
    BY <1>8 DEF PointsAlternate
  <2>1. CASE k = n + 1
    BY <1>7, <1>8, <1>10, <2>1 DEF IsHighest, LastConfirmation
  <2>2. CASE k \in 2 .. n
    BY <1>8, <2>2 DEF IInv, PointsAlternate
  <2> QED
    BY <1>8, <2>1, <2>2
<1>20. SwingsReachThreshold'
  <2> SUFFICES ASSUME NEW k \in 2 .. n + 1
               PROVE  IF points'[k - 1].kind = "HIGH"
                        THEN points'[k - 1].price - points'[k].price >= points'[k - 1].threshold
                        ELSE points'[k].price - points'[k - 1].price >= points'[k - 1].threshold
    BY <1>8 DEF SwingsReachThreshold
  <2>1. CASE k = n + 1
    BY <1>7, <1>8, <1>10, <2>1 DEF IInv, SwingInv
  <2>2. CASE k \in 2 .. n
    BY <1>8, <2>2 DEF IInv, SwingsReachThreshold
  <2> QED
    BY <1>8, <2>1, <2>2
<1>21. PointsAreWindowExtremes'
  <2>1. \A k \in 1 .. n : WindowStart(k)' = WindowStart(k)
    BY <1>8 DEF WindowStart
  <2>2. ASSUME NEW k, k = n + 1 PROVE WindowStart(k)' = LastConfirmation
    <3>1. n = 0 <=> points = <<>>
      BY <1>6
    <3>2. n # 0 => points'[k - 1] = points[n]
      BY <1>8, <2>2
    <3> QED
      BY <1>8, <2>2, <3>1, <3>2 DEF WindowStart, LastConfirmation
  <2> SUFFICES ASSUME NEW k \in 1 .. n + 1, NEW j \in WindowStart(k)' .. points'[k].confirmation
               PROVE  IF points'[k].kind = "HIGH"
                        THEN /\ HighPrice(j) <= points'[k].price
                             /\ j > points'[k].index => HighPrice(j) < points'[k].price
                        ELSE /\ LowPrice(j) >= points'[k].price
                             /\ j > points'[k].index => LowPrice(j) > points'[k].price
    BY <1>3, <1>8 DEF PointsAreWindowExtremes
  <2>3. CASE k = n + 1
    <3>1. WindowStart(k)' = LastConfirmation
      BY <2>2, <2>3
    <3>2. points'[k] = p /\ j \in LastConfirmation .. i
      BY <1>7, <1>8, <2>3, <3>1
    <3> QED
      BY <1>2, <1>7, <1>10, <3>2 DEF IsHighest
  <2>4. CASE k \in 1 .. n
    BY <1>8, <2>1, <2>4 DEF IInv, PointsAreWindowExtremes
  <2> QED
    BY <1>8, <2>3, <2>4
<1>22. ConfirmedAtFirstReversal'
  <2> SUFFICES ASSUME NEW k \in 2 .. n + 1,
                      NEW j \in points'[k].index + 1 .. points'[k].confirmation - 1
               PROVE  ~Retraced(points'[k].kind, points'[k], j)
    BY <1>3, <1>8 DEF ConfirmedAtFirstReversal
  <2>1. CASE k = n + 1
    <3>1. points # <<>> /\ searching = "HIGH"
      BY <1>8, <1>10, <2>1
    <3>2. ~Retraced("HIGH", high, j)
      BY <1>7, <1>8, <2>1, <3>1 DEF IInv, OpenCandidateNotReversed
    <3> QED
      BY <1>7, <1>8, <2>1, <3>2 DEF Retraced
  <2>2. CASE k \in 2 .. n
    BY <1>8, <2>2 DEF IInv, ConfirmedAtFirstReversal
  <2> QED
    BY <1>8, <2>1, <2>2
<1> QED
  BY <1>12, <1>13, <1>14, <1>15, <1>16, <1>17, <1>18, <1>19, <1>20, <1>21, <1>22 DEF IInv
-----------------------------------------------------------------------------
LEMMA ConfirmLowPreserves ==
  ASSUME IInv, ConfirmLow
  PROVE  IInv'
<1> DEFINE p == ConfirmedPoint("LOW", UpdatedLow, HighPrice(i))
           n == Len(points)
<1>1. /\ i < count /\ i' = i + 1
      /\ UNCHANGED <<count, series, atr, outcome>>
      /\ ConfirmsLow(UpdatedLow)
      /\ points' = Append(points, p)
      /\ searching' = "HIGH"
      /\ low' = UpdatedLow
      /\ high' = HighCandidate(i)
  BY DEF ConfirmLow, Reading
<1>2. /\ i \in Nat /\ Start \in Nat /\ count \in Nat
      /\ i \in Start .. count - 1 /\ i \in 0 .. count - 1 /\ Start < i
  BY <1>1, StartIsEarly, CountIsNat, UpdatedCandidates DEF IInv
<1>3. /\ \A k : HighPrice(k)' = HighPrice(k) /\ LowPrice(k)' = LowPrice(k)
      /\ \A k, q : Threshold(k, q)' = Threshold(k, q)
      /\ \A k : HighCandidate(k)' = HighCandidate(k) /\ LowCandidate(k)' = LowCandidate(k)
      /\ \A kind, c, j : Retraced(kind, c, j)' = Retraced(kind, c, j)
  BY <1>1, InputsAreStable
<1>4. /\ searching # "HIGH"
      /\ UpdatedLow = low /\ low \in Candidate
      /\ low.index \in Start .. i - 1
      /\ low = LowCandidate(low.index)
      /\ Retraced("LOW", low, i)
  BY <1>1, <1>2, UpdatedCandidates
     DEF ConfirmsLow, Retraced, IInv, CandidatesInv, IsLowCandidate, TypeOK
<1>5. HighPrice(i) \in Nat /\ LowPrice(i) \in Nat
  BY <1>2, SelectedPrices DEF IInv
<1>6. p \in Point /\ points \in Seq(Point)
  BY <1>2, <1>4, <1>5 DEF ConfirmedPoint, Point, Candidate, Kinds, IInv, TypeOK
<1>7. /\ p.kind = "LOW" /\ p.index = low.index /\ p.price = low.price
      /\ p.threshold = low.threshold /\ p.confirmation = i
      /\ p.confirmationPrice = HighPrice(i)
  BY <1>4 DEF ConfirmedPoint
<1>8. /\ points' \in Seq(Point) /\ points' # <<>>
      /\ n \in Nat /\ Len(points') = n + 1
      /\ \A k \in 1 .. n : points'[k] = points[k]
      /\ points'[n + 1] = p
  BY <1>1, <1>6, AppendPoint
<1>9. LastConfirmation' = i
  BY <1>7, <1>8 DEF LastConfirmation
<1>10. /\ LastConfirmation \in Start .. i - 1
       /\ IsLowest(low, i + 1)
       /\ points # <<>> => searching = "LOW" /\ points[n].kind = "HIGH"
  <2>1. points # <<>> => points[n] \in Point
    BY <1>6, <1>8
  <2> QED
    BY <1>4, <2>1, UpdatedCandidates, <1>1
       DEF IInv, SearchInv, TypeOK, Kinds, Point
<1>11. HighCandidate(i) \in Candidate /\ HighCandidate(i).index = i
       /\ HighCandidate(i).price = HighPrice(i)
  BY <1>2, CandidatesAreTyped DEF IInv, HighCandidate, NewCandidate
<1>12. TypeOK'
  BY <1>1, <1>2, <1>4, <1>8, <1>11 DEF IInv, TypeOK, Kinds
<1>13. CandidatesInv'
  <2>1. IsLowCandidate(low, i + 1) /\ IsHighCandidate(HighCandidate(i), i + 1)
    BY <1>2, <1>4, <1>11 DEF IsHighCandidate, IsLowCandidate
  <2> QED
    BY <1>1, <1>3, <1>4, <2>1 DEF CandidatesInv, IsHighCandidate, IsLowCandidate
<1>14. SearchInv'
  BY <1>1, <1>2, <1>7, <1>8, <1>9 DEF SearchInv
<1>15. WindowInv'
  BY <1>1, <1>2, <1>3, <1>5, <1>9, <1>11 DEF WindowInv, IsHighest, IsLowest
<1>16. SwingInv'
  BY <1>1, <1>4, <1>5, <1>7, <1>8, <1>11 DEF SwingInv, Retraced
<1>17. OpenCandidateNotReversed'
  BY <1>1, <1>2, <1>11 DEF OpenCandidateNotReversed
<1>18. EvidenceExplainsReversal'
  <2> SUFFICES ASSUME NEW k \in 1 .. n + 1
               PROVE  LET q == points'[k] IN
                      /\ q.index < q.confirmation
                      /\ q.confirmation < i + 1
                      /\ q.index >= Start
                      /\ q.price = IF q.kind = "HIGH" THEN HighPrice(q.index) ELSE LowPrice(q.index)
                      /\ q.threshold = Threshold(q.index, q.price)
                      /\ q.confirmationPrice =
                           IF q.kind = "HIGH" THEN LowPrice(q.confirmation) ELSE HighPrice(q.confirmation)
                      /\ Retraced(q.kind, q, q.confirmation)
    BY <1>1, <1>3, <1>8 DEF EvidenceExplainsReversal
  <2>1. CASE k = n + 1
    <3>1. Retraced("LOW", p, i)
      BY <1>4, <1>7 DEF Retraced
    <3>2. low.price = LowPrice(low.index) /\ low.threshold = Threshold(low.index, low.price)
      BY <1>4 DEF LowCandidate, NewCandidate
    <3> QED
      BY <1>2, <1>4, <1>7, <1>8, <2>1, <3>1, <3>2
  <2>2. CASE k \in 1 .. n
    <3>1. points'[k] = points[k] /\ points[k] \in Point
      BY <1>6, <1>8, <2>2
    <3>2. points[k].confirmation < i + 1
      BY <1>2, <2>2, <3>1 DEF IInv, EvidenceExplainsReversal, Point
    <3> QED
      BY <2>2, <3>1, <3>2 DEF IInv, EvidenceExplainsReversal
  <2> QED
    BY <1>8, <2>1, <2>2
<1>19. PointsAlternate'
  <2> SUFFICES ASSUME NEW k \in 2 .. n + 1
               PROVE  /\ points'[k].kind # points'[k - 1].kind
                      /\ points'[k].index >= points'[k - 1].confirmation
    BY <1>8 DEF PointsAlternate
  <2>1. CASE k = n + 1
    BY <1>7, <1>8, <1>10, <2>1 DEF IsLowest, LastConfirmation
  <2>2. CASE k \in 2 .. n
    BY <1>8, <2>2 DEF IInv, PointsAlternate
  <2> QED
    BY <1>8, <2>1, <2>2
<1>20. SwingsReachThreshold'
  <2> SUFFICES ASSUME NEW k \in 2 .. n + 1
               PROVE  IF points'[k - 1].kind = "HIGH"
                        THEN points'[k - 1].price - points'[k].price >= points'[k - 1].threshold
                        ELSE points'[k].price - points'[k - 1].price >= points'[k - 1].threshold
    BY <1>8 DEF SwingsReachThreshold
  <2>1. CASE k = n + 1
    BY <1>7, <1>8, <1>10, <2>1 DEF IInv, SwingInv
  <2>2. CASE k \in 2 .. n
    BY <1>8, <2>2 DEF IInv, SwingsReachThreshold
  <2> QED
    BY <1>8, <2>1, <2>2
<1>21. PointsAreWindowExtremes'
  <2>1. \A k \in 1 .. n : WindowStart(k)' = WindowStart(k)
    BY <1>8 DEF WindowStart
  <2>2. ASSUME NEW k, k = n + 1 PROVE WindowStart(k)' = LastConfirmation
    <3>1. n = 0 <=> points = <<>>
      BY <1>6
    <3>2. n # 0 => points'[k - 1] = points[n]
      BY <1>8, <2>2
    <3> QED
      BY <1>8, <2>2, <3>1, <3>2 DEF WindowStart, LastConfirmation
  <2> SUFFICES ASSUME NEW k \in 1 .. n + 1, NEW j \in WindowStart(k)' .. points'[k].confirmation
               PROVE  IF points'[k].kind = "HIGH"
                        THEN /\ HighPrice(j) <= points'[k].price
                             /\ j > points'[k].index => HighPrice(j) < points'[k].price
                        ELSE /\ LowPrice(j) >= points'[k].price
                             /\ j > points'[k].index => LowPrice(j) > points'[k].price
    BY <1>3, <1>8 DEF PointsAreWindowExtremes
  <2>3. CASE k = n + 1
    <3>1. WindowStart(k)' = LastConfirmation
      BY <2>2, <2>3
    <3>2. points'[k] = p /\ j \in LastConfirmation .. i
      BY <1>7, <1>8, <2>3, <3>1
    <3> QED
      BY <1>2, <1>7, <1>10, <3>2 DEF IsLowest
  <2>4. CASE k \in 1 .. n
    BY <1>8, <2>1, <2>4 DEF IInv, PointsAreWindowExtremes
  <2> QED
    BY <1>8, <2>3, <2>4
<1>22. ConfirmedAtFirstReversal'
  <2> SUFFICES ASSUME NEW k \in 2 .. n + 1,
                      NEW j \in points'[k].index + 1 .. points'[k].confirmation - 1
               PROVE  ~Retraced(points'[k].kind, points'[k], j)
    BY <1>3, <1>8 DEF ConfirmedAtFirstReversal
  <2>1. CASE k = n + 1
    <3>1. points # <<>> /\ searching = "LOW"
      BY <1>8, <1>10, <2>1
    <3>2. ~Retraced("LOW", low, j)
      BY <1>7, <1>8, <2>1, <3>1 DEF IInv, OpenCandidateNotReversed
    <3> QED
      BY <1>7, <1>8, <2>1, <3>2 DEF Retraced
  <2>2. CASE k \in 2 .. n
    BY <1>8, <2>2 DEF IInv, ConfirmedAtFirstReversal
  <2> QED
    BY <1>8, <2>1, <2>2
<1> QED
  BY <1>12, <1>13, <1>14, <1>15, <1>16, <1>17, <1>18, <1>19, <1>20, <1>21, <1>22 DEF IInv
-----------------------------------------------------------------------------
(* The context ending, and the end of the scan, leave the points alone.    *)
LEMMA EndingPreserves ==
  ASSUME IInv, Cancel \/ Complete \/ UNCHANGED vars
  PROVE  IInv'
<1>1. /\ UNCHANGED <<count, series, atr, i, high, low, searching, points>>
      /\ outcome' \in {"running", "completed", "canceled"}
  BY DEF Cancel, Complete, vars, IInv, TypeOK
<1>2. TypeOK' /\ CandidatesInv'
  BY <1>1 DEF IInv, TypeOK, CandidatesInv, IsHighCandidate, IsLowCandidate,
              HighCandidate, LowCandidate, NewCandidate, Threshold, HighPrice, LowPrice
<1>3. SearchInv' /\ WindowInv' /\ SwingInv' /\ OpenCandidateNotReversed'
  BY <1>1 DEF IInv, SearchInv, WindowInv, SwingInv, OpenCandidateNotReversed, IsHighest,
              IsLowest, LastConfirmation, Retraced, HighPrice, LowPrice
<1>4. EvidenceExplainsReversal' /\ ConfirmedAtFirstReversal'
  BY <1>1 DEF IInv, EvidenceExplainsReversal, ConfirmedAtFirstReversal, Retraced,
              Threshold, HighPrice, LowPrice
<1>5. PointsAlternate' /\ SwingsReachThreshold'
  BY <1>1 DEF IInv, PointsAlternate, SwingsReachThreshold
<1>6. PointsAreWindowExtremes'
  BY <1>1 DEF IInv, PointsAreWindowExtremes, WindowStart, HighPrice, LowPrice
<1> QED
  BY <1>2, <1>3, <1>4, <1>5, <1>6 DEF IInv

(* IInv is an inductive invariant of the scan.                             *)
THEOREM IInvHolds == Spec => []IInv
<1>1. Init => IInv
  BY InitHolds
<1>2. IInv /\ [Next]_vars => IInv'
  BY KeepSearchingPreserves, ConfirmHighPreserves, ConfirmLowPreserves, EndingPreserves
     DEF Next
<1> QED
  BY <1>1, <1>2, PTL DEF Spec

(* The state of the scan keeps its types, for every series and settings.   *)
THEOREM TypeCorrect == Spec => []TypeOK
<1>1. IInv => TypeOK
  BY DEF IInv
<1> QED
  BY <1>1, IInvHolds, PTL

(* Highs and lows alternate and their searches do not overlap.             *)
THEOREM Alternation == Spec => []PointsAlternate
<1>1. IInv => PointsAlternate
  BY DEF IInv
<1> QED
  BY <1>1, IInvHolds, PTL

(* Neighbouring points are a full threshold apart.                         *)
THEOREM SwingSize == Spec => []SwingsReachThreshold
<1>1. IInv => SwingsReachThreshold
  BY DEF IInv
<1> QED
  BY <1>1, IInvHolds, PTL

(* Every point is the last extreme of the window it was searched in.       *)
THEOREM WindowExtremes == Spec => []PointsAreWindowExtremes
<1>1. IInv => PointsAreWindowExtremes
  BY DEF IInv
<1> QED
  BY <1>1, IInvHolds, PTL

(* Every point's evidence is that of its candles, and explains it.         *)
THEOREM EvidenceIsSound == Spec => []EvidenceExplainsReversal
<1>1. IInv => EvidenceExplainsReversal
  BY DEF IInv
<1> QED
  BY <1>1, IInvHolds, PTL

(* A point is confirmed by the first candle that reverses its threshold.   *)
THEOREM ReversalsAreNotMissed == Spec => []ConfirmedAtFirstReversal
<1>1. IInv => ConfirmedAtFirstReversal
  BY DEF IInv
<1> QED
  BY <1>1, IInvHolds, PTL

(* No candle so far has reversed the extreme that is still searched for.   *)
THEOREM OpenExtremeStands == Spec => []OpenCandidateNotReversed
<1>1. IInv => OpenCandidateNotReversed
  BY DEF IInv
<1> QED
  BY <1>1, IInvHolds, PTL
-----------------------------------------------------------------------------
(* The scan step by step is the pass that trends and zones are built on:   *)
(* after each candle it stands where the pass does.                        *)
AsCandidate(c) ==
  [index |-> c.index, price |-> c.price,
   evidence |-> IF Method = "percent" THEN [threshold |-> c.threshold]
                ELSE [threshold |-> c.threshold, atr |-> atr[c.index]]]

PassState ==
  [high |-> AsCandidate(high), low |-> AsCandidate(low),
   searching |-> searching, points |-> Result]

PassInv ==
  /\ Detected!ReversalPass(series, Settings, atr)[i - 1] = PassState
  /\ outcome = "completed" => i = count

SIInv == IInv /\ PassInv

LEMMA SettingsFields ==
  /\ Settings.source = PriceSource /\ Settings.method = Method
  /\ Settings.pct = ReversalPct /\ Settings.period = ATRPeriod
  /\ Settings.multiplier = ATRMultiplier
  /\ Detected!FirstCandle(Settings) = Start
BY DEF Settings, Detected!FirstCandle, Start

LEMMA SameCandidateAt ==
  ASSUME NEW k
  PROVE  /\ Detected!HighAt(series, Settings, atr, k) = AsCandidate(HighCandidate(k))
         /\ Detected!LowAt(series, Settings, atr, k) = AsCandidate(LowCandidate(k))
<1>1. ASSUME NEW price
      PROVE  Detected!Candidate(Settings, atr, k, price) = AsCandidate(NewCandidate(k, price))
  <2>1. Detected!Evidence(Settings, atr, k, price) =
          IF Method = "percent" THEN [threshold |-> Threshold(k, price)]
          ELSE [threshold |-> Threshold(k, price), atr |-> atr[k]]
    BY SettingsFields DEF Detected!Evidence, Threshold
  <2> QED
    BY <2>1 DEF Detected!Candidate, AsCandidate, NewCandidate
<1>2. /\ Detected!HighPrice(series[k], Settings.source) = HighPrice(k)
      /\ Detected!LowPrice(series[k], Settings.source) = LowPrice(k)
  BY SettingsFields DEF Detected!HighPrice, Detected!LowPrice, HighPrice, LowPrice
<1> QED
  BY <1>1, <1>2 DEF Detected!HighAt, Detected!LowAt, HighCandidate, LowCandidate

LEMMA CandidateFields ==
  ASSUME NEW c
  PROVE  /\ AsCandidate(c).index = c.index /\ AsCandidate(c).price = c.price
         /\ AsCandidate(c).evidence.threshold = c.threshold
BY DEF AsCandidate

(* The record of a confirmed candidate is the point of the machine.        *)
LEMMA SamePoint ==
  ASSUME NEW kind, NEW c, NEW price
  PROVE  Detected!ConfirmedPoint(kind, AsCandidate(c), i) = Evidence(ConfirmedPoint(kind, c, price))
BY DEF Detected!ConfirmedPoint, AsCandidate, Evidence, ConfirmedPoint

LEMMA SeriesIsCounted ==
  ASSUME TypeOK
  PROVE  /\ Detected!Count(series) = count /\ DOMAIN series = 0 .. count - 1
         /\ Start \in Nat /\ count \in Nat /\ Start < count
<1>1. count \in Nat /\ Start \in Nat /\ count \in MinimumCount .. MaxCandles
  BY StartIsEarly, CountIsNat DEF TypeOK
<1>2. DOMAIN series = 0 .. count - 1
  BY DEF TypeOK, SeriesOf
<1>3. Detected!Cardinality(0 .. count - 1) = count
  BY <1>1, Detected!FS_Interval
<1> QED
  BY <1>1, <1>2, <1>3, StartIsEarly DEF Detected!Count

(* One iteration of the pass, in the machine's terms.                      *)
LEMMA IterationMatches ==
  ASSUME IInv, i < count
  PROVE  Detected!Iteration(series, Settings, atr, PassState, i) =
           IF ConfirmsHigh(UpdatedHigh) = ConfirmsLow(UpdatedLow)
             THEN [high |-> AsCandidate(UpdatedHigh), low |-> AsCandidate(UpdatedLow),
                   searching |-> searching, points |-> Result]
           ELSE IF ConfirmsHigh(UpdatedHigh)
             THEN [high |-> AsCandidate(UpdatedHigh), low |-> AsCandidate(LowCandidate(i)),
                   searching |-> "LOW",
                   points |-> Append(Result, Evidence(ConfirmedPoint("HIGH", UpdatedHigh, LowPrice(i))))]
             ELSE [high |-> AsCandidate(HighCandidate(i)), low |-> AsCandidate(UpdatedLow),
                   searching |-> "HIGH",
                   points |-> Append(Result, Evidence(ConfirmedPoint("LOW", UpdatedLow, HighPrice(i))))]
<1> DEFINE t       == PassState
           highest == Detected!HighAt(series, Settings, atr, i)
           lowest  == Detected!LowAt(series, Settings, atr, i)
           h == IF t.searching # "LOW" /\ highest.price >= t.high.price THEN highest ELSE t.high
           l == IF t.searching # "HIGH" /\ lowest.price <= t.low.price THEN lowest ELSE t.low
           cH == t.searching # "LOW" /\ Detected!Confirmed(h, i, h.price - lowest.price)
           cL == t.searching # "HIGH" /\ Detected!Confirmed(l, i, highest.price - l.price)
<1>1. /\ t.high = AsCandidate(high) /\ t.low = AsCandidate(low)
      /\ t.searching = searching /\ t.points = Result
  BY DEF PassState
<1>0. [t EXCEPT !.high = h, !.low = l] =
        [high |-> h, low |-> l, searching |-> searching, points |-> Result]
  <2> HIDE DEF h, l
  <2>1. [t EXCEPT !.high = h] =
          [high |-> h, low |-> AsCandidate(low), searching |-> searching, points |-> Result]
    BY DEF PassState
  <2>2. [[high |-> h, low |-> AsCandidate(low), searching |-> searching, points |-> Result]
           EXCEPT !.low = l] =
          [high |-> h, low |-> l, searching |-> searching, points |-> Result]
    OBVIOUS
  <2> HIDE DEF t
  <2> QED
    BY <2>1, <2>2, Zenon
<1>2. Detected!Iteration(series, Settings, atr, PassState, i) =
        IF cH = cL THEN [t EXCEPT !.high = h, !.low = l]
        ELSE IF cH
          THEN [high |-> h, low |-> lowest, searching |-> "LOW",
                points |-> Append(t.points, Detected!ConfirmedPoint("HIGH", h, i))]
          ELSE [high |-> highest, low |-> l, searching |-> "HIGH",
                points |-> Append(t.points, Detected!ConfirmedPoint("LOW", l, i))]
  BY DEF Detected!Iteration
<1>3. /\ highest = AsCandidate(HighCandidate(i)) /\ highest.price = HighPrice(i)
      /\ lowest = AsCandidate(LowCandidate(i)) /\ lowest.price = LowPrice(i)
  BY SameCandidateAt, CandidateFields DEF HighCandidate, LowCandidate, NewCandidate
<1> HIDE DEF t, highest, lowest
<1>4. h = AsCandidate(UpdatedHigh) /\ l = AsCandidate(UpdatedLow)
  BY <1>1, <1>3, CandidateFields DEF UpdatedHigh, UpdatedLow
<1> HIDE DEF h, l
<1>5. cH = ConfirmsHigh(UpdatedHigh) /\ cL = ConfirmsLow(UpdatedLow)
  BY <1>1, <1>3, <1>4, CandidateFields DEF Detected!Confirmed, ConfirmsHigh, ConfirmsLow
<1>6. /\ Detected!ConfirmedPoint("HIGH", h, i) =
           Evidence(ConfirmedPoint("HIGH", UpdatedHigh, LowPrice(i)))
      /\ Detected!ConfirmedPoint("LOW", l, i) =
           Evidence(ConfirmedPoint("LOW", UpdatedLow, HighPrice(i)))
  BY <1>4, SamePoint
<1> HIDE DEF cH, cL
<1> QED
  BY <1>0, <1>1, <1>2, <1>3, <1>4, <1>5, <1>6

(* The next state of the pass.                                             *)
LEMMA PassMoves ==
  ASSUME IInv, PassInv, i < count
  PROVE  Detected!ReversalPass(series, Settings, atr)[i] =
           Detected!Iteration(series, Settings, atr, PassState, i)
<1>1. TypeOK /\ i \in Start + 1 .. count - 1
  BY CountIsNat, StartIsEarly DEF IInv
<1>2. /\ Detected!Count(series) = count /\ count \in Nat /\ Start \in Nat /\ Start < count
  BY <1>1, SeriesIsCounted
<1>3. \A k \in Start + 1 .. count - 1 :
        Detected!ReversalPass(series, Settings, atr)[k] =
          Detected!Iteration(series, Settings, atr,
                             Detected!ReversalPass(series, Settings, atr)[k - 1], k)
  <2>1. /\ Detected!FirstCandle(Settings) = Start
        /\ Detected!FirstCandle(Settings) \in Nat /\ Detected!Count(series) \in Nat
        /\ Detected!FirstCandle(Settings) < Detected!Count(series)
    BY <1>2, SettingsFields
  <2>2. \A k \in Detected!FirstCandle(Settings) + 1 .. Detected!Count(series) - 1 :
          Detected!ReversalPass(series, Settings, atr)[k] =
            Detected!Iteration(series, Settings, atr,
                               Detected!ReversalPass(series, Settings, atr)[k - 1], k)
    BY ONLY <2>1, Detected!PassUnfolds, ZenonT(60)
  <2>3. Detected!FirstCandle(Settings) = Start /\ Detected!Count(series) = count
    BY <1>2, <2>1
  <2> QED
    BY ONLY <2>2, <2>3
<1> QED
  BY <1>1, <1>3 DEF PassInv

LEMMA PassStarts == Init => SIInv
<1> SUFFICES ASSUME Init PROVE SIInv
  OBVIOUS
<1>1. IInv /\ TypeOK
  BY InitHolds DEF IInv
<1>2. /\ Detected!Count(series) = count /\ count \in Nat /\ Start \in Nat /\ Start < count
  BY <1>1, SeriesIsCounted
<1>3. Detected!ReversalPass(series, Settings, atr)[Start] =
        [high |-> AsCandidate(HighCandidate(Start)), low |-> AsCandidate(LowCandidate(Start)),
         searching |-> "UNKNOWN", points |-> <<>>]
  BY <1>2, SettingsFields, SameCandidateAt, Detected!PassUnfolds
<1>4. /\ high = HighCandidate(Start) /\ low = LowCandidate(Start) /\ i = Start + 1
      /\ searching = "UNKNOWN" /\ points = <<>> /\ outcome = "running"
  BY DEF Init
<1>5. Result = <<>>
  BY <1>4 DEF Result
<1>6. i - 1 = Start
  BY <1>2, <1>4
<1> QED
  BY <1>1, <1>3, <1>4, <1>5, <1>6 DEF SIInv, PassInv, PassState

(* A confirmed point is appended to the result.                            *)
LEMMA ResultGrows ==
  ASSUME points \in Seq(Point), NEW p \in Point, points' = Append(points, p), atr' = atr
  PROVE  Result' = Append(Result, Evidence(p))
<1> DEFINE n == Len(points)
<1>1. /\ n \in Nat /\ Len(points') = n + 1 /\ points' \in Seq(Point)
      /\ \A k \in 1 .. n : points'[k] = points[k]
      /\ points'[n + 1] = p
      /\ DOMAIN points = 1 .. n /\ DOMAIN points' = 1 .. n + 1
  BY AppendPoint
<1>2. \A q : Evidence(q)' = Evidence(q)
  BY DEF Evidence
<1>3. Result' = [k \in 1 .. n + 1 |-> Evidence(points'[k])]
  BY <1>1, <1>2 DEF Result
<1>4. Result = [k \in 1 .. n |-> Evidence(points[k])]
  BY <1>1 DEF Result
<1> HIDE DEF n
<1>5. Len(Result) = n /\ Result \in Seq({Evidence(points[k]) : k \in 1 .. n})
  BY <1>1, <1>4
<1>6. Append(Result, Evidence(p)) = [k \in 1 .. n + 1 |-> IF k = n + 1 THEN Evidence(p) ELSE Result[k]]
  <2> DEFINE S == {Evidence(points[k]) : k \in 1 .. n} \cup {Evidence(p)}
             longer == Append(Result, Evidence(p))
  <2>1. Result \in Seq(S) /\ Evidence(p) \in S
    BY <1>1, <1>4
  <2> HIDE DEF S
  <2>2. /\ longer \in Seq(S) /\ Len(longer) = n + 1
        /\ \A k \in 1 .. n : longer[k] = Result[k]
        /\ longer[n + 1] = Evidence(p)
    BY <1>1, <1>5, <2>1
  <2> HIDE DEF longer
  <2>3. longer = [k \in 1 .. n + 1 |-> longer[k]]
    BY <1>1, <2>2
  <2> QED
    BY <1>1, <2>2, <2>3 DEF longer
<1>7. \A k \in 1 .. n + 1 : Evidence(points'[k]) = IF k = n + 1 THEN Evidence(p) ELSE Result[k]
  <2> SUFFICES ASSUME NEW k \in 1 .. n + 1
               PROVE  Evidence(points'[k]) = IF k = n + 1 THEN Evidence(p) ELSE Result[k]
    OBVIOUS
  <2>1. CASE k = n + 1
    BY <1>1, <2>1
  <2>2. CASE k # n + 1
    BY <1>1, <1>4, <2>2
  <2> QED
    BY <2>1, <2>2
<1> QED
  BY <1>3, <1>6, <1>7

LEMMA PassIsFollowed ==
  ASSUME SIInv, [Next]_vars
  PROVE  SIInv'
<1>1. IInv /\ PassInv /\ TypeOK /\ points \in Seq(Point)
  BY DEF SIInv, IInv, TypeOK
<1>2. IInv'
  BY <1>1, KeepSearchingPreserves, ConfirmHighPreserves, ConfirmLowPreserves, EndingPreserves
     DEF Next
<1>3. points' \in Seq(Point)
  BY <1>2 DEF IInv, TypeOK
<1>4. ASSUME UNCHANGED <<series, atr>>
      PROVE  /\ \A c : AsCandidate(c)' = AsCandidate(c)
             /\ \A p : Evidence(p)' = Evidence(p)
             /\ points' = points => Result' = Result
  BY <1>4 DEF AsCandidate, Evidence, Result
<1>5. ASSUME Reading
      PROVE  /\ i' - 1 = i /\ i < count
             /\ outcome' # "completed"
             /\ UNCHANGED <<series, atr>>
             /\ Detected!ReversalPass(series, Settings, atr)'[i' - 1] =
                  Detected!Iteration(series, Settings, atr, PassState, i)
  <2>1. i' = i + 1 /\ i < count /\ i \in Nat /\ outcome' = outcome /\ outcome = "running"
        /\ series' = series /\ atr' = atr
    BY <1>1, <1>5, CountIsNat DEF Reading
  <2>2. Settings' = Settings
    BY DEF Settings
  <2>3. Detected!ReversalPass(series, Settings, atr)' = Detected!ReversalPass(series, Settings, atr)
    BY <2>1, <2>2
  <2> QED
    BY <1>1, <2>1, <2>3, PassMoves
<1>6. CASE KeepSearching
  <2>1. Reading /\ ConfirmsHigh(UpdatedHigh) = ConfirmsLow(UpdatedLow)
        /\ high' = UpdatedHigh /\ low' = UpdatedLow /\ searching' = searching /\ points' = points
    BY <1>6 DEF KeepSearching
  <2>2. PassState' = [high |-> AsCandidate(UpdatedHigh), low |-> AsCandidate(UpdatedLow),
                      searching |-> searching, points |-> Result]
    BY <1>4, <1>5, <2>1 DEF PassState
  <2> QED
    BY <1>1, <1>2, <1>5, <2>1, <2>2, IterationMatches DEF SIInv, PassInv
<1>7. CASE ConfirmHigh
  <2> DEFINE p == ConfirmedPoint("HIGH", UpdatedHigh, LowPrice(i))
  <2>1. Reading /\ ConfirmsHigh(UpdatedHigh) /\ ~ConfirmsLow(UpdatedLow)
        /\ high' = UpdatedHigh /\ low' = LowCandidate(i) /\ searching' = "LOW"
        /\ points' = Append(points, p)
    BY <1>7 DEF ConfirmHigh
  <2>2. p \in Point
    <3>1. points' \in Seq(Point) /\ points' = Append(points, p) /\ points \in Seq(Point)
      BY <1>1, <1>3, <2>1
    <3>2. UpdatedHigh \in Candidate /\ i \in Nat /\ i \in 0 .. count - 1
      BY <1>1, <1>5, <2>1, UpdatedCandidates, CountIsNat
    <3>3. LowPrice(i) \in Nat
      BY <1>1, <3>2, SelectedPrices
    <3> QED
      BY <3>2, <3>3 DEF ConfirmedPoint, Point, Candidate, Kinds
  <2> HIDE DEF p
  <2>3. Result' = Append(Result, Evidence(p))
    BY <1>1, <1>5, <2>1, <2>2, ResultGrows
  <2>4. PassState' = [high |-> AsCandidate(UpdatedHigh), low |-> AsCandidate(LowCandidate(i)),
                      searching |-> "LOW", points |-> Append(Result, Evidence(p))]
    BY <1>4, <1>5, <2>1, <2>3 DEF PassState
  <2>5. Detected!Iteration(series, Settings, atr, PassState, i) = PassState'
    BY <1>1, <1>5, <2>1, <2>4, IterationMatches DEF p
  <2> QED
    BY <1>2, <1>5, <2>1, <2>5 DEF SIInv, PassInv
<1>8. CASE ConfirmLow
  <2> DEFINE p == ConfirmedPoint("LOW", UpdatedLow, HighPrice(i))
  <2>1. Reading /\ ConfirmsLow(UpdatedLow) /\ ~ConfirmsHigh(UpdatedHigh)
        /\ low' = UpdatedLow /\ high' = HighCandidate(i) /\ searching' = "HIGH"
        /\ points' = Append(points, p)
    BY <1>8 DEF ConfirmLow
  <2>2. p \in Point
    <3>2. UpdatedLow \in Candidate /\ i \in Nat /\ i \in 0 .. count - 1
      BY <1>1, <1>5, <2>1, UpdatedCandidates, CountIsNat
    <3>3. HighPrice(i) \in Nat
      BY <1>1, <3>2, SelectedPrices
    <3> QED
      BY <3>2, <3>3 DEF ConfirmedPoint, Point, Candidate, Kinds
  <2> HIDE DEF p
  <2>3. Result' = Append(Result, Evidence(p))
    BY <1>1, <1>5, <2>1, <2>2, ResultGrows
  <2>4. PassState' = [high |-> AsCandidate(HighCandidate(i)), low |-> AsCandidate(UpdatedLow),
                      searching |-> "HIGH", points |-> Append(Result, Evidence(p))]
    BY <1>4, <1>5, <2>1, <2>3 DEF PassState
  <2>5. Detected!Iteration(series, Settings, atr, PassState, i) = PassState'
    BY <1>1, <1>5, <2>1, <2>4, IterationMatches DEF p
  <2> QED
    BY <1>2, <1>5, <2>1, <2>5 DEF SIInv, PassInv
<1>9. CASE Cancel \/ Complete \/ UNCHANGED vars
  <2>1. /\ UNCHANGED <<count, series, atr, i, high, low, searching, points>>
        /\ outcome' = "completed" => i = count
    BY <1>1, <1>9 DEF Cancel, Complete, vars, PassInv
  <2>2. PassState' = PassState /\ Settings' = Settings
    BY <2>1, <1>4 DEF PassState, Settings
  <2>3. Detected!ReversalPass(series, Settings, atr)' = Detected!ReversalPass(series, Settings, atr)
    BY <2>1, <2>2
  <2> QED
    BY <1>1, <1>2, <2>1, <2>2, <2>3 DEF SIInv, PassInv
<1> QED
  BY <1>6, <1>7, <1>8, <1>9 DEF Next

LEMMA Following == Spec => []SIInv
<1>1. Init => SIInv
  BY PassStarts
<1>2. SIInv /\ [Next]_vars => SIInv'
  BY PassIsFollowed, SMTT(30)
<1> QED
  BY <1>1, <1>2, PTL DEF Spec
-----------------------------------------------------------------------------
(* What is proved of ExtremaProofs' copy of Extrema holds for Detection:   *)
(* both are Extrema with the division of this module.                      *)
LEMMA SameReversalPoints ==
  ASSUME NEW candles, NEW s, NEW a
  PROVE  Detection!ReversalPoints(candles, s, a) = Detected!ReversalPoints(candles, s, a)
BY DEF Detection!ReversalPoints, Detected!ReversalPoints,
       Detection!ReversalPass, Detected!ReversalPass,
       Detection!Iteration, Detected!Iteration,
       Detection!FirstCandle, Detected!FirstCandle,
       Detection!Confirmed, Detected!Confirmed,
       Detection!ConfirmedPoint, Detected!ConfirmedPoint,
       Detection!HighAt, Detected!HighAt, Detection!LowAt, Detected!LowAt,
       Detection!Candidate, Detected!Candidate, Detection!Evidence, Detected!Evidence,
       Detection!HighPrice, Detected!HighPrice, Detection!LowPrice, Detected!LowPrice,
       Detection!Count, Detected!Count, Detection!Cardinality, Detected!Cardinality

(* A scan that completes has found what trends and zones are given.        *)
LEMMA ResultIsDetected ==
  ASSUME SIInv, outcome = "completed"
  PROVE  Result = Detection!ReversalPoints(series, Settings, atr)
<1>1. TypeOK /\ i = count
  BY DEF SIInv, IInv, PassInv
<1>2. Detected!Count(series) = i
  BY <1>1, SeriesIsCounted
<1>3. Detected!ReversalPass(series, Settings, atr)[i - 1].points = Result
  BY DEF SIInv, PassInv, PassState
<1> QED
  BY <1>2, <1>3, SameReversalPoints DEF Detected!ReversalPoints

(* The candles of the series, as a response lists them.                    *)
LEMMA CandlesAreShown ==
  ASSUME TypeOK
  PROVE  /\ DOMAIN ExtremaView.candles = 0 .. count - 1
         /\ \A k \in 0 .. count - 1 :
              LET c == ExtremaView.candles[k]
              IN  /\ c.openTime = k /\ c.closeTime = k + 1
                  /\ c.high.value = series[k].high
                  /\ c.low.value = series[k].low
                  /\ c.close.value = series[k].close
         /\ \A k \in DOMAIN ExtremaView.candles : Responses!ValidCandle(ExtremaView.candles, k)
<1> DEFINE candles == ExtremaView.candles
           D == 0 .. count - 1
<1>1. DOMAIN series = D /\ count \in Nat
  BY SeriesIsCounted
<1>2. candles = Responses!MapCandles(series)
  BY DEF ExtremaView
<1>3. /\ DOMAIN candles = D
      /\ \A k \in D :
           /\ candles[k].openTime = k /\ candles[k].closeTime = k + 1
           /\ candles[k].high.value = series[k].high
           /\ candles[k].low.value = series[k].low
           /\ candles[k].close.value = series[k].close
  <2> HIDE DEF candles, D
  <2> QED
    BY <1>1, <1>2
       DEF Responses!MapCandles, Responses!MapCandle, Responses!OpenTime, Responses!CloseTime
<1>4. ASSUME NEW k \in D
      PROVE  /\ series[k].low \in Nat /\ series[k].low > 0
             /\ series[k].low <= series[k].close /\ series[k].close <= series[k].high
             /\ k \in Nat /\ (k > 0 => k - 1 \in D /\ (k - 1) + 1 = k)
  <2>1. series[k] \in Candles
    BY DEF TypeOK, SeriesOf
  <2>2. series[k].low \in Nat \ {0}
    BY <2>1, CandleAssumption DEF Prices
  <2> QED
    BY <1>1, <2>1, <2>2, CandleAssumption
<1> HIDE DEF candles, D
<1>5. ASSUME NEW k \in D PROVE Responses!ValidCandle(candles, k)
  <2>1. k > 0 => candles[k - 1].closeTime = candles[k].openTime
    <3>1. k > 0 => candles[k - 1].closeTime = (k - 1) + 1
      BY <1>3, <1>4
    <3> QED
      BY <1>3, <1>4, <3>1
  <2>2. k < k + 1
    BY <1>4
  <2>3. /\ candles[k].openTime = k /\ candles[k].closeTime = k + 1
        /\ candles[k].low.value = series[k].low
        /\ candles[k].close.value = series[k].close
        /\ candles[k].high.value = series[k].high
    BY <1>3
  <2> QED
    BY <1>4, <2>1, <2>2, <2>3 DEF Responses!ValidCandle
<1> QED
  BY <1>3, <1>5 DEF candles, D

(* A point of the scan, with the evidence of its method.                   *)
LEMMA PointsAreSound ==
  ASSUME IInv, NEW k \in DOMAIN points
  PROVE  LET p == points[k]
             e == Evidence(p)
         IN  /\ p.kind \in {"HIGH", "LOW"} /\ p.index \in Nat /\ p.confirmation \in Nat
             /\ p.index < p.confirmation
             /\ p.index \in 0 .. count - 1 /\ p.confirmation \in 0 .. count - 1
             /\ p.price = IF p.kind = "HIGH" THEN HighPrice(p.index) ELSE LowPrice(p.index)
             /\ p.confirmationPrice =
                  IF p.kind = "HIGH" THEN LowPrice(p.confirmation) ELSE HighPrice(p.confirmation)
             /\ e.kind = p.kind /\ e.index = p.index /\ e.confirmation = p.confirmation
             /\ "reversal" \in DOMAIN e
             /\ Method = "atr" => "atr" \in DOMAIN e.reversal
<1> DEFINE p == points[k]
           e == Evidence(p)
<1>1. p \in Point /\ k \in 1 .. Len(points) /\ TypeOK
  BY DEF IInv, TypeOK
<1>2. /\ p.index < p.confirmation /\ p.confirmation < i
      /\ p.price = IF p.kind = "HIGH" THEN HighPrice(p.index) ELSE LowPrice(p.index)
      /\ p.confirmationPrice =
           IF p.kind = "HIGH" THEN LowPrice(p.confirmation) ELSE HighPrice(p.confirmation)
  BY <1>1 DEF IInv, EvidenceExplainsReversal
<1>3. i \in Nat /\ count \in Nat /\ i <= count
  BY <1>1, CountIsNat
<1>4. /\ e.kind = p.kind /\ e.index = p.index /\ e.confirmation = p.confirmation
      /\ "reversal" \in DOMAIN e
      /\ e.reversal = IF Method = "percent" THEN [threshold |-> p.threshold]
                      ELSE [threshold |-> p.threshold, atr |-> atr[p.index]]
  BY DEF Evidence
<1> HIDE DEF p, e
<1>5. p.kind \in {"HIGH", "LOW"} /\ p.index \in Nat /\ p.confirmation \in Nat
  BY <1>1 DEF Point, Kinds
<1>6. p.index \in 0 .. count - 1 /\ p.confirmation \in 0 .. count - 1
  BY <1>2, <1>3, <1>5
<1>7. Method = "atr" => "atr" \in DOMAIN e.reversal
  BY <1>4
<1> QED
  BY <1>2, <1>4, <1>5, <1>6, <1>7 DEF p, e

(* The response says of a point what the machine decided by, and its       *)
(* checks can be read off the candles.                                     *)
LEMMA PointIsShown ==
  ASSUME IInv, NEW k \in DOMAIN points
  PROVE  LET shown == ExtremaView.extrema[k]
         IN  /\ Responses!ValidPoint(shown, ExtremaView.candles, PriceSource, Method)
             /\ shown.price.value = points[k].price
             /\ shown.reversal.confirmationPrice.value = points[k].confirmationPrice
<1> DEFINE candles == ExtremaView.candles
           p == points[k]
           e == Evidence(p)
           q == ExtremaView.extrema[k]
<1>1. /\ p.kind \in {"HIGH", "LOW"} /\ p.index \in Nat /\ p.confirmation \in Nat
      /\ p.index < p.confirmation
      /\ p.index \in 0 .. count - 1 /\ p.confirmation \in 0 .. count - 1
      /\ p.price = IF p.kind = "HIGH" THEN HighPrice(p.index) ELSE LowPrice(p.index)
      /\ p.confirmationPrice =
           IF p.kind = "HIGH" THEN LowPrice(p.confirmation) ELSE HighPrice(p.confirmation)
      /\ e.kind = p.kind /\ e.index = p.index /\ e.confirmation = p.confirmation
      /\ "reversal" \in DOMAIN e
      /\ Method = "atr" => "atr" \in DOMAIN e.reversal
  BY PointsAreSound
<1>2. TypeOK
  BY DEF IInv
<1>3. /\ DOMAIN candles = 0 .. count - 1
      /\ \A j \in 0 .. count - 1 :
           /\ candles[j].openTime = j /\ candles[j].closeTime = j + 1
           /\ candles[j].high.value = series[j].high
           /\ candles[j].low.value = series[j].low
           /\ candles[j].close.value = series[j].close
  BY <1>2, CandlesAreShown
<1>4. q = Responses!MapPoint(e, candles, PriceSource)
  <2>1. ExtremaView.extrema = Responses!MapExtrema(Result, candles, PriceSource)
    BY DEF ExtremaView
  <2>2. DOMAIN Result = DOMAIN points /\ Result[k] = e
    BY DEF Result
  <2> HIDE DEF candles, e
  <2> QED
    BY <2>1, <2>2 DEF Responses!MapExtrema
<1>5. PriceSource \in {"CLOSE", "HIGH_LOW"} /\ Method \in {"percent", "atr"}
  BY SettingsAssumption
<1> HIDE DEF candles, p, e, q
<1>6. /\ q.kind = p.kind /\ q.index = p.index /\ q.time = p.index
      /\ q.price = Responses!SourcePrice(candles[p.index], PriceSource, p.kind)
      /\ q.confirmation = p.confirmation /\ q.confirmationTime = p.confirmation + 1
      /\ q.reversal =
           [threshold         |-> Responses!Formatted(e.reversal.threshold),
            confirmationPrice |->
              Responses!ConfirmationPrice(candles[p.confirmation], PriceSource, p.kind),
            candidateATR      |-> IF "atr" \in DOMAIN e.reversal
                                    THEN Responses!Formatted(e.reversal.atr)
                                    ELSE Responses!None]
  BY <1>1, <1>4 DEF Responses!MapPoint, Responses!OpenTime, Responses!CloseTime
<1>7. \A a, b, c : [threshold |-> a, confirmationPrice |-> b, candidateATR |-> c] # Responses!None
  BY DEF Responses!None
<1>8. \A a : Responses!Formatted(a) # Responses!None
  BY DEF Responses!Formatted, Responses!None
<1>9. /\ q.reversal # Responses!None
      /\ Method = "atr" => q.reversal.candidateATR # Responses!None
      /\ q.reversal.confirmationPrice =
           Responses!ConfirmationPrice(candles[p.confirmation], PriceSource, p.kind)
  <2>1. q.reversal # Responses!None
    BY <1>6, <1>7
  <2>2. /\ q.reversal.confirmationPrice =
             Responses!ConfirmationPrice(candles[p.confirmation], PriceSource, p.kind)
        /\ "atr" \in DOMAIN e.reversal =>
             q.reversal.candidateATR = Responses!Formatted(e.reversal.atr)
    BY <1>6
  <2> QED
    BY <1>1, <1>8, <2>1, <2>2
<1>10. PriceSource # "HIGH_LOW" <=> PriceSource = "CLOSE"
  BY <1>5
<1>11. Responses!ValidReversal(q, candles[q.confirmation], PriceSource, Method)
  BY <1>5, <1>6, <1>9, <1>10 DEF Responses!ValidReversal, Responses!ConfirmationPrice
<1>12. Responses!ValidPoint(q, candles, PriceSource, Method)
  <2>1. q.price = IF PriceSource # "HIGH_LOW" THEN candles[q.index].close
                  ELSE IF q.kind = "HIGH" THEN candles[q.index].high ELSE candles[q.index].low
    BY <1>6, <1>10 DEF Responses!SourcePrice
  <2>2. /\ q.index \in DOMAIN candles /\ q.confirmation \in DOMAIN candles
        /\ q.time = candles[q.index].openTime
        /\ q.confirmationTime = candles[q.confirmation].closeTime
        /\ q.confirmation >= q.index /\ q.kind \in Responses!Kinds
    BY <1>1, <1>3, <1>6 DEF Responses!Kinds
  <2> QED
    BY <1>11, <2>1, <2>2 DEF Responses!ValidPoint
<1>13. q.price.value = p.price
  BY <1>1, <1>3, <1>5, <1>6 DEF Responses!SourcePrice, HighPrice, LowPrice
<1>14. q.reversal.confirmationPrice.value = p.confirmationPrice
  BY <1>1, <1>3, <1>5, <1>9 DEF Responses!ConfirmationPrice, HighPrice, LowPrice
<1> QED
  BY <1>12, <1>13, <1>14 DEF candles, p, q

(* GetExtrema answers with the prices the scan decided by, passes the      *)
(* release checks, and gives its points to trends and zones unchanged.     *)
THEOREM ResponsesShowDecisions == Spec => []ResponseShowsDecision
<1>1. SIInv => ResponseShowsDecision
  <2> SUFFICES ASSUME SIInv, outcome = "completed"
               PROVE  /\ Result = Detection!ReversalPoints(series, Settings, atr)
                      /\ Responses!Mappable(points, ExtremaView.candles)
                      /\ Responses!ValidResult(ExtremaView)
                      /\ \A k \in DOMAIN points :
                           LET shown == ExtremaView.extrema[k]
                           IN  /\ shown.price.value = points[k].price
                               /\ shown.reversal.confirmationPrice.value =
                                    points[k].confirmationPrice
    BY DEF ResponseShowsDecision
  <2>1. IInv /\ TypeOK
    BY DEF SIInv, IInv
  <2>2. Result = Detection!ReversalPoints(series, Settings, atr)
    BY ResultIsDetected
  <2>3. Responses!Mappable(points, ExtremaView.candles)
    <3>1. DOMAIN ExtremaView.candles = 0 .. count - 1
      BY <2>1, CandlesAreShown
    <3>2. \A k \in DOMAIN points :
            /\ points[k].kind \in {"HIGH", "LOW"}
            /\ points[k].index \in 0 .. count - 1 /\ points[k].confirmation \in 0 .. count - 1
      BY <2>1, PointsAreSound
    <3> HIDE DEF ExtremaView
    <3> QED
      BY <3>1, <3>2 DEF Responses!Mappable, Responses!Kinds
  <2>4. Responses!ValidResult(ExtremaView)
    <3>1. \A k \in DOMAIN ExtremaView.candles : Responses!ValidCandle(ExtremaView.candles, k)
      BY <2>1, CandlesAreShown
    <3>2. /\ DOMAIN ExtremaView.extrema = DOMAIN points
          /\ ExtremaView.source = PriceSource /\ ExtremaView.method = Method
          /\ ExtremaView.zones = <<>>
      BY DEF ExtremaView, Responses!MapExtrema, Result
    <3>3. \A k \in DOMAIN points :
            Responses!ValidPoint(ExtremaView.extrema[k], ExtremaView.candles, PriceSource, Method)
      BY <2>1, PointIsShown
    <3>4. DOMAIN ExtremaView.zones = {}
      BY <3>2
    <3> QED
      BY <3>1, <3>2, <3>3, <3>4 DEF Responses!ValidResult
  <2>5. \A k \in DOMAIN points :
          LET shown == ExtremaView.extrema[k]
          IN  /\ shown.price.value = points[k].price
              /\ shown.reversal.confirmationPrice.value = points[k].confirmationPrice
    BY <2>1, PointIsShown
  <2> QED
    BY <2>2, <2>3, <2>4, <2>5
<1> QED
  BY <1>1, Following, PTL
=============================================================================
