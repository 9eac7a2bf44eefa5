---------------------------- MODULE TrendProofs ----------------------------
(***************************************************************************)
(* The classification of a trend, for every series of candles, of any      *)
(* length, every tolerance and all three methods of detection.             *)
(***************************************************************************)
EXTENDS Trend, ExtremaProofs

(* What a summary says of the points it has read, those at K.              *)
Describes(h, ps, K, tolerance) ==
  /\ h.count \in Nat /\ h.rising \in BOOLEAN /\ h.falling \in BOOLEAN
  /\ h.count = 0 <=> K = {}
  /\ h.count >= 2 <=> \E j, k \in K : j < k
  /\ K # {} =>
       /\ \E k \in K : h.last = ps[k].price /\ \A j \in K : j <= k
       /\ \E k \in K : h.max = ps[k].price /\ \A j \in K : ps[j].price <= h.max
       /\ \E k \in K : h.min = ps[k].price /\ \A j \in K : ps[j].price >= h.min
       /\ h.rising <=> \A j, k \in K : j < k => ps[k].price > ps[j].price + tolerance
       /\ h.falling <=> \A j, k \in K : j < k => ps[k].price < ps[j].price - tolerance

LEMMA AddDescribes ==
  ASSUME NEW ps, NEW K \in SUBSET Nat, NEW i \in Nat, \A k \in K : k < i,
         \A k \in K \cup {i} : ps[k].price \in Nat,
         Tolerance \in Nat, NEW h, Describes(h, ps, K, Tolerance)
  PROVE  /\ Describes(Add(h, ps[i].price), ps, K \cup {i}, Tolerance)
         /\ Add(h, ps[i].price).count = h.count + 1
<1> DEFINE price == ps[i].price
           new == Add(h, price)
           t == Tolerance
           L == K \cup {i}
<1>1. price \in Nat /\ i \in L /\ K \subseteq L /\ i \notin K
      /\ \A k \in L : k = i \/ (k \in K /\ k < i)
  OBVIOUS
<1>2. CASE h.count = 0
  <2>1. new = [count |-> 1, last |-> price, min |-> price, max |-> price,
               rising |-> TRUE, falling |-> TRUE]
    BY <1>2 DEF Add
  <2>2. K = {}
    BY <1>2 DEF Describes
  <2>3. L = {i}
    BY <2>2
  <2> HIDE DEF new, L
  <2>4. Describes(new, ps, L, t)
    BY <1>1, <2>1, <2>3 DEF Describes
  <2> QED
    BY <1>2, <2>1, <2>4 DEF new, L
<1>3. CASE h.count # 0
  <2>1. new = [count   |-> h.count + 1,
               last    |-> price,
               min     |-> Min({h.min, price}),
               max     |-> Max({h.max, price}),
               rising  |-> h.rising /\ price - h.last > t,
               falling |-> h.falling /\ price - h.last < -t]
    BY <1>3 DEF Add
  <2>2. /\ h.count \in Nat /\ h.rising \in BOOLEAN /\ h.falling \in BOOLEAN
        /\ K # {}
        /\ h.rising <=> \A j, k \in K : j < k => ps[k].price > ps[j].price + t
        /\ h.falling <=> \A j, k \in K : j < k => ps[k].price < ps[j].price - t
    BY <1>3 DEF Describes
  <2>3. PICK last \in K : h.last = ps[last].price /\ \A j \in K : j <= last
    BY <2>2 DEF Describes
  <2>4. PICK top \in K : h.max = ps[top].price /\ \A j \in K : ps[j].price <= h.max
    BY <2>2 DEF Describes
  <2>5. PICK low \in K : h.min = ps[low].price /\ \A j \in K : ps[j].price >= h.min
    BY <2>2 DEF Describes
  <2>6. \A k \in L : ps[k].price \in Nat
    OBVIOUS
  <2> HIDE DEF L, t
  <2>7. t \in Nat
    BY DEF t
  <2>8. \E k \in L : Max({h.max, price}) = ps[k].price
                     /\ \A j \in L : ps[j].price <= Max({h.max, price})
    <3>1. h.max \in Nat
      BY <1>1, <2>4, <2>6
    <3>2. Max({h.max, price}) = IF h.max >= price THEN h.max ELSE price
      BY <1>1, <3>1 DEF Max
    <3>3. CASE h.max >= price
      <4>1. \A j \in L : ps[j].price <= h.max
        BY <1>1, <2>4, <3>3
      <4> QED
        BY <1>1, <2>4, <3>2, <3>3, <4>1
    <3>4. CASE ~(h.max >= price)
      <4>1. \A j \in L : ps[j].price <= price
        BY <1>1, <2>4, <2>6, <3>1, <3>4
      <4> QED
        BY <1>1, <3>2, <3>4, <4>1
    <3> QED
      BY <3>3, <3>4
  <2>9. \E k \in L : Min({h.min, price}) = ps[k].price
                     /\ \A j \in L : ps[j].price >= Min({h.min, price})
    <3>1. h.min \in Nat
      BY <1>1, <2>5, <2>6
    <3>2. Min({h.min, price}) = IF h.min <= price THEN h.min ELSE price
      BY <1>1, <3>1 DEF Min
    <3>3. CASE h.min <= price
      <4>1. \A j \in L : ps[j].price >= h.min
        BY <1>1, <2>5, <3>3
      <4> QED
        BY <1>1, <2>5, <3>2, <3>3, <4>1
    <3>4. CASE ~(h.min <= price)
      <4>1. \A j \in L : ps[j].price >= price
        BY <1>1, <2>5, <2>6, <3>1, <3>4
      <4> QED
        BY <1>1, <3>2, <3>4, <4>1
    <3> QED
      BY <3>3, <3>4
  <2>10. last \in L /\ last < i /\ h.last \in Nat
    BY <1>1, <2>3, <2>6
  <2>11. (h.rising /\ price - h.last > t)
           <=> \A j, k \in L : j < k => ps[k].price > ps[j].price + t
    <3>1. ASSUME h.rising, price - h.last > t, NEW j \in L, NEW k \in L, j < k
          PROVE  ps[k].price > ps[j].price + t
      <4>1. CASE k \in K
        <5>1. j \in K
          BY <1>1, <3>1, <4>1
        <5> QED
          BY <2>2, <3>1, <4>1, <5>1
      <4>2. CASE k = i
        <5>1. j \in K
          BY <1>1, <3>1, <4>2
        <5>2. j = last \/ (j < last /\ h.last > ps[j].price + t)
          BY <1>1, <2>2, <2>3, <3>1, <5>1
        <5> QED
          BY <2>3, <2>6, <2>7, <2>10, <3>1, <4>2, <5>2
      <4> QED
        BY <1>1, <4>1, <4>2
    <3>2. ASSUME \A j, k \in L : j < k => ps[k].price > ps[j].price + t
          PROVE  h.rising /\ price - h.last > t
      <4>1. h.rising
        BY <1>1, <2>2, <3>2
      <4>2. price > ps[last].price + t
        BY <1>1, <2>10, <3>2
      <4> QED
        BY <1>1, <2>3, <2>7, <2>10, <4>1, <4>2
    <3> QED
      BY <3>1, <3>2
  <2>12. (h.falling /\ price - h.last < -t)
           <=> \A j, k \in L : j < k => ps[k].price < ps[j].price - t
    <3>1. ASSUME h.falling, price - h.last < -t, NEW j \in L, NEW k \in L, j < k
          PROVE  ps[k].price < ps[j].price - t
      <4>1. CASE k \in K
        <5>1. j \in K
          BY <1>1, <3>1, <4>1
        <5> QED
          BY <2>2, <3>1, <4>1, <5>1
      <4>2. CASE k = i
        <5>1. j \in K
          BY <1>1, <3>1, <4>2
        <5>2. h.last <= ps[j].price
          <6>1. j = last \/ j < last
            BY <1>1, <2>3, <5>1
          <6>2. j < last => h.last < ps[j].price - t
            BY <2>2, <2>3, <3>1, <5>1
          <6>3. ps[j].price \in Nat /\ h.last \in Nat
            BY <2>6, <2>10, <3>1
          <6>4. j = last => h.last = ps[j].price
            BY <2>3
          <6>5. j < last => h.last <= ps[j].price
            BY <2>7, <6>2, <6>3
          <6> QED
            BY <6>1, <6>3, <6>4, <6>5
        <5>3. ps[k].price = price /\ price < h.last - t
          BY <1>1, <2>7, <2>10, <3>1, <4>2
        <5> QED
          BY <1>1, <2>6, <2>7, <2>10, <3>1, <5>2, <5>3
      <4> QED
        BY <1>1, <4>1, <4>2
    <3>2. ASSUME \A j, k \in L : j < k => ps[k].price < ps[j].price - t
          PROVE  h.falling /\ price - h.last < -t
      <4>1. h.falling
        BY <1>1, <2>2, <3>2
      <4>2. price < ps[last].price - t
        BY <1>1, <2>10, <3>2
      <4> QED
        BY <1>1, <2>3, <2>7, <2>10, <4>1, <4>2
    <3> QED
      BY <3>1, <3>2
  <2>13. \E k \in L : price = ps[k].price /\ \A j \in L : j <= k
    BY <1>1
  <2>14. \E j, k \in L : j < k
    BY <1>1, <2>10
  <2> HIDE DEF new, price
  <2>15. /\ new.count = h.count + 1 /\ new.last = price
         /\ new.min = Min({h.min, price}) /\ new.max = Max({h.max, price})
         /\ new.rising = (h.rising /\ price - h.last > t)
         /\ new.falling = (h.falling /\ price - h.last < -t)
    BY <2>1
  <2>16. /\ new.rising \in BOOLEAN /\ new.falling \in BOOLEAN
         /\ new.rising <=> \A j, k \in L : j < k => ps[k].price > ps[j].price + t
         /\ new.falling <=> \A j, k \in L : j < k => ps[k].price < ps[j].price - t
    BY <2>11, <2>12, <2>15, Zenon
  <2>17. /\ new.count \in Nat /\ new.count # 0 /\ new.count >= 2 /\ L # {}
    BY <1>1, <1>3, <2>2, <2>15
  <2>18. /\ \E k \in L : new.last = ps[k].price /\ \A j \in L : j <= k
         /\ \E k \in L : new.max = ps[k].price /\ \A j \in L : ps[j].price <= new.max
         /\ \E k \in L : new.min = ps[k].price /\ \A j \in L : ps[j].price >= new.min
    BY <2>8, <2>9, <2>13, <2>15
  <2>19. Describes(new, ps, L, t)
    BY <2>14, <2>16, <2>17, <2>18 DEF Describes
  <2> QED
    BY <2>15, <2>19 DEF new, price, L, t
<1> QED
  BY <1>2, <1>3
-----------------------------------------------------------------------------
(* The inductive invariant: the points and the range are those of the      *)
(* request's candles, and the summaries describe the points that were read.*)
Detected == DetectExtrema(request.series, request.extrema, NoSequence)

Read(kind) == { k \in 1 .. seen : points[k].kind = kind }

Observed ==
  /\ points \in {<<>>, Detected}
  /\ phase = "detecting" => seen = 0 /\ points = <<>>
  /\ phase \in {"reading", "classified"} =>
       points = Detected /\ range = SelectedRange(request.series)

Summarized ==
  /\ Describes(highs, points, Read("HIGH"), Tolerance)
  /\ Describes(lows, points, Read("LOW"), Tolerance)

Decided == phase = "classified" => seen = Len(points) /\ verdict = Verdict

IInv == TypeOK /\ Observed /\ Summarized /\ Decided

LEMMA RequestIsSound ==
  ASSUME request \in Requests
  PROVE  /\ SoundSeries(request.series) /\ SoundSettings(request.extrema)
         /\ Count(request.series) \in Nat /\ MinimumCount(request.extrema) \in Nat \ {0}
         /\ MinimumCount(request.extrema) <= Count(request.series)
         /\ DOMAIN request.series = 0 .. Count(request.series) - 1
         /\ Close \in Nat /\ Tolerance \in Nat
<1>1. /\ SoundSeries(request.series) /\ SoundSettings(request.extrema)
      /\ MinimumCount(request.extrema) <= Count(request.series)
      /\ Tolerance \in Nat
  BY TrendAssumption DEF Tolerance, Close
<1>2. Count(request.series) \in Nat /\ DOMAIN request.series = 0 .. Count(request.series) - 1
  BY <1>1 DEF SoundSeries
<1>3. MinimumCount(request.extrema) \in Nat \ {0}
  BY <1>1 DEF SoundSettings, MinimumCount
<1>4. Close \in Nat
  <2>1. Count(request.series) - 1 \in DOMAIN request.series
    BY <1>1, <1>2, <1>3
  <2> QED
    BY <1>1, <2>1 DEF SoundSeries, Close
<1> QED
  BY <1>1, <1>2, <1>3, <1>4

LEMMA DetectedPoints ==
  ASSUME request \in Requests
  PROVE  /\ Len(Detected) \in Nat /\ DOMAIN Detected = 1 .. Len(Detected)
         /\ \A k \in DOMAIN Detected :
              FromCandle(request.series, request.extrema.source, Detected[k])
<1>1. Count(request.series) \in MinimumCount(request.extrema) .. Count(request.series)
  BY RequestIsSound
<1>2. PICK S : /\ Detected \in Seq(S)
               /\ \A p \in S : FromCandle(request.series, request.extrema.source, p)
  BY <1>1, RequestIsSound, DetectionIsFinal DEF Detected
<1> QED
  BY <1>2

LEMMA RangeBounds ==
  ASSUME NEW series, SoundSeries(series), DOMAIN series # {}
  PROVE  LET source == request.extrema.source
             bounds == SelectedRange(series)
         IN  /\ \E k \in DOMAIN series : bounds.max = HighPrice(series[k], source)
             /\ \E k \in DOMAIN series : bounds.min = LowPrice(series[k], source)
             /\ \A k \in DOMAIN series :
                  /\ HighPrice(series[k], source) <= bounds.max
                  /\ LowPrice(series[k], source) >= bounds.min
             /\ bounds.min <= bounds.max /\ bounds.min \in Nat /\ bounds.max \in Nat
<1> DEFINE source == request.extrema.source
           H == {HighPrice(series[k], source) : k \in DOMAIN series}
           L == {LowPrice(series[k], source) : k \in DOMAIN series}
<1>1. IsFiniteSet(DOMAIN series)
  <2>1. DOMAIN series = 0 .. Count(series) - 1 /\ Count(series) \in Nat
    BY DEF SoundSeries
  <2>2. IsFiniteSet(0 .. Count(series) - 1)
    BY <2>1, FS_Interval
  <2> QED
    BY <2>1, <2>2
<1>2. IsFiniteSet(H) /\ IsFiniteSet(L)
  <2>1. H = {HighPrice(series[k], source) : k \in DOMAIN series}
        /\ L = {LowPrice(series[k], source) : k \in DOMAIN series}
    OBVIOUS
  <2> DEFINE f == [k \in DOMAIN series |-> HighPrice(series[k], source)]
             g == [k \in DOMAIN series |-> LowPrice(series[k], source)]
  <2>2. f \in Surjection(DOMAIN series, H) /\ g \in Surjection(DOMAIN series, L)
    BY DEF Surjection
  <2> HIDE DEF f, g, H, L
  <2> QED
    BY <1>1, <2>2, FS_Surjection
<1>3. /\ H \in SUBSET Nat /\ L \in SUBSET Nat /\ H # {} /\ L # {}
      /\ \A k \in DOMAIN series : LowPrice(series[k], source) <= HighPrice(series[k], source)
  BY PricesAreOrdered
<1>4. SelectedRange(series).max = Max(H) /\ SelectedRange(series).min = Min(L)
  BY DEF SelectedRange
<1>5. /\ Max(H) \in H /\ \A x \in H : x <= Max(H)
      /\ Min(L) \in L /\ \A x \in L : Min(L) <= x
  <2>1. H \in SUBSET Int /\ L \in SUBSET Int
    BY <1>3
  <2> HIDE DEF H, L
  <2> QED
    BY <1>2, <1>3, <2>1, FiniteExtremes
<1>6. PICK k \in DOMAIN series : TRUE
  OBVIOUS
<1>7. HighPrice(series[k], source) \in H /\ LowPrice(series[k], source) \in L
  OBVIOUS
<1>8. Min(L) <= Max(H)
  <2> DEFINE x == HighPrice(series[k], source)
             y == LowPrice(series[k], source)
  <2>1. /\ x \in Nat /\ y \in Nat /\ y <= x /\ Min(L) <= y /\ x <= Max(H)
        /\ Min(L) \in Nat /\ Max(H) \in Nat
    BY <1>3, <1>5, <1>7
  <2> HIDE DEF x, y, H, L
  <2> QED
    BY <2>1
<1> QED
  BY <1>3, <1>4, <1>5, <1>8

LEMMA InitHolds == Init => IInv
<1> SUFFICES ASSUME Init PROVE IInv
  OBVIOUS
<1>1. 1 .. seen = {}
  BY DEF Init
<1>2. Read("HIGH") = {} /\ Read("LOW") = {}
  BY <1>1 DEF Read
<1>3. Summarized
  <2>1. \A ps, t : Describes(Empty, ps, {}, t)
    BY DEF Describes, Empty
  <2> QED
    BY <1>2, <2>1 DEF Summarized, Init
<1>4. TypeOK
  <2>1. Len(<<>>) = 0
    OBVIOUS
  <2> QED
    BY <2>1 DEF TypeOK, Init, Empty, States, Reasons
<1> QED
  BY <1>3, <1>4 DEF IInv, Observed, Decided, Init

(* The definitions that only depend on the request.                        *)
LEMMA RequestFrame ==
  ASSUME request' = request
  PROVE  /\ Detected' = Detected /\ Close' = Close /\ Tolerance' = Tolerance
         /\ SelectedRange(request.series)' = SelectedRange(request.series)
BY DEF Detected, Close, Tolerance, SelectedRange

LEMMA DetectPreserves == IInv /\ Detect => IInv'
<1> SUFFICES ASSUME IInv, Detect PROVE IInv'
  OBVIOUS
<1>1. /\ request \in Requests /\ seen = 0 /\ verdict \in [state : States, reason : Reasons]
      /\ highs.count + lows.count = seen
  BY DEF IInv, TypeOK, Observed, Detect
<1>2. /\ request' = request /\ seen' = seen /\ highs' = highs /\ lows' = lows
      /\ verdict' = verdict /\ phase' = "reading" /\ points' = Detected
      /\ range' = SelectedRange(request.series)
  BY DEF Detect, Detected
<1>3. Len(Detected) \in Nat
  BY <1>1, DetectedPoints
<1>4. range'.min <= range'.max
  <2>1. DOMAIN request.series # {} /\ SoundSeries(request.series)
    BY <1>1, RequestIsSound
  <2> QED
    BY <1>2, <2>1, RangeBounds
<1>5. TypeOK'
  BY <1>1, <1>2, <1>3, <1>4 DEF TypeOK
<1>6. Observed'
  BY <1>2, RequestFrame DEF Observed
<1>7. Summarized'
  <2>1. /\ Read("HIGH") = {} /\ Read("LOW") = {}
        /\ Read("HIGH")' = {} /\ Read("LOW")' = {}
    BY <1>1, <1>2 DEF Read
  <2>2. Describes(highs, points, {}, Tolerance) /\ Describes(lows, points, {}, Tolerance)
    BY <2>1 DEF IInv, Summarized
  <2>3. Describes(highs, points', {}, Tolerance') /\ Describes(lows, points', {}, Tolerance')
    BY <2>2 DEF Describes
  <2> QED
    BY <1>2, <2>1, <2>3 DEF Summarized
<1> QED
  BY <1>2, <1>5, <1>6, <1>7 DEF IInv, Decided

LEMMA ReadPointPreserves == IInv /\ ReadPoint => IInv'
<1> SUFFICES ASSUME IInv, ReadPoint PROVE IInv'
  OBVIOUS
<1> DEFINE p == points[seen + 1]
<1>1. /\ phase = "reading" /\ request \in Requests /\ points = Detected
      /\ seen \in 0 .. Len(points) /\ seen < Len(points)
      /\ highs.count + lows.count = seen /\ range.min <= range.max
      /\ verdict \in [state : States, reason : Reasons]
      /\ range = SelectedRange(request.series)
  BY DEF IInv, TypeOK, Observed, ReadPoint
<1>2. /\ request' = request /\ phase' = phase /\ points' = points /\ range' = range
      /\ verdict' = verdict /\ seen' = seen + 1
  BY DEF ReadPoint
<1>3. /\ Len(points) \in Nat /\ DOMAIN points = 1 .. Len(points) /\ seen \in Nat
      /\ seen + 1 \in DOMAIN points
      /\ \A k \in DOMAIN points : points[k].price \in Nat /\ points[k].kind \in {"HIGH", "LOW"}
  <2>1. \A k \in DOMAIN points :
          FromCandle(request.series, request.extrema.source, points[k])
    BY <1>1, DetectedPoints
  <2>2. SoundSeries(request.series)
    BY <1>1, RequestIsSound
  <2>3. \A k \in DOMAIN points : points[k].price \in Nat /\ points[k].kind \in {"HIGH", "LOW"}
    BY <2>1, <2>2, PricesAreOrdered DEF FromCandle
  <2> QED
    BY <1>1, <2>3, DetectedPoints
<1>4. Tolerance \in Nat /\ Tolerance' = Tolerance /\ Detected' = Detected
      /\ SelectedRange(request.series)' = SelectedRange(request.series)
  BY <1>1, <1>2, RequestIsSound, RequestFrame
<1>5. /\ Describes(highs, points, Read("HIGH"), Tolerance) /\ highs.count \in Nat
      /\ Describes(lows, points, Read("LOW"), Tolerance) /\ lows.count \in Nat
  BY DEF IInv, Summarized, Describes
<1>6. ASSUME NEW kind \in {"HIGH", "LOW"}
      PROVE  /\ Read(kind) \in SUBSET Nat /\ \A k \in Read(kind) : k < seen + 1
             /\ \A k \in Read(kind) \cup {seen + 1} : points[k].price \in Nat
             /\ Read(kind)' = IF p.kind = kind THEN Read(kind) \cup {seen + 1} ELSE Read(kind)
  <2>1. \A k : k \in 1 .. seen + 1 <=> k \in 1 .. seen \/ k = seen + 1
    BY <1>3
  <2>2. Read(kind)' = {k \in 1 .. seen + 1 : points[k].kind = kind}
    BY <1>2 DEF Read
  <2>3. Read(kind) \subseteq DOMAIN points
    BY <1>1, <1>3 DEF Read
  <2>4. Read(kind)' = IF p.kind = kind THEN Read(kind) \cup {seen + 1} ELSE Read(kind)
    BY <2>1, <2>2 DEF Read
  <2>5. Read(kind) \in SUBSET Nat /\ \A k \in Read(kind) : k < seen + 1
    BY <1>3 DEF Read
  <2> QED
    BY <1>3, <2>3, <2>4, <2>5
<1>7. seen' \in 0 .. Len(points')
  BY <1>1, <1>2, <1>3
<1>8. highs'.count + lows'.count = seen' /\ Summarized'
  <2>1. CASE p.kind = "HIGH"
    <3>1. highs' = Add(highs, p.price) /\ lows' = lows
      BY <2>1 DEF ReadPoint
    <3>2. /\ Read("HIGH")' = Read("HIGH") \cup {seen + 1} /\ Read("LOW")' = Read("LOW")
      BY <1>6, <2>1
    <3>3. /\ Describes(Add(highs, p.price), points, Read("HIGH") \cup {seen + 1}, Tolerance)
          /\ Add(highs, p.price).count = highs.count + 1
      <4> DEFINE K == Read("HIGH")
      <4>1. /\ K \in SUBSET Nat /\ \A k \in K : k < seen + 1
            /\ \A k \in K \cup {seen + 1} : points[k].price \in Nat
        BY <1>6
      <4>2. Describes(highs, points, K, Tolerance) /\ Tolerance \in Nat /\ seen + 1 \in Nat
        BY <1>3, <1>4, <1>5
      <4> HIDE DEF K
      <4>3. /\ Describes(Add(highs, p.price), points, K \cup {seen + 1}, Tolerance)
            /\ Add(highs, p.price).count = highs.count + 1
        BY <4>1, <4>2, AddDescribes
      <4> QED
        BY <4>3 DEF K
    <3>4. highs'.count + lows'.count = seen'
      BY <1>1, <1>2, <1>3, <1>5, <3>1, <3>3
    <3> QED
      BY <1>2, <1>4, <1>5, <3>1, <3>2, <3>3, <3>4 DEF Summarized
  <2>2. CASE p.kind = "LOW"
    <3>1. lows' = Add(lows, p.price) /\ highs' = highs
      BY <2>2 DEF ReadPoint
    <3>2. /\ Read("LOW")' = Read("LOW") \cup {seen + 1} /\ Read("HIGH")' = Read("HIGH")
      BY <1>6, <2>2
    <3>3. /\ Describes(Add(lows, p.price), points, Read("LOW") \cup {seen + 1}, Tolerance)
          /\ Add(lows, p.price).count = lows.count + 1
      <4> DEFINE K == Read("LOW")
      <4>1. /\ K \in SUBSET Nat /\ \A k \in K : k < seen + 1
            /\ \A k \in K \cup {seen + 1} : points[k].price \in Nat
        BY <1>6
      <4>2. Describes(lows, points, K, Tolerance) /\ Tolerance \in Nat /\ seen + 1 \in Nat
        BY <1>3, <1>4, <1>5
      <4> HIDE DEF K
      <4>3. /\ Describes(Add(lows, p.price), points, K \cup {seen + 1}, Tolerance)
            /\ Add(lows, p.price).count = lows.count + 1
        BY <4>1, <4>2, AddDescribes
      <4> QED
        BY <4>3 DEF K
    <3>4. highs'.count + lows'.count = seen'
      BY <1>1, <1>2, <1>3, <1>5, <3>1, <3>3
    <3> QED
      BY <1>2, <1>4, <1>5, <3>1, <3>2, <3>3, <3>4 DEF Summarized
  <2> QED
    BY <1>3, <2>1, <2>2
<1>9. TypeOK'
  BY <1>1, <1>2, <1>7, <1>8 DEF TypeOK
<1>10. Observed' /\ Decided'
  BY <1>1, <1>2, <1>4 DEF Observed, Decided
<1> QED
  BY <1>8, <1>9, <1>10 DEF IInv

LEMMA VerdictIsTyped == Verdict \in [state : States, reason : Reasons]
BY DEF Verdict, Because, States, Reasons

LEMMA RestFrame ==
  ASSUME IInv, request' = request, points' = points, seen' = seen, highs' = highs,
         lows' = lows, range' = range
  PROVE  /\ Summarized' /\ Detected' = Detected /\ Verdict' = Verdict
         /\ SelectedRange(request.series)' = SelectedRange(request.series)
<1>1. /\ Detected' = Detected /\ Close' = Close /\ Tolerance' = Tolerance
      /\ SelectedRange(request.series)' = SelectedRange(request.series)
  BY RequestFrame
<1>2. Read("HIGH")' = Read("HIGH") /\ Read("LOW")' = Read("LOW")
  BY DEF Read
<1>3. Summarized'
  BY <1>1, <1>2 DEF IInv, Summarized
<1>4. Verdict' = Verdict
  BY <1>1 DEF Verdict, FlatRange, TooFewPoints, Rising, Falling, Horizontal
<1> QED
  BY <1>1, <1>3, <1>4

LEMMA ClassifyPreserves == IInv /\ Classify => IInv'
<1> SUFFICES ASSUME IInv, Classify PROVE IInv'
  OBVIOUS
<1>1. /\ request' = request /\ points' = points /\ seen' = seen /\ highs' = highs
      /\ lows' = lows /\ range' = range /\ phase' = "classified" /\ verdict' = Verdict
      /\ seen = Len(points) /\ phase = "reading"
  BY DEF Classify
<1>2. /\ Summarized' /\ Detected' = Detected /\ Verdict' = Verdict
      /\ SelectedRange(request.series)' = SelectedRange(request.series)
  BY <1>1, RestFrame
<1>3. TypeOK'
  BY <1>1, VerdictIsTyped DEF IInv, TypeOK
<1>4. Observed' /\ Decided'
  BY <1>1, <1>2 DEF IInv, Observed, Decided
<1> QED
  BY <1>2, <1>3, <1>4 DEF IInv

LEMMA CancelPreserves == IInv /\ Cancel => IInv'
<1> SUFFICES ASSUME IInv, Cancel PROVE IInv'
  OBVIOUS
<1>1. /\ request' = request /\ points' = points /\ seen' = seen /\ highs' = highs
      /\ lows' = lows /\ range' = range /\ phase' = "canceled" /\ verdict' = verdict
  BY DEF Cancel
<1>2. Summarized' /\ Detected' = Detected
  BY <1>1, RestFrame
<1>3. TypeOK'
  BY <1>1 DEF IInv, TypeOK
<1>4. Observed' /\ Decided'
  BY <1>1, <1>2 DEF IInv, Observed, Decided
<1> QED
  BY <1>2, <1>3, <1>4 DEF IInv

LEMMA StutterPreserves == IInv /\ UNCHANGED vars => IInv'
<1> SUFFICES ASSUME IInv, UNCHANGED vars PROVE IInv'
  OBVIOUS
<1>1. /\ request' = request /\ points' = points /\ seen' = seen /\ highs' = highs
      /\ lows' = lows /\ range' = range /\ phase' = phase /\ verdict' = verdict
  BY DEF vars
<1>2. /\ Summarized' /\ Detected' = Detected /\ Verdict' = Verdict
      /\ SelectedRange(request.series)' = SelectedRange(request.series)
  BY <1>1, RestFrame
<1>3. TypeOK'
  BY <1>1 DEF IInv, TypeOK
<1>4. Observed' /\ Decided'
  BY <1>1, <1>2 DEF IInv, Observed, Decided
<1> QED
  BY <1>2, <1>3, <1>4 DEF IInv

LEMMA NextPreserves == IInv /\ [Next]_vars => IInv'
BY DetectPreserves, ReadPointPreserves, ClassifyPreserves, CancelPreserves,
   StutterPreserves DEF Next

(***************************************************************************)
(* The summaries describe the points that were read, in every reachable    *)
(* state of a classification.                                              *)
(***************************************************************************)
THEOREM TrendInv == Spec => []IInv
<1>1. Init => IInv
  BY InitHolds
<1>2. IInv /\ [Next]_vars => IInv'
  BY NextPreserves
<1> QED
  BY <1>1, <1>2, PTL DEF Spec

(***************************************************************************)
(* CalculateTrend: every point is counted once, as a high or as a low, and *)
(* the verdict has one of the states and reasons of the contract.          *)
(***************************************************************************)
THEOREM TrendIsTyped == Spec => []TypeOK
<1>1. IInv => TypeOK
  BY DEF IInv
<1> QED
  BY <1>1, TrendInv, PTL

-----------------------------------------------------------------------------
LEMMA ClassifiedPoints ==
  ASSUME IInv, phase = "classified"
  PROVE  /\ points = Detected /\ range = SelectedRange(request.series)
         /\ SoundSeries(request.series) /\ DOMAIN request.series # {}
         /\ Tolerance \in Nat /\ Close \in Nat
         /\ Len(points) \in Nat /\ DOMAIN points = 1 .. Len(points) /\ seen = Len(points)
         /\ \A k \in DOMAIN points :
              /\ FromCandle(request.series, request.extrema.source, points[k])
              /\ points[k].price \in Nat
         /\ \A kind : Read(kind) = Of(kind)
<1>1. request \in Requests /\ points = Detected /\ seen = Len(points)
      /\ range = SelectedRange(request.series)
  BY DEF IInv, TypeOK, Observed, Decided
<1>2. /\ SoundSeries(request.series) /\ DOMAIN request.series # {}
      /\ Tolerance \in Nat /\ Close \in Nat
  <2>1. /\ DOMAIN request.series = 0 .. Count(request.series) - 1
        /\ Count(request.series) \in Nat \ {0}
    BY <1>1, RequestIsSound
  <2>2. 0 \in DOMAIN request.series
    BY <2>1
  <2>3. SoundSeries(request.series) /\ Tolerance \in Nat /\ Close \in Nat
    BY <1>1, RequestIsSound
  <2> QED
    BY <2>2, <2>3
<1>3. /\ Len(points) \in Nat /\ DOMAIN points = 1 .. Len(points)
      /\ \A k \in DOMAIN points :
           FromCandle(request.series, request.extrema.source, points[k])
  BY <1>1, DetectedPoints
<1>4. \A k \in DOMAIN points : points[k].price \in Nat
  BY <1>2, <1>3, PricesAreOrdered DEF FromCandle
<1>5. \A kind : Read(kind) = Of(kind)
  BY <1>1, <1>3 DEF Read, Of
<1> QED
  BY <1>1, <1>2, <1>3, <1>4, <1>5

(* What the conditions on a summary say of the points.                     *)
LEMMA SummaryTells ==
  ASSUME IInv, phase = "classified", NEW kind \in {"HIGH", "LOW"}, NEW h,
         h = IF kind = "HIGH" THEN highs ELSE lows
  PROVE  /\ Several(kind) <=> ~(h.count < 2)
         /\ Several(kind) =>
              /\ h.rising <=> Climbs(kind)
              /\ h.falling <=> Sinks(kind)
              /\ h.max - h.min <= Tolerance <=> Level(kind)
              /\ h.last = Latest(kind) /\ h.last \in Nat
              /\ Close >= h.min - Tolerance <=>
                   \E k \in Of(kind) : Close >= points[k].price - Tolerance
              /\ Close <= h.max + Tolerance <=>
                   \E k \in Of(kind) : Close <= points[k].price + Tolerance
              /\ ~(Climbs(kind) /\ Sinks(kind))
              /\ ~(Climbs(kind) /\ Level(kind))
              /\ ~(Sinks(kind) /\ Level(kind))
<1> DEFINE K == Of(kind)
           t == Tolerance
           c == Close
<1>1. Describes(h, points, K, t)
  <2>1. Read("HIGH") = Of("HIGH") /\ Read("LOW") = Of("LOW")
    BY ClassifiedPoints
  <2> QED
    BY <2>1 DEF IInv, Summarized
<1>2. t \in Nat /\ c \in Nat /\ K \in SUBSET Nat /\ \A k \in K : points[k].price \in Nat
  BY ClassifiedPoints DEF Of
<1>3. Several(kind) <=> \E j, k \in K : j < k
  BY DEF Several
<1>4. /\ Climbs(kind) <=> \A j, k \in K : j < k => points[k].price > points[j].price + t
      /\ Sinks(kind) <=> \A j, k \in K : j < k => points[k].price < points[j].price - t
      /\ Level(kind) <=> \A j, k \in K : points[j].price - points[k].price <= t
  BY DEF Climbs, Sinks, Level
<1>5. Latest(kind) = points[Max(K)].price
  BY DEF Latest
<1> HIDE DEF K, t, c
<1>6. h.count \in Nat /\ (Several(kind) <=> ~(h.count < 2))
  BY <1>1, <1>3 DEF Describes
<1>7. ASSUME Several(kind)
      PROVE  /\ h.rising <=> Climbs(kind)
             /\ h.falling <=> Sinks(kind)
             /\ h.max - h.min <= t <=> Level(kind)
             /\ h.last = Latest(kind) /\ h.last \in Nat
             /\ c >= h.min - t <=> \E k \in K : c >= points[k].price - t
             /\ c <= h.max + t <=> \E k \in K : c <= points[k].price + t
             /\ ~(Climbs(kind) /\ Sinks(kind))
             /\ ~(Climbs(kind) /\ Level(kind))
             /\ ~(Sinks(kind) /\ Level(kind))
  <2>1. PICK j \in K, k \in K : j < k
    BY <1>3, <1>7
  <2>2. K # {}
    BY <2>1
  <2>3. (h.rising <=> Climbs(kind)) /\ (h.falling <=> Sinks(kind))
    BY <1>1, <1>4, <2>2 DEF Describes
  <2>4. PICK last \in K : h.last = points[last].price /\ \A i \in K : i <= last
    BY <1>1, <2>2 DEF Describes
  <2>5. PICK top \in K : h.max = points[top].price /\ \A i \in K : points[i].price <= h.max
    BY <1>1, <2>2 DEF Describes
  <2>6. PICK low \in K : h.min = points[low].price /\ \A i \in K : points[i].price >= h.min
    BY <1>1, <2>2 DEF Describes
  <2>7. Max(K) = last
    <3>1. \A x \in K : (\A y \in K : x >= y) => x = last
      BY <1>2, <2>4
    <3>2. \A y \in K : last >= y
      BY <1>2, <2>4
    <3> QED
      BY <3>1, <3>2 DEF Max
  <2>8. h.last \in Nat /\ h.max \in Nat /\ h.min \in Nat
    BY <1>2, <2>4, <2>5, <2>6
  <2>9. h.max - h.min <= t <=> Level(kind)
    <3>1. ASSUME h.max - h.min <= t, NEW x \in K, NEW y \in K
          PROVE  points[x].price - points[y].price <= t
      <4>1. /\ points[x].price \in Nat /\ points[y].price \in Nat
            /\ points[x].price <= h.max /\ points[y].price >= h.min
        BY <1>2, <2>5, <2>6
      <4> QED
        BY <1>2, <2>8, <3>1, <4>1
    <3>2. ASSUME Level(kind) PROVE h.max - h.min <= t
      BY <1>4, <2>5, <2>6, <3>2
    <3> QED
      BY <1>4, <3>1, <3>2
  <2>10. c >= h.min - t <=> \E i \in K : c >= points[i].price - t
    <3>1. ASSUME NEW i \in K, c >= points[i].price - t PROVE c >= h.min - t
      <4>1. points[i].price \in Nat /\ points[i].price >= h.min
        BY <1>2, <2>6
      <4> QED
        BY <1>2, <2>8, <3>1, <4>1
    <3> QED
      BY <2>6, <3>1
  <2>11. c <= h.max + t <=> \E i \in K : c <= points[i].price + t
    <3>1. ASSUME NEW i \in K, c <= points[i].price + t PROVE c <= h.max + t
      <4>1. points[i].price \in Nat /\ points[i].price <= h.max
        BY <1>2, <2>5
      <4> QED
        BY <1>2, <2>8, <3>1, <4>1
    <3> QED
      BY <2>5, <3>1
  <2>12. points[j].price \in Nat /\ points[k].price \in Nat
    BY <1>2
  <2>13. /\ Climbs(kind) => points[k].price > points[j].price + t
         /\ Sinks(kind) => points[k].price < points[j].price - t
         /\ Level(kind) => /\ points[j].price - points[k].price <= t
                           /\ points[k].price - points[j].price <= t
    BY <1>4, <2>1
  <2>14. /\ ~(Climbs(kind) /\ Sinks(kind))
         /\ ~(Climbs(kind) /\ Level(kind))
         /\ ~(Sinks(kind) /\ Level(kind))
    BY <1>2, <2>12, <2>13
  <2> QED
    BY <1>5, <2>3, <2>4, <2>7, <2>8, <2>9, <2>10, <2>11, <2>14
<1> QED
  BY <1>6, <1>7 DEF K, t, c

Flat ==
  \A j, k \in DOMAIN request.series :
    HighPrice(request.series[j], request.extrema.source)
      - LowPrice(request.series[k], request.extrema.source) <= Tolerance

(* A flat range is one in which no two highs are apart.                    *)
LEMMA FlatMeansFlat ==
  ASSUME IInv, phase = "classified"
  PROVE  /\ FlatRange <=> Flat
         /\ Flat /\ Several("HIGH") => ~Climbs("HIGH") /\ ~Sinks("HIGH")
<1> DEFINE s == request.series
           source == request.extrema.source
           t == Tolerance
<1>1. /\ SoundSeries(s) /\ DOMAIN s # {} /\ t \in Nat /\ range = SelectedRange(s)
  BY ClassifiedPoints
<1>2. \A k \in DOMAIN s :
        /\ HighPrice(s[k], source) \in Nat /\ LowPrice(s[k], source) \in Nat
        /\ LowPrice(s[k], source) <= HighPrice(s[k], source)
  BY <1>1, PricesAreOrdered
<1>3. /\ \E k \in DOMAIN s : range.max = HighPrice(s[k], source)
      /\ \E k \in DOMAIN s : range.min = LowPrice(s[k], source)
      /\ \A k \in DOMAIN s :
           HighPrice(s[k], source) <= range.max /\ LowPrice(s[k], source) >= range.min
      /\ range.min \in Nat /\ range.max \in Nat
  BY <1>1, RangeBounds
<1>4. FlatRange <=> range.max - range.min <= t
  BY DEF FlatRange
<1>5. Flat <=> \A j, k \in DOMAIN s : HighPrice(s[j], source) - LowPrice(s[k], source) <= t
  BY DEF Flat
<1>6. \A j \in Of("HIGH") : \E i \in DOMAIN s : points[j].price = HighPrice(s[i], source)
  BY ClassifiedPoints DEF Of, FromCandle
<1> HIDE DEF s, source, t
<1>7. FlatRange <=> Flat
  <2>1. ASSUME range.max - range.min <= t, NEW j \in DOMAIN s, NEW k \in DOMAIN s
        PROVE  HighPrice(s[j], source) - LowPrice(s[k], source) <= t
    <3> DEFINE x == HighPrice(s[j], source)
               y == LowPrice(s[k], source)
    <3>1. x \in Nat /\ y \in Nat /\ x <= range.max /\ y >= range.min
      BY <1>2, <1>3
    <3> HIDE DEF x, y
    <3>2. x - y <= t
      BY <1>1, <1>3, <2>1, <3>1
    <3> QED
      BY <3>2 DEF x, y
  <2> QED
    BY <1>3, <1>4, <1>5, <2>1
<1>8. ASSUME Flat, Several("HIGH") PROVE ~Climbs("HIGH") /\ ~Sinks("HIGH")
  <2>1. PICK j \in Of("HIGH"), k \in Of("HIGH") : j < k
    BY <1>8 DEF Several
  <2>2. PICK a \in DOMAIN s : points[j].price = HighPrice(s[a], source)
    BY <1>6
  <2>3. PICK b \in DOMAIN s : points[k].price = HighPrice(s[b], source)
    BY <1>6
  <2> DEFINE x == points[j].price
             y == points[k].price
             la == LowPrice(s[a], source)
             lb == LowPrice(s[b], source)
  <2>4. /\ x - lb <= t /\ y - la <= t /\ la <= x /\ lb <= y
        /\ x \in Nat /\ y \in Nat /\ la \in Nat /\ lb \in Nat
    BY <1>2, <1>5, <1>8, <2>2, <2>3
  <2> HIDE DEF x, y, la, lb
  <2>5. ~(y > x + t) /\ ~(y < x - t)
    BY <1>1, <2>4
  <2>6. Climbs("HIGH") => y > x + t
    BY <2>1 DEF Climbs, x, y, t
  <2>7. Sinks("HIGH") => y < x - t
    BY <2>1 DEF Sinks, x, y, t
  <2> QED
    BY <2>5, <2>6, <2>7
<1> QED
  BY <1>7, <1>8

LEMMA VerdictIsRight == IInv => VerdictFollowsStructure
<1> SUFFICES ASSUME IInv, phase = "classified" PROVE VerdictFollowsStructure
  BY DEF VerdictFollowsStructure
<1> DEFINE enough == Several("HIGH") /\ Several("LOW")
           near == \E k \in Of("LOW") : Close >= points[k].price - Tolerance
           under == \E k \in Of("HIGH") : Close <= points[k].price + Tolerance
           Up == enough /\ Climbs("HIGH") /\ Climbs("LOW") /\ Close >= Latest("LOW") - Tolerance
           Down == enough /\ Sinks("HIGH") /\ Sinks("LOW") /\ Close <= Latest("HIGH") + Tolerance
           Sideways == Flat \/ (enough /\ Level("HIGH") /\ Level("LOW") /\ near /\ under)
<1>1. verdict = Verdict
  BY DEF IInv, Decided
<1>2. Verdict.state =
        IF FlatRange THEN "SIDEWAYS"
        ELSE IF TooFewPoints THEN "UNDETERMINED"
        ELSE IF Rising THEN IF Close < lows.last - Tolerance THEN "UNDETERMINED" ELSE "UP"
        ELSE IF Falling THEN IF Close > highs.last + Tolerance THEN "UNDETERMINED" ELSE "DOWN"
        ELSE IF Horizontal THEN "SIDEWAYS"
        ELSE "UNDETERMINED"
  BY DEF Verdict, Because
<1>3. /\ Several("HIGH") <=> ~(highs.count < 2)
      /\ Several("LOW") <=> ~(lows.count < 2)
  BY SummaryTells
<1>4. TooFewPoints <=> ~enough
  BY <1>3 DEF TooFewPoints
<1>5. ASSUME enough
      PROVE  /\ Rising <=> Climbs("HIGH") /\ Climbs("LOW")
             /\ Falling <=> Sinks("HIGH") /\ Sinks("LOW")
             /\ Horizontal <=> Level("HIGH") /\ Level("LOW") /\ near /\ under
             /\ Close < lows.last - Tolerance <=> ~(Close >= Latest("LOW") - Tolerance)
             /\ Close > highs.last + Tolerance <=> ~(Close <= Latest("HIGH") + Tolerance)
             /\ ~(Climbs("HIGH") /\ Sinks("HIGH"))
             /\ ~(Climbs("HIGH") /\ Level("HIGH"))
             /\ ~(Sinks("HIGH") /\ Level("HIGH"))
  <2>1. /\ highs.rising <=> Climbs("HIGH")
        /\ highs.falling <=> Sinks("HIGH")
        /\ highs.max - highs.min <= Tolerance <=> Level("HIGH")
        /\ highs.last = Latest("HIGH") /\ highs.last \in Nat
        /\ Close <= highs.max + Tolerance <=> under
        /\ ~(Climbs("HIGH") /\ Sinks("HIGH"))
        /\ ~(Climbs("HIGH") /\ Level("HIGH"))
        /\ ~(Sinks("HIGH") /\ Level("HIGH"))
    BY <1>5, SummaryTells
  <2>2. /\ lows.rising <=> Climbs("LOW")
        /\ lows.falling <=> Sinks("LOW")
        /\ lows.max - lows.min <= Tolerance <=> Level("LOW")
        /\ lows.last = Latest("LOW") /\ lows.last \in Nat
        /\ Close >= lows.min - Tolerance <=> near
    BY <1>5, SummaryTells
  <2>3. Tolerance \in Nat /\ Close \in Nat
    BY ClassifiedPoints
  <2>4. /\ Close < lows.last - Tolerance <=> ~(Close >= Latest("LOW") - Tolerance)
        /\ Close > highs.last + Tolerance <=> ~(Close <= Latest("HIGH") + Tolerance)
    BY <2>1, <2>2, <2>3
  <2> QED
    BY <2>1, <2>2, <2>4, Zenon DEF Rising, Falling, Horizontal
<1>6. /\ FlatRange <=> Flat
      /\ Flat /\ enough => ~Climbs("HIGH") /\ ~Sinks("HIGH")
  BY FlatMeansFlat
<1> HIDE DEF near, under
<1>7. /\ verdict.state = "UP" <=> Up
      /\ verdict.state = "DOWN" <=> Down
      /\ verdict.state = "SIDEWAYS" <=> Sideways
  BY <1>1, <1>2, <1>4, <1>5, <1>6
<1> QED
  BY <1>7 DEF VerdictFollowsStructure, Flat, near, under

(***************************************************************************)
(* CalculateTrend: the verdict of the one pass over the points is the one  *)
(* that docs/calculations/trend.md gives for the points as a whole,        *)
(* whatever the candles, the method and the tolerance.                     *)
(***************************************************************************)
THEOREM VerdictsAreRight == Spec => []VerdictFollowsStructure
BY TrendInv, VerdictIsRight, PTL

LEMMA PointsStand == IInv => PointsAreFinal
<1> SUFFICES ASSUME IInv, phase = "classified",
                    NEW n \in MinimumCount(request.extrema) .. Count(request.series)
             PROVE  \E m \in 0 .. Len(points) :
                      /\ { k \in DOMAIN points : points[k].confirmation < n } = 1 .. m
                      /\ DetectExtrema(Prefix(request.series, n), request.extrema, NoSequence)
                           = SubSeq(points, 1, m)
  BY DEF PointsAreFinal
<1> DEFINE cut == DetectExtrema(Prefix(request.series, n), request.extrema, NoSequence)
<1>1. points = Detected /\ request \in Requests
  BY ClassifiedPoints DEF IInv, TypeOK
<1>2. SoundSeries(request.series) /\ SoundSettings(request.extrema)
  BY <1>1, RequestIsSound
<1>3. Begins(cut, points, n)
  BY <1>1, <1>2, DetectionIsFinal DEF Detected
<1> HIDE DEF cut
<1>4. /\ Len(cut) \in 0 .. Len(points)
      /\ { k \in DOMAIN points : points[k].confirmation < n } = 1 .. Len(cut)
      /\ cut = SubSeq(points, 1, Len(cut))
  BY <1>3 DEF Begins
<1> QED
  BY <1>4 DEF cut

(***************************************************************************)
(* detectExtrema: no later candle adds, moves or removes a point that was  *)
(* confirmed before it, by any of the three methods.                       *)
(***************************************************************************)
THEOREM PointsStayFinal == Spec => []PointsAreFinal
BY TrendInv, PointsStand, PTL
=============================================================================
