--------------------------- MODULE AnalysisProofs ---------------------------
(***************************************************************************)
(* The safety of one analysis request, for every request, every answer and *)
(* failure of Market Data, every clock and every calendar.                 *)
(*                                                                         *)
(* First what the candle calendar computes: a floor is a boundary not      *)
(* later than its instant, shifts add up, and a range planned backwards in *)
(* one shift is the one that single shifts forward walk through.           *)
(***************************************************************************)
EXTENDS Analysis, FiniteSetTheorems, TLAPS

Months == 1 .. Len(MonthStarts)

LEMMA MonthsAreInstants ==
  /\ Len(MonthStarts) \in Nat \ {0}
  /\ 1 \in Months
  /\ \A k \in Months : MonthStarts[k] \in 0 .. LastInstant
BY CalendarAssumption DEF Months

(* A nonempty set of naturals up to a bound has a largest element.         *)
LEMMA LargestElement ==
  ASSUME NEW n \in Nat, NEW K \in SUBSET (1 .. n), K # {}
  PROVE  \E m \in K : \A k \in K : k <= m
<1> DEFINE T == {d \in Nat : n - d \in K}
<1>1. PICK k0 \in K : TRUE
  OBVIOUS
<1>2. n - k0 \in T
  BY k0 \in 1 .. n
<1>3. PICK d \in T : \A e \in T : ~(<<e, d>> \in OpToRel(<, Nat))
  <2>1. T \subseteq Nat /\ T # {}
    BY <1>2
  <2> HIDE DEF T
  <2> QED
    BY <2>1, NatLessThanWellFounded, WFMin
<1>4. ASSUME NEW k \in K PROVE k <= n - d
  <2>1. n - k \in T
    BY k \in 1 .. n
  <2>2. ~(n - k < d)
    BY <1>3, <2>1 DEF OpToRel
  <2> QED
    BY <2>2, k \in 1 .. n
<1> QED
  BY <1>4
-----------------------------------------------------------------------------
(* The months up to an instant are those up to its own.                    *)
LEMMA MonthOfInstant ==
  ASSUME NEW t \in 0 .. LastInstant
  PROVE  /\ MonthOf(t) \in Nat /\ MonthOf(t) + 1 \in Months
         /\ \A k \in Months : MonthStarts[k] <= t <=> k <= MonthOf(t) + 1
<1> DEFINE K == {k \in Months : MonthStarts[k] <= t}
<1>1. 1 \in K
  BY MonthsAreInstants, CalendarAssumption
<1>2. PICK m \in K : \A k \in K : k <= m
  <2>1. K \in SUBSET (1 .. Len(MonthStarts)) /\ K # {} /\ Len(MonthStarts) \in Nat
    BY <1>1, MonthsAreInstants DEF Months
  <2> HIDE DEF K
  <2> QED
    BY <2>1, LargestElement
<1>3. K = 1 .. m
  <2>1. ASSUME NEW k \in 1 .. m PROVE k \in K
    <3>1. k \in Months /\ m \in Months /\ MonthStarts[m] <= t
      BY DEF Months
    <3>2. k = m \/ MonthStarts[k] < MonthStarts[m]
      BY <3>1, CalendarAssumption DEF Months
    <3> QED
      BY <3>1, <3>2, MonthsAreInstants
  <2> QED
    BY <1>2, <2>1 DEF Months
<1>4. m \in Months /\ m \in Nat /\ m >= 1
  BY DEF Months
<1>5. Cardinality(K) = m
  <2>1. 1 \in Int /\ m \in Int /\ ~(1 > m)
    BY <1>4
  <2>2. Cardinality(1 .. m) = m - 1 + 1
    BY <2>1, FS_Interval
  <2> HIDE DEF K
  <2> QED
    BY <1>3, <1>4, <2>2
<1>6. MonthOf(t) = m - 1
  BY <1>5 DEF MonthOf, Months
<1> QED
  BY <1>3, <1>4, <1>6 DEF Months

(* The start of a month is in that month.                                  *)
LEMMA MonthOfStart ==
  ASSUME NEW k \in Months
  PROVE  MonthOf(MonthStarts[k]) = k - 1
<1> DEFINE t == MonthStarts[k]
<1>1. t \in 0 .. LastInstant
  BY MonthsAreInstants
<1>2. MonthOf(t) \in Nat /\ MonthOf(t) + 1 \in Months /\ \A j \in Months : MonthStarts[j] <= t <=> j <= MonthOf(t) + 1
  BY <1>1, MonthOfInstant
<1>3. k <= MonthOf(t) + 1
  BY <1>1, <1>2
<1>4. ~(k < MonthOf(t) + 1)
  <2>1. MonthStarts[MonthOf(t) + 1] <= t
    BY <1>2, MonthsAreInstants DEF Months
  <2> QED
    BY <1>1, <1>2, <2>1, CalendarAssumption DEF Months
<1> QED
  BY <1>2, <1>3, <1>4 DEF Months
-----------------------------------------------------------------------------
(* Quotients and remainders by a slot's seconds.                           *)
LEMMA Division ==
  ASSUME NEW d \in Nat \ {0}, NEW a \in Int
  PROVE  /\ a \div d \in Int
         /\ a % d \in 0 .. d - 1
         /\ a = d * (a \div d) + (a % d)
OBVIOUS

LEMMA MultipleHasNoRest ==
  ASSUME NEW d \in Nat \ {0}, NEW q \in Int
  PROVE  (q * d) % d = 0
OBVIOUS

LEMMA ProductIsMonotonic ==
  ASSUME NEW d \in Nat, NEW a \in Int, NEW b \in Int, a <= b
  PROVE  a * d <= b * d
OBVIOUS

LEMMA QuotientBounds ==
  ASSUME NEW d \in Nat \ {0}, NEW a \in Int, NEW q \in Int
  PROVE  q <= a \div d <=> q * d <= a
<1> DEFINE p == a \div d
<1>1. p \in Int /\ p * d <= a /\ a < (p * d) + d
  BY Division
<1> HIDE DEF p
<1>2. (p + 1) * d = (p * d) + d
  BY <1>1
<1>3. q <= p => q * d <= p * d
  BY <1>1, ProductIsMonotonic
<1>4. p + 1 <= q => (p + 1) * d <= q * d
  BY <1>1, ProductIsMonotonic
<1>5. q * d \in Int /\ p * d \in Int
  BY <1>1
<1>6. q <= p <=> q * d <= a
  BY <1>1, <1>2, <1>3, <1>4, <1>5
<1> QED
  BY <1>6 DEF p
-----------------------------------------------------------------------------
(* The slots of an interval other than the month: boundaries are a whole   *)
(* number of slots from the anchor.                                        *)
LEMMA SlotBoundary ==
  ASSUME NEW interval \in Intervals, interval.seconds # 0, NEW t \in 0 .. LastInstant
  PROVE  /\ SlotStart(interval, t) \in Int /\ SlotStart(interval, t) <= t
         /\ SlotStart(interval, t) = t <=>
              \E q \in Int : t = interval.anchor + (q * interval.seconds)
<1> DEFINE d == interval.seconds
           a == t - interval.anchor
           r == a % d
<1>1. d \in Nat \ {0} /\ interval.anchor \in Nat /\ a \in Int /\ t \in Int
  BY MonthsAreInstants, CalendarAssumption DEF Intervals
<1>2. a \div d \in Int /\ r \in 0 .. d - 1 /\ a = (d * (a \div d)) + r
  BY <1>1, Division
<1>3. SlotStart(interval, t) = t - r
  BY DEF SlotStart
<1>4. r = 0 => t = interval.anchor + ((a \div d) * d)
  BY <1>1, <1>2
<1>5. ASSUME NEW q \in Int, t = interval.anchor + (q * d) PROVE r = 0
  <2>1. a = q * d
    BY <1>1, <1>5
  <2> QED
    BY <1>1, <2>1, MultipleHasNoRest
<1>6. (\E q \in Int : t = interval.anchor + (q * d)) <=> r = 0
  BY <1>2, <1>4, <1>5
<1> HIDE DEF r
<1>7. t - r \in Int /\ t - r <= t /\ (t - r = t <=> r = 0)
  BY <1>1, <1>2
<1> QED
  BY <1>3, <1>6, <1>7

(* A shift by slots leaves the calendar only where its result would.       *)
LEMMA ShiftSlotsValue ==
  ASSUME NEW d \in Nat \ {0}, NEW b \in 0 .. LastInstant, NEW n \in Int
  PROVE  /\ b + (n * d) \in 0 .. LastInstant => ShiftSlots(d, b, n) = b + (n * d)
         /\ b + (n * d) \notin 0 .. LastInstant => ShiftSlots(d, b, n) = NoInstant
<1>1. b \in Int /\ LastInstant \in Int /\ n * d \in Int /\ -n \in Int /\ (-n) * d = -(n * d)
  BY CalendarAssumption
<1>2. b \div d \in Int /\ (LastInstant - b) \div d \in Int
  BY <1>1, Division
<1>3. n <= (LastInstant - b) \div d <=> n * d <= LastInstant - b
  BY <1>1, QuotientBounds
<1>4. -n <= b \div d <=> (-n) * d <= b
  BY <1>1, QuotientBounds
<1>5. n \in -(b \div d) .. (LastInstant - b) \div d <=> b + (n * d) \in 0 .. LastInstant
  BY <1>1, <1>2, <1>3, <1>4
<1> QED
  BY <1>5 DEF ShiftSlots
-----------------------------------------------------------------------------
(* A floor is a boundary, and not later than its instant.                  *)
LEMMA FloorIsBoundary ==
  ASSUME NEW interval \in Intervals, NEW t, Floor(interval, t) # NoInstant
  PROVE  /\ t \in 0 .. LastInstant
         /\ Floor(interval, t) \in 0 .. LastInstant
         /\ Floor(interval, t) <= t
         /\ Aligned(interval, Floor(interval, t))
<1> DEFINE b == SlotStart(interval, t)
<1>1. /\ t \in 0 .. LastInstant /\ b \in 0 .. LastInstant
      /\ Floor(interval, t) = b
  BY DEF Floor, ValidTime
<1>2. b <= t /\ SlotStart(interval, b) = b
  <2>1. CASE interval.seconds = 0
    <3>1. b = MonthStarts[MonthOf(t) + 1] /\ MonthOf(t) \in Nat
      BY <1>1, <2>1, MonthOfInstant DEF SlotStart
    <3>2. MonthOf(t) + 1 \in Months /\ b <= t
      BY <1>1, <3>1, MonthOfInstant DEF Months
    <3>3. MonthOf(b) = MonthOf(t)
      BY <3>1, <3>2, MonthOfStart
    <3> QED
      BY <2>1, <3>1, <3>2, <3>3 DEF SlotStart
  <2>2. CASE interval.seconds # 0
    <3> DEFINE d == interval.seconds
               a == t - interval.anchor
               q == a \div d
               r == a % d
    <3>1. d \in Nat \ {0} /\ interval.anchor \in Nat /\ a \in Int /\ t \in Int
      BY <1>1, <2>2, CalendarAssumption DEF Intervals
    <3>2. q \in Int /\ r \in 0 .. d - 1 /\ a = (d * q) + r
      BY <3>1, Division
    <3>3. b = t - r
      BY <2>2 DEF SlotStart
    <3> HIDE DEF q, r
    <3>4. b = interval.anchor + (q * d)
      BY <3>1, <3>2, <3>3
    <3> QED
      BY <1>1, <2>2, <3>2, <3>4, SlotBoundary
  <2> QED
    BY <2>1, <2>2
<1>3. Floor(interval, b) = b
  BY <1>1, <1>2 DEF Floor, ValidTime
<1> QED
  BY <1>1, <1>2, <1>3 DEF Aligned, ValidTime

(* The boundaries of an interval.                                          *)
LEMMA MonthBoundary ==
  ASSUME NEW interval \in Intervals, interval.seconds = 0, NEW b
  PROVE  Aligned(interval, b) <=> \E k \in Months : b = MonthStarts[k]
<1>1. ASSUME Aligned(interval, b) PROVE \E k \in Months : b = MonthStarts[k]
  <2>1. b \in 0 .. LastInstant /\ SlotStart(interval, b) = b
    BY <1>1, CalendarAssumption DEF Aligned, Floor, ValidTime, NoInstant
  <2> QED
    BY <2>1, MonthOfInstant DEF SlotStart
<1>2. ASSUME NEW k \in Months, b = MonthStarts[k] PROVE Aligned(interval, b)
  <2>1. b \in 0 .. LastInstant /\ MonthOf(b) = k - 1
    BY <1>2, MonthsAreInstants, MonthOfStart
  <2>2. SlotStart(interval, b) = b
    BY <1>2, <2>1 DEF SlotStart, Months
  <2> QED
    BY <2>1, <2>2 DEF Aligned, Floor, ValidTime
<1> QED
  BY <1>1, <1>2

LEMMA SecondsBoundary ==
  ASSUME NEW interval \in Intervals, interval.seconds # 0, NEW b
  PROVE  Aligned(interval, b) <=>
           b \in 0 .. LastInstant /\ \E q \in Int : b = interval.anchor + (q * interval.seconds)
<1>1. Aligned(interval, b) <=> b \in 0 .. LastInstant /\ SlotStart(interval, b) = b
  <2>1. b \in 0 .. LastInstant => b # NoInstant
    BY CalendarAssumption DEF NoInstant
  <2> QED
    BY <2>1 DEF Aligned, Floor, ValidTime
<1> QED
  BY <1>1, SlotBoundary
-----------------------------------------------------------------------------
(* What a shift computes, in either kind of calendar.                      *)
LEMMA ShiftOfMonth ==
  ASSUME NEW interval \in Intervals, interval.seconds = 0, NEW k \in Months, NEW n \in Int
  PROVE  Shift(interval, MonthStarts[k], n) =
           IF k + n \in Months THEN MonthStarts[k + n] ELSE NoInstant
<1>1. Aligned(interval, MonthStarts[k]) /\ MonthOf(MonthStarts[k]) = k - 1
  BY MonthBoundary, MonthOfStart
<1>2. /\ k - 1 + n \in 0 .. Len(MonthStarts) - 1 <=> k + n \in Months
      /\ k - 1 + n + 1 = k + n
  BY MonthsAreInstants DEF Months
<1> QED
  BY <1>1, <1>2 DEF Shift, ShiftMonths

LEMMA ShiftOfSlots ==
  ASSUME NEW interval \in Intervals, interval.seconds # 0,
         NEW b, Aligned(interval, b), NEW n \in Int
  PROVE  Shift(interval, b, n) =
           IF b + (n * interval.seconds) \in 0 .. LastInstant
             THEN b + (n * interval.seconds) ELSE NoInstant
<1>1. interval.seconds \in Nat \ {0} /\ b \in 0 .. LastInstant
  BY SecondsBoundary DEF Intervals
<1> QED
  BY <1>1, ShiftSlotsValue DEF Shift

(* A shift that stays within the calendar starts and ends at a boundary.   *)
LEMMA ShiftIsBoundary ==
  ASSUME NEW interval \in Intervals, NEW b, NEW n \in Int, Shift(interval, b, n) # NoInstant
  PROVE  /\ Aligned(interval, b)
         /\ Aligned(interval, Shift(interval, b, n))
<1>1. Aligned(interval, b)
  BY DEF Shift
<1>2. CASE interval.seconds = 0
  <2>1. PICK k \in Months : b = MonthStarts[k]
    BY <1>1, <1>2, MonthBoundary
  <2>2. k + n \in Months /\ Shift(interval, b, n) = MonthStarts[k + n]
    BY <1>2, <2>1, ShiftOfMonth
  <2> QED
    BY <1>1, <1>2, <2>2, MonthBoundary
<1>3. CASE interval.seconds # 0
  <2> DEFINE d == interval.seconds
             e == b + (n * d)
  <2>1. PICK q \in Int : b = interval.anchor + (q * d)
    BY <1>1, <1>3, SecondsBoundary
  <2>2. Shift(interval, b, n) = e /\ e \in 0 .. LastInstant
    BY <1>1, <1>3, ShiftOfSlots
  <2>3. d \in Nat /\ interval.anchor \in Nat /\ q + n \in Int
    BY DEF Intervals
  <2>4. e = interval.anchor + ((q + n) * d)
    BY <2>1, <2>3
  <2> HIDE DEF e
  <2>5. Aligned(interval, e)
    BY <1>3, <2>2, <2>3, <2>4, SecondsBoundary
  <2> QED
    BY <1>1, <2>2, <2>5
<1> QED
  BY <1>2, <1>3

(* Boundaries are instants.                                                *)
LEMMA BoundaryIsInstant ==
  ASSUME NEW interval, NEW b, Aligned(interval, b)
  PROVE  b \in 0 .. LastInstant /\ b # NoInstant
BY CalendarAssumption DEF Aligned, ValidTime, NoInstant

(***************************************************************************)
(* Two shifts in a row are one by their sum (Interval.Shift): a range that *)
(* was planned in one shift can be walked through slot by slot.            *)
(***************************************************************************)
THEOREM ShiftsAdd ==
  ASSUME NEW interval \in Intervals, NEW b, NEW n \in Int, NEW m \in Int,
         Shift(interval, b, n) # NoInstant
  PROVE  Shift(interval, Shift(interval, b, n), m) = Shift(interval, b, n + m)
<1>1. Aligned(interval, b) /\ Aligned(interval, Shift(interval, b, n))
  BY ShiftIsBoundary
<1>2. CASE interval.seconds = 0
  <2>1. PICK k \in Months : b = MonthStarts[k]
    BY <1>1, <1>2, MonthBoundary
  <2>2. k + n \in Months /\ Shift(interval, b, n) = MonthStarts[k + n]
    BY <1>2, <2>1, ShiftOfMonth
  <2>3. k + n + m = k + (n + m) /\ n + m \in Int
    BY DEF Months
  <2> QED
    BY <1>2, <2>1, <2>2, <2>3, ShiftOfMonth
<1>3. CASE interval.seconds # 0
  <2> DEFINE d == interval.seconds
  <2>1. Shift(interval, b, n) = b + (n * d) /\ b + (n * d) \in 0 .. LastInstant
    BY <1>1, <1>3, ShiftOfSlots
  <2>2. d \in Nat /\ b \in Int /\ n + m \in Int
    BY <1>1, BoundaryIsInstant DEF Intervals
  <2>3. (b + (n * d)) + (m * d) = b + ((n + m) * d)
    BY <2>2
  <2>4. Shift(interval, b + (n * d), m) =
          IF (b + (n * d)) + (m * d) \in 0 .. LastInstant
            THEN (b + (n * d)) + (m * d) ELSE NoInstant
    BY <1>1, <1>3, <2>1, ShiftOfSlots
  <2>5. Shift(interval, b, n + m) =
          IF b + ((n + m) * d) \in 0 .. LastInstant THEN b + ((n + m) * d) ELSE NoInstant
    BY <1>1, <1>3, <2>2, ShiftOfSlots
  <2> QED
    BY <2>1, <2>3, <2>4, <2>5
<1> QED
  BY <1>2, <1>3

(* No shift at all stays where it is.                                      *)
LEMMA ShiftByNothing ==
  ASSUME NEW interval \in Intervals, NEW b, Aligned(interval, b)
  PROVE  Shift(interval, b, 0) = b
<1>1. CASE interval.seconds = 0
  <2>1. PICK k \in Months : b = MonthStarts[k]
    BY <1>1, MonthBoundary
  <2> QED
    BY <1>1, <2>1, ShiftOfMonth DEF Months
<1>2. CASE interval.seconds # 0
  <2>1. interval.seconds \in Nat /\ b \in 0 .. LastInstant /\ b \in Int
    BY BoundaryIsInstant DEF Intervals
  <2>2. b + (0 * interval.seconds) = b
    BY <2>1
  <2> QED
    BY <1>2, <2>1, <2>2, ShiftOfSlots
<1> QED
  BY <1>1, <1>2

(* More slots lead to a later boundary.                                    *)
LEMMA ShiftsAreOrdered ==
  ASSUME NEW interval \in Intervals, NEW b, NEW n \in Int, NEW m \in Int, n < m,
         Shift(interval, b, n) # NoInstant, Shift(interval, b, m) # NoInstant
  PROVE  Shift(interval, b, n) < Shift(interval, b, m)
<1>1. Aligned(interval, b)
  BY ShiftIsBoundary
<1>2. CASE interval.seconds = 0
  <2>1. PICK k \in Months : b = MonthStarts[k]
    BY <1>1, <1>2, MonthBoundary
  <2>2. /\ k + n \in Months /\ Shift(interval, b, n) = MonthStarts[k + n]
        /\ k + m \in Months /\ Shift(interval, b, m) = MonthStarts[k + m]
        /\ k + n < k + m
    BY <1>2, <2>1, ShiftOfMonth DEF Months
  <2> QED
    BY <2>2, CalendarAssumption DEF Months
<1>3. CASE interval.seconds # 0
  <2> DEFINE d == interval.seconds
             x == n * d
             y == m * d
  <2>1. d \in Nat \ {0} /\ b \in Int /\ n + 1 \in Int /\ n + 1 <= m
    BY <1>1, <1>3, BoundaryIsInstant DEF Intervals
  <2>2. x \in Int /\ y \in Int /\ (n + 1) * d <= y /\ (n + 1) * d = x + d
    BY <2>1, ProductIsMonotonic
  <2>3. Shift(interval, b, n) = b + x /\ Shift(interval, b, m) = b + y
    BY <1>1, <1>3, ShiftOfSlots
  <2> HIDE DEF x, y
  <2> QED
    BY <2>1, <2>2, <2>3
<1> QED
  BY <1>2, <1>3

(* A shift within the calendar passes no boundary outside it.              *)
LEMMA ShiftsAreConvex ==
  ASSUME NEW interval \in Intervals, NEW b, NEW n \in Nat, NEW k \in 0 .. n,
         Shift(interval, b, n) # NoInstant
  PROVE  Shift(interval, b, k) # NoInstant
<1>1. Aligned(interval, b) /\ k \in Int /\ n \in Int /\ 0 <= k /\ k <= n
  BY ShiftIsBoundary
<1>2. CASE interval.seconds = 0
  <2>1. PICK j \in Months : b = MonthStarts[j]
    BY <1>1, <1>2, MonthBoundary
  <2>2. j + n \in Months
    BY <1>1, <1>2, <2>1, ShiftOfMonth
  <2>3. j + k \in Months
    BY <1>1, <2>2 DEF Months
  <2>4. Shift(interval, b, k) = MonthStarts[j + k]
    BY <1>1, <1>2, <2>1, <2>3, ShiftOfMonth
  <2> QED
    BY <2>3, <2>4, MonthsAreInstants, CalendarAssumption DEF NoInstant
<1>3. CASE interval.seconds # 0
  <2> DEFINE d == interval.seconds
             x == k * d
             y == n * d
  <2>1. d \in Nat \ {0} /\ b \in 0 .. LastInstant /\ b \in Int
    BY <1>1, <1>3, BoundaryIsInstant DEF Intervals
  <2>2. 0 * d <= x /\ x <= y /\ 0 * d = 0 /\ x \in Int /\ y \in Int
    BY <1>1, <2>1, ProductIsMonotonic
  <2>3. Shift(interval, b, n) = IF b + y \in 0 .. LastInstant THEN b + y ELSE NoInstant
    BY <1>1, <1>3, ShiftOfSlots
  <2>4. Shift(interval, b, k) = IF b + x \in 0 .. LastInstant THEN b + x ELSE NoInstant
    BY <1>1, <1>3, ShiftOfSlots
  <2> HIDE DEF x, y
  <2>5. b + x \in 0 .. LastInstant
    BY <2>1, <2>2, <2>3, CalendarAssumption
  <2> QED
    BY <2>4, <2>5, CalendarAssumption DEF NoInstant
<1> QED
  BY <1>2, <1>3

(* A floor is the latest boundary: an instant behind a boundary has one.   *)
LEMMA FloorIsLatest ==
  ASSUME NEW interval \in Intervals, NEW t \in 0 .. LastInstant,
         NEW b, Aligned(interval, b), b <= t
  PROVE  Floor(interval, t) # NoInstant /\ b <= Floor(interval, t)
<1> DEFINE s == SlotStart(interval, t)
<1>1. b \in 0 .. LastInstant
  BY BoundaryIsInstant
<1>2. s \in Int /\ b <= s /\ s <= t
  <2>1. CASE interval.seconds = 0
    <3>1. PICK k \in Months : b = MonthStarts[k]
      BY <2>1, MonthBoundary
    <3> DEFINE m == MonthOf(t) + 1
    <3>2. m \in Months /\ MonthStarts[m] <= t /\ k <= m
      BY <3>1, MonthOfInstant DEF Months
    <3>3. k = m \/ MonthStarts[k] < MonthStarts[m]
      BY <3>2, CalendarAssumption DEF Months
    <3>4. s = MonthStarts[m]
      BY <2>1 DEF SlotStart
    <3> HIDE DEF m
    <3> QED
      BY <1>1, <3>1, <3>2, <3>3, <3>4, MonthsAreInstants
  <2>2. CASE interval.seconds # 0
    <3> DEFINE d == interval.seconds
               a == t - interval.anchor
               p == a \div d
               r == a % d
    <3>1. PICK q \in Int : b = interval.anchor + (q * d)
      BY <2>2, SecondsBoundary
    <3>2. d \in Nat \ {0} /\ interval.anchor \in Nat /\ a \in Int /\ t \in Int
      BY <2>2, CalendarAssumption DEF Intervals
    <3>3. p \in Int /\ r \in 0 .. d - 1 /\ a = (d * p) + r
      BY <3>2, Division
    <3>4. q * d <= a
      BY <1>1, <3>1, <3>2
    <3>5. q <= p
      BY <3>2, <3>4, QuotientBounds
    <3>6. s = t - r
      BY <2>2 DEF SlotStart
    <3>7. q * d <= p * d /\ q * d \in Int /\ p * d \in Int /\ p * d = d * p
      <4> HIDE DEF p
      <4> QED
        BY <3>2, <3>3, <3>5, ProductIsMonotonic
    <3> HIDE DEF p, r
    <3> QED
      BY <3>1, <3>2, <3>3, <3>6, <3>7
  <2> QED
    BY <2>1, <2>2
<1> HIDE DEF s
<1>3. s \in 0 .. LastInstant
  BY <1>1, <1>2, CalendarAssumption
<1> QED
  BY <1>2, <1>3, CalendarAssumption DEF Floor, ValidTime, NoInstant, s

(***************************************************************************)
(* The range of a selection (CandleSelection.Range) ends at a boundary not *)
(* later than the instant asked for, and count slots from its start lead   *)
(* to its end.                                                             *)
(***************************************************************************)
THEOREM RangeIsWalkable ==
  ASSUME NEW interval \in Intervals, NEW to, NEW count \in Nat,
         RangeOf(interval, to, count) # NoRange
  PROVE  LET range == RangeOf(interval, to, count)
         IN  /\ Aligned(interval, range.from) /\ Aligned(interval, range.to)
             /\ range.from < range.to /\ range.to <= to
             /\ Shift(interval, range.from, 0) = range.from
             /\ Shift(interval, range.from, count) = range.to
             /\ count > 0
<1> DEFINE end   == Floor(interval, to)
           start == Shift(interval, end, -count)
<1>1. /\ count > 0 /\ end # NoInstant /\ start # NoInstant
      /\ RangeOf(interval, to, count) = [from |-> start, to |-> end]
  BY DEF RangeOf
<1>2. Aligned(interval, end) /\ end <= to
  BY <1>1, FloorIsBoundary
<1>3. -count \in Int /\ count \in Int /\ (-count) + count = 0 /\ -count < 0
  BY <1>1
<1>4. Aligned(interval, start)
  BY <1>1, <1>3, ShiftIsBoundary
<1>5. Shift(interval, end, 0) = end /\ Shift(interval, start, 0) = start
  BY <1>2, <1>4, ShiftByNothing
<1>6. Shift(interval, start, count) = end
  BY <1>1, <1>3, <1>5, ShiftsAdd
<1>7. start < end
  BY <1>1, <1>3, <1>5, ShiftsAreOrdered
<1> QED
  BY <1>1, <1>2, <1>4, <1>5, <1>6, <1>7
-----------------------------------------------------------------------------
(* Where the request is between the read and its response.                 *)
Judging == {"series", "calculate", "respond"}
Holding == {"source"} \cup Judging

Accepted == pc \in Judging \/ outcome = "ok"

(* A request has no outcome until it is done.                              *)
OutcomeInv == outcome # "none" <=> pc = "done"

(* What the clock and the settings had to allow for a range to be asked.   *)
AskedInv ==
  /\ pc = "prepare" => request.settings = "parsed"
  /\ pc \in {"parse", "prepare"} => asked = NoRange /\ evaluatedAt = NoInstant
  /\ pc \in {"read"} \cup Holding => asked # NoRange
  /\ asked # NoRange =>
       /\ asked = Planned /\ WellFormed
       /\ Planned.to <= evaluatedAt

(* Where the status of the read, and the answer, come from.                *)
ReadInv ==
  /\ status = "OK" => answer \in Answers /\ asked # NoRange
  /\ status # "OK" => answer = NoAnswer /\ series = <<>>
  /\ status # "unread" => asked # NoRange
  /\ pc \in {"parse", "prepare", "read"} => status = "unread" /\ index = 1
  /\ pc \in Holding => status = "OK"

(* The candles before the index have been judged.                          *)
ParsedInv ==
  /\ pc = "source" =>
       /\ series = <<>>
       /\ index <= Len(Loaded) + 1
       /\ \A k \in 1 .. index - 1 : Loaded[k].parses
  /\ Accepted =>
       /\ status = "OK" /\ answer.matches
       /\ Len(Loaded) = request.count
       /\ \A k \in 1 .. Len(Loaded) : Loaded[k].parses

(* Slot k of the range asked for.                                          *)
Boundary(k) == Shift(request.interval, asked.from, k)

(* The series is the beginning of the answer, slot for slot.               *)
SeriesInv ==
  /\ series # <<>> => asked # NoRange
  /\ Len(series) <= request.count /\ Len(series) <= Len(Loaded)
  /\ \A k \in 1 .. Len(series) :
       /\ series[k] = Loaded[k] /\ series[k].sound
       /\ series[k].open = Boundary(k - 1) /\ series[k].close = Boundary(k)
  /\ pc = "series" => index = Len(series) + 1 /\ opening = Boundary(Len(series))
  /\ pc \in {"calculate", "respond"} \/ outcome = "ok" => Len(series) = request.count

(* How a request can have failed.                                          *)
FailureInv ==
  outcome \notin {"none", "ok"} =>
    \/ outcome = "invalid_parameter" /\ status = "unread" /\ asked = NoRange
    \/ status \in UpstreamCodes /\ outcome = KindOf(status)
    \/ status = "unread" /\ asked # NoRange /\ outcome \in {"request_canceled", "request_timeout"}
    \/ /\ status = "OK"
       /\ outcome \in {"invalid_market_data", "request_canceled", "request_timeout",
                       "response_too_large"}

IInv ==
  /\ TypeOK
  /\ OutcomeInv
  /\ AskedInv
  /\ ReadInv
  /\ ParsedInv
  /\ SeriesInv
  /\ FailureInv
  /\ AnswersAreJudged
  /\ InvalidFieldsReadNothing
-----------------------------------------------------------------------------
(* What the adapter makes of a status code.                                *)
LEMMA Kinds ==
  ASSUME NEW code
  PROVE  /\ KindOf(code) \in ErrorKinds \ {"invalid_parameter", "response_too_large"}
         /\ KindOf(code) \notin {"none", "ok"}
         /\ KindOf(code) = "request_canceled" => code = "Canceled"
         /\ KindOf(code) = "request_timeout" => code = "DeadlineExceeded"
<1>1. CASE code \in DOMAIN UpstreamKinds
  <2>1. code \in {"InvalidArgument", "NotFound", "FailedPrecondition", "DataLoss",
                  "Unavailable", "ResourceExhausted", "Canceled", "DeadlineExceeded",
                  "Unimplemented"}
    BY <1>1 DEF UpstreamKinds
  <2> QED
    BY <1>1, <2>1 DEF KindOf, UpstreamKinds, ErrorKinds
<1>2. CASE code \notin DOMAIN UpstreamKinds
  BY <1>2 DEF KindOf, ErrorKinds
<1> QED
  BY <1>1, <1>2

LEMMA ContextErrors ==
  ASSUME ctx \in {"live", "canceled", "expired"}
  PROVE  /\ ContextError \in {"request_canceled", "request_timeout"}
         /\ ContextError = "request_canceled" => ctx = "canceled"
         /\ ctx # "live" /\ ContextError = "request_timeout" => ctx = "expired"
BY DEF ContextError

LEMMA InputsAreTyped ==
  ASSUME TypeOK
  PROVE  /\ request \in Request /\ request.interval \in Intervals /\ request.count \in Nat
         /\ answer \in Answer /\ Loaded \in Seq(Candle) /\ Len(Loaded) \in Nat
         /\ series \in Seq(Candle) /\ Len(series) \in Nat
         /\ index \in Nat \ {0}
<1>1. request \in Request /\ answer \in Answer
  <2>1. NoAnswer \in Answer
    BY DEF NoAnswer, Answer
  <2>2. request \in Requests /\ answer \in Answers \cup {NoAnswer}
    BY DEF TypeOK
  <2> QED
    BY <2>1, <2>2, AnalysisAssumption
<1>2. request.interval \in Intervals /\ request.count \in Nat
  BY <1>1 DEF Request
<1>3. Loaded \in Seq(Candle)
  BY <1>1 DEF Answer, Loaded
<1>4. series \in Seq(Candle) /\ index \in Nat \ {0}
  BY DEF TypeOK
<1> QED
  BY <1>1, <1>2, <1>3, <1>4

(* The range asked for, slot by slot.                                      *)
LEMMA RangeAsked ==
  ASSUME TypeOK, AskedInv, asked # NoRange
  PROVE  /\ Boundary(0) = asked.from /\ Boundary(request.count) = asked.to
         /\ asked.to <= request.to /\ request.count > 0
         /\ \A k \in 0 .. request.count :
              Boundary(k) \in 0 .. LastInstant /\ Boundary(k) # NoInstant /\ Boundary(k) <= asked.to
         /\ \A k \in Nat : k < request.count =>
              Shift(request.interval, Boundary(k), 1) = Boundary(k + 1)
<1> DEFINE n == request.count
<1>1. request.interval \in Intervals /\ n \in Nat
  BY InputsAreTyped
<1>2. asked = RangeOf(request.interval, request.to, n) /\ asked # NoRange
  BY DEF AskedInv, Planned
<1>3. /\ Boundary(0) = asked.from /\ Boundary(n) = asked.to
      /\ Aligned(request.interval, asked.from) /\ Aligned(request.interval, asked.to)
      /\ asked.to <= request.to /\ n > 0
  BY <1>1, <1>2, RangeIsWalkable DEF Boundary
<1>4. Boundary(n) # NoInstant
  BY <1>3, BoundaryIsInstant
<1>5. ASSUME NEW k \in 0 .. n
      PROVE  Boundary(k) \in 0 .. LastInstant /\ Boundary(k) # NoInstant /\ Boundary(k) <= asked.to
  <2>1. Boundary(k) # NoInstant
    BY <1>1, <1>4, ShiftsAreConvex DEF Boundary
  <2>2. Boundary(k) \in 0 .. LastInstant
    BY <1>1, <2>1, ShiftIsBoundary, BoundaryIsInstant DEF Boundary
  <2>3. k = n \/ Boundary(k) < Boundary(n)
    BY <1>1, <1>4, <2>1, ShiftsAreOrdered DEF Boundary
  <2>4. asked.to \in 0 .. LastInstant
    BY <1>3, BoundaryIsInstant
  <2> QED
    BY <1>3, <2>1, <2>2, <2>3, <2>4, CalendarAssumption
<1>6. ASSUME NEW k \in Nat, k < n
      PROVE  Shift(request.interval, Boundary(k), 1) = Boundary(k + 1)
  BY <1>1, <1>5, <1>6, ShiftsAdd DEF Boundary
<1> QED
  BY <1>3, <1>5, <1>6
-----------------------------------------------------------------------------
LEMMA InitHolds == Init => IInv
<1> SUFFICES ASSUME Init PROVE IInv
  OBVIOUS
<1>1. TypeOK
  BY CalendarAssumption DEF Init, TypeOK, NoRange, NoInstant
<1>2. Len(Loaded) = 0 /\ series = <<>> /\ Len(series) = 0 /\ request.count \in Nat
  BY <1>1, InputsAreTyped DEF Init, Loaded, NoAnswer
<1>3. OutcomeInv /\ AskedInv /\ ReadInv /\ ParsedInv /\ SeriesInv /\ FailureInv
  BY <1>2 DEF Init, OutcomeInv, AskedInv, ReadInv, ParsedInv, SeriesInv, FailureInv,
              Judging, Holding, Accepted
<1>4. AnswersAreJudged /\ InvalidFieldsReadNothing
  BY DEF Init, AnswersAreJudged, InvalidFieldsReadNothing
<1> QED
  BY <1>1, <1>3, <1>4 DEF IInv
-----------------------------------------------------------------------------
LEMMA ParseSettingsPreserves == IInv /\ ParseSettings => IInv'
<1> SUFFICES ASSUME IInv, ParseSettings PROVE IInv'
  OBVIOUS
<1> USE DEF ParseSettings, EndWith
<1>1. TypeOK /\ TypeOK'
  BY DEF IInv, TypeOK, ErrorKinds
<1>2. OutcomeInv' /\ AskedInv'
  BY DEF IInv, OutcomeInv, AskedInv, Holding, Judging
<1>3. ReadInv' /\ ParsedInv' /\ SeriesInv'
  BY DEF IInv, OutcomeInv, ReadInv, ParsedInv, SeriesInv, Accepted, Holding, Judging, Loaded, Boundary
<1>4. FailureInv' /\ AnswersAreJudged'
  BY DEF IInv, OutcomeInv, AskedInv, ReadInv, FailureInv, AnswersAreJudged
<1>5. InvalidFieldsReadNothing'
  BY DEF IInv, OutcomeInv, AskedInv, InvalidFieldsReadNothing, WellFormed, Planned
<1> QED
  BY <1>1, <1>2, <1>3, <1>4, <1>5 DEF IInv

(* The planned range is over at an instant if and only if its end is not   *)
(* later than the instant's floor.                                         *)
LEMMA PlannedRangeIsOver ==
  ASSUME TypeOK, Planned # NoRange, NEW now \in 0 .. LastInstant
  PROVE  Planned.to <= now <=>
           Floor(request.interval, now) # NoInstant /\ Planned.to <= Floor(request.interval, now)
<1>1. request.interval \in Intervals /\ request.count \in Nat
  BY InputsAreTyped
<1>2. Aligned(request.interval, Planned.to) /\ Planned.to \in 0 .. LastInstant
  BY <1>1, RangeIsWalkable, BoundaryIsInstant DEF Planned
<1>3. Planned.to <= now =>
        Floor(request.interval, now) # NoInstant /\ Planned.to <= Floor(request.interval, now)
  BY <1>1, <1>2, FloorIsLatest
<1>4. Floor(request.interval, now) # NoInstant =>
        Floor(request.interval, now) \in 0 .. LastInstant /\ Floor(request.interval, now) <= now
  BY <1>1, FloorIsBoundary
<1> QED
  BY <1>2, <1>3, <1>4, CalendarAssumption

LEMMA PlannedRangeIsTyped ==
  ASSUME TypeOK, Planned # NoRange
  PROVE  /\ Planned \in [from : {NoInstant} \cup 0 .. LastInstant, to : {NoInstant} \cup 0 .. LastInstant]
         /\ Planned.to \in 0 .. LastInstant
<1>1. request.interval \in Intervals /\ request.count \in Nat
  BY InputsAreTyped
<1>2. Planned.from \in 0 .. LastInstant /\ Planned.to \in 0 .. LastInstant
  BY <1>1, RangeIsWalkable, BoundaryIsInstant DEF Planned
<1>3. Planned = [from |-> Planned.from, to |-> Planned.to]
  BY DEF Planned, RangeOf, NoRange
<1> QED
  BY <1>2, <1>3

LEMMA PreparePreserves == IInv /\ Prepare => IInv'
<1> SUFFICES ASSUME IInv, Prepare PROVE IInv'
  OBVIOUS
<1>1. PICK now \in 0 .. LastInstant :
        /\ evaluatedAt' = now
        /\ IF Acceptable(now)
             THEN pc' = "read" /\ asked' = Planned /\ UNCHANGED outcome
             ELSE EndWith("invalid_parameter") /\ UNCHANGED asked
  BY DEF Prepare
<1>2. /\ pc = "prepare" /\ outcome = "none" /\ asked = NoRange /\ status = "unread"
      /\ index = 1 /\ series = <<>> /\ answer = NoAnswer /\ request.settings = "parsed"
      /\ UNCHANGED <<request, ctx, status, answer, index, opening, series>>
  BY DEF Prepare, IInv, OutcomeInv, AskedInv, ReadInv
<1>3. TypeOK
  BY DEF IInv
<1>4. CASE Acceptable(now)
  <2>1. pc' = "read" /\ asked' = Planned /\ outcome' = "none"
    BY <1>1, <1>2, <1>4
  <2>2. WellFormed /\ Planned # NoRange /\ Planned.to <= now
    BY <1>2, <1>3, <1>4, PlannedRangeIsOver DEF Acceptable, WellFormed
  <2>3. Planned' = Planned /\ WellFormed' = WellFormed
    BY <1>2 DEF Planned, WellFormed
  <2>4. TypeOK'
    BY <1>1, <1>2, <1>3, <2>1, <2>2, PlannedRangeIsTyped DEF TypeOK
  <2>5. OutcomeInv' /\ AskedInv'
    BY <1>1, <1>2, <2>1, <2>2, <2>3 DEF OutcomeInv, AskedInv
  <2>6. ReadInv' /\ ParsedInv' /\ SeriesInv'
    <3>1. Len(series') = 0 /\ Len(Loaded') = 0 /\ request'.count \in Nat
      BY <1>2, <1>3, InputsAreTyped DEF Loaded, NoAnswer
    <3> QED
      BY <1>2, <2>1, <3>1 DEF ReadInv, ParsedInv, SeriesInv, Accepted, Holding, Judging
  <2>7. FailureInv' /\ AnswersAreJudged' /\ InvalidFieldsReadNothing'
    BY <1>1, <2>1, <2>2, <2>3 DEF FailureInv, AnswersAreJudged, InvalidFieldsReadNothing
  <2> QED
    BY <2>4, <2>5, <2>6, <2>7 DEF IInv
<1>5. CASE ~Acceptable(now)
  <2>1. pc' = "done" /\ outcome' = "invalid_parameter" /\ asked' = NoRange
    BY <1>1, <1>2, <1>5 DEF EndWith
  <2>2. WellFormed => Planned.to > now
    <3> SUFFICES ASSUME WellFormed PROVE Planned.to > now
      OBVIOUS
    <3>1. ~(Planned.to <= now)
      BY <1>3, <1>5, PlannedRangeIsOver DEF Acceptable, WellFormed
    <3> QED
      BY <1>3, <3>1, PlannedRangeIsTyped, CalendarAssumption DEF WellFormed
  <2>3. Planned' = Planned /\ WellFormed' = WellFormed
    BY <1>2 DEF Planned, WellFormed
  <2>4. TypeOK'
    BY <1>1, <1>2, <1>3, <2>1 DEF TypeOK, ErrorKinds
  <2>5. OutcomeInv' /\ AskedInv'
    BY <2>1 DEF OutcomeInv, AskedInv, Holding, Judging
  <2>6. ReadInv' /\ ParsedInv' /\ SeriesInv'
    <3>1. Len(series') = 0 /\ Len(Loaded') = 0 /\ request'.count \in Nat
      BY <1>2, <1>3, InputsAreTyped DEF Loaded, NoAnswer
    <3> QED
      BY <1>2, <2>1, <3>1 DEF ReadInv, ParsedInv, SeriesInv, Accepted, Holding, Judging
  <2>7. FailureInv' /\ AnswersAreJudged'
    BY <1>2, <2>1 DEF FailureInv, AnswersAreJudged
  <2>8. InvalidFieldsReadNothing'
    BY <1>1, <2>1, <2>2, <2>3 DEF InvalidFieldsReadNothing
  <2> QED
    BY <2>4, <2>5, <2>6, <2>7, <2>8 DEF IInv
<1> QED
  BY <1>4, <1>5
-----------------------------------------------------------------------------
LEMMA ReceivePreserves == IInv /\ Receive => IInv'
<1> SUFFICES ASSUME IInv, Receive PROVE IInv'
  OBVIOUS
<1> USE DEF Receive
<1>1. TypeOK /\ TypeOK'
  BY DEF IInv, TypeOK
<1>2. /\ outcome = "none" /\ outcome' = "none" /\ status = "unread" /\ asked # NoRange
      /\ index = 1 /\ series = <<>> /\ series' = <<>> /\ index' = 1
  BY DEF IInv, OutcomeInv, AskedInv, ReadInv, Holding, Judging
<1>3. Len(series') = 0 /\ Len(Loaded') \in Nat /\ request'.count \in Nat /\ request.count \in Nat
  <2>1. answer' \in Answer
    BY AnalysisAssumption
  <2>2. Loaded' \in Seq(Candle)
    BY <2>1 DEF Loaded, Answer
  <2> QED
    BY <1>1, <1>2, <2>2, InputsAreTyped
<1>4. Planned' = Planned /\ WellFormed' = WellFormed
  BY DEF Planned, WellFormed
<1>5. OutcomeInv' /\ AskedInv' /\ InvalidFieldsReadNothing'
  BY <1>2, <1>4 DEF IInv, OutcomeInv, AskedInv, InvalidFieldsReadNothing, Holding, Judging
<1>6. ReadInv' /\ ParsedInv' /\ SeriesInv'
  BY <1>2, <1>3 DEF ReadInv, ParsedInv, SeriesInv, Accepted, Holding, Judging
<1>7. FailureInv' /\ AnswersAreJudged'
  BY <1>2 DEF FailureInv, AnswersAreJudged
<1> QED
  BY <1>1, <1>5, <1>6, <1>7 DEF IInv

LEMMA UpstreamFailsPreserves == IInv /\ UpstreamFails => IInv'
<1> SUFFICES ASSUME IInv, UpstreamFails PROVE IInv'
  OBVIOUS
<1>1. PICK code \in UpstreamCodes : status' = code /\ EndWith(KindOf(code))
  BY DEF UpstreamFails
<1> DEFINE kind == KindOf(code)
<1>2. /\ kind \in ErrorKinds /\ kind \notin {"none", "ok", "invalid_parameter"}
      /\ kind = "request_canceled" => code = "Canceled"
      /\ kind = "request_timeout" => code = "DeadlineExceeded"
      /\ code \notin {"OK", "unread"}
  <2>1. code \notin {"OK", "unread"}
    BY AnalysisAssumption
  <2> QED
    BY <2>1, Kinds
<1>3. pc = "read" /\ pc' = "done" /\ outcome' = kind /\ status' = code
  BY <1>1 DEF UpstreamFails, EndWith
<1>4. UNCHANGED <<request, ctx, evaluatedAt, asked, answer, index, opening, series>>
  BY DEF UpstreamFails
<1> HIDE DEF kind
<1>5. asked # NoRange /\ answer = NoAnswer /\ series = <<>>
  BY <1>3 DEF IInv, AskedInv, ReadInv
<1>6. Len(series') = 0 /\ Len(Loaded') \in Nat /\ request'.count \in Nat
  BY <1>4, <1>5, InputsAreTyped DEF IInv, Loaded
<1>7. TypeOK'
  BY <1>2, <1>3, <1>4 DEF IInv, TypeOK
<1>8. OutcomeInv' /\ AskedInv'
  BY <1>2, <1>3, <1>4 DEF IInv, OutcomeInv, AskedInv, WellFormed, Planned, Holding, Judging
<1>9. ReadInv' /\ ParsedInv' /\ SeriesInv'
  BY <1>2, <1>3, <1>4, <1>5, <1>6 DEF ReadInv, ParsedInv, SeriesInv, Accepted, Holding, Judging
<1>10. FailureInv'
  BY <1>1, <1>3 DEF FailureInv, kind
<1>11. AnswersAreJudged'
  BY <1>2, <1>3, <1>4 DEF AnswersAreJudged
<1>12. InvalidFieldsReadNothing'
  BY <1>2, <1>3, <1>4 DEF IInv, InvalidFieldsReadNothing, WellFormed, Planned
<1> QED
  BY <1>7, <1>8, <1>9, <1>10, <1>11, <1>12 DEF IInv

LEMMA ReadInterruptedPreserves == IInv /\ ReadInterrupted => IInv'
<1> SUFFICES ASSUME IInv, ReadInterrupted PROVE IInv'
  OBVIOUS
<1>1. /\ pc = "read" /\ pc' = "done" /\ outcome' = ContextError /\ ctx # "live"
      /\ UNCHANGED <<request, ctx, evaluatedAt, asked, status, answer, index, opening, series>>
  BY DEF ReadInterrupted, EndWith
<1>2. asked # NoRange /\ status = "unread" /\ series = <<>>
  BY <1>1 DEF IInv, AskedInv, ReadInv
<1>3. Len(series') = 0 /\ Len(Loaded') \in Nat /\ request'.count \in Nat
  BY <1>1, <1>2, InputsAreTyped DEF IInv, Loaded
<1>4. /\ ContextError \in {"request_canceled", "request_timeout"}
      /\ ContextError = "request_canceled" => ctx = "canceled"
      /\ ContextError = "request_timeout" => ctx = "expired"
  BY <1>1, ContextErrors DEF IInv, TypeOK
<1>5. TypeOK'
  BY <1>1, <1>4 DEF IInv, TypeOK, ErrorKinds
<1>6. OutcomeInv' /\ AskedInv'
  BY <1>1, <1>4 DEF IInv, OutcomeInv, AskedInv, WellFormed, Planned, Holding, Judging
<1>7. ReadInv' /\ ParsedInv' /\ SeriesInv'
  BY <1>1, <1>2, <1>3, <1>4 DEF IInv, ReadInv, ParsedInv, SeriesInv, Accepted, Holding, Judging
<1>8. FailureInv' /\ AnswersAreJudged'
  BY <1>1, <1>2, <1>4 DEF FailureInv, AnswersAreJudged
<1>9. InvalidFieldsReadNothing'
  BY <1>1, <1>4 DEF IInv, InvalidFieldsReadNothing, WellFormed, Planned
<1> QED
  BY <1>5, <1>6, <1>7, <1>8, <1>9 DEF IInv
-----------------------------------------------------------------------------
(* A read that succeeded and a judgement that did not: what every failing  *)
(* branch after the read does.                                             *)
LEMMA FailingPreserves ==
  ASSUME IInv, pc \in Holding, NEW kind, EndWith(kind),
         kind \in {"invalid_market_data", "request_canceled", "request_timeout",
                   "response_too_large"},
         kind = "invalid_market_data" => ~Faithful,
         kind = "request_canceled" => ctx = "canceled",
         kind = "request_timeout" => ctx = "expired",
         UNCHANGED <<request, ctx, evaluatedAt, asked, status, answer, index, opening, series>>
  PROVE  IInv'
<1>1. pc' = "done" /\ outcome' = kind /\ status = "OK" /\ asked # NoRange /\ pc # "done"
  BY DEF EndWith, IInv, ReadInv, AskedInv, Holding, Judging
<1>2. TypeOK'
  BY <1>1 DEF IInv, TypeOK, ErrorKinds
<1>3. OutcomeInv' /\ AskedInv'
  BY <1>1 DEF IInv, OutcomeInv, AskedInv, WellFormed, Planned, Holding, Judging
<1>4. ReadInv' /\ ParsedInv' /\ SeriesInv'
  BY <1>1 DEF IInv, ReadInv, ParsedInv, SeriesInv, Accepted, Holding, Judging, Boundary, Loaded
<1>5. FailureInv'
  BY <1>1 DEF FailureInv
<1>6. AnswersAreJudged'
  BY <1>1 DEF AnswersAreJudged, Faithful, Loaded
<1>7. InvalidFieldsReadNothing'
  BY <1>1 DEF IInv, InvalidFieldsReadNothing, WellFormed, Planned
<1> QED
  BY <1>2, <1>3, <1>4, <1>5, <1>6, <1>7 DEF IInv

LEMMA InterruptedPreserves == IInv /\ Interrupted => IInv'
<1> SUFFICES ASSUME IInv, Interrupted PROVE IInv'
  OBVIOUS
<1>1. pc \in Holding /\ EndWith(ContextError) /\ ctx # "live"
  BY DEF Interrupted, Holding, Judging
<1>2. /\ ContextError \in {"request_canceled", "request_timeout"}
      /\ ContextError = "request_canceled" => ctx = "canceled"
      /\ ContextError = "request_timeout" => ctx = "expired"
  BY <1>1, ContextErrors DEF IInv, TypeOK
<1>3. UNCHANGED <<request, ctx, evaluatedAt, asked, status, answer, index, opening, series>>
  BY DEF Interrupted
<1> QED
  BY <1>1, <1>2, <1>3, FailingPreserves

LEMMA ParseCandlePreserves == IInv /\ ParseCandle => IInv'
<1> SUFFICES ASSUME IInv, ParseCandle PROVE IInv'
  OBVIOUS
<1>1. /\ pc = "source" /\ index <= Len(Loaded) /\ pc \in Holding
      /\ UNCHANGED <<request, ctx, evaluatedAt, asked, status, answer, opening, series>>
  BY DEF ParseCandle, Live, Holding
<1>2. index \in Nat \ {0} /\ Len(Loaded) \in Nat
  BY InputsAreTyped DEF IInv
<1>3. CASE Loaded[index].parses
  <2>1. index' = index + 1 /\ pc' = pc /\ outcome' = outcome
    BY <1>3 DEF ParseCandle
  <2>2. TypeOK'
    BY <1>1, <1>2, <2>1 DEF IInv, TypeOK
  <2>3. OutcomeInv' /\ AskedInv' /\ ReadInv'
    BY <1>1, <2>1 DEF IInv, OutcomeInv, AskedInv, ReadInv, WellFormed, Planned, Holding, Judging
  <2>4. ParsedInv'
    <3>1. series = <<>> /\ \A k \in 1 .. index - 1 : Loaded[k].parses
      BY <1>1 DEF IInv, ParsedInv
    <3>2. \A k \in 1 .. index : Loaded[k].parses
      <4> SUFFICES ASSUME NEW k \in 1 .. index PROVE Loaded[k].parses
        OBVIOUS
      <4>1. k = index \/ k \in 1 .. index - 1
        BY <1>2
      <4> QED
        BY <1>3, <3>1, <4>1
    <3>3. index' - 1 = index /\ index' <= Len(Loaded) + 1
      BY <1>1, <1>2, <2>1
    <3>4. outcome' # "ok" /\ Loaded' = Loaded
      BY <1>1, <2>1 DEF IInv, OutcomeInv, Loaded
    <3> QED
      BY <1>1, <2>1, <3>1, <3>2, <3>3, <3>4 DEF ParsedInv, Accepted, Judging
  <2>5. SeriesInv'
    BY <1>1, <2>1 DEF IInv, SeriesInv, Boundary, Loaded
  <2>6. FailureInv' /\ AnswersAreJudged'
    BY <1>1, <2>1 DEF IInv, FailureInv, AnswersAreJudged, Faithful, Loaded
  <2>7. InvalidFieldsReadNothing'
    BY <1>1, <2>1 DEF IInv, InvalidFieldsReadNothing, WellFormed, Planned
  <2> QED
    BY <2>2, <2>3, <2>4, <2>5, <2>6, <2>7 DEF IInv
<1>4. CASE ~Loaded[index].parses
  <2>1. EndWith("invalid_market_data") /\ index' = index
    BY <1>4 DEF ParseCandle
  <2>2. ~Faithful
    BY <1>1, <1>2, <1>4 DEF Faithful
  <2> QED
    BY <1>1, <2>1, <2>2, FailingPreserves
<1> QED
  BY <1>3, <1>4

LEMMA CheckSeriesPreserves == IInv /\ CheckSeries => IInv'
<1> SUFFICES ASSUME IInv, CheckSeries PROVE IInv'
  OBVIOUS
<1>1. /\ pc = "source" /\ index > Len(Loaded) /\ pc \in Holding
      /\ UNCHANGED <<request, ctx, evaluatedAt, asked, status, answer, series>>
  BY DEF CheckSeries, Live, Holding
<1>2. index \in Nat \ {0} /\ Len(Loaded) \in Nat
  BY InputsAreTyped DEF IInv
<1>3. CASE answer.matches /\ Len(Loaded) = request.count
  <2>1. pc' = "series" /\ index' = 1 /\ opening' = asked.from /\ outcome' = outcome
    BY <1>3 DEF CheckSeries
  <2>2. series = <<>> /\ asked # NoRange /\ status = "OK" /\ outcome = "none"
    BY <1>1 DEF IInv, ParsedInv, AskedInv, ReadInv, OutcomeInv, Holding
  <2>3. Loaded' = Loaded /\ request' = request /\ Boundary(0)' = Boundary(0)
    BY <1>1 DEF Loaded, Boundary
  <2>4. TypeOK'
    BY <1>1, <2>1 DEF IInv, TypeOK
  <2>5. OutcomeInv' /\ AskedInv' /\ ReadInv'
    BY <1>1, <2>1, <2>2 DEF IInv, OutcomeInv, AskedInv, ReadInv, WellFormed, Planned, Holding, Judging
  <2>6. ParsedInv'
    <3>1. index = Len(Loaded) + 1 /\ \A k \in 1 .. index - 1 : Loaded[k].parses
      BY <1>1, <1>2 DEF IInv, ParsedInv
    <3>2. \A k \in 1 .. Len(Loaded) : Loaded[k].parses
      BY <1>2, <3>1
    <3> QED
      BY <1>1, <1>3, <2>1, <2>2, <2>3, <3>2 DEF ParsedInv
  <2>7. SeriesInv'
    <3>1. Boundary(0) = asked.from
      BY <2>2, RangeAsked DEF IInv
    <3>2. Len(series') = 0 /\ request.count \in Nat
      BY <1>1, <2>2, InputsAreTyped DEF IInv
    <3> QED
      BY <1>1, <1>2, <2>1, <2>2, <2>3, <3>1, <3>2 DEF SeriesInv
  <2>8. FailureInv' /\ AnswersAreJudged'
    BY <2>1, <2>2 DEF FailureInv, AnswersAreJudged
  <2>9. InvalidFieldsReadNothing'
    BY <1>1, <2>1 DEF IInv, InvalidFieldsReadNothing, WellFormed, Planned
  <2> QED
    BY <2>4, <2>5, <2>6, <2>7, <2>8, <2>9 DEF IInv
<1>4. CASE ~(answer.matches /\ Len(Loaded) = request.count)
  <2>1. EndWith("invalid_market_data") /\ UNCHANGED <<index, opening>>
    BY <1>4 DEF CheckSeries
  <2>2. ~Faithful
    BY <1>4 DEF Faithful
  <2> QED
    BY <1>1, <2>1, <2>2, FailingPreserves
<1> QED
  BY <1>3, <1>4

LEMMA ValidateCandlePreserves == IInv /\ ValidateCandle => IInv'
<1> SUFFICES ASSUME IInv, ValidateCandle PROVE IInv'
  OBVIOUS
<1>1. /\ pc = "series" /\ index <= Len(Loaded) /\ pc \in Holding
      /\ UNCHANGED <<request, ctx, evaluatedAt, asked, status, answer>>
  BY DEF ValidateCandle, Live, Holding, Judging
<1>2. /\ index \in Nat \ {0} /\ Len(Loaded) \in Nat /\ Loaded \in Seq(Candle)
      /\ series \in Seq(Candle) /\ Len(series) \in Nat
  BY InputsAreTyped DEF IInv
<1>3. /\ asked # NoRange /\ index = Len(series) + 1 /\ opening = Boundary(Len(series))
      /\ Len(Loaded) = request.count /\ status = "OK" /\ outcome = "none"
  BY <1>1 DEF IInv, AskedInv, ReadInv, ParsedInv, SeriesInv, OutcomeInv, Accepted, Holding, Judging
<1>4. Closing = Boundary(index) /\ Closing # NoInstant /\ Closing \in 0 .. LastInstant
  <2>1. Len(series) < request.count /\ index \in 0 .. request.count
    BY <1>1, <1>2, <1>3
  <2>2. Shift(request.interval, Boundary(Len(series)), 1) = Boundary(index)
    BY <1>2, <1>3, <2>1, RangeAsked DEF IInv
  <2>3. Boundary(index) \in 0 .. LastInstant /\ Boundary(index) # NoInstant
    BY <1>3, <2>1, RangeAsked DEF IInv
  <2> QED
    BY <1>3, <2>2, <2>3 DEF Closing
<1>5. CASE FitsSlot(Loaded[index])
  <2>1. /\ series' = Append(series, Loaded[index]) /\ opening' = Closing
        /\ index' = index + 1 /\ pc' = "series" /\ outcome' = "none"
    BY <1>1, <1>3, <1>4, <1>5 DEF ValidateCandle
  <2>2. Loaded' = Loaded /\ request' = request /\ asked' = asked
    BY <1>1 DEF Loaded
  <2>3. Loaded[index] \in Candle
    BY <1>1, <1>2
  <2>4. /\ series' \in Seq(Candle) /\ Len(series') = index /\ series'[index] = Loaded[index]
        /\ \A k \in 1 .. Len(series) : series'[k] = series[k]
    BY <1>2, <1>3, <2>1, <2>3
  <2>5. TypeOK'
    BY <1>1, <1>2, <1>4, <2>1, <2>4 DEF IInv, TypeOK
  <2>6. OutcomeInv' /\ AskedInv' /\ ReadInv'
    BY <1>1, <1>3, <2>1 DEF IInv, OutcomeInv, AskedInv, ReadInv, WellFormed, Planned, Holding, Judging
  <2>7. ParsedInv'
    BY <1>1, <2>1, <2>2 DEF IInv, ParsedInv, Accepted, Judging
  <2>8. SeriesInv'
    <3>1. ASSUME NEW k \in 1 .. index
          PROVE  /\ series'[k] = Loaded[k] /\ series'[k].sound
                 /\ series'[k].open = Boundary(k - 1) /\ series'[k].close = Boundary(k)
      <4>1. CASE k = index
        <5>1. index - 1 = Len(series)
          BY <1>2, <1>3
        <5> QED
          BY <1>3, <1>4, <1>5, <2>4, <4>1, <5>1 DEF FitsSlot
      <4>2. CASE k # index
        <5>1. k \in 1 .. Len(series)
          BY <1>2, <1>3, <4>2
        <5> QED
          BY <2>4, <5>1 DEF IInv, SeriesInv
      <4> QED
        BY <4>1, <4>2
    <3>2. \A k : Boundary(k)' = Boundary(k)
      BY <2>2 DEF Boundary
    <3>3. Len(series') <= request'.count /\ Len(series') <= Len(Loaded')
      BY <1>1, <1>3, <2>2, <2>4
    <3>4. index' = Len(series') + 1 /\ opening' = Boundary(Len(series'))
      BY <1>4, <2>1, <2>4
    <3> QED
      BY <1>3, <2>1, <2>2, <2>4, <3>1, <3>2, <3>3, <3>4 DEF SeriesInv
  <2>9. FailureInv' /\ AnswersAreJudged'
    BY <2>1 DEF FailureInv, AnswersAreJudged
  <2>10. InvalidFieldsReadNothing'
    BY <1>1, <1>3, <2>1 DEF IInv, InvalidFieldsReadNothing, WellFormed, Planned
  <2> QED
    BY <2>5, <2>6, <2>7, <2>8, <2>9, <2>10 DEF IInv
<1>6. CASE ~FitsSlot(Loaded[index])
  <2>1. EndWith("invalid_market_data") /\ UNCHANGED <<index, opening, series>>
    BY <1>6 DEF ValidateCandle
  <2>2. ~Faithful
    <3>1. index \in 1 .. Len(Loaded) /\ index - 1 = Len(series)
      BY <1>1, <1>2, <1>3
    <3> QED
      BY <1>3, <1>4, <1>6, <3>1 DEF FitsSlot, Faithful, Boundary
  <2> QED
    BY <1>1, <2>1, <2>2, FailingPreserves
<1> QED
  BY <1>5, <1>6

LEMMA CompleteSeriesPreserves == IInv /\ CompleteSeries => IInv'
<1> SUFFICES ASSUME IInv, CompleteSeries PROVE IInv'
  OBVIOUS
<1>1. /\ pc = "series" /\ index > Len(Loaded) /\ pc' = "calculate"
      /\ UNCHANGED <<request, ctx, evaluatedAt, asked, status, answer, index, opening, series, outcome>>
  BY DEF CompleteSeries, Live
<1>2. Len(series) = request.count
  <2>1. index = Len(series) + 1 /\ Len(series) <= Len(Loaded) /\ Len(Loaded) = request.count
    BY <1>1 DEF IInv, SeriesInv, ParsedInv, Accepted, Judging
  <2>2. Len(series) \in Nat /\ Len(Loaded) \in Nat
    BY InputsAreTyped DEF IInv
  <2> QED
    BY <1>1, <2>1, <2>2
<1>3. TypeOK' /\ OutcomeInv' /\ AskedInv' /\ ReadInv'
  BY <1>1 DEF IInv, TypeOK, OutcomeInv, AskedInv, ReadInv, WellFormed, Planned, Holding, Judging
<1>4. ParsedInv' /\ SeriesInv'
  BY <1>1, <1>2 DEF IInv, ParsedInv, SeriesInv, Accepted, Judging, Loaded, Boundary
<1>5. FailureInv' /\ AnswersAreJudged' /\ InvalidFieldsReadNothing'
  BY <1>1 DEF IInv, FailureInv, AnswersAreJudged, InvalidFieldsReadNothing, Faithful,
              Loaded, WellFormed, Planned
<1> QED
  BY <1>3, <1>4, <1>5 DEF IInv

LEMMA CalculatePreserves == IInv /\ Calculate => IInv'
<1> SUFFICES ASSUME IInv, Calculate PROVE IInv'
  OBVIOUS
<1>1. /\ pc = "calculate" /\ pc' = "respond"
      /\ UNCHANGED <<request, ctx, evaluatedAt, asked, status, answer, index, opening, series, outcome>>
  BY DEF Calculate, Live
<1>2. TypeOK' /\ OutcomeInv' /\ AskedInv' /\ ReadInv'
  BY <1>1 DEF IInv, TypeOK, OutcomeInv, AskedInv, ReadInv, WellFormed, Planned, Holding, Judging
<1>3. ParsedInv' /\ SeriesInv'
  BY <1>1 DEF IInv, ParsedInv, SeriesInv, Accepted, Judging, Loaded, Boundary
<1>4. FailureInv' /\ AnswersAreJudged' /\ InvalidFieldsReadNothing'
  BY <1>1 DEF IInv, FailureInv, AnswersAreJudged, InvalidFieldsReadNothing, Faithful,
              Loaded, WellFormed, Planned
<1> QED
  BY <1>2, <1>3, <1>4 DEF IInv

LEMMA RespondPreserves == IInv /\ Respond => IInv'
<1> SUFFICES ASSUME IInv, Respond PROVE IInv'
  OBVIOUS
<1>1. PICK kind \in {"ok", "response_too_large"} : EndWith(kind)
  BY DEF Respond
<1>2. /\ pc = "respond" /\ pc \in Holding
      /\ UNCHANGED <<request, ctx, evaluatedAt, asked, status, answer, index, opening, series>>
  BY DEF Respond, Holding, Judging
<1>3. CASE kind = "response_too_large"
  BY <1>1, <1>2, <1>3, FailingPreserves
<1>4. CASE kind = "ok"
  <2>1. pc' = "done" /\ outcome' = "ok" /\ status = "OK" /\ asked # NoRange
    BY <1>1, <1>2, <1>4 DEF EndWith, IInv, ReadInv, AskedInv
  <2>2. Faithful
    <3>1. /\ answer.matches /\ Len(Loaded) = request.count /\ Len(series) = request.count
          /\ \A k \in 1 .. Len(Loaded) : Loaded[k].parses
      BY <1>2 DEF IInv, ParsedInv, SeriesInv, Accepted, Judging
    <3>2. \A k \in 1 .. Len(Loaded) :
            /\ series[k] = Loaded[k] /\ series[k].sound
            /\ series[k].open = Boundary(k - 1) /\ series[k].close = Boundary(k)
      BY <3>1 DEF IInv, SeriesInv
    <3> QED
      BY <3>1, <3>2 DEF Faithful, Boundary
  <2>3. TypeOK' /\ OutcomeInv' /\ AskedInv' /\ ReadInv'
    BY <1>2, <2>1 DEF IInv, TypeOK, OutcomeInv, AskedInv, ReadInv, WellFormed, Planned, Holding, Judging
  <2>4. ParsedInv' /\ SeriesInv'
    BY <1>2, <2>1 DEF IInv, ParsedInv, SeriesInv, Accepted, Judging, Loaded, Boundary
  <2>5. FailureInv' /\ AnswersAreJudged'
    BY <1>2, <2>1, <2>2 DEF FailureInv, AnswersAreJudged, Faithful, Loaded
  <2>6. InvalidFieldsReadNothing'
    BY <1>2, <2>1 DEF IInv, InvalidFieldsReadNothing, WellFormed, Planned
  <2> QED
    BY <2>3, <2>4, <2>5, <2>6 DEF IInv
<1> QED
  BY <1>3, <1>4

LEMMA EndContextPreserves ==
  ASSUME IInv, NEW how \in {"canceled", "expired"}, EndContext(how)
  PROVE  IInv'
<1>1. /\ pc # "done" /\ outcome = "none" /\ ctx' = how
      /\ UNCHANGED <<request, pc, evaluatedAt, asked, status, answer, index, opening, series, outcome>>
  BY DEF EndContext, IInv, OutcomeInv
<1>2. TypeOK' /\ OutcomeInv' /\ AskedInv' /\ ReadInv'
  BY <1>1 DEF IInv, TypeOK, OutcomeInv, AskedInv, ReadInv, WellFormed, Planned, Holding, Judging
<1>3. ParsedInv' /\ SeriesInv'
  BY <1>1 DEF IInv, ParsedInv, SeriesInv, Accepted, Judging, Loaded, Boundary
<1>4. FailureInv' /\ AnswersAreJudged' /\ InvalidFieldsReadNothing'
  BY <1>1 DEF IInv, FailureInv, AnswersAreJudged, InvalidFieldsReadNothing, WellFormed, Planned
<1> QED
  BY <1>2, <1>3, <1>4 DEF IInv

LEMMA StutterPreserves == IInv /\ UNCHANGED vars => IInv'
<1> SUFFICES ASSUME IInv, UNCHANGED vars PROVE IInv'
  OBVIOUS
<1> USE DEF vars
<1>1. TypeOK' /\ OutcomeInv' /\ AskedInv' /\ ReadInv'
  BY DEF IInv, TypeOK, OutcomeInv, AskedInv, ReadInv, WellFormed, Planned, Holding, Judging
<1>2. ParsedInv' /\ SeriesInv'
  BY DEF IInv, ParsedInv, SeriesInv, Accepted, Judging, Loaded, Boundary
<1>3. FailureInv' /\ AnswersAreJudged' /\ InvalidFieldsReadNothing'
  BY DEF IInv, FailureInv, AnswersAreJudged, InvalidFieldsReadNothing, Faithful,
         Loaded, WellFormed, Planned
<1> QED
  BY <1>1, <1>2, <1>3 DEF IInv

LEMMA NextPreserves == IInv /\ [Next]_vars => IInv'
<1> SUFFICES ASSUME IInv, [Next]_vars PROVE IInv'
  OBVIOUS
<1>1. CASE Handler
  BY <1>1, ParseSettingsPreserves, PreparePreserves, ReadInterruptedPreserves,
     ParseCandlePreserves, CheckSeriesPreserves, ValidateCandlePreserves,
     CompleteSeriesPreserves, CalculatePreserves, InterruptedPreserves, RespondPreserves
     DEF Handler
<1>2. CASE Receive
  BY <1>2, ReceivePreserves
<1>3. CASE UpstreamFails
  BY <1>3, UpstreamFailsPreserves
<1>4. CASE Cancel \/ Expire
  BY <1>4, EndContextPreserves DEF Cancel, Expire
<1>5. CASE UNCHANGED vars
  BY <1>5, StutterPreserves
<1> QED
  BY <1>1, <1>2, <1>3, <1>4, <1>5 DEF Next
-----------------------------------------------------------------------------
(* The inductive invariant holds in every state of a request.              *)
THEOREM RequestInv == Spec => []IInv
<1>1. Init => IInv
  BY InitHolds
<1>2. IInv /\ [Next]_vars => IInv'
  BY NextPreserves
<1> QED
  BY <1>1, <1>2, PTL DEF Spec

(* Every variable of a request keeps to its type: no instant outside the   *)
(* calendar is computed, no status or outcome made up.                     *)
THEOREM RequestIsTyped == Spec => []TypeOK
<1>1. IInv => TypeOK
  BY DEF IInv
<1> QED
  BY <1>1, RequestInv, PTL

(* A series that is analyzed starts and ends with the range that was asked *)
(* for and has no gap: the one backward shift of the selection and the     *)
(* forward walk of NewCandleSeries meet, in every calendar.                *)
THEOREM AnalyzedSeriesIsComplete == Spec => []SeriesCoversRange
<1>1. IInv => SeriesCoversRange
  <2> SUFFICES ASSUME IInv, pc \in {"calculate", "respond"} \/ outcome = "ok"
               PROVE  /\ Len(series) = request.count
                      /\ series[1].open = asked.from
                      /\ series[Len(series)].close = asked.to
                      /\ \A k \in 1 .. Len(series) - 1 : series[k].close = series[k + 1].open
    BY DEF SeriesCoversRange
  <2>1. Len(series) = request.count /\ asked # NoRange
    BY DEF IInv, SeriesInv, AskedInv, ReadInv, AnswersAreJudged, Holding, Judging
  <2>2. /\ Boundary(0) = asked.from /\ Boundary(request.count) = asked.to
        /\ request.count > 0 /\ request.count \in Nat
    BY <2>1, RangeAsked, InputsAreTyped DEF IInv
  <2>3. \A k \in 1 .. Len(series) :
          series[k].open = Boundary(k - 1) /\ series[k].close = Boundary(k)
    BY DEF IInv, SeriesInv
  <2>4. series[1].open = Boundary(0)
    <3>1. 1 \in 1 .. Len(series) /\ 1 - 1 = 0
      BY <2>1, <2>2
    <3> QED
      BY <2>3, <3>1
  <2>5. series[Len(series)].close = Boundary(request.count)
    <3>1. Len(series) \in 1 .. Len(series)
      BY <2>1, <2>2
    <3> QED
      BY <2>1, <2>3, <3>1
  <2>6. ASSUME NEW k \in 1 .. Len(series) - 1 PROVE series[k].close = series[k + 1].open
    <3>1. k \in 1 .. Len(series) /\ k + 1 \in 1 .. Len(series) /\ (k + 1) - 1 = k
      BY <2>1, <2>2
    <3> QED
      BY <2>3, <3>1
  <2> QED
    BY <2>1, <2>2, <2>4, <2>5, <2>6
<1> QED
  BY <1>1, RequestInv, PTL

(* No candle that was still open when the clock was read gets into a       *)
(* series, whatever calendar and whatever clock.                           *)
THEOREM AnalyzedCandlesAreClosed == Spec => []OnlyClosedCandles
<1>1. IInv => OnlyClosedCandles
  <2> SUFFICES ASSUME IInv, NEW k \in 1 .. Len(series)
               PROVE  series[k].close <= evaluatedAt
    BY DEF OnlyClosedCandles
  <2>1. series \in Seq(Candle) /\ Len(series) \in Nat /\ request.count \in Nat
    BY InputsAreTyped DEF IInv
  <2>2. series # <<>> /\ k \in 0 .. request.count
    BY <2>1 DEF IInv, SeriesInv
  <2>3. asked # NoRange
    BY <2>2 DEF IInv, SeriesInv
  <2>4. series[k].close = Boundary(k)
    BY DEF IInv, SeriesInv
  <2>5. Boundary(k) \in 0 .. LastInstant /\ Boundary(k) <= asked.to
    BY <2>2, <2>3, RangeAsked DEF IInv
  <2>6. asked.to = Planned.to /\ Planned.to <= evaluatedAt /\ Planned # NoRange
    BY <2>3 DEF IInv, AskedInv, WellFormed
  <2>7. Planned.to \in 0 .. LastInstant /\ evaluatedAt \in {NoInstant} \cup 0 .. LastInstant
    BY <2>6, PlannedRangeIsTyped DEF IInv, TypeOK
  <2> QED
    BY <2>4, <2>5, <2>6, <2>7, CalendarAssumption DEF NoInstant
<1> QED
  BY <1>1, RequestInv, PTL

(* A request with an invalid field never reaches Market Data, and a valid  *)
(* one is refused only for a range that is not over; Market Data is blamed *)
(* for its data exactly when the data is not the series asked for, and a   *)
(* context error names the end the context had.                            *)
THEOREM BlameIsRight == Spec => []ErrorsAreAttributed
<1>1. IInv => ErrorsAreAttributed
  BY DEF IInv, ErrorsAreAttributed
<1> QED
  BY <1>1, RequestInv, PTL

(* What Market Data's status code becomes on its way to the caller: itself *)
(* if the caller can act on it, Internal if not.                           *)
LEMMA ActionableCodesSurvive ==
  ASSUME NEW code
  PROVE  /\ code \in Actionable => CodeFor(KindOf(code)) = code
         /\ code \notin Actionable => CodeFor(KindOf(code)) = "Internal"
<1>1. CASE code \in Actionable
  <2>1. code \in DOMAIN UpstreamKinds
    BY <1>1 DEF Actionable, UpstreamKinds
  <2>2. KindOf(code) = UpstreamKinds[code]
    BY <2>1 DEF KindOf
  <2> QED
    BY <1>1, <2>2 DEF Actionable, UpstreamKinds, CodeFor, PublicCodes
<1>2. CASE code \notin Actionable
  <2>1. code \notin DOMAIN UpstreamKinds
    BY <1>2 DEF Actionable, UpstreamKinds
  <2> QED
    BY <1>2, <2>1 DEF KindOf, CodeFor, PublicCodes
<1> QED
  BY <1>1, <1>2

(* The code of a failed call tells its caller what to do, whichever codes  *)
(* Market Data fails with.                                                 *)
THEOREM CodesTellWhatToDo == Spec => []CodesComeThrough
<1>1. IInv => CodesComeThrough
  <2> SUFFICES ASSUME IInv, outcome \notin {"none", "ok"} PROVE CodesComeThrough
    BY DEF CodesComeThrough
  <2> DEFINE code == CodeFor(outcome)
  <2>1. CASE outcome = "invalid_parameter" /\ status = "unread" /\ asked = NoRange
    BY <2>1 DEF CodesComeThrough, Actionable, CodeFor, PublicCodes
  <2>2. CASE status \in UpstreamCodes /\ outcome = KindOf(status)
    <3>1. status \notin {"unread", "OK"}
      BY <2>2, AnalysisAssumption
    <3>2. /\ status \in Actionable => code = status
          /\ status \notin Actionable => code = "Internal"
      BY <2>2, ActionableCodesSurvive
    <3> QED
      BY <3>1, <3>2 DEF CodesComeThrough, Actionable
  <2>3. CASE /\ status \in {"unread", "OK"}
             /\ outcome \in {"invalid_market_data", "request_canceled", "request_timeout",
                             "response_too_large"}
    <3>1. code \in {"DataLoss", "Canceled", "DeadlineExceeded", "ResourceExhausted"}
      BY <2>3 DEF CodeFor, PublicCodes
    <3> QED
      BY <2>3, <3>1 DEF CodesComeThrough, Actionable
  <2> QED
    BY <2>1, <2>2, <2>3 DEF IInv, FailureInv
<1> QED
  BY <1>1, RequestInv, PTL
=============================================================================
