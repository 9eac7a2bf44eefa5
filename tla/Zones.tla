------------------------------- MODULE Zones -------------------------------
(***************************************************************************)
(* Support and resistance zones of internal/domain/levels.go               *)
(* (CalculateLevels): the confirmed extrema are sorted by price, cut into  *)
(* groups no wider than a multiple of the latest ATR, and a group that was *)
(* touched often enough, at touches far enough apart, becomes a zone.      *)
(***************************************************************************)
EXTENDS LocalExtrema, Numeric, Sorting

CONSTANT
  Requests   \* [series, extrema, atrPeriod, zoneWidthATR, minTouches, spacing]

VARIABLES
  request,
  phase,    \* "detecting", "sorting", "grouping", "done" or "canceled"
  points,   \* the confirmed extrema, in order of time
  order,    \* their indices, in order of price
  start,    \* where in order the next group starts
  width,    \* MaximumZoneWidth
  zones

vars == <<request, phase, points, order, start, width, zones>>

Detection == INSTANCE Extrema

(* The candles are those of a request that was read and validated, and     *)
(* LevelSettings.Validate has accepted the settings.                       *)
ASSUME RequestAssumption ==
  \A r \in Requests :
    /\ Detection!SoundSeries(r.series) /\ Detection!SoundSettings(r.extrema)
    /\ Count(r.series) >= Detection!MinimumCount(r.extrema)
    /\ r.atrPeriod \in Nat \ {0} /\ Count(r.series) >= r.atrPeriod + 1
    /\ r.zoneWidthATR \in Nat \ {0} /\ r.minTouches \in Nat /\ r.minTouches >= 2
    /\ r.spacing \in Nat \ {0}

Close == request.series[Count(request.series) - 1].close

Init ==
  /\ request \in Requests
  /\ phase = "detecting"
  /\ points = <<>>
  /\ order = <<>>
  /\ start = 1
  /\ width = 0
  /\ zones = <<>>

(* The ATR sequence, then the extrema of the same series, for which it is  *)
(* at hand.                                                                *)
ATRSequence == Detection!SequenceOf(request.series, request.atrPeriod)
LatestATR   == ATRSequence.values[Count(request.series) - 1]

Detect ==
  /\ phase = "detecting"
  /\ phase' = "sorting"
  /\ points' = Detection!DetectExtrema(request.series, request.extrema, ATRSequence)
  /\ width' = LatestATR * request.zoneWidthATR
  /\ UNCHANGED <<request, order, start, zones>>

(* The order of buildZones, which leaves no two points equal.              *)
BeforeInTime(a, b) == a < b   \* fault: the points are left in order of time

Before(a, b) ==
  LET p == points[a]
      q == points[b]
  IN  \/ p.price < q.price
      \/ p.price = q.price /\ p.index < q.index
      \/ p.price = q.price /\ p.index = q.index /\ p.kind = "HIGH" /\ q.kind = "LOW"

PointsInOrder == InOrder(DOMAIN points, Before)

Sort ==
  /\ phase = "sorting"
  /\ phase' = "grouping"
  /\ order' = PointsInOrder
  /\ UNCHANGED <<request, points, start, width, zones>>

(* The group that starts at `start': every following point up to the       *)
(* boundary, which stays where the first price puts it.                    *)
Price(k) == points[order[k]].price

GroupEndChained ==   \* fault: the boundary moves along with the group
  Max({ e \in start .. Len(order) :
          \A k \in start + 1 .. e : Price(k) <= Price(k - 1) + width })

GroupEnd ==
  Max({ e \in start .. Len(order) :
          \A k \in start .. e : Price(k) <= Price(start) + width })

(* The touches zoneFromGroup accepts of the group's candles: a candle is   *)
(* held against the last one accepted.  (A candle that is in the group     *)
(* twice is never accepted twice, for the spacing is positive.)            *)
CandlesInOrder(candles) == InOrder(candles, <)

AcceptedFromNeighbour(candles) ==   \* fault: held against the candle before it
  SelectSeq(CandlesInOrder(candles), LAMBDA c :
    \A d \in candles : d < c => c - d >= request.spacing)

Accepted(candles) ==
  LET sorted == CandlesInOrder(candles)
      accepted[k \in 0 .. Len(sorted)] ==
        IF k = 0 THEN <<>>
        ELSE IF accepted[k - 1] = <<>> \/ sorted[k] - Last(accepted[k - 1]) >= request.spacing
          THEN Append(accepted[k - 1], sorted[k])
          ELSE accepted[k - 1]
  IN  accepted[Len(sorted)]

Role(lower, upper) ==
  IF Close > upper THEN "SUPPORT"
  ELSE IF Close < lower THEN "RESISTANCE"
  ELSE "AT_PRICE"

(* zoneFromGroup                                                           *)
ZoneOf(group) ==
  LET lower == points[group[1]].price
      upper == points[Last(group)].price
  IN  [lower          |-> lower,
       upper          |-> upper,
       representative |-> Divide(lower + upper, 2),
       role           |-> Role(lower, upper),
       extrema        |-> group,
       touches        |-> Accepted({ points[k].index : k \in Range(group) })]

(* One iteration of the loop of buildZones.                                *)
Group ==
  /\ phase = "grouping"
  /\ start <= Len(order)
  /\ start' = GroupEnd + 1
  /\ LET zone == ZoneOf(SubSeq(order, start, GroupEnd))
     IN  zones' = IF Len(zone.touches) >= request.minTouches
                    THEN Append(zones, zone) ELSE zones
  /\ UNCHANGED <<request, phase, points, order, width>>

Finish ==
  /\ phase = "grouping"
  /\ start > Len(order)
  /\ phase' = "done"
  /\ UNCHANGED <<request, points, order, start, width, zones>>

(* The context is found ended: between two steps or inside one of them,    *)
(* sorting included.                                                       *)
Cancel ==
  /\ phase \in {"detecting", "sorting", "grouping"}
  /\ phase' = "canceled"
  /\ UNCHANGED <<request, points, order, start, width, zones>>

Next == Detect \/ Sort \/ Group \/ Finish \/ Cancel

Spec == Init /\ [][Next]_vars
-----------------------------------------------------------------------------
TypeOK ==
  /\ request \in Requests
  /\ phase \in {"detecting", "sorting", "grouping", "done", "canceled"}
  /\ width \in Nat
  /\ start \in 1 .. Len(order) + 1
  /\ Range(order) \subseteq DOMAIN points
  /\ \A k \in 1 .. Len(zones) :
       /\ zones[k].lower <= zones[k].upper
       /\ Range(zones[k].extrema) \subseteq DOMAIN points
       /\ zones[k].touches # <<>>

(* The candles with a point priced from p to p + width.                    *)
CandlesFrom(p) ==
  { points[k].index : k \in { j \in DOMAIN points : points[j].price \in p .. p + width } }

(* The largest number of these candles that keep the spacing.              *)
MostTouches(candles) ==
  Max({ Cardinality(S) : S \in { T \in SUBSET candles :
          \A a, b \in T : a < b => b - a >= request.spacing } })

(***************************************************************************)
(* The zones are those that docs/calculations/levels.md describes: an      *)
(* anchor is a price no lower anchor reaches, and each anchor that can be  *)
(* touched often enough gives the zone of all points in its reach, lowest  *)
(* anchor first.  So no retested price is missed, no point is in two       *)
(* zones, and no point between the bounds of a zone is left out of it.     *)
(* Read upwards, the zones are supports, then at most one zone the price   *)
(* is in, then resistances.                                                *)
(***************************************************************************)
ZonesAreAnchored ==
  phase = "done" =>
    LET prices == { points[k].price : k \in DOMAIN points }
        anchor[p \in prices] ==
          \A q \in prices : q < p /\ p <= q + width => ~anchor[q]
    IN  /\ { zones[k].lower : k \in DOMAIN zones } =
             { p \in prices : anchor[p] /\ MostTouches(CandlesFrom(p)) >= request.minTouches }
        /\ \A k \in DOMAIN zones :
             /\ Range(zones[k].extrema) =
                  { j \in DOMAIN points : points[j].price \in zones[k].lower .. zones[k].upper }
             /\ \A j \in Range(order) \ Range(zones[k].extrema) :
                  points[j].price \notin zones[k].lower .. zones[k].lower + width
        /\ \A k \in 2 .. Len(zones) : zones[k - 1].lower < zones[k].lower
        /\ \A j, k \in DOMAIN zones : j < k =>
             /\ zones[k].role # "RESISTANCE" => zones[j].role = "SUPPORT"
             /\ zones[j].role # "SUPPORT" => zones[k].role = "RESISTANCE"

(***************************************************************************)
(* Accepting touches greedily loses none: the number counted is the        *)
(* largest number of the group's candles that keep the spacing, and the    *)
(* first touch is the group's first candle.                                *)
(***************************************************************************)
TouchCountIsMaximal ==
  \A k \in DOMAIN zones :
    LET candles == { points[j].index : j \in Range(zones[k].extrema) }
        touches == zones[k].touches
    IN  /\ Range(touches) \subseteq candles
        /\ touches[1] = Min(candles)
        /\ Len(touches) = MostTouches(candles)
        /\ \A j \in 2 .. Len(touches) : touches[j] - touches[j - 1] >= request.spacing

(***************************************************************************)
(* Every ATR that decides something, the one the width is a multiple of    *)
(* and those the thresholds are multiples of, is what                      *)
(* docs/calculations/atr-natr.md makes of all the true ranges before it,   *)
(* with no reference to the ATR of another candle: the first `period' of   *)
(* them weigh the same, each later one 1 / period at its own candle, and   *)
(* all weights shrink by (period - 1) / period with every candle after.    *)
(* What a value is off by is at most the half units its divisions were     *)
(* rounded by, which shrink likewise.  (Quotients keep whole units here.)  *)
(***************************************************************************)
WeighsTrueRanges(atr, k, period) ==
  LET trueRange(j)   == Detection!Wilder!TrueRange(request.series[j], request.series[j - 1].close)
      power(b, e)    == IF e = 0 THEN 1 ELSE b ^ e
      kept(n)        == power(period - 1, n)
      weight(j)      == IF j <= period THEN kept(k - period)
                                       ELSE kept(k - j) * power(period, j - period)
      scale          == power(period, k - period + 1)
      weighed        == MapThenSumSet(LAMBDA j : weight(j) * trueRange(j), 1 .. k)
      rounding       == period * (scale - kept(k - period + 1))
  IN  /\ 2 * (scale * atr - weighed) <= rounding
      /\ 2 * (weighed - scale * atr) <= rounding

ATRsWeighTrueRanges ==
  phase = "sorting" =>
    /\ \E atr \in 0 .. width :
         /\ width = atr * request.zoneWidthATR
         /\ WeighsTrueRanges(atr, Count(request.series) - 1, request.atrPeriod)
    /\ request.extrema.method = "atr" =>
         \A p \in Range(points) :
           /\ p.reversal.threshold = p.reversal.atr * request.extrema.multiplier
           /\ WeighsTrueRanges(p.reversal.atr, p.index, request.extrema.period)

(***************************************************************************)
(* releasevalidation/runner.go:443, of every zone of every response: the   *)
(* representative price lies within the bounds, as the response states     *)
(* them.                                                                   *)
(***************************************************************************)
RepresentativeWithinBounds ==
  phase = "done" =>
    \A k \in DOMAIN zones :
      /\ FormatNumber(zones[k].lower) <= FormatNumber(zones[k].representative)
      /\ FormatNumber(zones[k].representative) <= FormatNumber(zones[k].upper)
=============================================================================
