------------------------------- MODULE Trend -------------------------------
(***************************************************************************)
(* The trend classification of internal/domain/trend.go (CalculateTrend):  *)
(* the confirmed extrema of the selected candles are read once, in order,  *)
(* into one summary of the highs and one of the lows, and the first of six *)
(* ordered rules that fits decides.                                        *)
(***************************************************************************)
EXTENDS Extrema

CONSTANT
  Requests   \* [series, extrema, tolerancePct]

VARIABLES
  request,
  phase,        \* "detecting", "reading", "classified" or "canceled"
  points,       \* the confirmed extrema
  seen,         \* how many of them the summaries hold
  highs, lows,  \* priceStructure: the summaries
  range,        \* the highest and lowest selected price of all candles
  verdict       \* the state and the reason

vars == <<request, phase, points, seen, highs, lows, range, verdict>>

(* The candles are those of a request that was read and validated, and     *)
(* TrendSettings.Validate has accepted the settings: the tolerance is not  *)
(* negative, nor is its rounded quotient.                                  *)
ASSUME TrendAssumption ==
  \A r \in Requests :
    /\ SoundSeries(r.series) /\ SoundSettings(r.extrema)
    /\ Count(r.series) >= MinimumCount(r.extrema)
    /\ Divide(r.series[Count(r.series) - 1].close * r.tolerancePct, 100) \in Nat

States  == {"UP", "DOWN", "SIDEWAYS", "UNDETERMINED"}
Reasons == {"flat_range", "insufficient_structure", "rising_structure",
            "falling_structure", "structure_broken", "horizontal_structure",
            "mixed_structure"}

(* classifyTrend: the closing price the verdict refers to, and the         *)
(* tolerance in units of price.                                            *)
Close     == request.series[Count(request.series) - 1].close
Tolerance == Divide(Close * request.tolerancePct, 100)

Empty == [count |-> 0, last |-> 0, min |-> 0, max |-> 0,
          rising |-> FALSE, falling |-> FALSE]

(* priceStructure.add                                                      *)
AddAbove(s, price) ==   \* fault: a rise is measured from the lowest price
  IF s.count = 0
    THEN [count |-> 1, last |-> price, min |-> price, max |-> price,
          rising |-> TRUE, falling |-> TRUE]
    ELSE [count   |-> s.count + 1,
          last    |-> price,
          min     |-> Min({s.min, price}),
          max     |-> Max({s.max, price}),
          rising  |-> s.rising /\ price - s.min > Tolerance,
          falling |-> s.falling /\ price - s.last < -Tolerance]

AddDistinct(s, price) ==   \* fault: an equal price is not counted
  IF s.count = 0
    THEN [count |-> 1, last |-> price, min |-> price, max |-> price,
          rising |-> TRUE, falling |-> TRUE]
    ELSE [s EXCEPT !.count   = IF price = s.last THEN @ ELSE @ + 1,
                   !.last    = price,
                   !.min     = Min({@, price}),
                   !.max     = Max({@, price}),
                   !.rising  = @ /\ price - s.last > Tolerance,
                   !.falling = @ /\ price - s.last < -Tolerance]

Add(s, price) ==
  IF s.count = 0
    THEN [count |-> 1, last |-> price, min |-> price, max |-> price,
          rising |-> TRUE, falling |-> TRUE]
    ELSE [count   |-> s.count + 1,
          last    |-> price,
          min     |-> Min({s.min, price}),
          max     |-> Max({s.max, price}),
          rising  |-> s.rising /\ price - s.last > Tolerance,
          falling |-> s.falling /\ price - s.last < -Tolerance]

Init ==
  /\ request \in Requests
  /\ phase = "detecting"
  /\ points = <<>>
  /\ seen = 0
  /\ highs = Empty
  /\ lows = Empty
  /\ range = [max |-> 0, min |-> 0]
  /\ verdict = [state |-> "UNDETERMINED", reason |-> "mixed_structure"]

(* DetectExtrema, then the loop over all candles for the complete range.   *)
SelectedRange(s) ==
  [max |-> Max({ HighPrice(s[k], request.extrema.source) : k \in DOMAIN s }),
   min |-> Min({ LowPrice(s[k], request.extrema.source) : k \in DOMAIN s })]

Detect ==
  /\ phase = "detecting"
  /\ phase' = "reading"
  /\ points' = DetectExtrema(request.series, request.extrema, NoSequence)
  /\ range' = SelectedRange(request.series)
  /\ UNCHANGED <<request, seen, highs, lows, verdict>>

(* One iteration of the loop over the points.                              *)
ReadPoint ==
  /\ phase = "reading"
  /\ seen < Len(points)
  /\ seen' = seen + 1
  /\ IF points[seen + 1].kind = "HIGH"
       THEN highs' = Add(highs, points[seen + 1].price) /\ UNCHANGED lows
       ELSE lows' = Add(lows, points[seen + 1].price) /\ UNCHANGED highs
  /\ UNCHANGED <<request, phase, points, range, verdict>>

(* The conditions of the switch.                                           *)
FlatRange    == range.max - range.min <= Tolerance
TooFewPoints == highs.count < 2 \/ lows.count < 2
Rising       == highs.rising /\ lows.rising
Falling      == highs.falling /\ lows.falling
Horizontal   ==
  /\ highs.max - highs.min <= Tolerance
  /\ lows.max - lows.min <= Tolerance
  /\ Close >= lows.min - Tolerance
  /\ Close <= highs.max + Tolerance

Because(state, reason) == [state |-> state, reason |-> reason]

(* The switch: the first rule that fits.                                   *)
Verdict ==
  IF FlatRange THEN Because("SIDEWAYS", "flat_range")
  ELSE IF TooFewPoints THEN Because("UNDETERMINED", "insufficient_structure")
  ELSE IF Rising THEN
    IF Close < lows.last - Tolerance THEN Because("UNDETERMINED", "structure_broken")
                                     ELSE Because("UP", "rising_structure")
  ELSE IF Falling THEN
    IF Close > highs.last + Tolerance THEN Because("UNDETERMINED", "structure_broken")
                                      ELSE Because("DOWN", "falling_structure")
  ELSE IF Horizontal THEN Because("SIDEWAYS", "horizontal_structure")
  ELSE Because("UNDETERMINED", "mixed_structure")

Classify ==
  /\ phase = "reading"
  /\ seen = Len(points)
  /\ phase' = "classified"
  /\ verdict' = Verdict
  /\ UNCHANGED <<request, points, seen, highs, lows, range>>

(* The context is found ended before, in or after one of the loops.        *)
Cancel ==
  /\ phase \in {"detecting", "reading"}
  /\ phase' = "canceled"
  /\ UNCHANGED <<request, points, seen, highs, lows, range, verdict>>

Next == Detect \/ ReadPoint \/ Classify \/ Cancel

Spec == Init /\ [][Next]_vars
-----------------------------------------------------------------------------
TypeOK ==
  /\ request \in Requests
  /\ phase \in {"detecting", "reading", "classified", "canceled"}
  /\ seen \in 0 .. Len(points)
  /\ highs.count + lows.count = seen
  /\ range.min <= range.max
  /\ verdict \in [state : States, reason : Reasons]

(* The points of one kind, in order of time.                               *)
Of(kind) == { k \in DOMAIN points : points[k].kind = kind }

Several(kind) == \E j, k \in Of(kind) : j < k
Climbs(kind)  == \A j, k \in Of(kind) : j < k => points[k].price > points[j].price + Tolerance
Sinks(kind)   == \A j, k \in Of(kind) : j < k => points[k].price < points[j].price - Tolerance
Level(kind)   == \A j, k \in Of(kind) : points[j].price - points[k].price <= Tolerance
Latest(kind)  == points[Max(Of(kind))].price

(***************************************************************************)
(* A verdict is what docs/calculations/trend.md says of the points         *)
(* themselves, not of the summaries the loop keeps: UP needs two highs and *)
(* two lows, each more than the tolerance above the ones before, and a     *)
(* close that has not fallen through the latest low; DOWN is its mirror    *)
(* image; SIDEWAYS means that either all candles or both kinds of points   *)
(* keep within the tolerance.                                              *)
(***************************************************************************)
VerdictFollowsStructure ==
  phase = "classified" =>
    LET enough == Several("HIGH") /\ Several("LOW")
        flat   == \A j, k \in DOMAIN request.series :
                    HighPrice(request.series[j], request.extrema.source)
                      - LowPrice(request.series[k], request.extrema.source) <= Tolerance
    IN  /\ verdict.state = "UP" <=>
             /\ enough /\ Climbs("HIGH") /\ Climbs("LOW")
             /\ Close >= Latest("LOW") - Tolerance
        /\ verdict.state = "DOWN" <=>
             /\ enough /\ Sinks("HIGH") /\ Sinks("LOW")
             /\ Close <= Latest("HIGH") + Tolerance
        /\ verdict.state = "SIDEWAYS" <=>
             \/ flat
             \/ /\ enough /\ Level("HIGH") /\ Level("LOW")
                /\ \E k \in Of("LOW") : Close >= points[k].price - Tolerance
                /\ \E k \in Of("HIGH") : Close <= points[k].price + Tolerance

(***************************************************************************)
(* No point is drawn with hindsight, by any method: what an analysis of    *)
(* the first n candles reports is what a longer one reports of the points  *)
(* confirmed within them, in the same order and with the same evidence.    *)
(***************************************************************************)
PointsAreFinal ==
  phase = "classified" =>
    \A n \in MinimumCount(request.extrema) .. Count(request.series) :
      \E m \in 0 .. Len(points) :
        /\ { k \in DOMAIN points : points[k].confirmation < n } = 1 .. m
        /\ DetectExtrema(Prefix(request.series, n), request.extrema, NoSequence)
             = SubSeq(points, 1, m)
=============================================================================
