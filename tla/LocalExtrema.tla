---------------------------- MODULE LocalExtrema ----------------------------
(***************************************************************************)
(* The neighbouring-candle extrema of internal/domain/extrema.go           *)
(* (localExtrema), as a pure function of a series: a candle is a HIGH when *)
(* its price is strictly above that of every other candle at most `span'   *)
(* away, a LOW when strictly below, and only candles with `span' candles   *)
(* on both sides are looked at.                                            *)
(*                                                                         *)
(* A series is a function from 0 .. n - 1 to candles [high, low, close].   *)
(***************************************************************************)
EXTENDS Integers, FiniteSetsExt, SequencesExt

Count(series) == Cardinality(DOMAIN series)

(* selectedPrices                                                          *)
HighPrice(candle, source) == IF source = "CLOSE" THEN candle.close ELSE candle.high
LowPrice(candle, source)  == IF source = "CLOSE" THEN candle.close ELSE candle.low

IsHigh(series, source, span, i) ==
  \A j \in (i - span .. i + span) \ {i} :
    HighPrice(series[j], source) < HighPrice(series[i], source)

IsLow(series, source, span, i) ==
  \A j \in (i - span .. i + span) \ {i} :
    LowPrice(series[j], source) > LowPrice(series[i], source)

(* confirmedPoint: known once the last candle of the window has closed.    *)
PointAt(kind, i, price, span) ==
  [kind |-> kind, index |-> i, price |-> price, confirmation |-> i + span]

(* The points of candle i, the high before the low.                        *)
PointsAt(series, source, span, i) ==
  (IF IsHigh(series, source, span, i)
     THEN <<PointAt("HIGH", i, HighPrice(series[i], source), span)>> ELSE <<>>)
  \o
  (IF IsLow(series, source, span, i)
     THEN <<PointAt("LOW", i, LowPrice(series[i], source), span)>> ELSE <<>>)

(* fault: the window is cut off at the end of the series, so that the last *)
(* candles are candidates as well                                          *)
LocalPointsToTheEnd(series, source, span) ==
  LET last     == Count(series) - 1
      padded   == [k \in -span .. last + span |->
                     IF k \in DOMAIN series THEN series[k]
                     ELSE [high |-> 0, low |-> 999, close |-> 0]]
  IN  FlattenSeq([k \in 1 .. last + 1 - span |->
                    PointsAt(padded, source, span, k + span - 1)])

LocalPoints(series, source, span) ==
  FlattenSeq([k \in 1 .. Count(series) - 2 * span |->
                PointsAt(series, source, span, k + span - 1)])
=============================================================================
