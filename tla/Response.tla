------------------------------ MODULE Response ------------------------------
(***************************************************************************)
(* What a response shows of a result, and the release checks on it: the    *)
(* mapping of internal/transport/grpc/response.go, and validateResult of   *)
(* internal/releasevalidation/runner.go, which takes a response apart with *)
(* no more than its own candles at hand.                                   *)
(*                                                                         *)
(* A price text is [value, spelling]: Market Data may write 1.5 or 1.50,   *)
(* here in the spelling of its candle, and the checks compare texts.       *)
(* Candle k of a series opens at k and closes at k + 1.                    *)
(***************************************************************************)
EXTENDS Formatting, Sequences

None == [absent |-> TRUE]
Kinds == {"HIGH", "LOW"}
Roles == {"SUPPORT", "RESISTANCE", "AT_PRICE"}

OpenTime(k) == k
CloseTime(k) == k + 1

(* FormatNumber has one spelling for each value.                           *)
Formatted(value) == [value |-> FormatNumber(value), spelling |-> -1]

(* mapCandles hands on the texts of the source.                            *)
MapCandle(candle, k) ==
  [openTime |-> OpenTime(k), closeTime |-> CloseTime(k),
   high  |-> [value |-> candle.high,  spelling |-> k],
   low   |-> [value |-> candle.low,   spelling |-> k],
   close |-> [value |-> candle.close, spelling |-> k]]

MapCandles(series) == [k \in DOMAIN series |-> MapCandle(series[k], k)]

(* The price of a point, and the price that confirmed it: the text of the  *)
(* candle they were taken from.                                            *)
SourcePriceFormatted(candle, source, kind) ==   \* fault: the parsed price is formatted
  Formatted(IF source = "CLOSE" THEN candle.close.value
            ELSE IF kind = "HIGH" THEN candle.high.value ELSE candle.low.value)

SourcePrice(candle, source, kind) ==
  IF source = "CLOSE" THEN candle.close
  ELSE IF kind = "HIGH" THEN candle.high ELSE candle.low

ConfirmationPriceOfKind(candle, source, kind) ==   \* fault: the same side as the point
  IF source = "CLOSE" THEN candle.close
  ELSE IF kind = "HIGH" THEN candle.high ELSE candle.low

ConfirmationPrice(candle, source, kind) ==
  IF source = "CLOSE" THEN candle.close
  ELSE IF kind = "HIGH" THEN candle.low ELSE candle.high

(* confirmedPoint's times, then mapExtremaResult.  Only a point found by   *)
(* a reversal has a threshold, only one by an ATR reversal a candidate ATR.*)
MapPoint(p, candles, source) ==
  [kind             |-> p.kind,
   index            |-> p.index,
   time             |-> OpenTime(p.index),
   price            |-> SourcePrice(candles[p.index], source, p.kind),
   confirmation     |-> p.confirmation,
   confirmationTime |-> CloseTime(p.confirmation),
   reversal         |->
     IF "reversal" \notin DOMAIN p THEN None
     ELSE [threshold         |-> Formatted(p.reversal.threshold),
           confirmationPrice |-> ConfirmationPrice(candles[p.confirmation], source, p.kind),
           candidateATR      |-> IF "atr" \in DOMAIN p.reversal
                                   THEN Formatted(p.reversal.atr) ELSE None]]

MapExtrema(points, candles, source) ==
  [k \in DOMAIN points |-> MapPoint(points[k], candles, source)]

(* A result that a response cannot show is an internal error.              *)
Mappable(points, candles) ==
  \A k \in DOMAIN points :
    /\ points[k].index \in DOMAIN candles /\ points[k].confirmation \in DOMAIN candles
    /\ points[k].kind \in Kinds

(* zoneFromGroup's touch times, then mapZone.                              *)
MapZone(z) ==
  [lower          |-> Formatted(z.lower),
   upper          |-> Formatted(z.upper),
   representative |-> Formatted(z.representative),
   role           |-> z.role,
   extrema        |-> [k \in DOMAIN z.extrema |-> z.extrema[k] - 1],
   touches        |-> z.touches,
   count          |-> Len(z.touches),
   firstTouch     |-> OpenTime(z.touches[1]),
   lastTouch      |-> OpenTime(z.touches[Len(z.touches)])]
-----------------------------------------------------------------------------
(* validateCandle, and the contiguity that validateResult asks for.        *)
ValidCandle(candles, k) ==
  LET c == candles[k]
  IN  /\ c.openTime < c.closeTime
      /\ c.low.value > 0
      /\ c.low.value <= c.close.value /\ c.close.value <= c.high.value
      /\ k > 0 => candles[k - 1].closeTime = c.openTime

(* validateExtrema, for one of its points.                                 *)
ValidReversal(p, confirmation, source, method) ==
  /\ method = "local" <=> p.reversal = None
  /\ p.reversal # None =>
       /\ method = "atr" => p.reversal.candidateATR # None
       /\ p.reversal.confirmationPrice =
            IF source # "HIGH_LOW" THEN confirmation.close
            ELSE IF p.kind = "HIGH" THEN confirmation.low ELSE confirmation.high

ValidPoint(p, candles, source, method) ==
  /\ p.index \in DOMAIN candles /\ p.confirmation \in DOMAIN candles
  /\ p.time = candles[p.index].openTime
  /\ p.confirmationTime = candles[p.confirmation].closeTime
  /\ p.confirmation >= p.index
  /\ p.kind \in Kinds
  /\ p.price = IF source # "HIGH_LOW" THEN candles[p.index].close
               ELSE IF p.kind = "HIGH" THEN candles[p.index].high ELSE candles[p.index].low
  /\ ValidReversal(p, candles[p.confirmation], source, method)

(* validateZones, for one of the zones; extrema are counted from 0.        *)
ValidZone(z, candles, extrema, minTouches) ==
  /\ z.count = Len(z.touches) /\ z.count >= minTouches
  /\ z.lower.value <= z.upper.value
  /\ z.representative.value >= z.lower.value /\ z.representative.value <= z.upper.value
  /\ z.role \in Roles
  /\ \A k \in DOMAIN z.extrema : z.extrema[k] \in 0 .. Len(extrema) - 1
  /\ \A k \in DOMAIN z.touches : z.touches[k] \in DOMAIN candles
  /\ z.count > 0 =>
       /\ z.firstTouch = candles[z.touches[1]].openTime
       /\ z.lastTouch = candles[z.touches[z.count]].openTime

ValidResult(view) ==
  /\ \A k \in DOMAIN view.candles : ValidCandle(view.candles, k)
  /\ \A k \in DOMAIN view.extrema :
       ValidPoint(view.extrema[k], view.candles, view.source, view.method)
  /\ \A k \in DOMAIN view.zones :
       ValidZone(view.zones[k], view.candles, view.extrema, view.minTouches)
=============================================================================
