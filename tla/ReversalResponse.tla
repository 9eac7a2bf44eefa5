-------------------------- MODULE ReversalResponse --------------------------
(***************************************************************************)
(* GetExtrema by reversal as its callers and the release checks see it:    *)
(* the points of ReversalExtrema, mapped by Server.GetExtrema.             *)
(***************************************************************************)
EXTENDS ReversalExtrema

CONSTANT OutputDigits   \* of Formatting

Responses == INSTANCE Response
Detection == INSTANCE Extrema

Settings ==
  [source |-> PriceSource, method |-> Method, pct |-> ReversalPct,
   period |-> ATRPeriod, multiplier |-> ATRMultiplier]

(* confirmed copies the evidence of the candidate into the point.          *)
Evidence(p) ==
  [kind |-> p.kind, index |-> p.index, price |-> p.price, confirmation |-> p.confirmation,
   reversal |-> IF Method = "percent" THEN [threshold |-> p.threshold]
                ELSE [threshold |-> p.threshold, atr |-> atr[p.index]]]

Result == [k \in DOMAIN points |-> Evidence(points[k])]

(* mapExtremaResponse, as analysisCase of the release checks takes it.     *)
ExtremaView ==
  LET candles == Responses!MapCandles(series)
  IN  [candles    |-> candles,
       extrema    |-> Responses!MapExtrema(Result, candles, PriceSource),
       zones      |-> <<>>,
       source     |-> PriceSource,
       method     |-> Method,
       minTouches |-> 0]

(***************************************************************************)
(* The response shows the prices the machine decided by, although it takes *)
(* both from the candles again: a point's price, and the price on the far  *)
(* side of the confirming candle.  With its evidence it passes the release *)
(* checks (releasevalidation/runner.go, validateExtrema).  Trends and      *)
(* zones are given the same points, for the same settings.                 *)
(***************************************************************************)
ResponseShowsDecision ==
  outcome = "completed" =>
    /\ Result = Detection!ReversalPoints(series, Settings, atr)
    /\ Responses!Mappable(points, ExtremaView.candles)
    /\ Responses!ValidResult(ExtremaView)
    /\ \A k \in DOMAIN points :
         LET shown == ExtremaView.extrema[k]
         IN  /\ shown.price.value = points[k].price
             /\ shown.reversal.confirmationPrice.value = points[k].confirmationPrice
=============================================================================
