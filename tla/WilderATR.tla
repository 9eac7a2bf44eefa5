----------------------------- MODULE WilderATR -----------------------------
(***************************************************************************)
(* The Wilder average true range of internal/domain/atr.go, as a pure      *)
(* function of a candle series.  Prices are naturals, in units small       *)
(* enough for the instance at hand.  A series is a function from the       *)
(* zero-based candle indices of the code to candles.                       *)
(***************************************************************************)
EXTENDS Integers, FiniteSetsExt

CONSTANT
  Divide(_, _)   \* domain.Divide: the rounded quotient of two decimals

(***************************************************************************)
(* The true range of a candle: the widest of its own range and of the      *)
(* distances of its high and of its low from the previous close.           *)
(***************************************************************************)
TrueRange(candle, previousClose) ==
  Max({ candle.high - candle.low,
        candle.high - previousClose, previousClose - candle.high,
        candle.low - previousClose, previousClose - candle.low })

(***************************************************************************)
(* calculateATRSequence: the values of the candles from index `period' on. *)
(* The first is the mean of the first `period' true ranges, each later one *)
(* the Wilder smoothing of its predecessor.  Candle 0 only lends its close.*)
(***************************************************************************)
ATRSequenceMoving(series, period) ==   \* fault: every value is a mean of its own
  LET tr(i) == TrueRange(series[i], series[i - 1].close)
  IN  [i \in period .. Max(DOMAIN series) |->
         Divide(MapThenSumSet(tr, i - period + 1 .. i), period)]

ATRSequenceShort(series, period) ==   \* fault: the sum lacks the last of its candles
  LET tr(i) == TrueRange(series[i], series[i - 1].close)
      sum[i \in 0 .. period - 1] == IF i = 0 THEN 0 ELSE sum[i - 1] + tr(i)
      atr[i \in period .. Max(DOMAIN series)] ==
        IF i = period
          THEN Divide(sum[period - 1], period)
          ELSE Divide(atr[i - 1] * (period - 1) + tr(i), period)
  IN  atr

ATRSequenceOf(series, period) ==
  LET tr(i) == TrueRange(series[i], series[i - 1].close)
      sum[i \in 0 .. period] == IF i = 0 THEN 0 ELSE sum[i - 1] + tr(i)
      atr[i \in period .. Max(DOMAIN series)] ==
        IF i = period
          THEN Divide(sum[period], period)
          ELSE Divide(atr[i - 1] * (period - 1) + tr(i), period)
  IN  atr
=============================================================================
