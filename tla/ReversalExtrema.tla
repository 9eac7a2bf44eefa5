-------------------------- MODULE ReversalExtrema --------------------------
(***************************************************************************)
(* The reversal state machine of internal/domain/extrema.go: one pass over *)
(* a closed candle series that confirms price peaks and troughs once price *)
(* has moved back from them by a threshold.  The percentage and the ATR    *)
(* method share the machine and differ in where it starts and in the       *)
(* threshold a candidate is given.                                         *)
(*                                                                         *)
(* A candle is [high, low, close]; its other fields play no part here.     *)
(* Prices, thresholds and ATR values are naturals in one unit.             *)
(***************************************************************************)
EXTENDS Integers, Sequences

CONSTANTS
  Candles,        \* the candles a series is made of
  MaxCandles,     \* the longest series considered
  PriceSource,    \* "CLOSE" or "HIGH_LOW"
  Method,         \* "percent" or "atr"
  ReversalPct,    \* the reversal of the percentage method, in percent
  ATRPeriod,      \* the period of the ATR method
  ATRMultiplier,  \* the number of ATRs that make a reversal
  Divide(_, _),   \* domain.Divide: the rounded quotient of two decimals
  ATRSequence(_)  \* a series to its ATR values, from index ATRPeriod on

Prices(c) == { c.high, c.low, c.close }

(***************************************************************************)
(* minimumCount as ExtremaSettings.Validate asks for it, and the index the *)
(* scan starts at: the ATR method needs its first ATR value.               *)
(***************************************************************************)
MinimumCount == IF Method = "atr" THEN ATRPeriod + 2 ELSE 2
Start        == IF Method = "atr" THEN ATRPeriod ELSE 0

SeriesOf(n) == [0 .. n - 1 -> Candles]

ASSUME SettingsAssumption ==
  /\ PriceSource \in {"CLOSE", "HIGH_LOW"}
  /\ Method \in {"percent", "atr"}
  /\ ReversalPct \in 1 .. 99
  /\ ATRPeriod \in Nat \ {0}
  /\ ATRMultiplier \in Nat \ {0}
  /\ MaxCandles \in Nat

ASSUME CandleAssumption ==
  \A c \in Candles :
    /\ Prices(c) \subseteq Nat \ {0}
    /\ c.low <= c.close
    /\ c.close <= c.high

ASSUME ArithmeticAssumption ==
  /\ \A c \in Candles : \A p \in Prices(c) : Divide(p * ReversalPct, 100) \in Nat
  /\ \A n \in MinimumCount .. MaxCandles : \A s \in SeriesOf(n) :
       Method = "atr" => ATRSequence(s) \in [ATRPeriod .. n - 1 -> Nat]
-----------------------------------------------------------------------------
VARIABLES
  count,      \* the length of the series
  series,     \* the candles, oldest first, at the indices 0 .. count - 1
  atr,        \* the ATR sequence of the series
  i,          \* the candle the loop is about to read
  high, low,  \* the candidates: [index, price, threshold]
  searching,  \* the kind being searched for, "UNKNOWN" at first (empty in the code)
  points,     \* the extrema confirmed so far
  outcome     \* "running", "completed" or "canceled"

vars == <<count, series, atr, i, high, low, searching, points, outcome>>

Kinds == {"HIGH", "LOW"}

Candidate == [index : Nat, price : Nat, threshold : Nat]

Point == [kind : Kinds, index : Nat, price : Nat, threshold : Nat,
          confirmation : Nat, confirmationPrice : Nat]

(* selectedPrices: the values of candle k that form candidates.            *)
HighPrice(k) == IF PriceSource = "CLOSE" THEN series[k].close ELSE series[k].high
LowPrice(k)  == IF PriceSource = "CLOSE" THEN series[k].close ELSE series[k].low

(* The threshold newCandidate fixes from the candidate's own candle.       *)
Threshold(k, price) ==
  IF Method = "percent" THEN Divide(price * ReversalPct, 100)
                        ELSE atr[k] * ATRMultiplier

NewCandidate(k, price) ==
  [index |-> k, price |-> price, threshold |-> Threshold(k, price)]

HighCandidate(k) == NewCandidate(k, HighPrice(k))
LowCandidate(k)  == NewCandidate(k, LowPrice(k))

(***************************************************************************)
(* The candidates after candle i has updated them: an equal price moves a  *)
(* candidate to the later candle, and the candidate of the kind just       *)
(* confirmed is left alone.                                                *)
(***************************************************************************)
UpdatedHighStrictly ==   \* fault: an equal price does not move the candidate
  IF searching # "LOW" /\ HighPrice(i) > high.price THEN HighCandidate(i) ELSE high

UpdatedHigh ==
  IF searching # "LOW" /\ HighPrice(i) >= high.price THEN HighCandidate(i) ELSE high

UpdatedLow ==
  IF searching # "HIGH" /\ LowPrice(i) <= low.price THEN LowCandidate(i) ELSE low

(* Whether candle i confirms the (updated) candidate c of either kind.     *)
ConfirmsHighAgain(c) ==   \* fault: the kind just confirmed is not excluded
  /\ c.index < i
  /\ c.threshold > 0
  /\ c.price - LowPrice(i) >= c.threshold

ConfirmsHighByNewest(c) ==   \* fault: the threshold of the current candle is used
  /\ searching # "LOW"
  /\ c.index < i
  /\ Threshold(i, HighPrice(i)) > 0
  /\ c.price - LowPrice(i) >= Threshold(i, HighPrice(i))

ConfirmsHighBeyond(c) ==   \* fault: a move of exactly the threshold is not enough
  /\ searching # "LOW"
  /\ c.index < i
  /\ c.threshold > 0
  /\ c.price - LowPrice(i) > c.threshold

ConfirmsHighAtZero(c) ==   \* fault: a zero threshold confirms
  /\ searching # "LOW"
  /\ c.index < i
  /\ c.price - LowPrice(i) >= c.threshold

ConfirmsHigh(c) ==
  /\ searching # "LOW"
  /\ c.index < i
  /\ c.threshold > 0
  /\ c.price - LowPrice(i) >= c.threshold

ConfirmsLow(c) ==
  /\ searching # "HIGH"
  /\ c.index < i
  /\ c.threshold > 0
  /\ HighPrice(i) - c.price >= c.threshold

ConfirmedPoint(kind, c, confirmationPrice) ==
  [kind |-> kind, index |-> c.index, price |-> c.price, threshold |-> c.threshold,
   confirmation |-> i, confirmationPrice |-> confirmationPrice]
-----------------------------------------------------------------------------
InitAtStart ==   \* fault: the loop reads the starting candle again
  /\ count \in MinimumCount .. MaxCandles
  /\ series \in SeriesOf(count)
  /\ atr = IF Method = "atr" THEN ATRSequence(series) ELSE [k \in {} |-> 0]
  /\ i = Start
  /\ high = HighCandidate(Start)
  /\ low = LowCandidate(Start)
  /\ searching = "UNKNOWN"
  /\ points = <<>>
  /\ outcome = "running"

Init ==
  /\ count \in MinimumCount .. MaxCandles
  /\ series \in SeriesOf(count)
  /\ atr = IF Method = "atr" THEN ATRSequence(series) ELSE [k \in {} |-> 0]
  /\ i = Start + 1
  /\ high = HighCandidate(Start)
  /\ low = LowCandidate(Start)
  /\ searching = "UNKNOWN"
  /\ points = <<>>
  /\ outcome = "running"

(* One iteration of the loop: its three ways out.                          *)
Reading ==
  /\ outcome = "running"
  /\ i < count
  /\ i' = i + 1
  /\ UNCHANGED <<count, series, atr, outcome>>

(* Neither candidate is confirmed, or the candle could confirm both.       *)
KeepSearching ==
  /\ Reading
  /\ ConfirmsHigh(UpdatedHigh) = ConfirmsLow(UpdatedLow)
  /\ high' = UpdatedHigh
  /\ low' = UpdatedLow
  /\ UNCHANGED <<searching, points>>

ConfirmHigh ==
  /\ Reading
  /\ ConfirmsHigh(UpdatedHigh)
  /\ ~ConfirmsLow(UpdatedLow)
  /\ points' = Append(points, ConfirmedPoint("HIGH", UpdatedHigh, LowPrice(i)))
  /\ searching' = "LOW"
  /\ high' = UpdatedHigh
  /\ low' = LowCandidate(i)

ConfirmLowStale ==   \* fault: the old high candidate survives the confirmation
  /\ Reading
  /\ ConfirmsLow(UpdatedLow)
  /\ ~ConfirmsHigh(UpdatedHigh)
  /\ points' = Append(points, ConfirmedPoint("LOW", UpdatedLow, HighPrice(i)))
  /\ searching' = "HIGH"
  /\ low' = UpdatedLow
  /\ high' = UpdatedHigh

ConfirmLow ==
  /\ Reading
  /\ ConfirmsLow(UpdatedLow)
  /\ ~ConfirmsHigh(UpdatedHigh)
  /\ points' = Append(points, ConfirmedPoint("LOW", UpdatedLow, HighPrice(i)))
  /\ searching' = "HIGH"
  /\ low' = UpdatedLow
  /\ high' = HighCandidate(i)

(* The context is found ended at the head of an iteration or after the loop.*)
Cancel ==
  /\ outcome = "running"
  /\ outcome' = "canceled"
  /\ UNCHANGED <<count, series, atr, i, high, low, searching, points>>

Complete ==
  /\ outcome = "running"
  /\ i = count
  /\ outcome' = "completed"
  /\ UNCHANGED <<count, series, atr, i, high, low, searching, points>>

Next == KeepSearching \/ ConfirmHigh \/ ConfirmLow \/ Cancel \/ Complete

Spec == Init /\ [][Next]_vars
-----------------------------------------------------------------------------
TypeOK ==
  /\ count \in MinimumCount .. MaxCandles
  /\ series \in SeriesOf(count)
  /\ Method = "atr" => atr \in [ATRPeriod .. count - 1 -> Nat]
  /\ i \in Start + 1 .. count
  /\ high \in Candidate
  /\ low \in Candidate
  /\ searching \in Kinds \cup {"UNKNOWN"}
  /\ points \in Seq(Point)
  /\ outcome \in {"running", "completed", "canceled"}

(* The first candle of the window point k was searched in.                 *)
WindowStart(k) == IF k = 1 THEN Start ELSE points[k - 1].confirmation

(***************************************************************************)
(* A move that candidate c of the given kind had at candle j would have    *)
(* confirmed it there, were no other candidate in the way.                 *)
(***************************************************************************)
Retraced(kind, c, j) ==
  /\ c.threshold > 0
  /\ IF kind = "HIGH" THEN c.price - LowPrice(j) >= c.threshold
                      ELSE HighPrice(j) - c.price >= c.threshold

(***************************************************************************)
(* Every returned point is what the response claims of it: its price is    *)
(* the selected price of its candle, its threshold the one of that candle, *)
(* and its confirmation candle is later and moved by the threshold, which  *)
(* is not zero.  (What releasevalidation/runner.go validateExtrema tests,  *)
(* with the inequalities of docs/calculations/extrema.md.)                 *)
(***************************************************************************)
EvidenceExplainsReversal ==
  \A k \in 1 .. Len(points) :
    LET p == points[k] IN
    /\ p.index < p.confirmation
    /\ p.confirmation < i
    /\ p.index >= Start
    /\ p.price = IF p.kind = "HIGH" THEN HighPrice(p.index) ELSE LowPrice(p.index)
    /\ p.threshold = Threshold(p.index, p.price)
    /\ p.confirmationPrice =
         IF p.kind = "HIGH" THEN LowPrice(p.confirmation) ELSE HighPrice(p.confirmation)
    /\ Retraced(p.kind, p, p.confirmation)

(***************************************************************************)
(* Highs and lows alternate, and the search for a point starts no earlier  *)
(* than the candle that confirmed its predecessor.                         *)
(***************************************************************************)
PointsAlternate ==
  \A k \in 2 .. Len(points) :
    /\ points[k].kind # points[k - 1].kind
    /\ points[k].index >= points[k - 1].confirmation

(***************************************************************************)
(* Neighbouring points are apart by at least the threshold of the earlier  *)
(* one: the swing a trend or a zone is built on is never smaller than the  *)
(* reversal the caller asked for.                                          *)
(***************************************************************************)
SwingsReachThreshold ==
  \A k \in 2 .. Len(points) :
    LET p == points[k - 1]
        q == points[k]
    IN  IF p.kind = "HIGH" THEN p.price - q.price >= p.threshold
                           ELSE q.price - p.price >= p.threshold

(***************************************************************************)
(* A point is the extreme of its whole window, from the confirmation of    *)
(* its predecessor to its own, and the last candle that reaches it.        *)
(***************************************************************************)
PointsAreWindowExtremes ==
  \A k \in 1 .. Len(points) :
    LET p == points[k] IN
    \A j \in WindowStart(k) .. p.confirmation :
      IF p.kind = "HIGH"
        THEN /\ HighPrice(j) <= p.price
             /\ j > p.index => HighPrice(j) < p.price
        ELSE /\ LowPrice(j) >= p.price
             /\ j > p.index => LowPrice(j) > p.price

(***************************************************************************)
(* No reversal is confirmed late: between a point and its confirmation no  *)
(* candle had moved back far enough.  The first point may be confirmed     *)
(* late, and only past candles that left the direction ambiguous.          *)
(***************************************************************************)
ConfirmedAtFirstReversal ==
  \A k \in 2 .. Len(points) :
    \A j \in points[k].index + 1 .. points[k].confirmation - 1 :
      ~Retraced(points[k].kind, points[k], j)

(***************************************************************************)
(* No reversal is missed: a candidate that is still open once the first    *)
(* direction is known has not been moved back from far enough.             *)
(***************************************************************************)
OpenCandidateNotReversed ==
  /\ searching = "HIGH" =>
       \A j \in high.index + 1 .. i - 1 : ~Retraced("HIGH", high, j)
  /\ searching = "LOW" =>
       \A j \in low.index + 1 .. i - 1 : ~Retraced("LOW", low, j)
=============================================================================
