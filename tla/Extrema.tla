------------------------------ MODULE Extrema ------------------------------
(***************************************************************************)
(* detectExtrema of internal/domain/extrema.go, as the function of a       *)
(* series and its settings that trends and zones are built on: the         *)
(* neighbouring-candle points or those of a reversal pass.                 *)
(*                                                                         *)
(* Settings are [source, method] with the span of the local method, the    *)
(* percentage of the percent method, or the period and the multiplier of   *)
(* the atr method.  ReversalExtrema has the pass step by step.             *)
(***************************************************************************)
EXTENDS LocalExtrema

CONSTANT Divide(_, _)   \* domain.Divide

Wilder == INSTANCE WilderATR

(* The first n candles of a series.                                       *)
Prefix(series, n) == [k \in 0 .. n - 1 |-> series[k]]

(* What NewCandleSeries and ExtremaSettings.Validate let through.          *)
SoundSeries(series) ==
  /\ Count(series) \in Nat
  /\ DOMAIN series = 0 .. Count(series) - 1
  /\ \A k \in DOMAIN series :
       /\ {series[k].high, series[k].low, series[k].close} \subseteq Nat \ {0}
       /\ series[k].low <= series[k].close /\ series[k].close <= series[k].high

SoundSettings(s) ==
  /\ s.source \in {"CLOSE", "HIGH_LOW"}
  /\ s.method \in {"local", "percent", "atr"}
  /\ s.method = "local" => s.span \in Nat \ {0}
  /\ s.method = "atr" => s.period \in Nat \ {0}

MinimumCount(s) ==
  CASE s.method = "local"   -> 2 * s.span + 1
    [] s.method = "percent" -> 2
    [] s.method = "atr"     -> s.period + 2

(* atrSequence: the period and the values from that index on.              *)
NoSequence == [period |-> 0, values |-> <<>>]

SequenceOf(series, period) ==
  [period |-> period, values |-> Wilder!ATRSequenceOf(series, period)]

(* newCandidate, with the evidence that a confirmed point takes over as    *)
(* its Reversal.                                                           *)
Evidence(s, atr, i, price) ==
  IF s.method = "percent" THEN [threshold |-> Divide(price * s.pct, 100)]
                          ELSE [threshold |-> atr[i] * s.multiplier, atr |-> atr[i]]

Candidate(s, atr, i, price) ==
  [index |-> i, price |-> price, evidence |-> Evidence(s, atr, i, price)]

HighAt(series, s, atr, i) == Candidate(s, atr, i, HighPrice(series[i], s.source))
LowAt(series, s, atr, i)  == Candidate(s, atr, i, LowPrice(series[i], s.source))

ConfirmedPoint(kind, candidate, i) ==
  [kind |-> kind, index |-> candidate.index, price |-> candidate.price,
   confirmation |-> i, reversal |-> candidate.evidence]

Confirmed(candidate, i, move) ==
  /\ candidate.index < i
  /\ candidate.evidence.threshold > 0
  /\ move >= candidate.evidence.threshold

(* The body of the loop of reversalExtrema, for candle i.                  *)
Iteration(series, s, atr, t, i) ==
  LET highest == HighAt(series, s, atr, i)
      lowest  == LowAt(series, s, atr, i)
      high == IF t.searching # "LOW" /\ highest.price >= t.high.price THEN highest ELSE t.high
      low  == IF t.searching # "HIGH" /\ lowest.price <= t.low.price THEN lowest ELSE t.low
      confirmHigh == t.searching # "LOW" /\ Confirmed(high, i, high.price - lowest.price)
      confirmLow  == t.searching # "HIGH" /\ Confirmed(low, i, highest.price - low.price)
  IN  IF confirmHigh = confirmLow
        THEN [t EXCEPT !.high = high, !.low = low]
      ELSE IF confirmHigh
        THEN [high |-> high, low |-> lowest, searching |-> "LOW",
              points |-> Append(t.points, ConfirmedPoint("HIGH", high, i))]
        ELSE [high |-> highest, low |-> low, searching |-> "HIGH",
              points |-> Append(t.points, ConfirmedPoint("LOW", low, i))]

(* reversalExtrema: where the loop stands after each candle.               *)
FirstCandle(s) == IF s.method = "atr" THEN s.period ELSE 0

ReversalPass(series, s, atr) ==
  LET pass[i \in FirstCandle(s) .. Count(series) - 1] ==
        IF i = FirstCandle(s)
          THEN [high |-> HighAt(series, s, atr, i), low |-> LowAt(series, s, atr, i),
                searching |-> "UNKNOWN", points |-> <<>>]
          ELSE Iteration(series, s, atr, pass[i - 1], i)
  IN  pass

ReversalPoints(series, s, atr) == ReversalPass(series, s, atr)[Count(series) - 1].points

(* A sequence that is at hand is reused if it has the period asked for.    *)
SequenceReachingBack(series, s, sequence) ==   \* fault: or if it begins early enough
  IF sequence = NoSequence \/ sequence.period > s.period
    THEN SequenceOf(series, s.period) ELSE sequence

SequenceFor(series, s, sequence) ==
  IF sequence.period # s.period THEN SequenceOf(series, s.period) ELSE sequence

DetectExtrema(series, s, sequence) ==
  CASE s.method = "local"   -> LocalPoints(series, s.source, s.span)
    [] s.method = "percent" -> ReversalPoints(series, s, <<>>)
    [] s.method = "atr"     -> ReversalPoints(series, s, SequenceFor(series, s, sequence).values)
=============================================================================
