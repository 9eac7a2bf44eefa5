------------------------------ MODULE MCTrend ------------------------------
(* Instances of Trend for TLC.                                             *)
EXTENDS Trend

(* Division rounds half away from zero to a whole unit of price.           *)
RoundedQuotient(a, b) == (2 * a + b) \div (2 * b)

Flat(p) == [high |-> p, low |-> p, close |-> p]
Wide(h, l, c) == [high |-> h, low |-> l, close |-> c]

Local(source, span) == [source |-> source, method |-> "local", span |-> span]
ByPercent(source, pct) == [source |-> source, method |-> "percent", pct |-> pct]
ByATR(source, period, multiplier) ==
  [source |-> source, method |-> "atr", period |-> period, multiplier |-> multiplier]

(* Closing prices 1 .. 4 over seven candles; and six candles of both a     *)
(* high and a low, some of them inside or outside their neighbours.        *)
CloseSeries == [0 .. 6 -> { Flat(p) : p \in 1 .. 4 }]
RangeSeries == [0 .. 5 -> { Wide(2, 1, 1), Wide(4, 1, 2), Wide(3, 3, 3),
                            Wide(5, 1, 3), Wide(6, 2, 3) }]

SomeRequests ==
       [series : CloseSeries, extrema : {Local("CLOSE", 1)}, tolerancePct : {0, 40}]
  \cup [series : RangeSeries, extrema : {Local("HIGH_LOW", 1), Local("HIGH_LOW", 2)},
        tolerancePct : {0, 25, 60}]
  \cup [series : CloseSeries, extrema : {ByPercent("CLOSE", 40)}, tolerancePct : {0, 40}]
  \cup [series : RangeSeries, extrema : {ByPercent("HIGH_LOW", 30), ByATR("HIGH_LOW", 1, 1)},
        tolerancePct : {0, 25}]
=============================================================================
