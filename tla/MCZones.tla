------------------------------ MODULE MCZones ------------------------------
(* Instances of Zones for TLC.                                             *)
EXTENDS LevelsResponse

Flat(p) == [high |-> p, low |-> p, close |-> p]
Wide(h, l, c) == [high |-> h, low |-> l, close |-> c]

CloseSeries == [0 .. 6 -> { Flat(p) : p \in 1 .. 4 }]
RangeSeries == [0 .. 5 -> { Wide(2, 1, 1), Wide(4, 2, 3), Wide(5, 1, 2), Wide(3, 3, 3) }]

Local(source, span) == [source |-> source, method |-> "local", span |-> span]
ByPercent(source, pct) == [source |-> source, method |-> "percent", pct |-> pct]
ByATR(source, period, multiplier) ==
  [source |-> source, method |-> "atr", period |-> period, multiplier |-> multiplier]

(* Seven closing prices, and six candles that may be a high and a low at   *)
(* once, which one zone may hold both.                                     *)
SomeRequests ==
       [series : CloseSeries, extrema : {Local("CLOSE", 1)}, atrPeriod : {2},
        zoneWidthATR : {1}, minTouches : {2}, spacing : {1, 2}]
  \cup [series : RangeSeries, extrema : {Local("HIGH_LOW", 1)}, atrPeriod : {1, 3},
        zoneWidthATR : {1, 2}, minTouches : {2, 3}, spacing : {1, 2}]
  \cup [series : RangeSeries, extrema : {ByPercent("HIGH_LOW", 30)} \cup
                                         {ByATR("HIGH_LOW", n, 1) : n \in {1, 2}},
        atrPeriod : {1, 3}, zoneWidthATR : {1, 2}, minTouches : {2}, spacing : {1, 2}]

(* Still, wide and one-sided candles with gaps between them, in units so   *)
(* fine that a wrong weight of a true range shows, rounding or not.        *)
FineCandles ==
  { Flat(60), Wide(180, 60, 120), Wide(240, 120, 240), Wide(300, 180, 180) }

FineRequests ==
       [series : [0 .. 4 -> FineCandles], extrema : {Local("CLOSE", 1)}, atrPeriod : 1 .. 4,
        zoneWidthATR : {1}, minTouches : {2}, spacing : {1}]
  \cup [series : [0 .. 5 -> FineCandles], extrema : {ByATR("HIGH_LOW", n, 1) : n \in 2 .. 3},
        atrPeriod : {2}, zoneWidthATR : {1}, minTouches : {2}, spacing : {1}]

AllRequests == SomeRequests \cup FineRequests

(* A price with more digits than a quotient keeps.                         *)
LongPrices ==
  [series : [0 .. 4 -> { Flat(p) : p \in {1000, 1044, 1046} }], extrema : {Local("CLOSE", 1)},
   atrPeriod : {1}, zoneWidthATR : {1}, minTouches : {2}, spacing : {1}]
=============================================================================
