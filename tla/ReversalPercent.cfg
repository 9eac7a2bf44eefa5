\* Percentage reversal over high and low prices: every series of 2 to 4 candles.
SPECIFICATION Spec
CONSTANTS
  MaxPrice = 4
  Candles <- AllCandles
  MaxCandles = 4
  PriceSource = "HIGH_LOW"
  Method = "percent"
  ReversalPct = 40
  ATRPeriod = 1
  ATRMultiplier = 1
  Divide <- RoundedQuotient
  ATRSequence <- WilderSequence
  OutputDigits = 8
INVARIANTS
  TypeOK
  PointsAlternate
  SwingsReachThreshold
  PointsAreWindowExtremes
  ConfirmedAtFirstReversal
  ResponseShowsDecision
CHECK_DEADLOCK FALSE
