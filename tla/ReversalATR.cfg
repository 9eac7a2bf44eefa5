\* ATR reversal over closing prices: flat stretches give zero thresholds.
SPECIFICATION Spec
CONSTANTS
  MaxPrice = 3
  Candles <- AllCandles
  MaxCandles = 5
  PriceSource = "CLOSE"
  Method = "atr"
  ReversalPct = 40
  ATRPeriod = 1
  ATRMultiplier = 1
  Divide <- RoundedQuotient
  ATRSequence <- WilderSequence
  OutputDigits = 8
INVARIANTS
  EvidenceExplainsReversal
  OpenCandidateNotReversed
CHECK_DEADLOCK FALSE
