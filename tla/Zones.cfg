\* Zones of seven closing prices, of six candles, and of finer prices, with several
\* settings.
SPECIFICATION Spec
CONSTANTS
  Requests <- AllRequests
  DivisionDigits = 9
  OutputDigits = 8
INVARIANTS
  TypeOK
  ZonesAreAnchored
  TouchCountIsMaximal
  ResponsePassesChecks
  ATRsWeighTrueRanges
CHECK_DEADLOCK FALSE
