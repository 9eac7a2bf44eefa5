\* Trends of seven closing prices and of six candles, with several tolerances.
SPECIFICATION Spec
CONSTANTS
  Requests <- SomeRequests
  Divide <- RoundedQuotient
INVARIANTS
  TypeOK
  VerdictFollowsStructure
  PointsAreFinal
CHECK_DEADLOCK FALSE
