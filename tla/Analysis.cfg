\* Any of 290 requests over ten instants and any of 160 answers, under fairness
\* of the handler and of the deadline and none of Market Data.
SPECIFICATION FairSpec
CONSTANTS
  LastInstant = 9
  MonthStarts <- FourMonths
  Requests <- EveryRequest
  Answers <- EveryAnswer
  UpstreamCodes <- EveryCode
INVARIANTS
  TypeOK
  SeriesCoversRange
  OnlyClosedCandles
  ErrorsAreAttributed
  CodesComeThrough
PROPERTIES
  EndedContextFails
  RequestEnds
CHECK_DEADLOCK FALSE
