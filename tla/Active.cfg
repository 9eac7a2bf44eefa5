\* Searches over up to two catalog rows and two rows of statistics, with a
\* clock that shows either of two days each time it is read, under fairness of
\* the search and of its deadline and none of Market Data.
SPECIFICATION FairSpec
CONSTANTS
  LastInstant = 9
  MonthStarts <- OneMonth
  Requests <- EveryRequest
  Catalogs <- EveryCatalog
  Snapshots <- EverySnapshot
  NATRs = {0, 1}
  Failures <- FailureKinds
  Clock = {4, 6}
  Day <- TwoSeconds
  DefaultPeriod = 1
  MaxPeriod = 2
INVARIANTS
  TypeOK
  ResultIsExact
  SameWindow
  ReadsAreNeeded
PROPERTY
  SearchEnds
CHECK_DEADLOCK FALSE
