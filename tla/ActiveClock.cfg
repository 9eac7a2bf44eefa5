\* A clock that steps back over the start of a day during a search.
SPECIFICATION Spec
CONSTANTS
  LastInstant = 9
  MonthStarts <- OneMonth
  Requests <- NATRRequest
  Catalogs <- EveryCatalog
  Snapshots <- FewSnapshots
  NATRs = {0, 1}
  Failures <- FailureKinds
  Clock = {5, 6}
  Day <- TwoSeconds
  DefaultPeriod = 1
  MaxPeriod = 2
INVARIANT
  InvalidFieldsReadNothing
CHECK_DEADLOCK FALSE
