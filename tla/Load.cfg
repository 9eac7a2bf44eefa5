\* Two load calls by two workers beside another client's search.
SPECIFICATION FairSpec
CONSTANTS
  Calls = {0, 1, other}
  Searches = {other}
  Scrapes = {"before", "after"}
  MaxReads = 1
  Sound = {0, other}
  Requests = 2
  Workers = {w1, w2}
INVARIANTS
  TypeOK
  PagesAddUp
  ReportIsExact
  DeltaCoversAnswers
PROPERTIES
  LoadEnds
CHECK_DEADLOCK FALSE
