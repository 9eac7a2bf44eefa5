\* One load call beside another client's search that goes well.
SPECIFICATION Spec
CONSTANTS
  Calls = {0, other}
  Searches = {other}
  Scrapes = {"before", "after"}
  MaxReads = 1
  Sound = {other}
  Requests = 1
  Workers = {w1}
INVARIANTS
  OnlyResponsesAreSized
CHECK_DEADLOCK FALSE
