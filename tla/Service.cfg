\* Startup, admission and shutdown with two calls and one HTTP request, under
\* fairness of the process's goroutines and none of its clients.
SPECIFICATION FairSpec
CONSTANTS
  Calls = {c1, c2}
  HTTPRequests = {h1}
INVARIANTS
  TypeOK
  ConnectionOutlivesCalls
  SuccessLosesNothing
  ExitReleasesResources
PROPERTIES
  KeepsContract
  StopRequestsEndProcess
  FailedServerTurnsUnready
CHECK_DEADLOCK FALSE
