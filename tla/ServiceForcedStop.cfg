\* What the operations guide says of the servers at the shutdown deadline.
SPECIFICATION Spec
CONSTANTS
  Calls = {c1, c2}
  HTTPRequests = {h1}
INVARIANT
  ServersForcedToStop
CHECK_DEADLOCK FALSE
