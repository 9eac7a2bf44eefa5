\* Prices with more digits than a quotient keeps, and fewer in the response.
SPECIFICATION Spec
CONSTANTS
  Requests <- LongPrices
  DivisionDigits = 3
  OutputDigits = 2
INVARIANT
  RepresentativeWithinBounds
CHECK_DEADLOCK FALSE
