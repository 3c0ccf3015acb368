CONSTANTS
  h1 = h1
  b1 = b1
  b2 = b2
  Handles = {h1, h2}
  Bases = {b1, b2}
  Base <- BaseOf
  MaxPending = 2
  MaxFaults = 2
SPECIFICATION FairSpec
PROPERTIES BeginReturns ClaimsSettle
CHECK_DEADLOCK FALSE
