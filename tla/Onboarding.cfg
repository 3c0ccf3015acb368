SPECIFICATION Spec
CONSTANTS
  Requests = {r1, r2}
  Quotes = {q1, q2}
  Own = own
  None = none
  Torn = torn
INVARIANT OneClaim
PROPERTIES PaidStaysClaimable RequestsReturn
