CONSTANTS
  i1 = i1
  i2 = i2
  d1 = d1
  d2 = d2
  Callers = {c1, c2}
  Proposals = {i1}
  Imports = {m1}
  Stores = {s1}
  Ids = {d1, d2}
  IdOf <- IdOfText
  Nothing = Nothing
  MaxItems = 2
  Expiring = {d2}
  MaxFaults = 1
SPECIFICATION FairSpec
PROPERTIES VerdictsHold VerdictReturns
CHECK_DEADLOCK FALSE
