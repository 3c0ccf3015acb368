CONSTANTS
  a = a
  b = b
  Tabs = {a, b}
  Loops <- TwoLoops
  MaxEvents = 1
SPECIFICATION SessionSpec
INVARIANTS SignedOutStays RenewalPending
PROPERTIES EndedForReason
CHECK_DEADLOCK FALSE
