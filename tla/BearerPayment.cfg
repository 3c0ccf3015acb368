CONSTANTS
  h1 = h1
  b1 = b1
  b2 = b2
  Handles = {h1, h2, h3}
  Bases = {b1, b2}
  Base <- BaseOf
  MaxPending = 2
  MaxFaults = 1
SYMMETRY Sym
SPECIFICATION Spec
INVARIANTS MoneyHasClaim ClaimBound NoRefundInUse
PROPERTIES HeldClaimsKept OldClaimsBlock ImplementsCustody
CHECK_DEADLOCK FALSE
