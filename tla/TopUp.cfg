CONSTANTS
  q1 = q1
  q2 = q2
  p1 = p1
  p2 = p2
  Proofs = {p1, x1}
  Reserved = {p1}
  Callers = {s1, r1, c1, k1, k2}
  Senders = {s1}
  Receivers = {r1}
  Creators = {c1}
  Pollers = {k1, k2}
  Quotes = {q1}
  QuoteProof <- QuoteProofOf
  NoSet = NoSet
  Floor = 0
  MaxFaults = 1
  MaxOpen = 1
  MintReplays = TRUE
SPECIFICATION FairSpec
INVARIANTS ProofsAccounted PaidIsResumable
PROPERTIES ImplementsPurse PaidIsMinted
CHECK_DEADLOCK FALSE
