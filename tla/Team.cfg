CONSTANTS
  Callers = {c1, c2}
  People = {p1, p2}
  Links = {a}
  Uses = 1
  Nobody = Nobody
  MaxHumans = 2
  Skew = 0
  Ttl = 2
  MaxTime = 3
  MaxFaults = 1
SYMMETRY Sym
SPECIFICATION Spec
INVARIANT LinkServesAsMade
PROPERTIES RevokedForGood MembershipKept
CHECK_DEADLOCK FALSE
