CONSTANTS
  Callers = {c1, c2}
  People = {p1, p2}
  Nobody = Nobody
  Torn = Torn
  Challenges = {x, y}
  MaxChallenges = 1
  ChallengeTtl = 1
  Ttl = 1
  MaxLife = 2
  PendingTtl = 0
  MaxTime = 5
  MaxTokens = 2
  MaxFaults = 1
SPECIFICATION FairSpec
INVARIANTS SingleUse OwnerPersisted OwnerBounded MemberBounded
PROPERTIES ClaimEnds
CHECK_DEADLOCK FALSE
