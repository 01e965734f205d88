CONSTANTS
  m1 = m1
  m2 = m2
  s1 = s1
  s2 = s2
  None = None
  Mints = {m1}
  Sells = {s1, s2}
  SoldMint <- SoldFirst
  Qtys = {7}
  Permits = 3
  PendingShard <- ByHash
  Hashes = 2
  AttemptMax = 0
  OverflowChecks = FALSE
  Lossy = FALSE
  Bare = FALSE
  Malformed = FALSE
SPECIFICATION CalmSpec
PROPERTIES
  SellEventuallyEnds
CHECK_DEADLOCK FALSE
