CONSTANTS
  m1 = m1
  m2 = m2
  s1 = s1
  s2 = s2
  None = None
  Mints = {m1, m2}
  Sells = {s1}
  SoldMint <- SoldFirst
  Qtys = {7}
  Permits = 1
  PendingShard <- ByHash
  Hashes = 2
  AttemptMax = 0
  OverflowChecks = FALSE
  Lossy = TRUE
  Bare = FALSE
  Malformed = FALSE
SPECIFICATION CalmSpec
PROPERTIES
  SellEventuallyEnds
CHECK_DEADLOCK FALSE
