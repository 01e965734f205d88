CONSTANTS
  m1 = m1
  m2 = m2
  s1 = s1
  s2 = s2
  None = None
  Mints = {m1}
  Sells = {s1, s2}
  SoldMint <- SoldFirst
  Qtys = {7}
  Permits = 2
  PendingShard <- ByHash
  Hashes = 2
  AttemptMax = 2
  OverflowChecks = TRUE
  Lossy = TRUE
  Bare = TRUE
  Malformed = TRUE
SPECIFICATION Spec
SYMMETRY Symmetry
INVARIANTS
  TypeOK
  BuyLearnsChain
  SellDoneMeansLiquidated
  OrderFitsAccount
  HaltsOnlyOutside
PROPERTIES
  ImplementsSettlement
CHECK_DEADLOCK FALSE
