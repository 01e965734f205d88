CONSTANTS
  m1 = m1
  m2 = m2
  None = None
  Mints = {m1, m2}
  Wids = {1, 2}
  Buys = {1, 2}
  Caps = {10, 15}
  Qtys = {7}
  Capacity = 1
  SellCap = 1
  MaxTrades = 2
  CreatesPerMint = 1
  MetaShard <- OneShard
  CreatedShard <- OneShard
SPECIFICATION FairSpec
PROPERTIES
  OrderIsServed
  MainReturns
  PositionIsSold
CHECK_DEADLOCK FALSE
