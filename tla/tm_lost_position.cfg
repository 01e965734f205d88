CONSTANTS
  m1 = m1
  m2 = m2
  None = None
  Mints = {m1}
  Wids = {1, 2}
  Buys = {1}
  Caps = {10, 15}
  Qtys = {7}
  Capacity = 1
  SellCap = 2
  MaxTrades = 2
  CreatesPerMint = 1
  MetaShard <- OwnShard
  CreatedShard <- OwnShard
SPECIFICATION Spec
INVARIANTS
  HeldIsWatched
