CONSTANTS
  m1 = m1
  None = None
  Mints = {m1}
  Wids = {1, 2, 3}
  Buys = {1}
  Caps = {10, 15}
  Qtys = {0, 7}
  Capacity = 1
  SellCap = 2
  MaxTrades = 3
  CreatesPerMint = 1
  MetaShard <- OneShard
  CreatedShard <- OneShard
  Bare = TRUE
SPECIFICATION BotSpec
INVARIANTS
  OrdersAreAccepted
  TokensAreKnown
  TokensAreWatched
CHECK_DEADLOCK FALSE
