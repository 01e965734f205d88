CONSTANTS
  m1 = m1
  m2 = m2
  None = None
  Mints = {m1}
  Wids = {1, 2, 3}
  Buys = {1, 2}
  Caps = {0, 10}
  Qtys = {0, 7}
  Capacity = 2
  SellCap = 3
  MaxTrades = 4
  CreatesPerMint = 2
  MetaShard <- OwnShard
  CreatedShard <- OwnShard
SPECIFICATION Spec
INVARIANTS
  TypeOK
  OfferIsCurrent
  OrdersSellTheHolding
  UnwatchedOnlyAfterBroke
PROPERTIES
  NoOrderAfterLiquidation
  ImplementsPosition
