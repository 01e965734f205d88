CONSTANTS
  SolReserves <- SmallReserves
  TokenReserves <- SmallReserves
  Lamports <- SmallLamports
  BasisPoints <- Slippages
  WordSize = 2000000
SPECIFICATION Spec
INVARIANTS
  TypeOK
  QuoteIsTight
  CostIsBounded
CHECK_DEADLOCK FALSE
