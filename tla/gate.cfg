CONSTANTS
  m1 = m1
  m2 = m2
  b1 = b1
  b2 = b2
  b3 = b3
  m3 = m3
  None = None
  Mints = {m1, m2, m3}
  Buys = {b1, b2, b3}
  Permits = 2
  MinFree = 8
  Needed = 1
  Cost = 3
  Fee = 1
  Deposit = 9
  Proceeds = 4
  MaxFailed = 1
SPECIFICATION Spec
SYMMETRY Symmetry
INVARIANTS
  TypeOK
  OverdraftIsBounded
  UnseenHoldPermits
  BoughtOnce
CHECK_DEADLOCK FALSE
