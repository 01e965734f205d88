CONSTANTS
  t1 = t1
  Cap <- OneEach
  Concurrency = 1
  Threads = {t1}
  MaxSlot = 1
  Breaking = {"pump"}
  Stopping = TRUE
  Malformed = TRUE
  Collide = TRUE
SPECIFICATION FairSpec
INVARIANTS
  TypeOK
  NothingBeforeGo
  ExitAfterJoins
  StopsOnlyParked
PROPERTIES
  HashNeverGoesBack
  OrdersAreReceived
  BlocksAreReceived
  ShutdownEnds
CHECK_DEADLOCK FALSE
