SPECIFICATION EventFairSpec
CONSTANTS
  Members = {m1, m2}
  NoMember = nobody
  MsgCount = 5
  Poison = {3}
  MaxRetries = 1
  DLQConfigured = FALSE
  MaxErrors = 2
  MaxCrashes = 1
  MaxRebalances = 1
  Products <- MCProducts
  OrderIds <- MCOrderIds
  ItemsOf <- MCItemsOf
  Log <- MixedLog
  Stock <- MixedStock
CHECK_DEADLOCK FALSE
INVARIANTS
  EventTypeOK
  ReservedInOrder
  DuplicatesBounded
  UnitsAccounted
  HandledAsDecoded
PROPERTIES
  Drains
