SPECIFICATION EventSpec
CONSTANTS
  Members = {m1}
  NoMember = nobody
  MsgCount = 2
  Poison = {}
  MaxRetries = 3
  DLQConfigured = FALSE
  MaxErrors = 0
  MaxCrashes = 0
  MaxRebalances = 0
  Products <- MCProducts
  OrderIds <- MCOrderIds
  ItemsOf <- MCItemsOf
  Log <- WrittenLog
  Stock <- UnreachableStock
CHECK_DEADLOCK FALSE
INVARIANTS
  HandledIsReserved
