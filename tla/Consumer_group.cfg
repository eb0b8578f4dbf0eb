SPECIFICATION FairSpec
CONSTANTS
  Members = {m1, m2}
  NoMember = nobody
  MsgCount = 4
  Poison = {1}
  MaxRetries = 1
  DLQConfigured = TRUE
  MaxErrors = 2
  MaxCrashes = 2
  MaxRebalances = 2
CHECK_DEADLOCK FALSE
INVARIANTS
  HandledAtMostOnce
  LossBounded
PROPERTIES
  Drains
