SPECIFICATION FairSpec
CONSTANTS
  Clients = {c1}
  NoClient = none
  Channels = {ch1, ch2}
  BufferSize = 1
CHECK_DEADLOCK FALSE
PROPERTIES
  EventuallyCleanedUp
  BroadcastReturns
