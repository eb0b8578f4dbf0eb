SPECIFICATION Spec
CONSTANTS
  Clients = {c1}
  NoClient = none
  Channels = {ch1}
  BufferSize = 1
CHECK_DEADLOCK FALSE
INVARIANTS
  NoPanic
