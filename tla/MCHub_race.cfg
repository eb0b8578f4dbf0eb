SPECIFICATION Spec
CONSTANTS
  Clients = {c1, c2}
  NoClient = none
  Channels = {ch1}
  BufferSize = 1
SYMMETRY Symmetry
CHECK_DEADLOCK FALSE
INVARIANTS
  TypeOK
  HubNeverPanics
  LeaversLeave
  AtMostOneLate
