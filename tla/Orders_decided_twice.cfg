SPECIFICATION Spec
CONSTANTS
  Workers = {w1, w2}
  OrderIds = {o1}
  Keys = {k1}
  NoKey = noKey
  NoOrder = noOrder
  MaxRequests = 3
  MaxFaults = 0
INVARIANTS
  DecidedOnce
