SPECIFICATION EventFairSpec
CONSTANTS
  Workers = {c1, w1, w2}
  Consumers = {c1}
  OrderIds = {o1, o2}
  Keys = {k1}
  NoKey = noKey
  NoOrder = noOrder
  MaxRequests = 3
  MaxFaults = 2
  MaxRetries = 1
INVARIANTS
  EventTypeOK
  OneOrderPerKey
PROPERTIES
  RefusalsAreTrue
  CacheConverges
  EventTakesEffect
  EventsEnd
  ImplementsOrders
