SPECIFICATION Spec
CONSTANTS
  Workers = {w1, w2}
  Reservations = {r1, r2}
  Quantities = {1}
  Changes <- Received
  NoReservation = none
  OrderItemIdNotNull = FALSE
  ReleasesMayOverlap = TRUE
  MaxRequests = 5
  MaxFaults = 0
SYMMETRY Symmetry
INVARIANTS
  ReservedMatchesRows
