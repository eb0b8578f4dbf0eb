SPECIFICATION Spec
CONSTANTS
  Workers = {w1, w2}
  Reservations = {r1, r2}
  Quantities = {1, 2}
  Changes <- Received
  NoReservation = none
  OrderItemIdNotNull = FALSE
  ReleasesMayOverlap = FALSE
  MaxRequests = 5
  MaxFaults = 1
INVARIANTS
  TypeOK
  CopiesTrail
  VersionGuardsAvailability
  NoOversell
  HoldsCovered
  AuditTrail
PROPERTIES
  ImplementsHolds
