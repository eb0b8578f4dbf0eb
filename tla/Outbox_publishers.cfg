SPECIFICATION FairSpec
CONSTANTS
  Publishers = {p1, p2}
  Events = {e1, e2, e3}
  NoEvent = noEvent
  Stamps = {1, 2}
  BatchSize = 2
  MaxErrors = 2
  MaxCrashes = 1
CHECK_DEADLOCK FALSE
INVARIANTS
  WrittenAtMostOnce
  StatusTellsOutcome
  OrphansBounded
PROPERTIES
  EventuallySettled
