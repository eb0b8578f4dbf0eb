SPECIFICATION FairSpec
CONSTANTS
  Holders = {h1, h2}
  Others = {o1, o2}
  MaxOpenConns = 2
INVARIANTS
  StuckMeansHeld
PROPERTIES
  EveryRequestEnds
