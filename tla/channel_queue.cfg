CONSTANTS
  g1 = g1
  g2 = g2
  g3 = g3
  Getters = {g1, g2, g3}
  Sizes = {0, 1, 2}
  MaxPuts = 4
SPECIFICATION LiveSpec
CHECK_DEADLOCK FALSE
INVARIANTS
  Consistent
PROPERTIES
  ImplementsQueue
  CloseWakesReaders
  ReadersAreServed
