CONSTANTS
  c1 = c1
  Calls = {c1}
  HeaderSize = 2
  MaxFrame = 2
  Sizes = {1, 2, 3}
  Capacity = 2
  Fragile = {c1}
  Mortal = {"client", "server"}
SPECIFICATION LiveSpec
CHECK_DEADLOCK FALSE
INVARIANTS
  Consistent
PROPERTIES
  ImplementsContract
  EveryCallReturns
  EveryConnectionEnds
