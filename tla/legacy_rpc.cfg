CONSTANTS
  n1 = n1
  n2 = n2
  c1 = c1
  c2 = c2
  t1 = t1
  User = User
  NoCall = NoCall
  Nodes = {n1, n2}
  Calls = {c1, c2}
  Threads = {t1}
  Caller <- BackCaller
  Callee <- BackCallee
  Parent <- BackParent
  Stoppable = {n2}
  MaxQueue = 1
SPECIFICATION LiveSpec
CHECK_DEADLOCK FALSE
INVARIANTS
  Consistent
  StopDrains
PROPERTIES
  ImplementsContract
  StopReturns
