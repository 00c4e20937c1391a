CONSTANTS
  n1 = n1
  n2 = n2
  c1 = c1
  c2 = c2
  c3 = c3
  t1 = t1
  User = User
  NoCall = NoCall
  Nodes = {n1, n2}
  Threads = {t1}
  Calls = {c1, c2, c3}
  Caller <- ChainCaller
  Callee <- ChainCallee
  Parent <- ChainParent
  Oversize = {}
  Bulky = {}
  Stoppable = {n2}
  MaxArrivals <- ChainArrivals
SPECIFICATION Spec
CHECK_DEADLOCK FALSE
INVARIANTS
  StopDrainsExecutor
