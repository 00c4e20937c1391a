CONSTANTS
  n1 = n1
  n2 = n2
  c1 = c1
  c2 = c2
  c3 = c3
  t1 = t1
  User = User
  NoCall = NoCall
  Nodes = {n1, n2}
  Threads = {t1}
  Calls = {c1, c2}
  Caller <- PairCaller
  Callee <- PairCallee
  Parent <- PairParent
  Oversize = {}
  Bulky = {}
  Stoppable = {n1, n2}
  MaxArrivals <- PairArrivals
SPECIFICATION Spec
CHECK_DEADLOCK FALSE
INVARIANTS
  Consistent
  WakeupCarriesReply
  Genuine
PROPERTIES
  ImplementsContract
