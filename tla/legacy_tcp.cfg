CONSTANTS
  k1 = k1
  k2 = k2
  Conns = {k1, k2}
  Asks <- Together
  Old = Old
  Body <- Sizes
SPECIFICATION Spec
CHECK_DEADLOCK FALSE
INVARIANTS
  Consistent
  PutMeansStored
  ShortGetNeedsAbort
  MixedFileNeedsCause
  OpenTakesOnlyAck
