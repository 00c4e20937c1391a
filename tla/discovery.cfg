CONSTANTS
  cam = cam
  camLobby = camLobby
  me = me
  Names = {cam, camLobby, me}
  Self = me
  Label <- MCLabel
  Matches <- MCMatches
  Records <- MCRecords
  NoRecord = NoRecord
  NoInstance = 0
  NoAddress = 0
  t1 = t1
  t2 = t2
  Targets = {cam}
  Threads = {t1, t2}
  ListensFirst = FALSE
  TTL = 1
  MaxTime = 2
  MaxNews = 3
SPECIFICATION Spec
SYMMETRY Interchangeable
CHECK_DEADLOCK FALSE
INVARIANTS
  LookupSeesFresh
  EachLossToldOnce
  CacheConverges
  ViewMatchesUnlessMuddled
PROPERTIES
  PruneOnlyStale
