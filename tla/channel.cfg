CONSTANTS
  Watchers = {"acceptor"}
  Receivers = {"acceptor"}
  MaxOpens = 2
  MaxQueues = 3
  MaxSends <- Sends
  MaxCallbacks = 2
  MaxBacklog = 2
SPECIFICATION LiveSpec
CHECK_DEADLOCK FALSE
INVARIANTS
  Consistent
  DisconnectOnce
  NothingLeftBehind
  SequencedOnce
PROPERTIES
  WaitsEnd
