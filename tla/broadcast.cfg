CONSTANTS
  cam = cam
  camLobby = camLobby
  Names = {cam, camLobby}
  Nobody = Nobody
  Matches <- MCMatches
  Hanging = {cam}
SPECIFICATION LiveSpec
CHECK_DEADLOCK FALSE
INVARIANTS
  TableIsComplete
  StayersAreCalledOnce
PROPERTIES
  OnlyLateEntries
  BroadcastReturns
