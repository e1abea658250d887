\* The assertion of update_pfds().
SPECIFICATION UnixSockSpec
CONSTANTS
  N = 1
  EFlag = TRUE
  EvPaths = {1, 2, 3}
  EvPipeCapacity = 2
  EvMaxEvents = 3
  MpMaxChanges = 2
  MpMaxFailures = 1
  Conns = {1, 2, 3}
  MaxClients = 2
  MaxBytes = 2
  None = None
INVARIANTS
  UpdateMeetsNoDropped
CHECK_DEADLOCK FALSE
