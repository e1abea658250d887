\* One widget and -e: its thread and the main thread compete for its interpreter and for
\* the barlib, and main() cleans up.  Or one widget's plugin, which may return.
SPECIFICATION LiveSpec
CONSTANTS
  N = 1
  EFlag = TRUE
  EvPaths = {1, 2, 3}
  EvPipeCapacity = 2
  EvMaxEvents = 3
  MpMaxChanges = 2
  MpMaxFailures = 1
  Conns = {1, 2, 3}
  MaxClients = 2
  MaxBytes = 2
  None = None
INVARIANTS
  NoUseAfterDestroy
  EventsInOrder
  SnapshotIsCurrent
  ReportsFirstLine
PROPERTIES
  CallsReturn
  EventsReturn
  ExitsWhenAllReturned
  WakeUpsAreAnswered
  WidgetFollowsServer
  ClientsAreServed
CHECK_DEADLOCK FALSE
