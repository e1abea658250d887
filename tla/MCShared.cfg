\* Two interpreters sharing one string, and finalizers that call communicate(); or two
\* nested widgets and the multiplexing widget.  A thread that waits for itself stops the
\* others too, hence no deadlock check.
SPECIFICATION FairSharedSpec
CONSTANTS
  Users = {cb, ev}
  Values <- MCValues
  Nothing = Nothing
  Swapped = Swapped
  NotSwapped = NotSwapped
  Freed = Freed
  Finalizers = TRUE
  NSlots = 2
  Bufs = {empty, text}
  EmptyBuf = empty
  Others = {}
INVARIANTS
  NothingLost
  NoMissedSignal
PROPERTIES
  IsAtomic
  CallsReturn
  IsMailbox
  ReportIsTold
CHECK_DEADLOCK FALSE
