\* The claim that no mutex is locked twice, with finalizers that call communicate().
SPECIFICATION SharedSpec
CONSTANTS
  Users = {cb, ev}
  Values <- MCValues
  Nothing = Nothing
  Swapped = Swapped
  NotSwapped = NotSwapped
  Freed = Freed
  Finalizers = TRUE
  NSlots = 2
  Bufs = {empty, text}
  EmptyBuf = empty
  Others = {}
INVARIANTS
  NoSelfLock
CHECK_DEADLOCK FALSE
