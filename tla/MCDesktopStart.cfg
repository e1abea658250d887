\* That xtitle, xkb, pulse and alsa monitor their subject from the start.
SPECIFICATION DesktopSpec
CONSTANTS
  NwIfaces = 2
  NwQueue = 1
  NwMaxChanges = 2
  NwMaxWakeUps = 1
  WbPipeCapacity = 2
  DbWidgets = {1, 2}
  DbOptionSet <- MCDbOptions
  DbSignals = {"s1", "s2"}
  DbMaxSignals = 2
  DbPeriod = 1
  ZoMaxValues = 3
  ZoMaxItems = 2
  DtItems = {1, 2}
  DtMaxChanges = 3
  DtMaxFailures = 1
  N = 2
  Datas <- MCDatas
  Separator <- MCSeparator
  ErrorText <- MCErrorText
  Chars <- MCChars
  NewLine = NewLine
  Nil = Nil
  Bad = Bad
  BeWidgets = 2
  BeDepthLimit = 3
  BeMaxTokens = 9
  BeMaxText = 5
  CdMaxText = 4
  CdIntMax = 7
  CdSizeMax = 10
  CdMaxDepth = 3
  CdBadLists <- MCBadLists
  a = a
  sep = sep
  err = err
INVARIANTS
  MonitoredFromTheStart
CHECK_DEADLOCK FALSE
