\* Two widgets, in a process that hangs when everything has returned; or two multiplexing
\* widgets, one greeting and one with an event function on L.
SPECIFICATION WidgetsSpec
CONSTANTS
  N = 2
  EFlag = FALSE
  Muxes = {m1, m2}
  MxSources = 1
  Greets = {m1}
  OnL = {m1}
  Ew = ew
  None = None
INVARIANTS
  LuaStateExclusive
  BarlibExclusive
  NoAssertFails
  LockOrder
  NestedExclusive
  StackIsBalanced
  ControlAlive
VIEW WidgetsView
