\* One multiplexing widget with two nested widgets, under fair scheduling.
SPECIFICATION MultiplexSpec
CONSTANTS
  N = 1
  EFlag = FALSE
  Muxes = {m1}
  MxSources = 2
  Greets = {m1}
  OnL = {m1}
  Ew = ew
  None = None
PROPERTIES
  CallEventReturns
