\* All the options on, the event handler on an interpreter of its own.  The process may
\* stop doing anything with a writer waiting for it, hence no deadlock check.
SPECIFICATION FairSpec
CONSTANTS
  Greet = TRUE
  Bye = TRUE
  PipeStdin = TRUE
  OnL = FALSE
  MaxWrote = 3
  MaxData = 2
  Capacity = 1
  None = None
INVARIANTS
  SignalsOwnChild
  LinesInOrder
PROPERTIES
  KillReturns
CHECK_DEADLOCK FALSE
