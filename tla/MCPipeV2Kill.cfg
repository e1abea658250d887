\* kill() while the plugin waits for a process that closed its stdout and lives.
SPECIFICATION FairSpec
CONSTANTS
  Greet = FALSE
  Bye = FALSE
  PipeStdin = FALSE
  OnL = TRUE
  MaxWrote = 1
  MaxData = 1
  Capacity = 1
  None = None
PROPERTIES
  KillIsSent
CHECK_DEADLOCK FALSE
