\* Close against a worker that fails and calls Exit.
SPECIFICATION FairSpec
CONSTANTS
  NoCaller = NoCaller
  Callers <- MCCallers2
  MaxStarts = 1
  ErrorExit = TRUE
\* The object may be deleted, and nobody has to call it again.
CHECK_DEADLOCK FALSE
INVARIANTS ExitAvoidsDeadlock
