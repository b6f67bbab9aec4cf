\* Up to two Starts, three callers of Close; onRun may fail and call Exit.
SPECIFICATION FairSpec
CONSTANTS
  NoCaller = NoCaller
  Callers <- MCCallers3
  MaxStarts = 2
  ErrorExit = TRUE
\* The object may be deleted, and nobody has to call it again.
CHECK_DEADLOCK FALSE
INVARIANTS WaitedCloseIsSynchronous RunFlagHasWorker
PROPERTIES CloseReturns
