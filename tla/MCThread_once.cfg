\* One Start, three callers of Close; onRun ends when it reads _bRun false.
SPECIFICATION FairSpec
CONSTANTS
  NoCaller = NoCaller
  Callers <- MCCallers3
  MaxStarts = 1
  ErrorExit = FALSE
\* The object may be deleted, and nobody has to call it again.
CHECK_DEADLOCK FALSE
INVARIANTS TypeOK
PROPERTIES CloseReturnsQuiet ImplementsWorkThread
