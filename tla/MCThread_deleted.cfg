\* Close, then delete, as client.cpp does with its threads.
SPECIFICATION FairSpec
CONSTANTS
  NoCaller = NoCaller
  Callers <- MCCallers2
  MaxStarts = 1
  ErrorExit = FALSE
\* The object may be deleted, and nobody has to call it again.
CHECK_DEADLOCK FALSE
INVARIANTS NoUseAfterFree
