\* Loggers, the worker, main with setLogPath and the destructor.
SPECIFICATION LogFairSpec
CONSTANTS
  MaxTasks = 5
  MaxFiles = 2
\* A log that was destroyed stops.
CHECK_DEADLOCK FALSE
INVARIANTS LogTypeOK LogIsComplete
PROPERTIES ImplementsTaskQueue LinesAreWritten
