\* Clients come and go, threads fail or hang, and the owner closes it all.
SPECIFICATION FairSpec
CONSTANTS
  NServers = 2
  MaxClient = 1
  MaxAccepts = 2
  Kinds = {"epoll", "iocp"}
  Faults = {"leave", "error", "hang"}
\* A closed server stops.
CHECK_DEADLOCK FALSE
INVARIANTS TypeOK ClientsAreOwned CountIsRight CloseClosesAll
PROPERTIES EveryClientJoins CloseEnds
