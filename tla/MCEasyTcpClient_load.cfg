\* Two clients of each kind; everything that can go wrong.
SPECIFICATION FairSpec
CONSTANTS
  Kinds = {"select", "epoll", "iocp"}
  NClients = 2
  NMsg = 2
  SendCap = 2
  TxCap = 1
  MaxMsgs <- MCMaxMsgs
  MaxGone = 1
  Faults = {"refuse", "fin", "reset", "stall", "error"}
\* A thread that was closed stops.
CHECK_DEADLOCK FALSE
INVARIANTS TypeOK IdsAreContinuous CountIsRight NoNullUsed
PROPERTIES MessagesAreSent GoneServerIsNoticed ThreadEnds
