\* Two clients of a select or an epoll server; everything that can go wrong.
SPECIFICATION FairSpec
CONSTANTS
  NClients = 2
  Kinds = {"select", "epoll"}
  MsgLen = 1
  ReplyLen = 2
  RecvCap = 1
  SendCap = 2
  TxCap = 1
  MaxSent <- MCMaxSent
  Death = 2
  MaxLag = 1
  Faults = {"fin", "reset", "stall", "error", "close"}
\* A worker that was closed stops.
CHECK_DEADLOCK FALSE
INVARIANTS TypeOK OnlyLiveClients DueIsDone
PROPERTIES HeartNotEarly HeartNotLate GoneClientLeaves StopEnds
